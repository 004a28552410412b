---------------------------- MODULE ProxyProofs -----------------------------
(***************************************************************************)
(* The theorems about Proxy, for every set of services, ports, addresses   *)
(* and timeouts: no set element leads to a chain that is gone, no critical *)
(* section panics, the rules of every service port and of every endpoint   *)
(* are those the two maps ask for, and nothing is left behind.             *)
(*                                                                         *)
(* The argument for VerdictsLead needs little of the state: the records of *)
(* serviceMap and the elements of the sets.  VerdictInv is inductive; a    *)
(* critical section preserves it because it Follows its service port.      *)
(*                                                                         *)
(* The invariant of one service port is PortOK.  It says that the          *)
(* identifiers in RuleID are those of the rules of the chain, in order     *)
(* (Remembers), which is what lets the code find the rules it replaces and *)
(* deletes.  Each critical section of Proxy preserves it, without an error *)
(* or a panic: first updateServiceChain, which brings a service chain up   *)
(* to date with the endpoints of its port, then the sections on endpoints  *)
(* and affinity, then addServicePort and deleteServicePort under the       *)
(* contract of their callers.  PortOK of every service port is the         *)
(* inductive invariant of Proxy: a critical section that runs for one      *)
(* changes nothing of the others but the shared sets.                      *)
(***************************************************************************)
EXTENDS Proxy, SequenceTheorems, TLAPS

(***************************************************************************)
(* Sequences.                                                              *)
(***************************************************************************)
\* A short sequence is the tuple of its elements.
LEMMA Tuples ==
    ASSUME NEW S, NEW q \in Seq(S)
    PROVE  /\ Len(q) = 0 => q = <<>>
           /\ Len(q) = 2 => q = <<q[1], q[2]>>
           /\ Len(q) = 3 => q = <<q[1], q[2], q[3]>>
           /\ Len(q) = 4 => q = <<q[1], q[2], q[3], q[4]>>
OBVIOUS

\* RemoveAt on any sequence.
LEMMA RemoveAtProperties ==
    ASSUME NEW S, NEW s \in Seq(S), NEW n \in 1..Len(s)
    PROVE  /\ RemoveAt(s, n) \in Seq(S)
           /\ Len(RemoveAt(s, n)) = Len(s) - 1
           /\ \A i \in 1..(Len(s) - 1) :
                 RemoveAt(s, n)[i] = IF i < n THEN s[i] ELSE s[i + 1]
<1> DEFINE front == SubSeq(s, 1, n - 1)
           back  == SubSeq(s, n + 1, Len(s))
<1>1. Len(s) \in Nat /\ \A i \in 1..Len(s) : s[i] \in S
  BY ElementOfSeq
<1>2. /\ front \in Seq(S)
      /\ Len(front) = n - 1
      /\ \A i \in 1..(n - 1) : front[i] = s[i]
  <2>1. \A i \in 1..(n - 1) : s[i] \in S
    BY <1>1
  <2>2. /\ front \in Seq(S)
        /\ Len(front) = IF 1 <= n - 1 THEN (n - 1) - 1 + 1 ELSE 0
        /\ \A i \in 1..((n - 1) - 1 + 1) : front[i] = s[1 + i - 1]
    BY <1>1, <2>1, SubSeqProperties
  <2> QED BY <1>1, <2>2
<1>3. /\ back \in Seq(S)
      /\ Len(back) = Len(s) - n
      /\ \A i \in 1..(Len(s) - n) : back[i] = s[n + i]
  <2>1. \A i \in (n + 1)..Len(s) : s[i] \in S
    BY <1>1
  <2>2. /\ back \in Seq(S)
        /\ Len(back) = IF n + 1 <= Len(s) THEN Len(s) - (n + 1) + 1 ELSE 0
        /\ \A i \in 1..(Len(s) - (n + 1) + 1) : back[i] = s[(n + 1) + i - 1]
    BY <1>1, <2>1, SubSeqProperties
  <2> QED BY <1>1, <2>2
<1>4. RemoveAt(s, n) = front \o back
  BY DEF RemoveAt
<1> HIDE DEF front, back
<1>5. /\ front \o back \in Seq(S)
      /\ Len(front \o back) = Len(front) + Len(back)
      /\ \A i \in 1..(Len(front) + Len(back)) :
            (front \o back)[i] = IF i <= Len(front) THEN front[i] ELSE back[i - Len(front)]
  BY <1>2, <1>3, ConcatProperties
<1>6. Len(front) + Len(back) = Len(s) - 1
  BY <1>1, <1>2, <1>3
<1>7. ASSUME NEW i \in 1..(Len(s) - 1)
      PROVE  (front \o back)[i] = IF i < n THEN s[i] ELSE s[i + 1]
  <2>1. (front \o back)[i] = IF i <= n - 1 THEN front[i] ELSE back[i - (n - 1)]
    BY <1>1, <1>2, <1>5, <1>6
  <2>2. CASE i < n
    BY <1>1, <1>2, <2>1, <2>2
  <2>3. CASE ~(i < n)
    <3>1. i - (n - 1) \in 1..(Len(s) - n) /\ n + (i - (n - 1)) = i + 1 /\ ~(i <= n - 1)
      BY <1>1, <2>3
    <3> QED BY <1>3, <2>1, <2>3, <3>1
  <2> QED BY <2>2, <2>3
<1> QED BY <1>4, <1>5, <1>6, <1>7

\* InsertAt on any sequence.
LEMMA InsertAtProperties ==
    ASSUME NEW S, NEW s \in Seq(S), NEW n \in 1..Len(s), NEW e \in S
    PROVE  /\ InsertAt(s, n, e) \in Seq(S)
           /\ Len(InsertAt(s, n, e)) = Len(s) + 1
           /\ \A i \in 1..(Len(s) + 1) :
                 InsertAt(s, n, e)[i] = IF i < n THEN s[i] ELSE IF i = n THEN e ELSE s[i - 1]
<1> DEFINE front == SubSeq(s, 1, n - 1)
           back  == SubSeq(s, n, Len(s))
           mid   == <<e>>
           left  == front \o mid
<1>1. Len(s) \in Nat /\ \A i \in 1..Len(s) : s[i] \in S
  BY ElementOfSeq
<1>2. /\ front \in Seq(S)
      /\ Len(front) = n - 1
      /\ \A i \in 1..(n - 1) : front[i] = s[i]
  <2>1. \A i \in 1..(n - 1) : s[i] \in S
    BY <1>1
  <2>2. /\ front \in Seq(S)
        /\ Len(front) = IF 1 <= n - 1 THEN (n - 1) - 1 + 1 ELSE 0
        /\ \A i \in 1..((n - 1) - 1 + 1) : front[i] = s[1 + i - 1]
    BY <1>1, <2>1, SubSeqProperties
  <2> QED BY <1>1, <2>2
<1>3. /\ back \in Seq(S)
      /\ Len(back) = Len(s) - n + 1
      /\ \A i \in 1..(Len(s) - n + 1) : back[i] = s[n + i - 1]
  <2>1. \A i \in n..Len(s) : s[i] \in S
    BY <1>1
  <2>2. /\ back \in Seq(S)
        /\ Len(back) = IF n <= Len(s) THEN Len(s) - n + 1 ELSE 0
        /\ \A i \in 1..(Len(s) - n + 1) : back[i] = s[n + i - 1]
    BY <1>1, <2>1, SubSeqProperties
  <2> QED BY <1>1, <2>2
<1>4. mid \in Seq(S) /\ Len(mid) = 1 /\ mid[1] = e
  OBVIOUS
<1>5. InsertAt(s, n, e) = left \o back
  BY DEF InsertAt
<1> HIDE DEF front, back, mid
<1>6. /\ left \in Seq(S)
      /\ Len(left) = Len(front) + Len(mid)
      /\ \A i \in 1..(Len(front) + Len(mid)) :
            left[i] = IF i <= Len(front) THEN front[i] ELSE mid[i - Len(front)]
  BY <1>2, <1>4, ConcatProperties
<1> HIDE DEF left
<1>7. Len(left) = n /\ \A i \in 1..n : left[i] = IF i < n THEN s[i] ELSE e
  BY <1>1, <1>2, <1>4, <1>6
<1>8. /\ left \o back \in Seq(S)
      /\ Len(left \o back) = Len(left) + Len(back)
      /\ \A i \in 1..(Len(left) + Len(back)) :
            (left \o back)[i] = IF i <= Len(left) THEN left[i] ELSE back[i - Len(left)]
  <2>1. left \in Seq(S) /\ back \in Seq(S)
    BY <1>3, <1>6
  <2> QED BY <2>1, ConcatProperties
<1>9. Len(left) + Len(back) = Len(s) + 1
  BY <1>1, <1>3, <1>7
<1>10. ASSUME NEW i \in 1..(Len(s) + 1)
       PROVE  (left \o back)[i] = IF i < n THEN s[i] ELSE IF i = n THEN e ELSE s[i - 1]
  <2>1. (left \o back)[i] = IF i <= n THEN left[i] ELSE back[i - n]
    BY <1>7, <1>8, <1>9
  <2>2. CASE i <= n
    BY <1>1, <1>7, <2>1, <2>2
  <2>3. CASE ~(i <= n)
    <3>1. i - n \in 1..(Len(s) - n + 1) /\ n + (i - n) - 1 = i - 1
      BY <1>1, <2>3
    <3> QED BY <1>3, <2>1, <2>3, <3>1
  <2> QED BY <1>1, <2>2, <2>3
<1> QED BY <1>5, <1>8, <1>9, <1>10

\* ReplaceAt on any sequence.
LEMMA ReplaceAtProperties ==
    ASSUME NEW S, NEW s \in Seq(S), NEW n \in 1..Len(s), NEW e \in S
    PROVE  /\ ReplaceAt(s, n, e) \in Seq(S)
           /\ Len(ReplaceAt(s, n, e)) = Len(s)
           /\ \A i \in 1..Len(s) : ReplaceAt(s, n, e)[i] = IF i = n THEN e ELSE s[i]
BY ExceptSeq DEF ReplaceAt

(***************************************************************************)
(* Chains and the handles remembered for them.                             *)
(***************************************************************************)
\* The handles ids are those of the rules of c, in order, all different.
Remembers(c, ids) ==
    /\ c \in Seq(RuleType) /\ ids \in Seq(Handles)
    /\ Len(c) = Len(ids) /\ Len(c) <= 4
    /\ \A i \in 1..Len(c) : c[i].h = ids[i]
    /\ \A i, j \in 1..Len(c) : ids[i] = ids[j] => i = j

\* A chain and the handles remembered for it hold at most four handles, so
\* the kernel has a handle that is not in use.
LEMMA FreshHandle ==
    ASSUME NEW a, NEW b, NEW c, NEW d, NEW used, used \subseteq {a, b, c, d}
    PROVE  NewHandle(used) \in Handles /\ NewHandle(used) \notin used
<1>1. \E h \in Handles : h \notin {a, b, c, d}
  <2>1. 1 \in Handles /\ 2 \in Handles /\ 3 \in Handles /\ 4 \in Handles /\ 5 \in Handles
    BY DEF Handles, MaxHandle
  <2> QED BY <2>1
<1> QED BY <1>1 DEF NewHandle

\* The handle of a new rule is none of those remembered.
LEMMA FreshRemembered ==
    ASSUME NEW c, NEW ids, Remembers(c, ids)
    PROVE  /\ NewHandle(HandlesOf(c) \cup Range(ids)) \in Handles
           /\ \A i \in 1..Len(ids) : NewHandle(HandlesOf(c) \cup Range(ids)) # ids[i]
<1> DEFINE used == HandlesOf(c) \cup Range(ids)
<1>1. used = {ids[i] : i \in 1..Len(ids)}
  BY DEF Remembers, HandlesOf, Range
<1>2. used \subseteq {ids[1], ids[2], ids[3], ids[4]}
  <2>1. Len(ids) \in 0..4
    BY DEF Remembers
  <2> QED BY <1>1, <2>1
<1>3. NewHandle(used) \in Handles /\ NewHandle(used) \notin used
  <2> HIDE DEF used
  <2> QED BY <1>2, FreshHandle
<1> QED BY <1>1, <1>3

\* The rule at position n is found by its handle.
LEMMA PositionRemembered ==
    ASSUME NEW c, NEW ids, Remembers(c, ids), NEW n \in 1..Len(ids), c # Nil
    PROVE  HasRule(c, ids[n]) /\ PositionOf(c, ids[n]) = n
<1>1. DOMAIN c = 1..Len(c) /\ n \in DOMAIN c /\ c[n].h = ids[n]
  BY DEF Remembers
<1>2. \A p \in DOMAIN c : c[p].h = ids[n] => p = n
  BY <1>1 DEF Remembers
<1> QED BY <1>1, <1>2 DEF HasRule, HandlesOf, PositionOf

\* A rule of a remembered chain is replaced, as ProgramServiceEndpoints does.
LEMMA ReplaceRemembers ==
    ASSUME NEW c, NEW ids, Remembers(c, ids), NEW n \in 1..Len(ids), c # Nil,
           NEW r \in RuleType, \A i \in 1..Len(ids) : r.h # ids[i]
    PROVE  LET d == ReplaceRule(c, ids[n], r) IN
           /\ Remembers(d, ReplaceAt(ids, n, r.h))
           /\ Len(d) = Len(c)
           /\ \A i \in 1..Len(c) : d[i] = IF i = n THEN r ELSE c[i]
<1> DEFINE d == ReplaceRule(c, ids[n], r)
           jds == ReplaceAt(ids, n, r.h)
<1>0. c \in Seq(RuleType) /\ ids \in Seq(Handles) /\ Len(c) = Len(ids) /\ r.h \in Handles /\ Len(ids) \in Nat
  BY DEF Remembers, RuleType
<1>1. d = ReplaceAt(c, n, r)
  BY PositionRemembered DEF ReplaceRule
<1>2. d \in Seq(RuleType) /\ Len(d) = Len(c) /\ \A i \in 1..Len(c) : d[i] = IF i = n THEN r ELSE c[i]
  <2>1. n \in 1..Len(c)
    BY <1>0
  <2> QED BY <1>0, <1>1, <2>1, ReplaceAtProperties
<1>3. jds \in Seq(Handles) /\ Len(jds) = Len(ids) /\ \A i \in 1..Len(ids) : jds[i] = IF i = n THEN r.h ELSE ids[i]
  <2> DEFINE h == r.h
  <2>1. h \in Handles /\ ids \in Seq(Handles)
    BY <1>0
  <2> HIDE DEF h
  <2>2. ReplaceAt(ids, n, h) \in Seq(Handles) /\ Len(ReplaceAt(ids, n, h)) = Len(ids)
        /\ \A i \in 1..Len(ids) : ReplaceAt(ids, n, h)[i] = IF i = n THEN h ELSE ids[i]
    BY <2>1, ReplaceAtProperties
  <2> QED BY <2>2 DEF h
<1> HIDE DEF d, jds
<1>4. Remembers(d, jds)
  BY <1>0, <1>2, <1>3 DEF Remembers
<1> QED BY <1>2, <1>4 DEF d, jds

\* A rule is inserted into a remembered chain, as for session affinity.
LEMMA InsertRemembers ==
    ASSUME NEW c, NEW ids, Remembers(c, ids), NEW n \in 1..Len(ids), c # Nil, Len(ids) <= 3,
           NEW r \in RuleType, \A i \in 1..Len(ids) : r.h # ids[i]
    PROVE  LET d == InsertBefore(c, ids[n], r) IN
           /\ Remembers(d, InsertAt(ids, n, r.h))
           /\ Len(d) = Len(c) + 1
           /\ \A i \in 1..(Len(c) + 1) : d[i] = IF i < n THEN c[i] ELSE IF i = n THEN r ELSE c[i - 1]
<1> DEFINE d == InsertBefore(c, ids[n], r)
           jds == InsertAt(ids, n, r.h)
<1>0. c \in Seq(RuleType) /\ ids \in Seq(Handles) /\ Len(c) = Len(ids) /\ r.h \in Handles /\ Len(ids) \in Nat
  BY DEF Remembers, RuleType
<1>1. d = InsertAt(c, n, r)
  BY PositionRemembered DEF InsertBefore
<1>2. /\ d \in Seq(RuleType) /\ Len(d) = Len(c) + 1
      /\ \A i \in 1..(Len(c) + 1) : d[i] = IF i < n THEN c[i] ELSE IF i = n THEN r ELSE c[i - 1]
  BY <1>0, <1>1, InsertAtProperties
<1>3. /\ jds \in Seq(Handles) /\ Len(jds) = Len(ids) + 1
      /\ \A i \in 1..(Len(ids) + 1) : jds[i] = IF i < n THEN ids[i] ELSE IF i = n THEN r.h ELSE ids[i - 1]
  <2> DEFINE h == r.h
  <2>1. h \in Handles /\ ids \in Seq(Handles)
    BY <1>0
  <2> HIDE DEF h
  <2>2. /\ InsertAt(ids, n, h) \in Seq(Handles) /\ Len(InsertAt(ids, n, h)) = Len(ids) + 1
        /\ \A i \in 1..(Len(ids) + 1) :
              InsertAt(ids, n, h)[i] = IF i < n THEN ids[i] ELSE IF i = n THEN h ELSE ids[i - 1]
    BY <2>1, InsertAtProperties
  <2> QED BY <2>2 DEF h
<1> HIDE DEF d, jds
<1>4. /\ \A i \in 1..Len(c) : c[i].h = ids[i]
      /\ \A i, j \in 1..Len(c) : ids[i] = ids[j] => i = j
  BY DEF Remembers
<1>5. ASSUME NEW i \in 1..(Len(c) + 1)
      PROVE  d[i].h = jds[i]
  <2>1. CASE i < n
    BY <1>0, <1>2, <1>3, <1>4, <2>1
  <2>2. CASE i = n
    BY <1>0, <1>2, <1>3, <2>2
  <2>3. CASE i > n
    <3>1. i - 1 \in 1..Len(c)
      BY <1>0, <2>3
    <3> QED BY <1>0, <1>2, <1>3, <1>4, <2>3, <3>1
  <2> QED BY <1>0, <2>1, <2>2, <2>3
<1>6. ASSUME NEW i \in 1..(Len(c) + 1), NEW j \in 1..(Len(c) + 1), jds[i] = jds[j]
      PROVE  i = j
  <2> DEFINE pos(x) == IF x < n THEN x ELSE x - 1
  <2>1. ASSUME NEW x \in 1..(Len(c) + 1), x # n
        PROVE  pos(x) \in 1..Len(ids) /\ jds[x] = ids[pos(x)]
    BY <1>0, <1>3, <2>1
  <2>2. jds[n] = r.h
    BY <1>0, <1>3
  <2>3. CASE i = n \/ j = n
    BY <1>0, <1>6, <2>1, <2>2, <2>3
  <2>4. CASE i # n /\ j # n
    <3>1. pos(i) = pos(j)
      <4>1. /\ pos(i) \in 1..Len(c) /\ pos(j) \in 1..Len(c) /\ ids[pos(i)] = ids[pos(j)]
        BY <1>0, <1>6, <2>1, <2>4
      <4> HIDE DEF pos
      <4> QED BY <1>4, <4>1
    <3> QED BY <1>0, <2>4, <3>1
  <2> QED BY <2>3, <2>4
<1>7. Remembers(d, jds)
  BY <1>0, <1>2, <1>3, <1>5, <1>6 DEF Remembers
<1> QED BY <1>2, <1>7 DEF d, jds

\* A rule of a remembered chain is deleted, and forgotten.
LEMMA DeleteRemembers ==
    ASSUME NEW c, NEW ids, Remembers(c, ids), NEW n \in 1..Len(ids), c # Nil
    PROVE  LET d == DeleteRule(c, ids[n]) IN
           /\ Remembers(d, RemoveAt(ids, n))
           /\ Len(d) = Len(c) - 1
           /\ \A i \in 1..(Len(c) - 1) : d[i] = IF i < n THEN c[i] ELSE c[i + 1]
<1> DEFINE d == DeleteRule(c, ids[n])
           jds == RemoveAt(ids, n)
<1>0. c \in Seq(RuleType) /\ ids \in Seq(Handles) /\ Len(c) = Len(ids) /\ Len(ids) \in Nat
  BY DEF Remembers
<1>1. d = RemoveAt(c, n)
  BY PositionRemembered DEF DeleteRule
<1>2. /\ d \in Seq(RuleType) /\ Len(d) = Len(c) - 1
      /\ \A i \in 1..(Len(c) - 1) : d[i] = IF i < n THEN c[i] ELSE c[i + 1]
  BY <1>0, <1>1, RemoveAtProperties
<1>3. /\ jds \in Seq(Handles) /\ Len(jds) = Len(ids) - 1
      /\ \A i \in 1..(Len(ids) - 1) : jds[i] = IF i < n THEN ids[i] ELSE ids[i + 1]
  BY <1>0, RemoveAtProperties
<1> HIDE DEF d, jds
<1>4. /\ \A i \in 1..Len(c) : c[i].h = ids[i]
      /\ \A i, j \in 1..Len(c) : ids[i] = ids[j] => i = j
      /\ Len(c) <= 4
  BY DEF Remembers
<1>5. \A i \in 1..(Len(c) - 1) : i \in 1..Len(c) /\ i + 1 \in 1..Len(c)
  BY <1>0
<1>6. \A i \in 1..(Len(c) - 1) : d[i].h = jds[i]
  BY <1>0, <1>2, <1>3, <1>4, <1>5
<1>7. ASSUME NEW i \in 1..(Len(c) - 1), NEW j \in 1..(Len(c) - 1), jds[i] = jds[j]
      PROVE  i = j
  <2>1. jds[i] = IF i < n THEN ids[i] ELSE ids[i + 1]
    BY <1>0, <1>3
  <2>2. jds[j] = IF j < n THEN ids[j] ELSE ids[j + 1]
    BY <1>0, <1>3
  <2>3. i \in 1..Len(c) /\ i + 1 \in 1..Len(c) /\ j \in 1..Len(c) /\ j + 1 \in 1..Len(c)
    BY <1>5
  <2>4. CASE i < n /\ j < n
    BY <1>4, <1>7, <2>1, <2>2, <2>3, <2>4
  <2>5. CASE i < n /\ ~(j < n)
    <3>1. i = j + 1
      BY <1>4, <1>7, <2>1, <2>2, <2>3, <2>5
    <3> QED BY <1>0, <2>5, <3>1
  <2>6. CASE ~(i < n) /\ j < n
    <3>1. i + 1 = j
      BY <1>4, <1>7, <2>1, <2>2, <2>3, <2>6
    <3> QED BY <1>0, <2>6, <3>1
  <2>7. CASE ~(i < n) /\ ~(j < n)
    <3>1. i + 1 = j + 1
      BY <1>4, <1>7, <2>1, <2>2, <2>3, <2>7
    <3> QED BY <1>0, <3>1
  <2> QED BY <2>4, <2>5, <2>6, <2>7
<1>8. Remembers(d, jds)
  BY <1>0, <1>2, <1>3, <1>4, <1>6, <1>7 DEF Remembers
<1> QED BY <1>2, <1>8 DEF d, jds

\* Deleting all the remembered rules of a chain empties it.
LEMMA DeleteAllRemembered ==
    ASSUME NEW c, NEW ids, Remembers(c, ids), c # Nil
    PROVE  DeleteChainRulesOK(c, ids) /\ DeleteChainRules(c, ids) = <<>>
<1>1. \A i \in DOMAIN ids : HasRule(c, ids[i])
  BY PositionRemembered DEF Remembers
<1>2. HandlesOf(c) \subseteq DeletedBefore(c, ids)
  <2>1. DOMAIN c = 1..Len(ids) /\ DOMAIN ids = 1..Len(ids) /\ Len(ids) \in Nat
    BY DEF Remembers
  <2>2. \A i \in DOMAIN c : c[i].h = ids[i] /\ \A k \in 1..i : HasRule(c, ids[k])
    BY <1>1, <2>1 DEF Remembers
  <2> QED BY <2>1, <2>2 DEF HandlesOf, DeletedBefore
<1> QED BY <1>1, <1>2 DEF DeleteChainRulesOK, DeleteChainRules

(***************************************************************************)
(* The inductive invariant and what a critical section owes to it.         *)
(***************************************************************************)
\* The elements lead to service ports of serviceMap, and the records of
\* serviceMap keep their type, which sets a service port apart from Nil.
VerdictInv ==
    /\ serviceMap \in [ServicePortName -> ServiceInfo \cup {Nil}]
    /\ \A x \in sets : x.to # Nil =>
          \E spn \in ServicePortName : serviceMap[spn] # Nil /\ x.to = <<spn, SvcID(serviceMap[spn])>>

Fields == {"svc", "eps", "sc", "ec", "am", "sets", "res"}

\* The state of a service port that is in serviceMap.
Known(w) == DOMAIN w = Fields /\ w.svc \in ServiceInfo

\* From w to u the service port stays what it is, and no verdict is added.
Keeps(w, u) ==
    /\ Known(u)
    /\ SvcID(u.svc) = SvcID(w.svc)
    /\ \A x \in u.sets : x \in w.sets \/ x.to = Nil

\* From w to u, an element that leads to the service port spn leads to what u
\* says it is.
Follows(spn, w, u) ==
    /\ u.svc \in ServiceInfo \cup {Nil}
    /\ \A x \in u.sets :
          \/ x.to = Nil
          \/ u.svc # Nil /\ x.to = <<spn, SvcID(u.svc)>>
          \/ x \in w.sets /\ x.to # <<spn, SvcID(w.svc)>>

\* Keeping a service port is a way to follow it.
LEMMA KeepsFollows ==
    ASSUME NEW spn, NEW w, NEW u, Keeps(w, u)
    PROVE  Follows(spn, w, u)
<1>1. u.svc \in ServiceInfo /\ u.svc # Nil
  BY NilAssumption DEF Keeps, Known
<1>2. SvcID(u.svc) = SvcID(w.svc)
  BY DEF Keeps
<1> QED BY <1>1, <1>2 DEF Follows, Keeps

\* One operation after another.
LEMMA KeepsTrans ==
    ASSUME NEW w, NEW u, NEW v, Keeps(w, u), Keeps(u, v)
    PROVE  Keeps(w, v)
BY DEF Keeps

\* Nothing is done.
LEMMA KeepsSelf ==
    ASSUME NEW w, Known(w)
    PROVE  Keeps(w, w)
BY DEF Keeps

\* From w to u the sets stay what they are, and of the service port only the
\* rule identifiers and the affinity may change.
Leaves(w, u) ==
    /\ Known(u) /\ u.sets = w.sets
    /\ u.svc.ip = w.svc.ip /\ u.svc.port = w.svc.port /\ u.svc.ext = w.svc.ext /\ u.svc.lb = w.svc.lb
    /\ u.svc.withEP = w.svc.withEP

\* This is more than keeping it.
LEMMA LeavesKeeps ==
    ASSUME NEW w, NEW u, Leaves(w, u)
    PROVE  Keeps(w, u)
BY DEF Leaves, Keeps, SvcID

\* One operation after another.
LEMMA LeavesTrans ==
    ASSUME NEW w, NEW u, NEW v, Leaves(w, u), Leaves(u, v)
    PROVE  Leaves(w, v)
BY DEF Leaves

\* Nothing is done.
LEMMA LeavesSelf ==
    ASSUME NEW w, Known(w)
    PROVE  Leaves(w, w)
BY DEF Leaves

\* Changes outside svc and sets.
LEMMA LeavesSame ==
    ASSUME NEW w, NEW u, Known(w), DOMAIN u = Fields, u.svc = w.svc, u.sets = w.sets
    PROVE  Leaves(w, u)
BY DEF Leaves, Known

\* New rule identifiers.
LEMMA LeavesRuleID ==
    ASSUME NEW w, NEW u, Known(w), DOMAIN u = Fields, u.sets = w.sets,
           NEW ids \in Seq(Handles), u.svc = [w.svc EXCEPT !.ruleID = ids]
    PROVE  Leaves(w, u)
<1>1. /\ u.svc \in ServiceInfo /\ u.svc.ip = w.svc.ip /\ u.svc.port = w.svc.port
      /\ u.svc.ext = w.svc.ext /\ u.svc.lb = w.svc.lb /\ u.svc.withEP = w.svc.withEP
  BY DEF Known, ServiceInfo
<1> QED BY <1>1 DEF Leaves, Known

\* New rules in the service chain.
LEMMA WithRulesLeaves ==
    ASSUME NEW w, Known(w), NEW c, NEW ids \in Seq(Handles)
    PROVE  Leaves(w, WithRules(w, c, ids))
<1> DEFINE u == WithRules(w, c, ids)
<1>1. DOMAIN u = Fields /\ u.sets = w.sets /\ u.svc = [w.svc EXCEPT !.ruleID = ids]
  BY DEF WithRules, Known, Fields
<1> HIDE DEF u
<1>2. Leaves(w, u)
  BY <1>1, LeavesRuleID
<1> QED BY <1>2 DEF u

\* The kernel gives out handles.
LEMMA NewHandleType == \A used : NewHandle(used) \in Handles
BY DEF NewHandle, Handles, MaxHandle

(***************************************************************************)
(* The operations of the critical sections.                                *)
(***************************************************************************)
\* Programming a service chain for the first time.
LEMMA ProgramFirstLeaves ==
    ASSUME NEW w, Known(w)
    PROVE  Leaves(w, ProgramFirst(w))
<1> DEFINE id   == SvcID(w.svc)
           c    == w.sc[id]
           used == HandlesOf(c)
           h1   == NewHandle(used)
           h2   == NewHandle(used \cup {h1})
           h3   == NewHandle(used \cup {h1, h2})
           failed == [w EXCEPT !.sc[id] = Append(c, CounterRule(h1)), !.res = "error"]
           long   == c \o <<CounterRule(h1), MatchActRule(h2, id, w.eps), LoadBalanceRule(h3, w.eps)>>
           short  == c \o <<CounterRule(h1), LoadBalanceRule(h2, w.eps)>>
<1>1. ProgramFirst(w) \in {failed, WithRules(w, long, <<h1, h2, h3>>), WithRules(w, short, <<h1, h2>>)}
  BY DEF ProgramFirst
<1>2. h1 \in Handles /\ h2 \in Handles /\ h3 \in Handles
  BY NewHandleType
<1>3. Leaves(w, failed)
  <2>1. DOMAIN failed = Fields /\ failed.svc = w.svc /\ failed.sets = w.sets
    BY DEF Known, Fields
  <2> HIDE DEF failed
  <2> QED BY <2>1, LeavesSame
<1>4. <<h1, h2, h3>> \in Seq(Handles) /\ <<h1, h2>> \in Seq(Handles)
  <2> HIDE DEF h1, h2, h3
  <2> QED BY <1>2
<1>5. Leaves(w, WithRules(w, long, <<h1, h2, h3>>)) /\ Leaves(w, WithRules(w, short, <<h1, h2>>))
  <2> HIDE DEF long, short, h1, h2, h3
  <2> QED BY <1>4, WithRulesLeaves
<1> HIDE DEF failed, long, short
<1> QED BY <1>1, <1>3, <1>5

\* Replacing one remembered rule.
LEMMA ReplaceRememberedLeaves ==
    ASSUME NEW w, Known(w), NEW n \in {2, 3}, NEW kind
    PROVE  Leaves(w, ReplaceRemembered(w, n, kind))
<1> DEFINE id == SvcID(w.svc)
           c  == w.sc[id]
           h  == NewHandle(UsedHandles(c, w.svc.ruleID))
           panicked == [w EXCEPT !.res = "panic"]
           failed   == [w EXCEPT !.res = "error"]
           r  == IF kind = "matchact" THEN MatchActRule(h, id, w.eps) ELSE LoadBalanceRule(h, w.eps)
           d  == ReplaceRule(c, w.svc.ruleID[n], r)
           ids == ReplaceAt(w.svc.ruleID, n, h)
<1>1. \/ ReplaceRemembered(w, n, kind) = panicked
      \/ ReplaceRemembered(w, n, kind) = failed
      \/ ~(Len(w.svc.ruleID) < n) /\ ReplaceRemembered(w, n, kind) = WithRules(w, d, ids)
  BY DEF ReplaceRemembered
<1>2. /\ DOMAIN panicked = Fields /\ panicked.svc = w.svc /\ panicked.sets = w.sets
      /\ DOMAIN failed = Fields /\ failed.svc = w.svc /\ failed.sets = w.sets
  BY DEF Known, Fields
<1>3. Leaves(w, panicked) /\ Leaves(w, failed)
  <2> HIDE DEF panicked, failed
  <2> QED BY <1>2, LeavesSame
<1>4. ASSUME ~(Len(w.svc.ruleID) < n)
      PROVE  Leaves(w, WithRules(w, d, ids))
  <2>1. w.svc.ruleID \in Seq(Handles) /\ n \in 1..Len(w.svc.ruleID)
    BY <1>4 DEF Known, ServiceInfo
  <2>2. h \in Handles
    BY NewHandleType
  <2> HIDE DEF h
  <2>3. ids \in Seq(Handles)
    BY <2>1, <2>2, ReplaceAtProperties
  <2> HIDE DEF d, ids
  <2> QED BY <2>3, WithRulesLeaves
<1> HIDE DEF panicked, failed, d, ids
<1> QED BY <1>1, <1>3, <1>4

\* ProgramServiceEndpoints keeps the service port.
LEMMA ProgramServiceEndpointsLeaves ==
    ASSUME NEW w, Known(w)
    PROVE  Leaves(w, ProgramServiceEndpoints(w))
<1> DEFINE id == SvcID(w.svc)
           failed == [w EXCEPT !.res = "error"]
           first == ProgramFirst(w)
           w1 == ReplaceRemembered(w, 2, "matchact")
           plain == ReplaceRemembered(w, 2, "lb")
           sticky == ReplaceRemembered(w1, 3, "lb")
<1>1. ProgramServiceEndpoints(w) \in {failed, first, plain, w1, sticky}
  BY DEF ProgramServiceEndpoints
<1>2. DOMAIN failed = Fields /\ failed.svc = w.svc /\ failed.sets = w.sets
  BY DEF Known, Fields
<1>3. Leaves(w, first)
  BY ProgramFirstLeaves
<1>4. Leaves(w, plain)
  BY ReplaceRememberedLeaves
<1>5. Leaves(w, w1)
  BY ReplaceRememberedLeaves
<1>6. Leaves(w, sticky)
  <2>1. Leaves(w1, sticky)
    <3>1. Known(w1)
      BY <1>5 DEF Leaves
    <3> HIDE DEF w1
    <3> QED BY <3>1, ReplaceRememberedLeaves
  <2> HIDE DEF w1, sticky
  <2> QED BY <1>5, <2>1, LeavesTrans
<1> HIDE DEF failed, first, w1, plain, sticky
<1>7. Leaves(w, failed)
  BY <1>2, LeavesSame
<1> QED BY <1>1, <1>3, <1>4, <1>5, <1>6, <1>7

\* The affinity rules of the endpoints and the affinity map of the service
\* port do not touch its record or the sets.
LEMMA AffinityKeeps ==
    ASSUME NEW w, DOMAIN w = Fields, NEW id, NEW timeout,
           NEW u \in {addAffinityEndpoint(w), deleteAffinityEndpoint(w),
                      AddServiceAffinityMap(w, id, timeout), DeleteServiceAffinityMap(w, id)}
    PROVE  DOMAIN u = Fields /\ u.svc = w.svc /\ u.sets = w.sets
<1>1. CASE u = addAffinityEndpoint(w)
  BY <1>1 DEF addAffinityEndpoint, Fields
<1>2. CASE u = deleteAffinityEndpoint(w)
  BY <1>2 DEF deleteAffinityEndpoint, Fields
<1>3. CASE u = AddServiceAffinityMap(w, id, timeout)
  BY <1>3 DEF AddServiceAffinityMap, Fields
<1>4. CASE u = DeleteServiceAffinityMap(w, id)
  BY <1>4 DEF DeleteServiceAffinityMap, Fields
<1> QED BY <1>1, <1>2, <1>3, <1>4

\* The elements of the no-endpoints set lead nowhere.
LEMMA NoEndpointsLeadNowhere ==
    ASSUME NEW spn, NEW svc, NEW x \in NoEndpointsElements(spn, svc)
    PROVE  x.to = Nil /\ x.set = "noendpoints"
BY DEF NoEndpointsElements, Element

\* The WithEndpoints flag and the no-endpoints set change.
LEMMA MarkEndpointsKeeps ==
    ASSUME NEW spn, NEW w, Known(w)
    PROVE  /\ Keeps(w, MarkEndpoints(spn, w))
           /\ MarkEndpoints(spn, w).eps = w.eps /\ MarkEndpoints(spn, w).svc.ruleID = w.svc.ruleID
<1> DEFINE u == MarkEndpoints(spn, w)
           none == NoEndpointsElements(spn, w.svc)
<1>1. /\ DOMAIN u = Fields /\ u.eps = w.eps
      /\ u.svc = [w.svc EXCEPT !.withEP = TRUE] \/ u.svc = [w.svc EXCEPT !.withEP = FALSE]
  BY DEF MarkEndpoints, Known, Fields
<1>2. u.sets \in {w.sets, w.sets \cup none, RemoveFromSets(w.sets, none)}
  BY DEF MarkEndpoints, Known, Fields
<1> HIDE DEF u
<1>3. /\ u.svc \in ServiceInfo /\ u.svc.ip = w.svc.ip /\ u.svc.port = w.svc.port
      /\ u.svc.ruleID = w.svc.ruleID
  BY <1>1 DEF Known, ServiceInfo
<1>4. SvcID(u.svc) = SvcID(w.svc)
  BY <1>3 DEF SvcID
<1>5. \A x \in u.sets : x \in w.sets \/ x.to = Nil
  <2>1. \A x \in none : x.to = Nil
    BY NoEndpointsLeadNowhere
  <2> HIDE DEF none
  <2> QED BY <1>2, <2>1 DEF RemoveFromSets
<1> QED BY <1>1, <1>3, <1>4, <1>5 DEF Keeps, Known, u

\* After MarkEndpoints, updateServiceChain changes the rules only.
LEMMA UpdateServiceChainLeaves ==
    ASSUME NEW spn, NEW w, Known(w)
    PROVE  Leaves(MarkEndpoints(spn, w), updateServiceChain(spn, w))
<1> DEFINE w1 == MarkEndpoints(spn, w)
           id == SvcID(w.svc)
           d  == DeleteChainRules(w.sc[id], w.svc.ruleID)
           program == ProgramServiceEndpoints(w1)
           emptied == WithRules(w1, d, <<>>)
           failed  == [w1 EXCEPT !.sc[id] = d, !.res = "error"]
<1>0. w.svc # Nil
  BY NilAssumption DEF Known
<1>1. updateServiceChain(spn, w) \in {program, emptied, failed}
  BY <1>0 DEF updateServiceChain
<1>2. Known(w1)
  BY MarkEndpointsKeeps DEF Keeps
<1> HIDE DEF w1, d
<1>3. DOMAIN failed = Fields /\ failed.svc = w1.svc /\ failed.sets = w1.sets
  BY <1>2 DEF Known, Fields
<1>4. Leaves(w1, program) /\ Leaves(w1, emptied)
  <2>1. <<>> \in Seq(Handles)
    OBVIOUS
  <2> QED BY <1>2, <2>1, ProgramServiceEndpointsLeaves, WithRulesLeaves
<1> HIDE DEF program, emptied, failed
<1>5. Leaves(w1, failed)
  BY <1>2, <1>3, LeavesSame
<1> QED BY <1>1, <1>4, <1>5 DEF w1

\* updateServiceChain keeps the service port.
LEMMA UpdateServiceChainKeeps ==
    ASSUME NEW spn, NEW w, Known(w)
    PROVE  Keeps(w, updateServiceChain(spn, w))
<1> DEFINE w1 == MarkEndpoints(spn, w)
           u  == updateServiceChain(spn, w)
<1>1. Keeps(w, w1)
  BY MarkEndpointsKeeps
<1>2. Keeps(w1, u)
  BY UpdateServiceChainLeaves, LeavesKeeps
<1> HIDE DEF w1, u
<1>3. Keeps(w, u)
  BY <1>1, <1>2, KeepsTrans
<1> QED BY <1>3 DEF u

\* A critical section on a port that is in no serviceMap entry leaves it so.
LEMMA UpdateServiceChainNil ==
    ASSUME NEW spn, NEW w, w.svc = Nil
    PROVE  updateServiceChain(spn, w) = w
BY DEF updateServiceChain

(***************************************************************************)
(* The critical sections of the endpoints informer.                        *)
(***************************************************************************)
\* An endpoint comes or goes: some endpoint rules and records change, then
\* the service chain is brought up to date, or not after an error, and the
\* rules of an endpoint that leaves go last.
EndpointSection(spn, w, u) ==
    \E v : /\ DOMAIN v = Fields /\ v.svc = w.svc /\ v.sets = w.sets
           /\ \/ u = v
              \/ u = updateServiceChain(spn, v)
              \/ \E a, c, r : u = [updateServiceChain(spn, v) EXCEPT !.ec[a] = c, !.res = r]
              \/ \E a, c : u = [updateServiceChain(spn, v) EXCEPT !.ec[a] = c]

\* Both critical sections of the endpoints informer are of this form.
LEMMA EndpointSections ==
    ASSUME NEW spn, NEW addr, NEW local, NEW w, DOMAIN w = Fields,
           NEW u \in {addEndpoint(spn, addr, local, w), deleteEndpoint(spn, addr, local, w)}
    PROVE  EndpointSection(spn, w, u)
<1>1. CASE u = addEndpoint(spn, addr, local, w)
  BY <1>1 DEF addEndpoint, Fields, EndpointSection
<1>2. CASE u = deleteEndpoint(spn, addr, local, w)
  <2> DEFINE matches == {i \in DOMAIN w.eps : w.eps[i].addr = addr /\ w.eps[i].local = local}
             n == CHOOSE i \in matches : \A j \in matches : i <= j
             v == [w EXCEPT !.eps = WithoutEndpoint(@, n)]
  <2>1. DOMAIN v = Fields /\ v.svc = w.svc /\ v.sets = w.sets
    BY DEF Fields
  <2>2. \/ u = w
        \/ u = updateServiceChain(spn, v)
        \/ \E a, c, r : u = [updateServiceChain(spn, v) EXCEPT !.ec[a] = c, !.res = r]
        \/ \E a, c : u = [updateServiceChain(spn, v) EXCEPT !.ec[a] = c]
    BY <1>2 DEF deleteEndpoint
  <2> HIDE DEF v
  <2> QED BY <2>1, <2>2 DEF EndpointSection
<1> QED BY <1>1, <1>2

\* An endpoint comes or goes: the service port, if any, is kept.
LEMMA EndpointSectionsFollow ==
    ASSUME NEW spn, NEW addr, NEW local, NEW w, DOMAIN w = Fields, w.svc \in ServiceInfo \cup {Nil},
           w.svc = Nil => \A x \in w.sets : x.to = Nil \/ x.to # <<spn, SvcID(w.svc)>>,
           NEW u \in {addEndpoint(spn, addr, local, w), deleteEndpoint(spn, addr, local, w)}
    PROVE  Follows(spn, w, u)
<1>0. EndpointSection(spn, w, u)
  BY EndpointSections
<1>1. PICK v : /\ DOMAIN v = Fields /\ v.svc = w.svc /\ v.sets = w.sets
               /\ \/ u = v
                  \/ u = updateServiceChain(spn, v)
                  \/ \E a, c, r : u = [updateServiceChain(spn, v) EXCEPT !.ec[a] = c, !.res = r]
                  \/ \E a, c : u = [updateServiceChain(spn, v) EXCEPT !.ec[a] = c]
  BY <1>0 DEF EndpointSection
<1> DEFINE v1 == updateServiceChain(spn, v)
<1>2. \/ u = v
      \/ DOMAIN v1 = Fields => DOMAIN u = Fields /\ u.svc = v1.svc /\ u.sets = v1.sets
  BY <1>1 DEF Fields
<1>3. CASE w.svc = Nil
  <2>1. v1 = v
    BY <1>1, <1>3, UpdateServiceChainNil
  <2>2. u.svc = Nil /\ u.sets = w.sets
    BY <1>1, <1>2, <1>3, <2>1
  <2> QED BY <1>3, <2>2 DEF Follows
<1>4. CASE w.svc \in ServiceInfo
  <2>1. Known(v) /\ Known(w) /\ Keeps(w, v)
    BY <1>1, <1>4, LeavesSame, LeavesKeeps DEF Known
  <2>2. Keeps(v, v1) /\ Known(v1)
    BY <2>1, UpdateServiceChainKeeps DEF Keeps
  <2> HIDE DEF v1
  <2>3. u = v \/ Keeps(v1, u)
    BY <1>2, <2>2, LeavesSame, LeavesKeeps DEF Known
  <2>4. Keeps(w, u)
    BY <2>1, <2>2, <2>3, KeepsTrans
  <2> QED BY <2>4, KeepsFollows
<1> QED BY <1>3, <1>4

(***************************************************************************)
(* The critical sections of the service informer.                          *)
(***************************************************************************)
\* Session affinity is added to a service port.
LEMMA AddAffinityLeaves ==
    ASSUME NEW w, Known(w)
    PROVE  Leaves(w, addAffinity(w))
<1> DEFINE id == SvcID(w.svc)
           w1 == AddServiceAffinityMap(w, id, w.svc.maxAge)
           c  == w.sc[id]
           h  == NewHandle(UsedHandles(c, w.svc.ruleID))
           d  == InsertBefore(c, w.svc.ruleID[2], MatchActRule(h, id, w.eps))
           ids == InsertAt(w.svc.ruleID, 2, h)
           w2 == WithRules(w1, d, ids)
           w3 == addAffinityEndpoint(w2)
           panicked == [w EXCEPT !.res = "panic"]
           ended    == {[w1 EXCEPT !.res = r] : r \in {"panic", "error"}}
           done     == [w3 EXCEPT !.svc.withAff = TRUE]
<1>1. \/ addAffinity(w) = panicked
      \/ addAffinity(w) \in ended
      \/ ~(Len(w.svc.ruleID) < 2) /\ addAffinity(w) \in {w2, done}
  BY DEF addAffinity
<1>2. DOMAIN panicked = Fields /\ panicked.svc = w.svc /\ panicked.sets = w.sets
  BY DEF Known, Fields
<1>3. DOMAIN w1 = Fields /\ w1.svc = w.svc /\ w1.sets = w.sets
  BY AffinityKeeps DEF Known
<1> HIDE DEF panicked, w1
<1>4. \A u \in ended : DOMAIN u = Fields /\ u.svc = w.svc /\ u.sets = w.sets
  BY <1>3 DEF Fields
<1> HIDE DEF ended
<1>5. ASSUME ~(Len(w.svc.ruleID) < 2)
      PROVE  Leaves(w, w2) /\ Leaves(w, done)
  <2>1. w.svc.ruleID \in Seq(Handles) /\ 2 \in 1..Len(w.svc.ruleID)
    BY <1>5 DEF Known, ServiceInfo
  <2>2. h \in Handles
    BY NewHandleType
  <2> HIDE DEF h
  <2>3. ids \in Seq(Handles)
    BY <2>1, <2>2, InsertAtProperties
  <2> HIDE DEF d, ids
  <2>4. Known(w1) /\ Leaves(w, w1)
    BY <1>3, LeavesSame DEF Known
  <2>5. Leaves(w1, w2)
    BY <2>3, <2>4, WithRulesLeaves
  <2>6. DOMAIN w2 = Fields /\ w2.svc \in ServiceInfo /\ w2.sets = w1.sets
    BY <1>3, <2>5 DEF Leaves, Known, WithRules, Fields
  <2> HIDE DEF w2
  <2>7. DOMAIN w3 = Fields /\ w3.svc = w2.svc /\ w3.sets = w2.sets
    BY <2>6, AffinityKeeps
  <2> HIDE DEF w3
  <2>8. /\ DOMAIN done = Fields /\ done.sets = w2.sets /\ done.svc \in ServiceInfo
        /\ done.svc.ip = w2.svc.ip /\ done.svc.port = w2.svc.port /\ done.svc.ext = w2.svc.ext
        /\ done.svc.lb = w2.svc.lb /\ done.svc.withEP = w2.svc.withEP
    BY <2>6, <2>7 DEF Fields, ServiceInfo
  <2>9. Leaves(w2, done)
    BY <2>8 DEF Leaves, Known
  <2> QED BY <2>4, <2>5, <2>9, LeavesTrans
<1> HIDE DEF w2, done
<1> QED BY <1>1, <1>2, <1>3, <1>4, <1>5, LeavesSame

\* Session affinity is removed from a service port.
LEMMA RemoveAffinityLeaves ==
    ASSUME NEW w, Known(w)
    PROVE  Leaves(w, removeAffinity(w))
<1> DEFINE id == SvcID(w.svc)
           ids == w.svc.ruleID
           w1 == [w EXCEPT !.sc[id] = DeleteRule(@, ids[2])]
           w2 == deleteAffinityEndpoint(w1)
           w3 == IF w.svc.withEP THEN [w2 EXCEPT !.svc.ruleID = RemoveAt(@, 2)] ELSE w
           w4 == DeleteServiceAffinityMap(w3, id)
           panicked == [w EXCEPT !.res = "panic"]
           failed   == [w EXCEPT !.res = "error"]
           done     == [w4 EXCEPT !.svc.withAff = FALSE]
<1>1. \/ removeAffinity(w) \in {panicked, failed, w2}
      \/ (w.svc.withEP => ~(Len(ids) < 2)) /\ removeAffinity(w) \in {w4, done}
  BY DEF removeAffinity
<1>2. /\ DOMAIN panicked = Fields /\ panicked.svc = w.svc /\ panicked.sets = w.sets
      /\ DOMAIN failed = Fields /\ failed.svc = w.svc /\ failed.sets = w.sets
      /\ DOMAIN w1 = Fields /\ w1.svc = w.svc /\ w1.sets = w.sets
  BY DEF Known, Fields
<1> HIDE DEF panicked, failed, w1
<1>3. DOMAIN w2 = Fields /\ w2.svc = w.svc /\ w2.sets = w.sets
  BY <1>2, AffinityKeeps
<1> HIDE DEF w2
<1>4. ASSUME w.svc.withEP => ~(Len(ids) < 2)
      PROVE  Leaves(w, w4) /\ Leaves(w, done)
  <2>1. Leaves(w, w3)
    <3>1. CASE w.svc.withEP
      <4>1. ids \in Seq(Handles) /\ 2 \in 1..Len(ids)
        BY <1>4, <3>1 DEF Known, ServiceInfo
      <4> HIDE DEF ids
      <4>2. RemoveAt(ids, 2) \in Seq(Handles)
        BY <4>1, RemoveAtProperties
      <4>3. w3.svc = [w.svc EXCEPT !.ruleID = RemoveAt(ids, 2)] /\ DOMAIN w3 = Fields /\ w3.sets = w.sets
        BY <1>3, <3>1 DEF Fields, ids
      <4> DEFINE jds == RemoveAt(ids, 2)
      <4> HIDE DEF w3, jds
      <4> QED BY <4>2, <4>3, LeavesRuleID DEF jds
    <3>2. CASE ~w.svc.withEP
      BY <3>2, LeavesSelf
    <3> QED BY <3>1, <3>2
  <2> HIDE DEF w3
  <2>2. DOMAIN w4 = Fields /\ w4.svc = w3.svc /\ w4.sets = w3.sets
    BY <2>1, AffinityKeeps DEF Leaves, Known
  <2> HIDE DEF w4
  <2>3. Leaves(w3, w4) /\ w4.svc \in ServiceInfo
    BY <2>1, <2>2, LeavesSame DEF Leaves, Known
  <2>4. /\ DOMAIN done = Fields /\ done.sets = w4.sets /\ done.svc \in ServiceInfo
        /\ done.svc.ip = w4.svc.ip /\ done.svc.port = w4.svc.port /\ done.svc.ext = w4.svc.ext
        /\ done.svc.lb = w4.svc.lb /\ done.svc.withEP = w4.svc.withEP
    BY <2>2, <2>3 DEF Fields, ServiceInfo
  <2>5. Leaves(w4, done)
    BY <2>4 DEF Leaves, Known
  <2> QED BY <2>1, <2>3, <2>5, LeavesTrans
<1> HIDE DEF w4, done
<1> QED BY <1>1, <1>2, <1>3, <1>4, LeavesSame

\* The elements deleteServicePort removes: those the cached Service object
\* knows, and those of the no-endpoints set while there are no endpoints.
RemovedElements(spn, stored, svc) ==
    StoredElements(spn, svc, stored) \cup IF svc.withEP THEN {} ELSE NoEndpointsElements(spn, svc)

\* What deleteServicePort does to the sets, whether the service port leaves
\* serviceMap or an error keeps it there.
LEMMA DeleteServicePortSets ==
    ASSUME NEW spn, NEW stored, NEW w, Known(w), NEW u, u = deleteServicePort(spn, stored, w)
    PROVE  u.svc \in {w.svc, Nil} /\ u.sets = RemoveFromSets(w.sets, RemovedElements(spn, stored, w.svc))
<1> DEFINE id == SvcID(w.svc)
           gone == RemovedElements(spn, stored, w.svc)
           w1 == [w EXCEPT !.sets = RemoveFromSets(@, gone),
                           !.sc[id] = DeleteChainRules(@, w.svc.ruleID)]
           w2 == IF w.svc.withEP THEN deleteAffinityEndpoint(w1) ELSE w1
           w3 == IF ~w.svc.withAff THEN w1
                 ELSE IF w2.res # "ok" THEN w2
                 ELSE DeleteServiceAffinityMap(w2, id)
           done == [w3 EXCEPT !.svc = Nil,
                              !.sc[id] = IF SvcChainBusy(w3, <<spn, id>>) THEN @ ELSE Nil]
<1>1. w.svc # Nil
  BY NilAssumption DEF Known
<1>2. u \in {w3, done}
  BY <1>1 DEF deleteServicePort, RemovedElements
<1> HIDE DEF gone
<1>3. DOMAIN w1 = Fields /\ w1.svc = w.svc /\ w1.sets = RemoveFromSets(w.sets, gone)
  BY DEF Known, Fields
<1> HIDE DEF w1
<1>4. DOMAIN w2 = Fields /\ w2.svc = w1.svc /\ w2.sets = w1.sets
  BY <1>3, AffinityKeeps
<1> HIDE DEF w2
<1>5. DOMAIN w3 = Fields /\ w3.svc = w.svc /\ w3.sets = w1.sets
  BY <1>3, <1>4, AffinityKeeps
<1> HIDE DEF w3
<1>6. done.svc = Nil /\ done.sets = w1.sets
  BY <1>5 DEF Fields
<1> HIDE DEF done
<1> QED BY <1>2, <1>3, <1>5, <1>6 DEF gone

\* A service port is deleted and the cached Service object knows its elements.
LEMMA DeleteServicePortFollows ==
    ASSUME NEW spn, NEW stored, NEW w, Known(w),
           \A x \in RemoveFromSets(w.sets, StoredElements(spn, w.svc, stored)) :
              x.to # <<spn, SvcID(w.svc)>>
    PROVE  Follows(spn, w, deleteServicePort(spn, stored, w))
<1> DEFINE known == StoredElements(spn, w.svc, stored)
           gone == RemovedElements(spn, stored, w.svc)
           u == deleteServicePort(spn, stored, w)
<1>1. u.svc \in {w.svc, Nil} /\ u.sets = RemoveFromSets(w.sets, gone)
  BY DeleteServicePortSets
<1>2. \A x \in u.sets : x \in w.sets /\ x.to # <<spn, SvcID(w.svc)>>
  <2>1. RemoveFromSets(w.sets, gone) \subseteq RemoveFromSets(w.sets, known)
    BY DEF RemoveFromSets, RemovedElements
  <2>2. RemoveFromSets(w.sets, gone) \subseteq w.sets
    BY DEF RemoveFromSets
  <2> HIDE DEF gone, u
  <2> QED BY <1>1, <2>1, <2>2
<1> HIDE DEF u
<1> QED BY <1>1, <1>2 DEF Follows, Known, u

\* The set elements of a service port, without those of the no-endpoints set.
Owned(spn, svc) ==
    [set : SetNames \ {"noendpoints"}, key : Protocol \X (IP \cup {Nil}) \X Port,
     to : {Nil, <<spn, SvcID(svc)>>}]

\* An element of a service port leads to its own chain or nowhere.
LEMMA ElementOwned ==
    ASSUME NEW spn \in ServicePortName, NEW svc, NEW set \in SetNames \ {"noendpoints"},
           NEW ip \in IP \cup {Nil}, NEW port \in Port, NEW to \in {Nil, <<spn, SvcID(svc)>>}
    PROVE  Element(set, spn, ip, port, to) \in Owned(spn, svc)
BY DEF Element, Owned, ServicePortName

\* So do the elements of external and load balancer addresses.
LEMMA AddressElementsOwned ==
    ASSUME NEW spn \in ServicePortName, NEW svc \in ServiceInfo, NEW ips \in Seq(IP),
           NEW set \in SetNames \ {"noendpoints"}
    PROVE  AddressElements(spn, svc, set, ips) \in Seq(Owned(spn, svc))
<1> DEFINE ref == <<spn, SvcID(svc)>>
           n == 2 * Len(ips)
           odd(j) == Element(set, spn, ips[(j + 1) \div 2], svc.port, ref)
           even(j) == Element("markmasq", spn, ips[j \div 2], svc.port, Nil)
           f == [j \in 1..n |-> IF j % 2 = 1 THEN odd(j) ELSE even(j)]
<1>1. Len(ips) \in Nat /\ n \in Nat /\ svc.port \in Port
  BY DEF ServiceInfo
<1>2. ASSUME NEW j \in 1..n
      PROVE  (IF j % 2 = 1 THEN odd(j) ELSE even(j)) \in Owned(spn, svc)
  <2>1. CASE j % 2 = 1
    <3>1. (j + 1) \div 2 \in 1..Len(ips)
      BY <1>1, <2>1
    <3>2. ips[(j + 1) \div 2] \in IP
      BY <3>1, ElementOfSeq
    <3>3. odd(j) \in Owned(spn, svc)
      <4> DEFINE ip == ips[(j + 1) \div 2]
      <4> HIDE DEF ip, ref
      <4>1. ip \in IP \cup {Nil} /\ ref \in {Nil, ref} /\ ref = <<spn, SvcID(svc)>>
        BY <3>2 DEF ip, ref
      <4>2. Element(set, spn, ip, svc.port, ref) \in Owned(spn, svc)
        BY <1>1, <4>1, ElementOwned
      <4> QED BY <4>2 DEF ip
    <3> QED BY <2>1, <3>3
  <2>2. CASE j % 2 # 1
    <3>1. j \div 2 \in 1..Len(ips)
      BY <1>1, <2>2
    <3>2. ips[j \div 2] \in IP
      BY <3>1, ElementOfSeq
    <3>3. even(j) \in Owned(spn, svc)
      <4> DEFINE ip == ips[j \div 2]
      <4> HIDE DEF ip, ref
      <4>1. ip \in IP \cup {Nil} /\ "markmasq" \in SetNames \ {"noendpoints"}
        BY <3>2 DEF ip, SetNames
      <4>2. Element("markmasq", spn, ip, svc.port, Nil) \in Owned(spn, svc)
        BY <1>1, <4>1, ElementOwned
      <4> QED BY <4>2 DEF ip
    <3> QED BY <2>2, <3>3
  <2> QED BY <2>1, <2>2
<1>3. f \in Seq(Owned(spn, svc))
  <2>1. f \in [1..n -> Owned(spn, svc)]
    <3> HIDE DEF odd, even, n
    <3> QED BY <1>2
  <2> HIDE DEF f, n
  <2> QED BY <1>1, <2>1, SeqDef
<1> QED BY <1>3 DEF AddressElements

\* And all the elements addServicePort adds.
LEMMA ServicePortElementsOwned ==
    ASSUME NEW spn \in ServicePortName, NEW svc \in ServiceInfo
    PROVE  ServicePortElements(spn, svc) \in Seq(Owned(spn, svc))
<1> DEFINE S == Owned(spn, svc)
           ref == <<spn, SvcID(svc)>>
           e1 == Element("cluster", spn, svc.ip, svc.port, ref)
           e2 == Element("markmasq", spn, svc.ip, svc.port, Nil)
           e3 == Element("nodeport", spn, Nil, svc.nodePort, ref)
           ext == AddressElements(spn, svc, "external", svc.ext)
           lb  == AddressElements(spn, svc, "loadbalancer", svc.lb)
           own == <<e1, e2>>
           np  == IF svc.nodePort = 0 THEN <<>> ELSE <<e3>>
<1>1. /\ svc.ip \in IP \cup {Nil} /\ svc.port \in Port /\ svc.nodePort \in Port \cup {0}
      /\ svc.ext \in Seq(IP) /\ svc.lb \in Seq(IP)
  BY ProxyAssumption DEF ServiceInfo
<1>2. {"cluster", "markmasq", "nodeport", "external", "loadbalancer"} \subseteq SetNames \ {"noendpoints"}
  BY DEF SetNames
<1>3. ext \in Seq(S) /\ lb \in Seq(S)
  BY <1>1, <1>2, AddressElementsOwned
<1>4. e1 \in S /\ e2 \in S
  BY <1>1, <1>2, ElementOwned
<1>5. svc.nodePort # 0 => e3 \in S
  BY <1>1, <1>2, ElementOwned
<1> HIDE DEF S, e1, e2, e3, ext, lb
<1>6. own \in Seq(S) /\ np \in Seq(S)
  BY <1>4, <1>5
<1> HIDE DEF own, np
<1>7. ((own \o ext) \o lb) \o np \in Seq(S)
  <2>1. own \o ext \in Seq(S)
    BY <1>3, <1>6, ConcatProperties
  <2>2. (own \o ext) \o lb \in Seq(S)
    BY <1>3, <2>1, ConcatProperties
  <2> QED BY <1>6, <2>2, ConcatProperties
<1> QED BY <1>7 DEF ServicePortElements, S, e1, e2, e3, ext, lb, own, np

\* A service port is added: its elements were free, so it enters serviceMap,
\* and the new elements lead to its chain.
LEMMA AddServicePortFollows ==
    ASSUME NEW spn \in ServicePortName, NEW spec \in PortSpec, NEW w,
           DOMAIN w = Fields, w.svc \in ServiceInfo \cup {Nil},
           w.svc = Nil => \A x \in w.sets : x.to = Nil \/ x.to # <<spn, SvcID(w.svc)>>,
           AddAllToSetsOK(w.sets, ServicePortElements(spn, NewServiceInfo(spec, w.eps # <<>>)))
    PROVE  Follows(spn, w, addServicePort(spn, spec, w))
<1>1. CASE w.svc # Nil
  <2>1. Known(w) /\ addServicePort(spn, spec, w) = w
    BY <1>1 DEF Known, addServicePort
  <2> QED BY <2>1, KeepsSelf, KeepsFollows
<1>2. CASE w.svc = Nil
  <2> DEFINE svc == NewServiceInfo(spec, w.eps # <<>>)
             id  == SvcID(svc)
             es  == ServicePortElements(spn, svc)
             none == NoEndpointsElements(spn, svc)
             w1  == [w EXCEPT !.svc = svc,
                              !.sc[id] = CreateChain(@),
                              !.sets = IF svc.withEP THEN @ ELSE @ \cup none]
             w2  == AddServiceAffinityMap(w1, id, svc.maxAge)
             w3  == IF ~svc.withAff THEN w1 ELSE IF ~svc.withEP THEN w2 ELSE addAffinityEndpoint(w2)
             w4  == [w3 EXCEPT !.sets = AddAllToSets(@, es)]
             u   == updateServiceChain(spn, w4)
  <2>1. svc \in ServiceInfo
    BY NftAssumption DEF NewServiceInfo, ServiceInfo, PortSpec
  <2>2. es \in Seq(Owned(spn, svc))
    BY <2>1, ServicePortElementsOwned
  <2>3. \A x \in none : x.to = Nil /\ x.set = "noendpoints"
    BY NoEndpointsLeadNowhere
  <2>4. addServicePort(spn, spec, w)
          = IF ~AddAllToSetsOK(w3.sets, es) THEN [w4 EXCEPT !.svc = Nil, !.res = "error"] ELSE u
    BY <1>2 DEF addServicePort
  <2>5. AddAllToSetsOK(w.sets, es)
    OBVIOUS
  <2> HIDE DEF svc, es, none
  <2>6. DOMAIN w1 = Fields /\ w1.svc = svc /\ w1.sets \in {w.sets, w.sets \cup none}
    BY DEF Fields
  <2> HIDE DEF w1
  <2>7. DOMAIN w2 = Fields /\ w2.svc = svc /\ w2.sets = w1.sets
    BY <2>6 DEF AddServiceAffinityMap, Fields
  <2> HIDE DEF w2
  <2>8. DOMAIN w3 = Fields /\ w3.svc = svc /\ w3.sets \in {w.sets, w.sets \cup none}
    BY <2>6, <2>7, AffinityKeeps
  <2> HIDE DEF w3
  <2>9. \A j \in DOMAIN es : es[j].set # "noendpoints" /\ es[j].to \in {Nil, <<spn, SvcID(svc)>>}
    <3>1. \A j \in DOMAIN es : es[j] \in Owned(spn, svc)
      BY <2>2, LenProperties, ElementOfSeq
    <3> QED BY <3>1 DEF Owned
  <2>10. AddAllToSetsOK(w3.sets, es)
    BY <2>3, <2>5, <2>8, <2>9 DEF AddAllToSetsOK, Conflicts
  <2>11. /\ DOMAIN w4 = Fields /\ w4.svc = svc
         /\ w4.sets = AddAllToSets(w3.sets, es)
    BY <2>8 DEF Fields
  <2> HIDE DEF w4
  <2>12. \A x \in w4.sets : x \in w.sets \/ x.to = Nil \/ x.to = <<spn, SvcID(svc)>>
    <3>1. \A x \in w4.sets : x \in w3.sets \/ \E j \in DOMAIN es : x = es[j]
      BY <2>11 DEF AddAllToSets
    <3> QED BY <2>3, <2>8, <2>9, <3>1
  <2>13. Keeps(w4, u)
    BY <2>1, <2>11, UpdateServiceChainKeeps DEF Known
  <2> HIDE DEF u
  <2>14. u.svc \in ServiceInfo /\ u.svc # Nil /\ SvcID(u.svc) = SvcID(svc)
    BY <2>11, <2>13, NilAssumption DEF Keeps, Known
  <2>15. \A x \in u.sets : x \in w.sets \/ x.to = Nil \/ x.to = <<spn, SvcID(u.svc)>>
    BY <2>12, <2>13, <2>14 DEF Keeps
  <2>16. Follows(spn, w, u)
    BY <1>2, <2>14, <2>15 DEF Follows
  <2> QED BY <2>4, <2>10, <2>16
<1> QED BY <1>1, <1>2

(***************************************************************************)
(* The theorem.                                                            *)
(***************************************************************************)
\* A critical section that follows its service port preserves VerdictInv.
LEMMA CommitPreserves ==
    ASSUME VerdictInv, NEW spn \in ServicePortName, NEW u, Follows(spn, Local(spn), u), Commit(spn, u)
    PROVE  VerdictInv'
<1>1. serviceMap' = [serviceMap EXCEPT ![spn] = u.svc] /\ sets' = u.sets
  BY DEF Commit
<1>2. VerdictInv'
  <2> DEFINE w == Local(spn)
  <2>1. w.svc = serviceMap[spn] /\ w.sets = sets
    BY DEF Local
  <2>2. serviceMap' \in [ServicePortName -> ServiceInfo \cup {Nil}]
    BY <1>1 DEF VerdictInv, Follows
  <2>3. /\ serviceMap'[spn] = u.svc
        /\ \A s \in ServicePortName : s # spn => serviceMap'[s] = serviceMap[s]
    BY <1>1 DEF VerdictInv
  <2>4. ASSUME NEW x \in u.sets, x.to # Nil
        PROVE  \E s \in ServicePortName : serviceMap'[s] # Nil /\ x.to = <<s, SvcID(serviceMap'[s])>>
    <3>1. CASE u.svc # Nil /\ x.to = <<spn, SvcID(u.svc)>>
      BY <2>3, <3>1
    <3>2. CASE x \in w.sets /\ x.to # <<spn, SvcID(w.svc)>>
      <4>1. PICK s \in ServicePortName : serviceMap[s] # Nil /\ x.to = <<s, SvcID(serviceMap[s])>>
        BY <2>1, <2>4, <3>2 DEF VerdictInv
      <4>2. s # spn
        BY <2>1, <3>2, <4>1
      <4> QED BY <2>3, <4>1, <4>2
    <3> QED BY <2>4, <3>1, <3>2 DEF Follows
  <2>5. \A x \in sets' : x.to # Nil =>
           \E s \in ServicePortName : serviceMap'[s] # Nil /\ x.to = <<s, SvcID(serviceMap'[s])>>
    BY <1>1, <2>4
  <2>6. \A s \in ServicePortName : SvcID(serviceMap[s])' = SvcID(serviceMap'[s])
    BY DEF SvcID
  <2> QED BY <2>2, <2>5, <2>6 DEF VerdictInv
<1> QED BY <1>2

\* processAffinityChange changes no address and no set.
LEMMA AffinityChangePreserves ==
    ASSUME VerdictInv, NEW ports \in SUBSET ServicePortName,
           AddAffinity(ports) \/ RemoveAffinity(ports)
    PROVE  VerdictInv'
<1>2. ASSUME NEW f, sets' = sets,
             serviceMap' = [spn \in ServicePortName |-> IF spn \in ports THEN f[spn] ELSE serviceMap[spn]],
             \A spn \in ports : f[spn] \in ServiceInfo /\ SvcID(f[spn]) = SvcID(serviceMap[spn])
      PROVE  VerdictInv'
  <2>1. serviceMap' \in [ServicePortName -> ServiceInfo \cup {Nil}]
    BY <1>2 DEF VerdictInv
  <2>2. \A s \in ServicePortName : serviceMap[s] # Nil =>
           serviceMap'[s] # Nil /\ SvcID(serviceMap'[s]) = SvcID(serviceMap[s])
    BY <1>2, NilAssumption DEF VerdictInv
  <2>3. \A x \in sets' : x.to # Nil =>
           \E s \in ServicePortName : serviceMap'[s] # Nil /\ x.to = <<s, SvcID(serviceMap'[s])>>
    BY <1>2, <2>2 DEF VerdictInv
  <2> QED BY <2>1, <2>3 DEF VerdictInv, SvcID
<1>3. ASSUME NEW spn \in ports, serviceMap[spn] # Nil
      PROVE  Known(Local(spn)) /\ Local(spn).svc = serviceMap[spn]
  BY <1>3 DEF VerdictInv, Known, Local, Fields
<1>4. CASE AddAffinity(ports)
  <2> DEFINE f == [spn \in ports |-> addAffinity(Local(spn)).svc]
  <2>1. \A spn \in ports : f[spn] \in ServiceInfo /\ SvcID(f[spn]) = SvcID(serviceMap[spn])
    BY <1>3, <1>4, AddAffinityLeaves DEF AddAffinity, Leaves, Known, SvcID
  <2>2. /\ sets' = sets
        /\ serviceMap' = [spn \in ServicePortName |->
             IF spn \in ports THEN f[spn] ELSE serviceMap[spn]]
    BY <1>4 DEF AddAffinity, AffinityChange
  <2> HIDE DEF f
  <2> QED BY <1>2, <2>1, <2>2
<1>5. CASE RemoveAffinity(ports)
  <2> DEFINE f == [spn \in ports |-> removeAffinity(Local(spn)).svc]
  <2>1. \A spn \in ports : f[spn] \in ServiceInfo /\ SvcID(f[spn]) = SvcID(serviceMap[spn])
    BY <1>3, <1>5, RemoveAffinityLeaves DEF RemoveAffinity, Leaves, Known, SvcID
  <2>2. /\ sets' = sets
        /\ serviceMap' = [spn \in ServicePortName |->
             IF spn \in ports THEN f[spn] ELSE serviceMap[spn]]
    BY <1>5 DEF RemoveAffinity, AffinityChange
  <2> HIDE DEF f
  <2> QED BY <1>2, <2>1, <2>2
<1> QED BY <1>4, <1>5

\* One AddToSet or RemoveFromSet call of a Service update.
LEMMA SetElementPreserves ==
    ASSUME VerdictInv, NEW spn \in ServicePortName, NEW set, NEW ip, NEW port,
           AddSetElement(spn, set, ip, port) \/ RemoveSetElement(spn, set, ip, port)
    PROVE  VerdictInv'
<1>1. serviceMap[spn] # Nil /\ serviceMap' = serviceMap
  BY DEF AddSetElement, RemoveSetElement
<1>2. \A x \in sets' : x \in sets \/ x.to = Nil \/ x.to = <<spn, SvcID(serviceMap[spn])>>
  BY DEF AddSetElement, RemoveSetElement, AddToSet, RemoveFromSets, Element
<1> QED BY <1>1, <1>2 DEF VerdictInv, SvcID

\* The state every critical section starts from.
LEMMA LocalState ==
    ASSUME VerdictInv, NEW spn \in ServicePortName
    PROVE  /\ DOMAIN Local(spn) = Fields
           /\ Local(spn).svc = serviceMap[spn] /\ Local(spn).sets = sets
           /\ Local(spn).eps = endpointsMap[spn]
           /\ Local(spn).svc \in ServiceInfo \cup {Nil}
           /\ Local(spn).svc = Nil =>
                 \A x \in Local(spn).sets : x.to = Nil \/ x.to # <<spn, SvcID(Local(spn).svc)>>
<1>1. /\ DOMAIN Local(spn) = Fields
      /\ Local(spn).svc = serviceMap[spn] /\ Local(spn).sets = sets /\ Local(spn).eps = endpointsMap[spn]
  BY DEF Local, Fields
<1>2. serviceMap[spn] \in ServiceInfo \cup {Nil}
  BY DEF VerdictInv
<1>3. ASSUME serviceMap[spn] = Nil, NEW x \in sets, x.to # Nil
      PROVE  x.to # <<spn, SvcID(serviceMap[spn])>>
  <2>1. PICK s \in ServicePortName : serviceMap[s] # Nil /\ x.to = <<s, SvcID(serviceMap[s])>>
    BY <1>3 DEF VerdictInv
  <2> QED BY <1>3, <2>1
<1> QED BY <1>1, <1>2, <1>3

\* VerdictInv is an invariant of the specification.
THEOREM VerdictInvariant == Spec => []VerdictInv
<1>1. Init => VerdictInv
  BY DEF Init, VerdictInv
<1>2. VerdictInv /\ [Next]_vars => VerdictInv'
  <2> SUFFICES ASSUME VerdictInv, [Next]_vars PROVE VerdictInv'
    OBVIOUS
  <2>1. ASSUME NEW spn \in ServicePortName, NEW spec \in PortSpec, AddServicePort(spn, spec)
        PROVE  VerdictInv'
    <3> DEFINE w == Local(spn)
               u == addServicePort(spn, spec, w)
    <3>1. AddAllToSetsOK(w.sets, ServicePortElements(spn, NewServiceInfo(spec, w.eps # <<>>)))
      BY <2>1, LocalState DEF AddServicePort
    <3>2. Commit(spn, u)
      BY <2>1 DEF AddServicePort
    <3>3. Follows(spn, w, u)
      <4> HIDE DEF w
      <4>1. /\ DOMAIN w = Fields /\ w.svc \in ServiceInfo \cup {Nil}
            /\ w.svc = Nil => \A x \in w.sets : x.to = Nil \/ x.to # <<spn, SvcID(w.svc)>>
        BY LocalState DEF w
      <4> QED BY <3>1, <4>1, AddServicePortFollows
    <3> HIDE DEF u
    <3> QED BY <3>2, <3>3, CommitPreserves
  <2>2. ASSUME NEW spn \in ServicePortName, NEW stored \in Stored \cup {Nil}, DeleteServicePort(spn, stored)
        PROVE  VerdictInv'
    <3> DEFINE w == Local(spn)
               u == deleteServicePort(spn, stored, w)
    <3>1. Commit(spn, u)
      BY <2>2 DEF DeleteServicePort
    <3>2. Follows(spn, w, u)
      <4>1. CASE serviceMap[spn] = Nil
        <5>1. u = w
          BY <4>1, LocalState DEF deleteServicePort
        <5>2. /\ w.svc \in ServiceInfo \cup {Nil}
              /\ \A x \in w.sets : x.to = Nil \/ x.to # <<spn, SvcID(w.svc)>>
          BY <4>1, LocalState
        <5> HIDE DEF u, w
        <5> QED BY <5>1, <5>2 DEF Follows
      <4>2. CASE serviceMap[spn] # Nil
        <5>1. Known(w)
          BY <4>2, LocalState DEF Known
        <5>2. \A x \in RemoveFromSets(w.sets, StoredElements(spn, w.svc, stored)) :
                 x.to # <<spn, SvcID(w.svc)>>
          BY <2>2, <4>2, LocalState DEF DeleteServicePort
        <5> HIDE DEF w
        <5> QED BY <5>1, <5>2, DeleteServicePortFollows
      <4> QED BY <4>1, <4>2
    <3> HIDE DEF u
    <3> QED BY <3>1, <3>2, CommitPreserves
  <2>3. ASSUME NEW spn \in ServicePortName, NEW addr \in Addr, NEW local \in BOOLEAN,
               AddEndpoint(spn, addr, local) \/ DeleteEndpoint(spn, addr, local)
        PROVE  VerdictInv'
    <3> DEFINE w == Local(spn)
               added == addEndpoint(spn, addr, local, w)
               deleted == deleteEndpoint(spn, addr, local, w)
    <3>1. Commit(spn, added) \/ Commit(spn, deleted)
      BY <2>3 DEF AddEndpoint, DeleteEndpoint
    <3>2. /\ DOMAIN w = Fields /\ w.svc \in ServiceInfo \cup {Nil}
          /\ w.svc = Nil => \A x \in w.sets : x.to = Nil \/ x.to # <<spn, SvcID(w.svc)>>
      BY LocalState
    <3>3. Follows(spn, w, added) /\ Follows(spn, w, deleted)
      <4> HIDE DEF w
      <4> QED BY <3>2, EndpointSectionsFollow
    <3> HIDE DEF added, deleted
    <3> QED BY <3>1, <3>3, CommitPreserves
  <2>4. ASSUME NEW ports \in SUBSET ServicePortName, AddAffinity(ports) \/ RemoveAffinity(ports)
        PROVE  VerdictInv'
    BY <2>4, AffinityChangePreserves
  <2>5. ASSUME NEW spn \in ServicePortName, NEW set \in UpdatedSets, NEW port \in Port,
               NEW ip \in AddressesOf(set),
               AddSetElement(spn, set, ip, port) \/ RemoveSetElement(spn, set, ip, port)
        PROVE  VerdictInv'
    BY <2>5, SetElementPreserves
  <2>6. CASE Kill
    BY <2>6 DEF Kill, Stop, VerdictInv, SvcID
  <2>7. CASE Restart
    BY <2>7 DEF Restart, VerdictInv
  <2>8. CASE UNCHANGED vars
    BY <2>8 DEF vars, VerdictInv, SvcID
  <2> QED BY <2>1, <2>2, <2>3, <2>4, <2>5, <2>6, <2>7, <2>8 DEF Next
<1> QED BY <1>1, <1>2, PTL DEF Spec

\* VerdictsLead, the property the runs check: however the critical sections
\* of the two informers interleave, no element of the cluster IP, external
\* IP, load balancer or node port sets jumps to the chain of a service port
\* that addServicePort has not installed or deleteServicePort has removed.
THEOREM VerdictsAlwaysLead == Spec => []VerdictsLead
<1>1. VerdictInv => VerdictsLead
  BY DEF VerdictInv, VerdictsLead
<1> QED BY <1>1, VerdictInvariant, PTL

(***************************************************************************)
(* The invariant of one service port.                                      *)
(***************************************************************************)
\* The chain c of the service port svc has a rule for each identifier, and,
\* whatever endpoints it is for, the number of rules svc asks for.
Shape(svc, c) ==
    /\ Remembers(c, svc.ruleID)
    /\ \/ Len(c) = 0
       \/ Len(c) = (IF svc.withAff THEN 3 ELSE 2) /\ c[1] = CounterRule(svc.ruleID[1])

\* The chain c of the service port svc is up to date with the endpoints eps.
ChainOK(svc, eps, c) ==
    /\ Remembers(c, svc.ruleID)
    /\ IF eps = <<>> THEN Len(c) = 0
       ELSE IF svc.withAff
       THEN /\ Len(c) = 3 /\ c[1] = CounterRule(svc.ruleID[1])
            /\ c[2] = MatchActRule(svc.ruleID[2], SvcID(svc), eps)
            /\ c[3] = LoadBalanceRule(svc.ruleID[3], eps)
       ELSE Len(c) = 2 /\ c[1] = CounterRule(svc.ruleID[1]) /\ c[2] = LoadBalanceRule(svc.ruleID[2], eps)

PlainRule(h, kind) == Rule(h, kind, {}, Nil)

\* The chain c of the endpoint ep has its rules, after the Update rule for the
\* affinity map id when the service port has affinity.
EndpointOK(aff, id, ep, c) ==
    LET ids == ep.ruleID IN
    /\ Remembers(c, ids)
    /\ ep.withAff <=> aff
    /\ IF aff
       THEN /\ Len(c) = 4 /\ c[1] = UpdateRule(ids[1], id, ep)
            /\ c[2] = PlainRule(ids[2], "counter") /\ c[3] = PlainRule(ids[3], "masq")
            /\ c[4] = PlainRule(ids[4], "dnat")
       ELSE /\ Len(c) = 3 /\ c[1] = PlainRule(ids[1], "counter")
            /\ c[2] = PlainRule(ids[2], "masq") /\ c[3] = PlainRule(ids[3], "dnat")

\* The endpoints and their chains.
EndpointsOK(aff, id, eps, ec) ==
    /\ \A i \in DOMAIN eps : EndpointOK(aff, id, eps[i], ec[eps[i].addr])
    /\ \A i, j \in DOMAIN eps : eps[i].addr = eps[j].addr => i = j
    /\ \A a \in Addr : ec[a] # Nil => \E i \in DOMAIN eps : eps[i].addr = a

HasAff(svc) == svc # Nil /\ svc.withAff

Typed(w) ==
    /\ DOMAIN w = Fields
    /\ w.svc \in ServiceInfo \cup {Nil} /\ w.eps \in Seq(EndpointInfo)
    /\ w.sc \in [SvcKey -> Chain] /\ w.ec \in [Addr -> Chain]
    /\ w.am \in [SvcKey -> Timeout \cup {0, Nil}] /\ w.sets \subseteq SetElement

PortOK(w) ==
    /\ Typed(w)
    /\ w.svc # Nil => ChainOK(w.svc, w.eps, w.sc[SvcID(w.svc)]) /\ (w.svc.withEP <=> w.eps # <<>>)
    /\ EndpointsOK(HasAff(w.svc), SvcID(w.svc), w.eps, w.ec)
    /\ \A id \in SvcKey : w.sc[id] # Nil => w.svc # Nil /\ SvcID(w.svc) = id
    /\ \A id \in SvcKey : w.am[id] # Nil <=> w.svc # Nil /\ SvcID(w.svc) = id /\ w.svc.withAff

\* The addresses of the endpoints.
AddrsOf(eps) == {eps[i].addr : i \in DOMAIN eps}

\* What a critical section is to achieve: that the service port is known or
\* not, that it has affinity or not, and that it has these addresses.
Effect(u, known, aff, addrs) ==
    /\ u.svc # Nil <=> known
    /\ HasAff(u.svc) <=> aff
    /\ AddrsOf(u.eps) = addrs

\* The endpoints that are there before and after are the same, record and chain.
SameEndpoints(eps, ec, all, dc) ==
    \A i \in DOMAIN eps, j \in DOMAIN all : eps[i].addr = all[j].addr =>
        eps[i] = all[j] /\ ec[eps[i].addr] = dc[eps[i].addr]

KeepsEndpoints(w, u) == SameEndpoints(w.eps, w.ec, u.eps, u.ec)

(***************************************************************************)
(* Types and rules.                                                        *)
(***************************************************************************)
\* The service ID of a service port names its chain.
LEMMA SvcIDType ==
    ASSUME NEW svc \in ServiceInfo
    PROVE  SvcID(svc) \in SvcKey /\ svc # Nil /\ svc.ruleID \in Seq(Handles) /\ svc.withAff \in BOOLEAN
BY NilAssumption DEF ServiceInfo, SvcID, SvcKey

\* The elements of a sequence of endpoints.
LEMMA EndpointsType ==
    ASSUME NEW eps \in Seq(EndpointInfo), NEW i \in DOMAIN eps
    PROVE  /\ i \in 1..Len(eps) /\ i \in Nat /\ eps[i] \in EndpointInfo
           /\ eps[i].addr \in Addr /\ eps[i].index \in Nat
           /\ eps[i].ruleID \in Seq(Handles)
<1>1. i \in 1..Len(eps) /\ Len(eps) \in Nat
  BY LenProperties
<1>2. eps[i] \in EndpointInfo
  BY <1>1, ElementOfSeq
<1> QED BY <1>1, <1>2 DEF EndpointInfo

\* The rules nfproxy writes are rules.
LEMMA RuleTypes ==
    /\ \A h \in Handles : CounterRule(h) \in RuleType
    /\ \A h \in Handles, eps \in Seq(EndpointInfo) : LoadBalanceRule(h, eps) \in RuleType
    /\ \A h \in Handles, eps \in Seq(EndpointInfo), id \in SvcKey : MatchActRule(h, id, eps) \in RuleType
<1>1. ASSUME NEW eps \in Seq(EndpointInfo)
      PROVE  Targets(eps) \in SUBSET (Nat \X Addr) /\ ActElement(eps) \in SUBSET (Nat \X Addr)
  <2>1. \A i \in DOMAIN eps : i \in Nat /\ eps[i].addr \in Addr /\ eps[i].index \in Nat
    BY EndpointsType
  <2> QED BY <2>1 DEF Targets, ActElement
<1> QED BY <1>1 DEF CounterRule, MatchActRule, LoadBalanceRule, Rule, RuleType, RuleKinds

\* So are those of the endpoint chains.
LEMMA EndpointRuleTypes ==
    /\ \A h \in Handles, kind \in RuleKinds : PlainRule(h, kind) \in RuleType
    /\ \A h \in Handles, id \in SvcKey : \A ep :
          ep.index \in Nat /\ ep.addr \in Addr => UpdateRule(h, id, ep) \in RuleType
BY DEF PlainRule, UpdateRule, Rule, RuleType, RuleKinds

\* What the rules look like to the kernel.
LEMMA RuleHandles ==
    /\ \A h : CounterRule(h).h = h
    /\ \A h, id, eps : MatchActRule(h, id, eps).h = h
    /\ \A h, eps : LoadBalanceRule(h, eps).h = h
    /\ \A h, kind : PlainRule(h, kind).h = h
    /\ \A h, id, ep : UpdateRule(h, id, ep).h = h
BY DEF CounterRule, MatchActRule, LoadBalanceRule, PlainRule, UpdateRule, Rule

\* A remembered chain exists.
LEMMA RememberedExists ==
    ASSUME NEW c, NEW ids, Remembers(c, ids)
    PROVE  c # Nil /\ c \in Chain
BY NilAssumption DEF Remembers, Chain

\* A chain that is up to date has the shape the next update relies on.
LEMMA ChainOKShape ==
    ASSUME NEW svc, NEW eps, NEW c, ChainOK(svc, eps, c)
    PROVE  Shape(svc, c)
BY DEF ChainOK, Shape

\* The empty chain of a service port without rules.
LEMMA EmptyChainOK ==
    ASSUME NEW svc, NEW eps, svc.ruleID = <<>>
    PROVE  Shape(svc, <<>>) /\ (eps = <<>> => ChainOK(svc, eps, <<>>))
<1>1. Remembers(<<>>, <<>>) /\ Len(<<>>) = 0
  BY DEF Remembers
<1> QED BY <1>1 DEF Shape, ChainOK

(***************************************************************************)
(* ProgramServiceEndpoints and updateServiceChain bring a service chain up *)
(* to date.                                                                *)
(***************************************************************************)
\* Between w and u only the service chain and RuleID may change.
Refit(w, u) ==
    /\ Typed(u) /\ u.svc \in ServiceInfo
    /\ SvcID(u.svc) = SvcID(w.svc)
    /\ u.svc.withAff = w.svc.withAff /\ u.svc.withEP = w.svc.withEP
    /\ \A id \in SvcKey : id # SvcID(w.svc) => u.sc[id] = w.sc[id]
    /\ u.eps = w.eps /\ u.ec = w.ec /\ u.am = w.am /\ u.sets = w.sets

\* WithRules sets the chain and the identifiers.
LEMMA WithRulesRefit ==
    ASSUME NEW w, Typed(w), w.svc \in ServiceInfo, NEW c \in Seq(RuleType), NEW ids \in Seq(Handles)
    PROVE  LET u == WithRules(w, c, ids) IN
           Refit(w, u) /\ u.sc[SvcID(w.svc)] = c /\ u.svc.ruleID = ids /\ u.res = w.res
<1> DEFINE u == WithRules(w, c, ids)
           id == SvcID(w.svc)
<1>0. id \in SvcKey /\ w.sc \in [SvcKey -> Chain] /\ c \in Chain
  BY SvcIDType DEF Typed, Chain
<1>1. /\ DOMAIN u = Fields
      /\ u.svc = [w.svc EXCEPT !.ruleID = ids]
      /\ u.sc = [w.sc EXCEPT ![id] = c]
      /\ u.eps = w.eps /\ u.ec = w.ec /\ u.am = w.am /\ u.sets = w.sets /\ u.res = w.res
  BY DEF WithRules, Typed, Fields
<1> HIDE DEF u
<1>2. /\ u.svc \in ServiceInfo /\ u.svc.ruleID = ids /\ u.svc.ip = w.svc.ip /\ u.svc.port = w.svc.port
      /\ u.svc.withAff = w.svc.withAff /\ u.svc.withEP = w.svc.withEP
  BY <1>1 DEF ServiceInfo
<1>3. SvcID(u.svc) = SvcID(w.svc)
  BY <1>2 DEF SvcID
<1> HIDE DEF id
<1>4. /\ u.sc \in [SvcKey -> Chain] /\ u.sc[id] = c
      /\ \A k \in SvcKey : k # id => u.sc[k] = w.sc[k]
  BY <1>0, <1>1
<1>5. Refit(w, u)
  BY <1>1, <1>2, <1>3, <1>4 DEF Refit, Typed, id
<1> QED BY <1>1, <1>2, <1>4, <1>5 DEF u, id

\* Programming an empty chain.
LEMMA ProgramFirstOK ==
    ASSUME NEW w, Typed(w), w.svc \in ServiceInfo, w.eps # <<>>, TargetsExist(w), w.res = "ok",
           w.sc[SvcID(w.svc)] = <<>>
    PROVE  LET u == ProgramFirst(w) IN
           Refit(w, u) /\ u.res = "ok" /\ ChainOK(u.svc, w.eps, u.sc[SvcID(w.svc)])
<1> DEFINE id == SvcID(w.svc)
           h1 == NewHandle({})
           h2 == NewHandle({h1})
           h3 == NewHandle({h1, h2})
           r1 == CounterRule(h1)
<1>0. id \in SvcKey /\ w.eps \in Seq(EndpointInfo) /\ w.svc.withAff \in BOOLEAN
  BY SvcIDType DEF Typed
<1>1. h1 \in Handles
  BY FreshHandle
<1>2. h2 \in Handles /\ h2 # h1
  BY FreshHandle
<1>3. h3 \in Handles /\ h3 # h1 /\ h3 # h2
  BY FreshHandle
<1>4. HandlesOf(w.sc[id]) = {}
  BY DEF HandlesOf
<1> HIDE DEF h1, h2, h3
<1>5. CASE w.svc.withAff
  <2> DEFINE r2 == MatchActRule(h2, id, w.eps)
             r3 == LoadBalanceRule(h3, w.eps)
             c == <<r1, r2, r3>>
             ids == <<h1, h2, h3>>
             u == WithRules(w, c, ids)
  <2>1. /\ r1 \in RuleType /\ r2 \in RuleType /\ r3 \in RuleType
        /\ r1.h = h1 /\ r2.h = h2 /\ r3.h = h3
    BY <1>0, <1>1, <1>2, <1>3, RuleTypes, RuleHandles
  <2>2. /\ c \in Seq(RuleType) /\ Len(c) = 3 /\ c[1] = r1 /\ c[2] = r2 /\ c[3] = r3
        /\ ids \in Seq(Handles) /\ Len(ids) = 3 /\ ids[1] = h1 /\ ids[2] = h2 /\ ids[3] = h3
    <3> HIDE DEF r1, r2, r3
    <3> QED BY <1>1, <1>2, <1>3, <2>1
  <2>3. ProgramFirst(w) = u
    <3>1. w.sc[id] \o c = c
      BY <2>2, ConcatEmptySeq
    <3> QED BY <1>4, <1>5, <3>1 DEF ProgramFirst, h1, h2, h3
  <2> HIDE DEF c, ids
  <2>4. Remembers(c, ids)
    <3> HIDE DEF r1, r2, r3
    <3> QED BY <1>1, <1>2, <1>3, <2>1, <2>2 DEF Remembers
  <2>5. Refit(w, u) /\ u.sc[id] = c /\ u.svc.ruleID = ids /\ u.res = w.res
    BY <2>2, WithRulesRefit
  <2> HIDE DEF u
  <2>6. ChainOK(u.svc, w.eps, c)
    BY <1>5, <2>2, <2>4, <2>5 DEF ChainOK, Refit
  <2> QED BY <2>3, <2>5, <2>6
<1>6. CASE ~w.svc.withAff
  <2> DEFINE r2 == LoadBalanceRule(h2, w.eps)
             c == <<r1, r2>>
             ids == <<h1, h2>>
             u == WithRules(w, c, ids)
  <2>1. r1 \in RuleType /\ r2 \in RuleType /\ r1.h = h1 /\ r2.h = h2
    BY <1>0, <1>1, <1>2, RuleTypes, RuleHandles
  <2>2. /\ c \in Seq(RuleType) /\ Len(c) = 2 /\ c[1] = r1 /\ c[2] = r2
        /\ ids \in Seq(Handles) /\ Len(ids) = 2 /\ ids[1] = h1 /\ ids[2] = h2
    <3> HIDE DEF r1, r2
    <3> QED BY <1>1, <1>2, <2>1
  <2>3. ProgramFirst(w) = u
    <3>1. w.sc[id] \o c = c
      BY <2>2, ConcatEmptySeq
    <3> QED BY <1>4, <1>6, <3>1 DEF ProgramFirst, h1, h2, h3
  <2> HIDE DEF c, ids
  <2>4. Remembers(c, ids)
    <3> HIDE DEF r1, r2
    <3> QED BY <1>1, <1>2, <2>1, <2>2 DEF Remembers
  <2>5. Refit(w, u) /\ u.sc[id] = c /\ u.svc.ruleID = ids /\ u.res = w.res
    BY <2>2, WithRulesRefit
  <2> HIDE DEF u
  <2>6. ChainOK(u.svc, w.eps, c)
    BY <1>6, <2>2, <2>4, <2>5 DEF ChainOK, Refit
  <2> QED BY <2>3, <2>5, <2>6
<1> QED BY <1>0, <1>5, <1>6

\* Replacing the rule at position n of the service chain.
LEMMA ReplaceRememberedOK ==
    ASSUME NEW w, Typed(w), w.svc \in ServiceInfo, TargetsExist(w), w.res = "ok",
           Remembers(w.sc[SvcID(w.svc)], w.svc.ruleID), NEW n \in 2..Len(w.svc.ruleID),
           NEW kind \in {"matchact", "lb"}
    PROVE  LET u == ReplaceRemembered(w, n, kind)
               c == w.sc[SvcID(w.svc)]
               d == u.sc[SvcID(w.svc)]
           IN  /\ Refit(w, u) /\ u.res = "ok"
               /\ Remembers(d, u.svc.ruleID) /\ Len(d) = Len(c)
               /\ \A i \in 1..Len(c) : i # n => d[i] = c[i] /\ u.svc.ruleID[i] = w.svc.ruleID[i]
               /\ d[n] = IF kind = "matchact" THEN MatchActRule(u.svc.ruleID[n], SvcID(w.svc), w.eps)
                         ELSE LoadBalanceRule(u.svc.ruleID[n], w.eps)
<1> DEFINE id  == SvcID(w.svc)
           c   == w.sc[id]
           ids == w.svc.ruleID
           h   == NewHandle(UsedHandles(c, ids))
           r   == IF kind = "matchact" THEN MatchActRule(h, id, w.eps) ELSE LoadBalanceRule(h, w.eps)
           d   == ReplaceRule(c, ids[n], r)
           jds == ReplaceAt(ids, n, h)
           u   == WithRules(w, d, jds)
<1>0. /\ id \in SvcKey /\ w.eps \in Seq(EndpointInfo) /\ ids \in Seq(Handles) /\ Len(ids) \in Nat
      /\ Remembers(c, ids) /\ c # Nil /\ n \in 1..Len(ids) /\ ~(Len(ids) < n)
      /\ Len(c) = Len(ids)
  <2>1. id \in SvcKey /\ w.eps \in Seq(EndpointInfo) /\ ids \in Seq(Handles)
    BY SvcIDType DEF Typed
  <2>2. Remembers(c, ids) /\ c # Nil
    BY RememberedExists
  <2> HIDE DEF c, ids
  <2>3. Len(c) = Len(ids)
    BY <2>2 DEF Remembers
  <2>4. Len(ids) \in Nat /\ n \in 1..Len(ids) /\ ~(Len(ids) < n)
    <3>1. Len(ids) \in Nat /\ n \in 2..Len(ids)
      BY <2>1, LenProperties DEF ids
    <3> QED BY <3>1
  <2> QED BY <2>1, <2>2, <2>3, <2>4
<1>1. h \in Handles /\ \A i \in 1..Len(ids) : h # ids[i]
  BY <1>0, FreshRemembered DEF UsedHandles
<1>2. r \in RuleType /\ r.h = h
  BY <1>0, <1>1, RuleTypes, RuleHandles
<1>3. HasRule(c, ids[n])
  BY <1>0, PositionRemembered
<1>4. ReplaceRemembered(w, n, kind) = u
  BY <1>0, <1>3 DEF ReplaceRemembered
<1> HIDE DEF h, r, c, ids
<1>5. /\ Remembers(d, ReplaceAt(ids, n, r.h)) /\ Len(d) = Len(c)
      /\ \A i \in 1..Len(c) : d[i] = IF i = n THEN r ELSE c[i]
  BY <1>0, <1>1, <1>2, ReplaceRemembers
<1>6. /\ Len(jds) = Len(ids)
      /\ \A i \in 1..Len(ids) : jds[i] = IF i = n THEN h ELSE ids[i]
  <2>1. ids \in Seq(Handles) /\ n \in 1..Len(ids) /\ h \in Handles
    BY <1>0, <1>1
  <2>2. /\ Len(ReplaceAt(ids, n, h)) = Len(ids)
        /\ \A i \in 1..Len(ids) : ReplaceAt(ids, n, h)[i] = IF i = n THEN h ELSE ids[i]
    <3>1. ASSUME NEW s \in Seq(Handles), NEW e \in Handles, n \in 1..Len(s)
          PROVE  /\ Len(ReplaceAt(s, n, e)) = Len(s)
                 /\ \A i \in 1..Len(s) : ReplaceAt(s, n, e)[i] = IF i = n THEN e ELSE s[i]
      BY <3>1, ReplaceAtProperties
    <3> QED BY <2>1, <3>1, Zenon
  <2> QED BY <2>2
<1>7. Remembers(d, jds) /\ d \in Seq(RuleType) /\ jds \in Seq(Handles)
  BY <1>2, <1>5 DEF Remembers
<1> HIDE DEF d, jds
<1>8. Refit(w, u) /\ u.sc[id] = d /\ u.svc.ruleID = jds /\ u.res = w.res
  BY <1>7, WithRulesRefit
<1> HIDE DEF u
<1>9. \A i \in 1..Len(c) : i # n => d[i] = c[i] /\ jds[i] = ids[i]
  BY <1>0, <1>5, <1>6
<1>10. d[n] = IF kind = "matchact" THEN MatchActRule(jds[n], id, w.eps) ELSE LoadBalanceRule(jds[n], w.eps)
  BY <1>0, <1>5, <1>6 DEF r
<1> QED BY <1>4, <1>5, <1>7, <1>8, <1>9, <1>10 DEF c, ids

\* One change of the service chain after another.
LEMMA RefitTrans ==
    ASSUME NEW w, NEW u, NEW v, Refit(w, u), Refit(u, v)
    PROVE  Refit(w, v)
BY DEF Refit

\* ProgramServiceEndpoints, on a chain of any of the shapes it meets.
LEMMA ProgramServiceEndpointsOK ==
    ASSUME NEW w, Typed(w), w.svc \in ServiceInfo, w.eps # <<>>, TargetsExist(w), w.res = "ok",
           Shape(w.svc, w.sc[SvcID(w.svc)]), w.svc.withAff => w.am[SvcID(w.svc)] # Nil
    PROVE  LET u == ProgramServiceEndpoints(w) IN
           Refit(w, u) /\ u.res = "ok" /\ ChainOK(u.svc, w.eps, u.sc[SvcID(w.svc)])
<1> DEFINE id == SvcID(w.svc)
           c == w.sc[id]
           ids == w.svc.ruleID
           u == ProgramServiceEndpoints(w)
<1>0. /\ Remembers(c, ids) /\ c # Nil /\ id \in SvcKey /\ w.svc.withAff \in BOOLEAN
      /\ ids \in Seq(Handles) /\ c \in Seq(RuleType) /\ Len(c) = Len(ids)
  <2>1. Remembers(c, ids)
    BY DEF Shape
  <2>2. c # Nil /\ id \in SvcKey /\ w.svc.withAff \in BOOLEAN
    BY <2>1, RememberedExists, SvcIDType
  <2> HIDE DEF c, ids
  <2> QED BY <2>1, <2>2 DEF Remembers
<1>1. CASE ids = <<>>
  <2>1. Len(c) = 0
    BY <1>0, <1>1
  <2>2. c = <<>>
    <3> HIDE DEF c
    <3> QED BY <1>0, <2>1, EmptySeq
  <2>3. u = ProgramFirst(w)
    BY <1>0, <1>1 DEF ProgramServiceEndpoints
  <2> QED BY <2>2, <2>3, ProgramFirstOK
<1>2. CASE ids # <<>> /\ ~w.svc.withAff
  <2>1. u = ReplaceRemembered(w, 2, "lb")
    BY <1>0, <1>2 DEF ProgramServiceEndpoints
  <2>2. Len(c) = 2 /\ c[1] = CounterRule(ids[1])
    <3>1. Len(ids) # 0
      BY <1>0, <1>2, EmptySeq
    <3> QED BY <1>0, <1>2, <3>1 DEF Shape
  <2>3. 2 \in 2..Len(ids) /\ "lb" \in {"matchact", "lb"} /\ "lb" # "matchact"
    BY <1>0, <2>2
  <2>4. /\ Refit(w, u) /\ u.res = "ok"
        /\ Remembers(u.sc[id], u.svc.ruleID) /\ Len(u.sc[id]) = Len(c)
        /\ \A i \in 1..Len(c) : i # 2 => u.sc[id][i] = c[i] /\ u.svc.ruleID[i] = ids[i]
        /\ u.sc[id][2] = LoadBalanceRule(u.svc.ruleID[2], w.eps)
    BY <1>0, <2>1, <2>3, ReplaceRememberedOK
  <2> HIDE DEF u, c, ids
  <2>5. u.sc[id][1] = CounterRule(u.svc.ruleID[1])
    <3>1. u.sc[id][1] = c[1] /\ u.svc.ruleID[1] = ids[1]
      BY <2>2, <2>4
    <3> QED BY <2>2, <3>1
  <2>6. ChainOK(u.svc, w.eps, u.sc[id])
    BY <1>2, <2>2, <2>4, <2>5 DEF ChainOK, Refit
  <2> QED BY <2>4, <2>6 DEF u
<1>3. CASE ids # <<>> /\ w.svc.withAff
  <2> DEFINE v == ReplaceRemembered(w, 2, "matchact")
             z == ReplaceRemembered(v, 3, "lb")
  <2>2. Len(c) = 3 /\ c[1] = CounterRule(ids[1])
    <3>1. Len(ids) # 0
      BY <1>0, <1>3, EmptySeq
    <3> QED BY <1>0, <1>3, <3>1 DEF Shape
  <2>3. 2 \in 2..Len(ids)
    BY <1>0, <2>2
  <2>4. /\ Refit(w, v) /\ v.res = "ok"
        /\ Remembers(v.sc[id], v.svc.ruleID) /\ Len(v.sc[id]) = Len(c)
        /\ \A i \in 1..Len(c) : i # 2 => v.sc[id][i] = c[i] /\ v.svc.ruleID[i] = ids[i]
        /\ v.sc[id][2] = MatchActRule(v.svc.ruleID[2], id, w.eps)
    BY <1>0, <2>3, ReplaceRememberedOK
  <2>5. u = z
    BY <1>0, <1>3, <2>4 DEF ProgramServiceEndpoints
  <2> HIDE DEF v
  <2>6. /\ Typed(v) /\ v.svc \in ServiceInfo /\ TargetsExist(v) /\ SvcID(v.svc) = id
        /\ v.eps = w.eps /\ v.svc.withAff = w.svc.withAff
    BY <2>4 DEF Refit, TargetsExist
  <2>7. 3 \in 2..Len(v.svc.ruleID) /\ "lb" \in {"matchact", "lb"} /\ "lb" # "matchact"
    <3>1. Len(v.svc.ruleID) = 3
      BY <2>2, <2>4 DEF Remembers
    <3> QED BY <3>1
  <2>8. /\ Refit(v, z) /\ z.res = "ok"
        /\ Remembers(z.sc[id], z.svc.ruleID) /\ Len(z.sc[id]) = Len(v.sc[id])
        /\ \A i \in 1..Len(v.sc[id]) : i # 3 => z.sc[id][i] = v.sc[id][i] /\ z.svc.ruleID[i] = v.svc.ruleID[i]
        /\ z.sc[id][3] = LoadBalanceRule(z.svc.ruleID[3], v.eps)
    BY <2>4, <2>6, <2>7, ReplaceRememberedOK
  <2> HIDE DEF z, u, c, ids
  <2>9. Refit(w, z)
    BY <2>4, <2>8, RefitTrans
  <2>10. /\ z.sc[id][1] = CounterRule(z.svc.ruleID[1])
         /\ z.sc[id][2] = MatchActRule(z.svc.ruleID[2], id, w.eps)
    <3>1. /\ z.sc[id][1] = v.sc[id][1] /\ z.svc.ruleID[1] = v.svc.ruleID[1]
          /\ z.sc[id][2] = v.sc[id][2] /\ z.svc.ruleID[2] = v.svc.ruleID[2]
      BY <2>2, <2>4, <2>8
    <3>2. v.sc[id][1] = c[1] /\ v.svc.ruleID[1] = ids[1]
      BY <2>2, <2>4
    <3> QED BY <2>2, <2>4, <3>1, <3>2
  <2>11. z.svc.withAff /\ SvcID(z.svc) = id /\ Len(z.sc[id]) = 3
    BY <1>3, <2>2, <2>4, <2>8, <2>9 DEF Refit
  <2>12. ChainOK(z.svc, w.eps, z.sc[id])
    BY <2>6, <2>8, <2>10, <2>11 DEF ChainOK
  <2> QED BY <2>5, <2>8, <2>9, <2>12 DEF u
<1> QED BY <1>0, <1>1, <1>2, <1>3

\* The elements of the no-endpoints set have their type.
LEMMA NoEndpointsType ==
    ASSUME NEW spn \in ServicePortName, NEW svc \in ServiceInfo
    PROVE  NoEndpointsElements(spn, svc) \subseteq SetElement
<1>1. /\ svc.ip \in IP /\ svc.port \in Port /\ svc.ext \in Seq(IP) /\ svc.lb \in Seq(IP)
      /\ spn.proto \in Protocol
  BY ProxyAssumption DEF ServiceInfo, ServicePortName
<1>2. ASSUME NEW s \in Seq(IP)
      PROVE  Range(s) \subseteq IP
  BY DEF Range
<1>3. \A ip \in {svc.ip} \cup Range(svc.ext) \cup Range(svc.lb) : ip \in IP \cup {Nil}
  BY <1>1, <1>2
<1>4. ASSUME NEW ip \in IP \cup {Nil}
      PROVE  Element("noendpoints", spn, ip, svc.port, Nil) \in SetElement
  BY <1>1 DEF Element, SetElement, SetNames
<1> QED BY <1>3, <1>4 DEF NoEndpointsElements

\* What updateServiceChain does to a service port.
Updated(w, u) ==
    /\ Typed(u) /\ u.svc \in ServiceInfo
    /\ SvcID(u.svc) = SvcID(w.svc) /\ u.svc.withAff = w.svc.withAff
    /\ u.svc.withEP <=> w.eps # <<>>
    /\ \A id \in SvcKey : id # SvcID(w.svc) => u.sc[id] = w.sc[id]
    /\ u.eps = w.eps /\ u.ec = w.ec /\ u.am = w.am
    /\ ChainOK(u.svc, w.eps, u.sc[SvcID(w.svc)])

\* The WithEndpoints flag and the no-endpoints set follow the endpoints, and
\* nothing else changes.
LEMMA MarkEndpointsTyped ==
    ASSUME NEW spn \in ServicePortName, NEW w, Typed(w), w.svc \in ServiceInfo
    PROVE  LET u == MarkEndpoints(spn, w) IN
           /\ Typed(u) /\ u.svc \in ServiceInfo
           /\ SvcID(u.svc) = SvcID(w.svc) /\ u.svc.withAff = w.svc.withAff
           /\ u.svc.withEP <=> w.eps # <<>>
           /\ u.svc.ruleID = w.svc.ruleID
           /\ u.eps = w.eps /\ u.ec = w.ec /\ u.am = w.am /\ u.sc = w.sc /\ u.res = w.res
<1> DEFINE u == MarkEndpoints(spn, w)
           none == NoEndpointsElements(spn, w.svc)
<1>1. /\ DOMAIN u = Fields
      /\ u.eps = w.eps /\ u.ec = w.ec /\ u.am = w.am /\ u.sc = w.sc /\ u.res = w.res
      /\ w.eps = <<>> => u.svc = [w.svc EXCEPT !.withEP = FALSE]
      /\ w.eps # <<>> => u.svc = [w.svc EXCEPT !.withEP = TRUE]
  BY DEF MarkEndpoints, Typed, Fields
<1>2. u.sets \in {w.sets, w.sets \cup none, RemoveFromSets(w.sets, none)}
  BY DEF MarkEndpoints, Typed, Fields
<1>3. u.sets \subseteq SetElement
  <2>1. none \subseteq SetElement /\ w.sets \subseteq SetElement
    BY NoEndpointsType DEF Typed
  <2> HIDE DEF u, none
  <2> QED BY <1>2, <2>1 DEF RemoveFromSets
<1> HIDE DEF u
<1>4. /\ u.svc \in ServiceInfo /\ u.svc.ip = w.svc.ip /\ u.svc.port = w.svc.port
      /\ u.svc.ruleID = w.svc.ruleID /\ u.svc.withAff = w.svc.withAff
      /\ u.svc.withEP <=> w.eps # <<>>
  BY <1>1 DEF ServiceInfo
<1>5. SvcID(u.svc) = SvcID(w.svc)
  BY <1>4 DEF SvcID
<1>6. Typed(u)
  BY <1>1, <1>3, <1>4 DEF Typed
<1> QED BY <1>1, <1>4, <1>5, <1>6 DEF u

\* updateServiceChain brings the service chain up to date, whatever shape an
\* earlier update left it in.
LEMMA UpdateServiceChainOK ==
    ASSUME NEW spn \in ServicePortName, NEW w, Typed(w), w.svc \in ServiceInfo, TargetsExist(w),
           w.res = "ok", Shape(w.svc, w.sc[SvcID(w.svc)]), w.svc.withAff => w.am[SvcID(w.svc)] # Nil
    PROVE  Updated(w, updateServiceChain(spn, w)) /\ updateServiceChain(spn, w).res = "ok"
<1> DEFINE w1 == MarkEndpoints(spn, w)
           id == SvcID(w.svc)
           c == w.sc[id]
           u == updateServiceChain(spn, w)
<1>0. w.svc # Nil
  BY NilAssumption
<1>1. /\ Typed(w1) /\ w1.svc \in ServiceInfo /\ SvcID(w1.svc) = id /\ w1.svc.withAff = w.svc.withAff
      /\ w1.svc.withEP <=> w.eps # <<>>
      /\ w1.svc.ruleID = w.svc.ruleID
      /\ w1.eps = w.eps /\ w1.ec = w.ec /\ w1.am = w.am /\ w1.sc = w.sc /\ w1.res = "ok"
  BY MarkEndpointsTyped
<1>2. CASE w.eps # <<>>
  <2>1. u = ProgramServiceEndpoints(w1)
    BY <1>0, <1>2 DEF updateServiceChain
  <2> HIDE DEF w1
  <2>2. TargetsExist(w1) /\ Shape(w1.svc, w1.sc[SvcID(w1.svc)])
    BY <1>1 DEF TargetsExist, Shape
  <2>3. Refit(w1, u) /\ u.res = "ok" /\ ChainOK(u.svc, w1.eps, u.sc[SvcID(w1.svc)])
    BY <1>1, <1>2, <2>1, <2>2, ProgramServiceEndpointsOK
  <2> HIDE DEF u
  <2> QED BY <1>1, <2>3 DEF Refit, Updated, u
<1>3. CASE w.eps = <<>>
  <2>1. Remembers(c, w.svc.ruleID) /\ c # Nil
    BY RememberedExists DEF Shape
  <2>2. DeleteChainRulesOK(c, w.svc.ruleID) /\ DeleteChainRules(c, w.svc.ruleID) = <<>>
    BY <2>1, DeleteAllRemembered
  <2>3. u = WithRules(w1, <<>>, <<>>)
    BY <1>0, <1>3, <2>2 DEF updateServiceChain
  <2> HIDE DEF w1, c
  <2>4. Refit(w1, u) /\ u.sc[id] = <<>> /\ u.svc.ruleID = <<>> /\ u.res = "ok"
    <3> DEFINE d == <<>>
               ids == <<>>
               v == WithRules(w1, d, ids)
    <3>1. d \in Seq(RuleType) /\ ids \in Seq(Handles) /\ u = v
      BY <2>3
    <3> HIDE DEF d, ids
    <3>2. Refit(w1, v) /\ v.sc[SvcID(w1.svc)] = d /\ v.svc.ruleID = ids /\ v.res = w1.res
      BY <1>1, <3>1, WithRulesRefit
    <3> HIDE DEF v, u
    <3> QED BY <1>1, <3>1, <3>2 DEF d, ids
  <2> HIDE DEF u
  <2>5. ChainOK(u.svc, w.eps, u.sc[id])
    BY <1>3, <2>4, EmptyChainOK
  <2> QED BY <1>1, <2>4, <2>5 DEF Refit, Updated, u
<1> QED BY <1>2, <1>3

(***************************************************************************)
(* The first rule of an endpoint chain.                                    *)
(***************************************************************************)
\* A sequence with a new first element.
LEMMA Prepend ==
    ASSUME NEW S, NEW s \in Seq(S), NEW e \in S
    PROVE  /\ <<e>> \o s \in Seq(S) /\ Len(<<e>> \o s) = Len(s) + 1
           /\ (<<e>> \o s)[1] = e
           /\ \A i \in 1..Len(s) : (<<e>> \o s)[i + 1] = s[i]
<1> DEFINE m == <<e>>
<1>1. m \in Seq(S) /\ Len(m) = 1 /\ m[1] = e /\ Len(s) \in Nat
  OBVIOUS
<1> HIDE DEF m
<1>2. /\ m \o s \in Seq(S) /\ Len(m \o s) = Len(m) + Len(s)
      /\ \A i \in 1..(Len(m) + Len(s)) : (m \o s)[i] = IF i <= Len(m) THEN m[i] ELSE s[i - Len(m)]
  BY <1>1, ConcatProperties
<1>3. (m \o s)[1] = e /\ \A i \in 1..Len(s) : (m \o s)[i + 1] = s[i]
  BY <1>1, <1>2
<1> QED BY <1>1, <1>2, <1>3 DEF m

\* A chain with one rule more in front is remembered with its handle in front.
LEMMA RemembersPrepended ==
    ASSUME NEW c, NEW ids, Remembers(c, ids), Len(ids) <= 3,
           NEW d \in Seq(RuleType), Len(d) = Len(c) + 1, \A i \in 1..Len(c) : d[i + 1] = c[i],
           NEW jds \in Seq(Handles), Len(jds) = Len(ids) + 1, \A i \in 1..Len(ids) : jds[i + 1] = ids[i],
           d[1].h = jds[1], \A i \in 1..Len(ids) : jds[1] # ids[i]
    PROVE  Remembers(d, jds)
<1>0. Len(c) = Len(ids) /\ Len(ids) \in Nat
  BY DEF Remembers
<1>3. ASSUME NEW i \in 1..Len(d), i # 1
      PROVE  i - 1 \in 1..Len(c) /\ d[i] = c[i - 1] /\ jds[i] = ids[i - 1]
  <2>1. i - 1 \in 1..Len(c) /\ (i - 1) + 1 = i
    BY <1>0, <1>3
  <2> QED BY <1>0, <2>1
<1>4. \A i \in 1..Len(d) : d[i].h = jds[i]
  BY <1>3 DEF Remembers
<1>5. ASSUME NEW i \in 1..Len(d), NEW j \in 1..Len(d), jds[i] = jds[j]
      PROVE  i = j
  <2>1. CASE i = 1 \/ j = 1
    BY <1>0, <1>3, <1>5, <2>1
  <2>2. CASE i # 1 /\ j # 1
    <3>1. \A k, l \in 1..Len(c) : ids[k] = ids[l] => k = l
      BY DEF Remembers
    <3>2. i - 1 \in 1..Len(c) /\ j - 1 \in 1..Len(c) /\ ids[i - 1] = ids[j - 1]
      BY <1>3, <1>5, <2>2
    <3>3. i - 1 = j - 1
      BY <3>1, <3>2, Zenon
    <3> QED BY <1>0, <3>3
  <2> QED BY <2>1, <2>2
<1> QED BY <1>0, <1>4, <1>5 DEF Remembers

\* The first rule of a remembered chain is found and deleted by its handle.
LEMMA DeleteFirst ==
    ASSUME NEW c, NEW ids, Remembers(c, ids), Len(ids) >= 1
    PROVE  /\ HasRule(c, Head(ids)) /\ ids # <<>>
           /\ DeleteRule(c, Head(ids)) \in Seq(RuleType)
           /\ Len(DeleteRule(c, Head(ids))) = Len(c) - 1
           /\ \A i \in 1..(Len(c) - 1) : DeleteRule(c, Head(ids))[i] = c[i + 1]
           /\ Tail(ids) \in Seq(Handles) /\ Len(Tail(ids)) = Len(ids) - 1
           /\ \A i \in 1..(Len(ids) - 1) : Tail(ids)[i] = ids[i + 1]
<1> DEFINE d == DeleteRule(c, ids[1])
<1>0. /\ ids \in Seq(Handles) /\ Len(ids) \in Nat /\ 1 \in 1..Len(ids) /\ c # Nil /\ ids # <<>>
      /\ Len(c) = Len(ids)
  BY RememberedExists, LenProperties DEF Remembers
<1>1. Head(ids) = ids[1]
  BY <1>0, HeadTailProperties
<1>2. HasRule(c, ids[1])
  BY <1>0, PositionRemembered
<1>3. Remembers(d, RemoveAt(ids, 1)) /\ Len(d) = Len(c) - 1
      /\ \A i \in 1..(Len(c) - 1) : d[i] = IF i < 1 THEN c[i] ELSE c[i + 1]
  BY <1>0, DeleteRemembers
<1> HIDE DEF d
<1>4. /\ Tail(ids) \in Seq(Handles) /\ Len(Tail(ids)) = Len(ids) - 1
      /\ \A i \in 1..(Len(ids) - 1) : Tail(ids)[i] = ids[i + 1]
  BY <1>0, HeadTailProperties
<1>6. d \in Seq(RuleType) /\ \A i \in 1..(Len(c) - 1) : d[i] = c[i + 1]
  BY <1>0, <1>3 DEF Remembers
<1> QED BY <1>0, <1>1, <1>2, <1>3, <1>4, <1>6 DEF d

\* A chain without its first rule is remembered by the other handles.
LEMMA RemembersShortened ==
    ASSUME NEW c, NEW ids, Remembers(c, ids),
           NEW d \in Seq(RuleType), Len(d) = Len(c) - 1, \A i \in 1..(Len(c) - 1) : d[i] = c[i + 1],
           NEW jds \in Seq(Handles), Len(jds) = Len(ids) - 1,
           \A i \in 1..(Len(ids) - 1) : jds[i] = ids[i + 1]
    PROVE  Remembers(d, jds)
<1>0. Len(c) = Len(ids) /\ Len(ids) \in Nat
  BY DEF Remembers
<1>1. ASSUME NEW i \in 1..Len(d)
      PROVE  i + 1 \in 1..Len(c) /\ d[i] = c[i + 1] /\ jds[i] = ids[i + 1]
  BY <1>0
<1>2. \A i \in 1..Len(d) : d[i].h = jds[i]
  BY <1>1 DEF Remembers
<1>3. ASSUME NEW i \in 1..Len(d), NEW j \in 1..Len(d), jds[i] = jds[j]
      PROVE  i = j
  <2>1. i + 1 = j + 1
    BY <1>1, <1>3 DEF Remembers
  <2> QED BY <1>0, <2>1
<1> QED BY <1>0, <1>2, <1>3 DEF Remembers

(***************************************************************************)
(* Session affinity in the endpoint chains.                                *)
(***************************************************************************)
\* Without affinity the service ID plays no part.
LEMMA PlainEndpoints ==
    ASSUME NEW id, NEW jd, NEW eps, NEW ec, EndpointsOK(FALSE, id, eps, ec)
    PROVE  EndpointsOK(FALSE, jd, eps, ec)
BY DEF EndpointsOK, EndpointOK

\* The Update rule is inserted in front of the chain of an endpoint.
LEMMA AddUpdateRule ==
    ASSUME NEW ep \in EndpointInfo, NEW c, NEW jd, EndpointOK(FALSE, jd, ep, c), NEW id \in SvcKey,
           NEW h, h = NewHandle(UsedHandles(c, ep.ruleID))
    PROVE  LET f == RememberUpdateRule(ep, h) IN
           /\ f \in EndpointInfo /\ f.addr = ep.addr /\ f.index = ep.index
           /\ EndpointOK(TRUE, id, f, <<UpdateRule(h, id, ep)>> \o c)
<1> DEFINE r == UpdateRule(h, id, ep)
           ids == ep.ruleID
           f == RememberUpdateRule(ep, h)
           d == <<r>> \o c
           jds == <<h>> \o ids
<1>0. Remembers(c, ids) /\ ids \in Seq(Handles) /\ Len(c) = 3 /\ Len(ids) = 3 /\ Len(ids) <= 3
  BY DEF EndpointOK, Remembers
<1>1. h \in Handles /\ \A i \in 1..Len(ids) : h # ids[i]
  BY <1>0, FreshRemembered DEF UsedHandles
<1>2. r \in RuleType /\ r.h = h
  BY <1>1, EndpointRuleTypes, RuleHandles DEF EndpointInfo
<1>3. /\ c[1] = PlainRule(ids[1], "counter") /\ c[2] = PlainRule(ids[2], "masq")
      /\ c[3] = PlainRule(ids[3], "dnat")
  BY DEF EndpointOK
<1> HIDE DEF r, ids
<1>4. /\ d \in Seq(RuleType) /\ Len(d) = Len(c) + 1 /\ d[1] = r /\ \A i \in 1..Len(c) : d[i + 1] = c[i]
      /\ jds \in Seq(Handles) /\ Len(jds) = Len(ids) + 1 /\ jds[1] = h
      /\ \A i \in 1..Len(ids) : jds[i + 1] = ids[i]
  <2>1. c \in Seq(RuleType)
    BY <1>0 DEF Remembers
  <2>2. d \in Seq(RuleType) /\ Len(d) = Len(c) + 1 /\ d[1] = r /\ \A i \in 1..Len(c) : d[i + 1] = c[i]
    BY <1>2, <2>1, Prepend
  <2>3. /\ jds \in Seq(Handles) /\ Len(jds) = Len(ids) + 1 /\ jds[1] = h
        /\ \A i \in 1..Len(ids) : jds[i + 1] = ids[i]
    <3>1. ids \in Seq(Handles) /\ h \in Handles
      BY <1>0, <1>1
    <3> QED BY <3>1, Prepend
  <2> QED BY <2>2, <2>3
<1> HIDE DEF d, jds
<1>5. /\ Len(d) = 4 /\ d[2] = c[1] /\ d[3] = c[2] /\ d[4] = c[3]
      /\ jds[2] = ids[1] /\ jds[3] = ids[2] /\ jds[4] = ids[3]
  BY <1>0, <1>4
<1>6. Remembers(d, jds)
  <2>1. d[1].h = jds[1] /\ \A i \in 1..Len(ids) : jds[1] # ids[i]
    BY <1>1, <1>2, <1>4
  <2>2. Remembers(c, ids) /\ Len(ids) <= 3
    BY <1>0
  <2> QED BY <1>4, <2>1, <2>2, RemembersPrepended
<1>7. f = [ep EXCEPT !.withAff = TRUE, !.ruleID = jds]
  BY DEF RememberUpdateRule, jds, ids
<1> HIDE DEF f
<1>8. f \in EndpointInfo /\ f.addr = ep.addr /\ f.index = ep.index /\ f.withAff = TRUE /\ f.ruleID = jds
  BY <1>4, <1>7 DEF EndpointInfo
<1>9. UpdateRule(h, id, f) = r
  BY <1>8 DEF UpdateRule, r
<1>10. EndpointOK(TRUE, id, f, d)
  BY <1>3, <1>4, <1>5, <1>6, <1>8, <1>9 DEF EndpointOK
<1> QED BY <1>8, <1>10 DEF f, d, r

\* The Update rule is deleted again.
LEMMA DropUpdateRule ==
    ASSUME NEW ep \in EndpointInfo, NEW c, NEW id, EndpointOK(TRUE, id, ep, c)
    PROVE  LET f == [ep EXCEPT !.withAff = FALSE, !.ruleID = Tail(@)] IN
           /\ HasRule(c, Head(ep.ruleID)) /\ ep.ruleID # <<>>
           /\ f \in EndpointInfo /\ f.addr = ep.addr /\ f.index = ep.index
           /\ EndpointOK(FALSE, id, f, DeleteRule(c, Head(ep.ruleID)))
<1> DEFINE ids == ep.ruleID
           f == [ep EXCEPT !.withAff = FALSE, !.ruleID = Tail(@)]
           h == Head(ids)
           d == DeleteRule(c, h)
           jds == Tail(ids)
<1>0. Remembers(c, ids) /\ Len(c) = 4 /\ Len(ids) = 4 /\ Len(ids) >= 1
  BY DEF EndpointOK, Remembers
<1>1. /\ c[2] = PlainRule(ids[2], "counter") /\ c[3] = PlainRule(ids[3], "masq")
      /\ c[4] = PlainRule(ids[4], "dnat")
  BY DEF EndpointOK
<1> HIDE DEF ids
<1>2. /\ HasRule(c, h) /\ ids # <<>>
      /\ d \in Seq(RuleType) /\ Len(d) = Len(c) - 1 /\ \A i \in 1..(Len(c) - 1) : d[i] = c[i + 1]
      /\ jds \in Seq(Handles) /\ Len(jds) = Len(ids) - 1
      /\ \A i \in 1..(Len(ids) - 1) : jds[i] = ids[i + 1]
  BY <1>0, DeleteFirst
<1> HIDE DEF d, jds, h
<1>3. /\ Len(d) = 3 /\ d[1] = c[2] /\ d[2] = c[3] /\ d[3] = c[4]
      /\ jds[1] = ids[2] /\ jds[2] = ids[3] /\ jds[3] = ids[4]
  BY <1>0, <1>2
<1>4. Remembers(d, jds)
  BY <1>0, <1>2, RemembersShortened
<1>5. f = [ep EXCEPT !.withAff = FALSE, !.ruleID = jds]
  BY DEF jds, ids
<1> HIDE DEF f
<1>6. f \in EndpointInfo /\ f.addr = ep.addr /\ f.index = ep.index /\ f.withAff = FALSE /\ f.ruleID = jds
  BY <1>2, <1>5 DEF EndpointInfo
<1>7. EndpointOK(FALSE, id, f, d)
  BY <1>1, <1>3, <1>4, <1>6 DEF EndpointOK
<1> QED BY <1>2, <1>6, <1>7 DEF f, d, h, ids

\* The endpoints f are the endpoints e, but for their rules.
SameTargets(e, f) ==
    /\ DOMAIN f = DOMAIN e
    /\ \A i \in DOMAIN e : f[i].addr = e[i].addr /\ f[i].index = e[i].index

\* Only the endpoints and their chains change from w to u.
EndpointsChange(w, u) ==
    /\ Typed(u) /\ SameTargets(w.eps, u.eps)
    /\ u.svc = w.svc /\ u.sc = w.sc /\ u.am = w.am /\ u.sets = w.sets

\* addAffinityEndpoint gives every endpoint chain its Update rule.
LEMMA AddAffinityEndpointOK ==
    ASSUME NEW w, Typed(w), NEW jd, EndpointsOK(FALSE, jd, w.eps, w.ec), NEW id \in SvcKey,
           id = SvcID(w.svc), w.am[id] # Nil
    PROVE  LET u == addAffinityEndpoint(w) IN
           EndpointsChange(w, u) /\ u.res = w.res /\ EndpointsOK(TRUE, id, u.eps, u.ec)
<1> DEFINE u == addAffinityEndpoint(w)
           ep(i) == w.eps[i]
           chain(i) == w.ec[w.eps[i].addr]
           h(i) == NewHandle(UsedHandles(chain(i), ep(i).ruleID))
           f(i) == RememberUpdateRule(ep(i), h(i))
           d(i) == <<UpdateRule(h(i), id, ep(i))>> \o chain(i)
           D == DOMAIN w.eps
           owner(a) == CHOOSE i \in D : w.eps[i].addr = a
<1>1. w.eps \in Seq(EndpointInfo) /\ w.ec \in [Addr -> Chain] /\ DOMAIN w = Fields
  BY DEF Typed
<1>2. ASSUME NEW i \in D
      PROVE  /\ ep(i) \in EndpointInfo /\ ep(i).addr \in Addr
             /\ EndpointOK(FALSE, jd, ep(i), chain(i)) /\ chain(i) # Nil
  <2>1. ep(i) \in EndpointInfo /\ ep(i).addr \in Addr
    BY <1>1, EndpointsType
  <2>2. EndpointOK(FALSE, jd, ep(i), chain(i))
    BY DEF EndpointsOK
  <2>3. Remembers(chain(i), ep(i).ruleID)
    BY <2>2 DEF EndpointOK
  <2> QED BY <2>1, <2>2, <2>3, RememberedExists
<1>3. ASSUME NEW i \in D
      PROVE  /\ f(i) \in EndpointInfo /\ f(i).addr = w.eps[i].addr /\ f(i).index = w.eps[i].index
             /\ EndpointOK(TRUE, id, f(i), d(i))
  <2> DEFINE e == ep(i)
             c == chain(i)
             k == h(i)
  <2>1. e \in EndpointInfo /\ EndpointOK(FALSE, jd, e, c) /\ k = NewHandle(UsedHandles(c, e.ruleID))
    BY <1>2
  <2> HIDE DEF e, c, k
  <2>2. /\ RememberUpdateRule(e, k) \in EndpointInfo /\ RememberUpdateRule(e, k).addr = e.addr
        /\ RememberUpdateRule(e, k).index = e.index
        /\ EndpointOK(TRUE, id, RememberUpdateRule(e, k), <<UpdateRule(k, id, e)>> \o c)
    BY <2>1, AddUpdateRule
  <2> QED BY <2>2 DEF e, c, k
<1>4. ASSUME NEW i \in D
      PROVE  owner(ep(i).addr) = i /\ d(i) \in Seq(RuleType)
  <2>1. \A k \in D : w.eps[k].addr = w.eps[i].addr => k = i
    BY DEF EndpointsOK
  <2>2. Remembers(d(i), f(i).ruleID)
    BY <1>3 DEF EndpointOK
  <2> HIDE DEF d, f
  <2> QED BY <2>1, <2>2 DEF Remembers
<1>5. /\ DOMAIN u = Fields
      /\ u.svc = w.svc /\ u.sc = w.sc /\ u.am = w.am /\ u.sets = w.sets /\ u.res = w.res
      /\ u.eps = [i \in D |-> RememberUpdateRule(w.eps[i],
                     NewHandle(UsedHandles(CreateChain(chain(i)), w.eps[i].ruleID)))]
      /\ u.ec = [a \in Addr |->
                   IF \E i \in D : w.eps[i].addr = a
                   THEN <<UpdateRule(NewHandle(UsedHandles(CreateChain(chain(owner(a))), w.eps[owner(a)].ruleID)),
                                     id, w.eps[owner(a)])>> \o CreateChain(w.ec[a])
                   ELSE w.ec[a]]
  BY <1>1 DEF addAffinityEndpoint, Fields
<1>6. \A i \in D : CreateChain(chain(i)) = chain(i)
  BY <1>2 DEF CreateChain
<1> HIDE DEF u
<1>7. u.eps = [i \in D |-> f(i)]
  BY <1>5, <1>6
<1>8. ASSUME NEW i \in D
      PROVE  u.ec[w.eps[i].addr] = d(i)
  <2> DEFINE a == w.eps[i].addr
  <2>1. a \in Addr /\ (\E k \in D : w.eps[k].addr = a) /\ owner(a) = i /\ w.ec[a] = chain(i)
    BY <1>2, <1>4
  <2>2. CreateChain(chain(i)) = chain(i)
    BY <1>6
  <2> HIDE DEF a, owner, chain
  <2>3. u.ec[a] = <<UpdateRule(NewHandle(UsedHandles(CreateChain(chain(owner(a))), w.eps[owner(a)].ruleID)),
                               id, w.eps[owner(a)])>> \o CreateChain(w.ec[a])
    BY <1>5, <2>1
  <2>4. u.ec[a] = <<UpdateRule(NewHandle(UsedHandles(chain(i), w.eps[i].ruleID)), id, w.eps[i])>> \o chain(i)
    BY <2>1, <2>2, <2>3, Zenon
  <2> QED BY <2>4 DEF a
<1>9. \A a \in Addr : ~(\E i \in D : w.eps[i].addr = a) => u.ec[a] = w.ec[a]
  BY <1>5
<1>10. u.ec \in [Addr -> Chain]
  <2>1. \A a \in Addr : u.ec[a] \in Chain
    <3> HIDE DEF d
    <3> QED BY <1>1, <1>4, <1>8, <1>9 DEF Chain
  <2>2. DOMAIN u.ec = Addr /\ u.ec = [a \in Addr |-> u.ec[a]]
    BY <1>5
  <2> QED BY <2>1, <2>2
<1> HIDE DEF f, d, h, chain, ep, owner
<1>11. u.eps \in Seq(EndpointInfo) /\ DOMAIN u.eps = D /\ \A i \in D : u.eps[i] = f(i)
  <2>1. D = 1..Len(w.eps) /\ Len(w.eps) \in Nat
    BY <1>1, LenProperties
  <2>a. \A i \in 1..Len(w.eps) : f(i) \in EndpointInfo
    BY <1>3, <2>1
  <2>b. u.eps = [i \in 1..Len(w.eps) |-> f(i)]
    BY <1>7, <2>1
  <2>2. u.eps \in [1..Len(w.eps) -> EndpointInfo]
    BY <2>a, <2>b
  <2>3. u.eps \in Seq(EndpointInfo)
    BY <2>1, <2>2, SeqDef
  <2> QED BY <1>7, <2>3
<1>12. EndpointsChange(w, u)
  <2>1. SameTargets(w.eps, u.eps)
    BY <1>3, <1>11 DEF SameTargets
  <2> QED BY <1>1, <1>5, <1>10, <1>11, <2>1 DEF EndpointsChange, Typed
<1>13. EndpointsOK(TRUE, id, u.eps, u.ec)
  <2>0. \A i \in D : u.eps[i].addr = w.eps[i].addr
    BY <1>3, <1>11
  <2>1. \A i \in D : EndpointOK(TRUE, id, u.eps[i], u.ec[u.eps[i].addr])
    BY <1>3, <1>8, <1>11
  <2>2. \A i, j \in D : u.eps[i].addr = u.eps[j].addr => i = j
    <3>1. \A i, j \in D : w.eps[i].addr = w.eps[j].addr => i = j
      BY DEF EndpointsOK
    <3> QED BY <2>0, <3>1
  <2>3. \A a \in Addr : u.ec[a] # Nil => \E i \in D : u.eps[i].addr = a
    <3>1. \A a \in Addr : w.ec[a] # Nil => \E i \in D : w.eps[i].addr = a
      BY DEF EndpointsOK
    <3> QED BY <1>9, <2>0, <3>1
  <2> QED BY <1>11, <2>1, <2>2, <2>3 DEF EndpointsOK
<1> QED BY <1>5, <1>12, <1>13 DEF u

\* deleteAffinityEndpoint takes it from every endpoint chain.
LEMMA DeleteAffinityEndpointOK ==
    ASSUME NEW w, Typed(w), NEW id, EndpointsOK(TRUE, id, w.eps, w.ec)
    PROVE  LET u == deleteAffinityEndpoint(w) IN
           EndpointsChange(w, u) /\ u.res = "ok" /\ EndpointsOK(FALSE, id, u.eps, u.ec)
<1> DEFINE u == deleteAffinityEndpoint(w)
           chain(i) == w.ec[w.eps[i].addr]
           f(i) == [w.eps[i] EXCEPT !.withAff = FALSE, !.ruleID = Tail(@)]
           d(i) == DeleteRule(chain(i), Head(w.eps[i].ruleID))
           D == DOMAIN w.eps
           owner(a) == CHOOSE i \in D : w.eps[i].addr = a
           panics(i) == w.eps[i].ruleID = <<>>
           fails(i) == panics(i) \/ ~HasRule(w.ec[w.eps[i].addr], Head(w.eps[i].ruleID))
           done(i) == \A j \in 1..i : ~fails(j)
<1>1. /\ w.eps \in Seq(EndpointInfo) /\ w.ec \in [Addr -> Chain] /\ DOMAIN w = Fields
      /\ D = 1..Len(w.eps) /\ Len(w.eps) \in Nat
  BY LenProperties DEF Typed
<1>2. ASSUME NEW i \in D
      PROVE  /\ w.eps[i].addr \in Addr /\ ~fails(i) /\ w.eps[i].ruleID # <<>>
             /\ f(i) \in EndpointInfo /\ f(i).addr = w.eps[i].addr /\ f(i).index = w.eps[i].index
             /\ EndpointOK(FALSE, id, f(i), d(i))
  <2> DEFINE e == w.eps[i]
             c == chain(i)
  <2>1. e \in EndpointInfo /\ e.addr \in Addr
    BY <1>1, EndpointsType
  <2>2. EndpointOK(TRUE, id, e, c)
    BY DEF EndpointsOK
  <2> HIDE DEF e, c
  <2>3. /\ HasRule(c, Head(e.ruleID)) /\ e.ruleID # <<>>
        /\ [e EXCEPT !.withAff = FALSE, !.ruleID = Tail(@)] \in EndpointInfo
        /\ [e EXCEPT !.withAff = FALSE, !.ruleID = Tail(@)].addr = e.addr
        /\ [e EXCEPT !.withAff = FALSE, !.ruleID = Tail(@)].index = e.index
        /\ EndpointOK(FALSE, id, [e EXCEPT !.withAff = FALSE, !.ruleID = Tail(@)], DeleteRule(c, Head(e.ruleID)))
    BY <2>1, <2>2, DropUpdateRule
  <2> QED BY <2>1, <2>3 DEF e, c
<1>3. ASSUME NEW i \in D
      PROVE  done(i)
  <2>1. \A j \in 1..i : j \in D
    BY <1>1
  <2>2. \A j \in D : ~fails(j)
    BY <1>2
  <2> HIDE DEF fails
  <2> QED BY <2>1, <2>2
<1>4. ASSUME NEW i \in D
      PROVE  owner(w.eps[i].addr) = i /\ d(i) \in Seq(RuleType)
  <2>1. \A k \in D : w.eps[k].addr = w.eps[i].addr => k = i
    BY DEF EndpointsOK
  <2>2. Remembers(d(i), f(i).ruleID)
    BY <1>2 DEF EndpointOK
  <2> HIDE DEF d, f
  <2> QED BY <2>1, <2>2 DEF Remembers
<1>5. /\ DOMAIN u = Fields
      /\ u.svc = w.svc /\ u.sc = w.sc /\ u.am = w.am /\ u.sets = w.sets
      /\ u.res = IF \A i \in D : ~fails(i) THEN "ok"
                 ELSE IF \E i \in D : panics(i) /\ \A j \in 1..(i - 1) : ~fails(j) THEN "panic"
                 ELSE "error"
      /\ u.eps = [i \in D |-> IF done(i) THEN f(i) ELSE w.eps[i]]
      /\ u.ec = [a \in Addr |->
                   IF \E i \in D : w.eps[i].addr = a /\ done(i)
                   THEN DeleteRule(w.ec[a], Head(w.eps[owner(a)].ruleID))
                   ELSE w.ec[a]]
  BY <1>1 DEF deleteAffinityEndpoint, Fields
<1> HIDE DEF u, done, fails, panics
<1>6. u.res = "ok"
  BY <1>2, <1>5
<1>7. u.eps = [i \in D |-> f(i)]
  BY <1>3, <1>5
<1>8. ASSUME NEW i \in D
      PROVE  u.ec[w.eps[i].addr] = d(i)
  <2> DEFINE a == w.eps[i].addr
  <2>1. a \in Addr /\ (\E k \in D : w.eps[k].addr = a /\ done(k)) /\ owner(a) = i /\ w.ec[a] = chain(i)
    BY <1>2, <1>3, <1>4
  <2> HIDE DEF a, owner, chain
  <2>2. u.ec[a] = DeleteRule(w.ec[a], Head(w.eps[owner(a)].ruleID))
    BY <1>5, <2>1
  <2>3. u.ec[a] = DeleteRule(chain(i), Head(w.eps[i].ruleID))
    BY <2>1, <2>2, Zenon
  <2> QED BY <2>3 DEF a
<1>9. \A a \in Addr : ~(\E i \in D : w.eps[i].addr = a) => u.ec[a] = w.ec[a]
  <2> HIDE DEF owner
  <2> QED BY <1>5
<1>10. u.ec \in [Addr -> Chain]
  <2>1. \A a \in Addr : u.ec[a] \in Chain
    <3> HIDE DEF d
    <3> QED BY <1>1, <1>4, <1>8, <1>9 DEF Chain
  <2>2. DOMAIN u.ec = Addr /\ u.ec = [a \in Addr |-> u.ec[a]]
    BY <1>5
  <2> QED BY <2>1, <2>2
<1> HIDE DEF f, d, chain, owner
<1>11. u.eps \in Seq(EndpointInfo) /\ DOMAIN u.eps = D /\ \A i \in D : u.eps[i] = f(i)
  <2>2. u.eps \in [1..Len(w.eps) -> EndpointInfo]
    <3>1. \A i \in D : f(i) \in EndpointInfo
      BY <1>2
    <3> QED BY <1>1, <1>7, <3>1
  <2>3. u.eps \in Seq(EndpointInfo)
    BY <1>1, <2>2, SeqDef
  <2> QED BY <1>7, <2>3
<1>12. EndpointsChange(w, u)
  <2>1. SameTargets(w.eps, u.eps)
    BY <1>2, <1>11 DEF SameTargets
  <2> QED BY <1>1, <1>5, <1>10, <1>11, <2>1 DEF EndpointsChange, Typed
<1>13. EndpointsOK(FALSE, id, u.eps, u.ec)
  <2>0. \A i \in D : u.eps[i].addr = w.eps[i].addr
    BY <1>2, <1>11
  <2>1. \A i \in D : EndpointOK(FALSE, id, u.eps[i], u.ec[u.eps[i].addr])
    BY <1>2, <1>8, <1>11
  <2>2. \A i, j \in D : u.eps[i].addr = u.eps[j].addr => i = j
    <3>1. \A i, j \in D : w.eps[i].addr = w.eps[j].addr => i = j
      BY DEF EndpointsOK
    <3> QED BY <2>0, <3>1
  <2>3. \A a \in Addr : u.ec[a] # Nil => \E i \in D : u.eps[i].addr = a
    <3>1. \A a \in Addr : w.ec[a] # Nil => \E i \in D : w.eps[i].addr = a
      BY DEF EndpointsOK
    <3> QED BY <1>9, <2>0, <3>1
  <2> QED BY <1>11, <2>1, <2>2, <2>3 DEF EndpointsOK
<1> QED BY <1>6, <1>12, <1>13 DEF u

\* What the load balancer and MatchAct rules say depends on the addresses and
\* indices only, so a service chain outlives a change of the endpoint rules.
LEMMA SameTargetsChain ==
    ASSUME NEW e \in Seq(EndpointInfo), NEW f \in Seq(EndpointInfo), SameTargets(e, f)
    PROVE  /\ Targets(f) = Targets(e) /\ ActElement(f) = ActElement(e)
           /\ f = <<>> <=> e = <<>>
           /\ AddrsOf(f) = AddrsOf(e)
           /\ \A h : LoadBalanceRule(h, f) = LoadBalanceRule(h, e)
           /\ \A h, id : MatchActRule(h, id, f) = MatchActRule(h, id, e)
           /\ \A svc, c : ChainOK(svc, e, c) => ChainOK(svc, f, c)
<1>1. Targets(f) = Targets(e)
  BY DEF SameTargets, Targets
<1>2. ActElement(f) = ActElement(e)
  BY DEF SameTargets, ActElement
<1>3. f = <<>> <=> e = <<>>
  <2>1. Len(f) = Len(e)
    BY LenProperties DEF SameTargets
  <2> QED BY <2>1, EmptySeq
<1>4. /\ \A h : LoadBalanceRule(h, f) = LoadBalanceRule(h, e)
      /\ \A h, id : MatchActRule(h, id, f) = MatchActRule(h, id, e)
  BY <1>1, <1>2 DEF LoadBalanceRule, MatchActRule
<1>5. AddrsOf(f) = AddrsOf(e)
  BY DEF SameTargets, AddrsOf
<1> QED BY <1>1, <1>2, <1>3, <1>4, <1>5 DEF ChainOK

\* The chains the load balancer jumps to exist.
LEMMA EndpointChainsExist ==
    ASSUME NEW w, NEW aff, NEW id, EndpointsOK(aff, id, w.eps, w.ec)
    PROVE  TargetsExist(w)
<1>1. ASSUME NEW i \in DOMAIN w.eps
      PROVE  w.ec[w.eps[i].addr] # Nil
  <2>1. Remembers(w.ec[w.eps[i].addr], w.eps[i].ruleID)
    BY DEF EndpointsOK, EndpointOK
  <2> QED BY <2>1, RememberedExists
<1> QED BY <1>1 DEF TargetsExist

(***************************************************************************)
(* Taking PortOK apart and putting it together.                            *)
(***************************************************************************)
\* What PortOK says of a service port that is in serviceMap.
LEMMA PortKnown ==
    ASSUME NEW w, PortOK(w), w.svc # Nil
    PROVE  LET id == SvcID(w.svc) IN
           /\ Typed(w) /\ w.svc \in ServiceInfo /\ id \in SvcKey
           /\ w.svc.ruleID \in Seq(Handles) /\ w.svc.withAff \in BOOLEAN
           /\ ChainOK(w.svc, w.eps, w.sc[id])
           /\ w.svc.withEP <=> w.eps # <<>>
           /\ EndpointsOK(w.svc.withAff, id, w.eps, w.ec)
           /\ \A k \in SvcKey : k # id => w.sc[k] = Nil /\ w.am[k] = Nil
           /\ w.am[id] # Nil <=> w.svc.withAff
<1>1. Typed(w) /\ w.svc \in ServiceInfo
  BY DEF PortOK, Typed
<1>2. SvcID(w.svc) \in SvcKey /\ w.svc.ruleID \in Seq(Handles) /\ w.svc.withAff \in BOOLEAN
  BY <1>1, SvcIDType
<1>3. HasAff(w.svc) = w.svc.withAff
  BY <1>2 DEF HasAff
<1>4. /\ ChainOK(w.svc, w.eps, w.sc[SvcID(w.svc)]) /\ (w.svc.withEP <=> w.eps # <<>>)
      /\ EndpointsOK(HasAff(w.svc), SvcID(w.svc), w.eps, w.ec)
  BY DEF PortOK
<1>5. /\ \A k \in SvcKey : k # SvcID(w.svc) => w.sc[k] = Nil /\ w.am[k] = Nil
      /\ w.am[SvcID(w.svc)] # Nil <=> w.svc.withAff
  BY <1>2 DEF PortOK
<1> QED BY <1>1, <1>2, <1>3, <1>4, <1>5

\* And how to show it.
LEMMA PortKnownOK ==
    ASSUME NEW w, Typed(w), w.svc \in ServiceInfo, NEW id, id = SvcID(w.svc),
           ChainOK(w.svc, w.eps, w.sc[id]), w.svc.withEP <=> w.eps # <<>>,
           EndpointsOK(w.svc.withAff, id, w.eps, w.ec),
           \A k \in SvcKey : k # id => w.sc[k] = Nil /\ w.am[k] = Nil,
           w.am[id] # Nil <=> w.svc.withAff
    PROVE  PortOK(w)
<1>1. w.svc # Nil /\ w.svc.withAff \in BOOLEAN
  BY SvcIDType
<1>2. HasAff(w.svc) = w.svc.withAff
  BY <1>1 DEF HasAff
<1>3. EndpointsOK(HasAff(w.svc), id, w.eps, w.ec)
  BY <1>2
<1>4. /\ \A k \in SvcKey : w.sc[k] # Nil => w.svc # Nil /\ SvcID(w.svc) = k
      /\ \A k \in SvcKey : w.am[k] # Nil <=> w.svc # Nil /\ SvcID(w.svc) = k /\ w.svc.withAff
  BY <1>1
<1> QED BY <1>1, <1>3, <1>4 DEF PortOK

\* A service port that is not in serviceMap.
LEMMA PortUnknown ==
    ASSUME NEW w, w.svc = Nil
    PROVE  PortOK(w) <=> /\ Typed(w)
                         /\ EndpointsOK(FALSE, SvcID(w.svc), w.eps, w.ec)
                         /\ \A k \in SvcKey : w.sc[k] = Nil /\ w.am[k] = Nil
<1>1. HasAff(w.svc) = FALSE
  BY DEF HasAff
<1> QED BY <1>1 DEF PortOK

(***************************************************************************)
(* processAffinityChange.                                                  *)
(***************************************************************************)
\* A new affinity map.
LEMMA AddAffinityMapTyped ==
    ASSUME NEW w, Typed(w), NEW id \in SvcKey, NEW t \in Timeout \cup {0}, w.am[id] = Nil
    PROVE  LET u == AddServiceAffinityMap(w, id, t) IN
           /\ Typed(u) /\ u.svc = w.svc /\ u.eps = w.eps /\ u.sc = w.sc /\ u.ec = w.ec
           /\ u.sets = w.sets /\ u.res = w.res
           /\ u.am[id] # Nil /\ \A k \in SvcKey : k # id => u.am[k] = w.am[k]
<1> DEFINE u == AddServiceAffinityMap(w, id, t)
<1>0. w.am \in [SvcKey -> Timeout \cup {0, Nil}]
  BY DEF Typed
<1>1. /\ DOMAIN u = Fields /\ u.svc = w.svc /\ u.eps = w.eps /\ u.sc = w.sc /\ u.ec = w.ec
      /\ u.sets = w.sets /\ u.res = w.res /\ u.am = [w.am EXCEPT ![id] = t]
  BY DEF AddServiceAffinityMap, Typed, Fields
<1> HIDE DEF u
<1>2. /\ u.am \in [SvcKey -> Timeout \cup {0, Nil}] /\ u.am[id] = t
      /\ \A k \in SvcKey : k # id => u.am[k] = w.am[k]
  BY <1>0, <1>1
<1>3. t # Nil
  BY NftAssumption
<1>4. Typed(u)
  BY <1>1, <1>2 DEF Typed
<1> QED BY <1>1, <1>2, <1>3, <1>4 DEF u

\* The flag that says whether the service port has affinity changes.
MarkAffinity(w, b) == [w EXCEPT !.svc.withAff = b]

\* Nothing else changes with it.
LEMMA MarkAffinityTyped ==
    ASSUME NEW w, Typed(w), w.svc \in ServiceInfo, NEW b \in BOOLEAN, NEW u, u = MarkAffinity(w, b)
    PROVE  /\ Typed(u) /\ u.svc \in ServiceInfo /\ SvcID(u.svc) = SvcID(w.svc)
           /\ u.svc.withAff = b /\ u.svc.ruleID = w.svc.ruleID /\ u.svc.withEP = w.svc.withEP
           /\ u.eps = w.eps /\ u.sc = w.sc /\ u.ec = w.ec /\ u.am = w.am /\ u.sets = w.sets
           /\ u.res = w.res
<1>1. /\ DOMAIN u = Fields /\ u.svc = [w.svc EXCEPT !.withAff = b]
      /\ u.eps = w.eps /\ u.sc = w.sc /\ u.ec = w.ec /\ u.am = w.am /\ u.sets = w.sets
      /\ u.res = w.res
  BY DEF MarkAffinity, Typed, Fields
<1>2. /\ u.svc \in ServiceInfo /\ u.svc.ip = w.svc.ip /\ u.svc.port = w.svc.port
      /\ u.svc.withAff = b /\ u.svc.ruleID = w.svc.ruleID /\ u.svc.withEP = w.svc.withEP
  BY <1>1 DEF ServiceInfo
<1>3. SvcID(u.svc) = SvcID(w.svc)
  BY <1>2 DEF SvcID
<1>4. Typed(u)
  BY <1>1, <1>2 DEF Typed
<1> QED BY <1>1, <1>2, <1>3, <1>4

\* Session affinity is added to a service port that has endpoints.
LEMMA AddAffinityOK ==
    ASSUME NEW w, PortOK(w), w.svc # Nil, ~w.svc.withAff, w.eps # <<>>, w.res = "ok"
    PROVE  /\ PortOK(addAffinity(w)) /\ addAffinity(w).res = "ok" /\ addAffinity(w).sets = w.sets
           /\ Effect(addAffinity(w), TRUE, TRUE, AddrsOf(w.eps))
<1> DEFINE id  == SvcID(w.svc)
           w1  == AddServiceAffinityMap(w, id, w.svc.maxAge)
           c   == w.sc[id]
           ids == w.svc.ruleID
           h   == NewHandle(UsedHandles(c, ids))
           r   == MatchActRule(h, id, w.eps)
           d   == InsertBefore(c, ids[2], r)
           jds == InsertAt(ids, 2, h)
           w2  == WithRules(w1, d, jds)
           w3  == addAffinityEndpoint(w2)
           u   == [w3 EXCEPT !.svc.withAff = TRUE]
<1>1. /\ Typed(w) /\ w.svc \in ServiceInfo /\ id \in SvcKey /\ ids \in Seq(Handles)
      /\ ChainOK(w.svc, w.eps, c) /\ w.svc.withEP
      /\ EndpointsOK(FALSE, id, w.eps, w.ec)
      /\ \A k \in SvcKey : k # id => w.sc[k] = Nil /\ w.am[k] = Nil
      /\ w.am[id] = Nil
  <2>1. w.svc.withAff = FALSE
    BY PortKnown
  <2> QED BY <2>1, PortKnown
<1>2. /\ Remembers(c, ids) /\ Len(c) = 2 /\ c[1] = CounterRule(ids[1])
      /\ c[2] = LoadBalanceRule(ids[2], w.eps)
  BY <1>1 DEF ChainOK
<1>3. c # Nil /\ Len(ids) = 2 /\ 2 \in 1..Len(ids) /\ ~(Len(ids) < 2) /\ Len(ids) <= 3
  <2>1. c # Nil
    BY <1>2, RememberedExists
  <2> HIDE DEF c, ids
  <2>2. Len(ids) = 2
    BY <1>2 DEF Remembers
  <2> QED BY <2>1, <2>2
<1>4. h \in Handles /\ \A i \in 1..Len(ids) : h # ids[i]
  BY <1>2, FreshRemembered DEF UsedHandles
<1>5. r \in RuleType /\ r.h = h
  BY <1>1, <1>4, RuleTypes, RuleHandles DEF Typed
<1>6. HasRule(c, ids[2]) /\ TargetsExist(w)
  BY <1>1, <1>2, <1>3, PositionRemembered, EndpointChainsExist
<1>7. addAffinity(w) = u
  BY <1>1, <1>3, <1>6 DEF addAffinity
<1>8. /\ Typed(w1) /\ w1.svc = w.svc /\ w1.eps = w.eps /\ w1.sc = w.sc /\ w1.ec = w.ec
      /\ w1.sets = w.sets /\ w1.res = w.res
      /\ w1.am[id] # Nil /\ \A k \in SvcKey : k # id => w1.am[k] = w.am[k]
  <2>1. w.svc.maxAge \in Timeout \cup {0}
    BY <1>1 DEF ServiceInfo
  <2> QED BY <1>1, <2>1, AddAffinityMapTyped
<1> HIDE DEF w1, c, ids, h, r, id
<1>9. /\ Remembers(d, jds) /\ Len(d) = Len(c) + 1
      /\ \A i \in 1..(Len(c) + 1) : d[i] = IF i < 2 THEN c[i] ELSE IF i = 2 THEN r ELSE c[i - 1]
  <2>1. 2 \in 1..Len(ids) /\ Len(ids) <= 3 /\ \A i \in 1..Len(ids) : r.h # ids[i]
    BY <1>3, <1>4, <1>5
  <2>2. /\ Remembers(InsertBefore(c, ids[2], r), InsertAt(ids, 2, r.h))
        /\ Len(InsertBefore(c, ids[2], r)) = Len(c) + 1
        /\ \A i \in 1..(Len(c) + 1) :
              InsertBefore(c, ids[2], r)[i] = IF i < 2 THEN c[i] ELSE IF i = 2 THEN r ELSE c[i - 1]
    <3>1. Remembers(c, ids) /\ c # Nil /\ r \in RuleType
      BY <1>2, <1>3, <1>5
    <3> QED BY <2>1, <3>1, InsertRemembers
  <2> QED BY <1>5, <2>2
<1>10. /\ jds \in Seq(Handles)
       /\ \A i \in 1..(Len(ids) + 1) : jds[i] = IF i < 2 THEN ids[i] ELSE IF i = 2 THEN h ELSE ids[i - 1]
  <2>1. ids \in Seq(Handles) /\ 2 \in 1..Len(ids) /\ h \in Handles
    BY <1>1, <1>3, <1>4
  <2>2. ASSUME NEW s \in Seq(Handles), NEW e \in Handles, 2 \in 1..Len(s)
        PROVE  /\ InsertAt(s, 2, e) \in Seq(Handles)
               /\ \A i \in 1..(Len(s) + 1) :
                     InsertAt(s, 2, e)[i] = IF i < 2 THEN s[i] ELSE IF i = 2 THEN e ELSE s[i - 1]
    BY <2>2, InsertAtProperties
  <2> QED BY <2>1, <2>2, Zenon
<1> HIDE DEF d, jds
<1>11. /\ Len(d) = 3 /\ d[1] = c[1] /\ d[2] = r /\ d[3] = c[2]
       /\ jds[1] = ids[1] /\ jds[2] = h /\ jds[3] = ids[2] /\ d \in Seq(RuleType)
  <2>1. Len(d) = 3 /\ d[1] = c[1] /\ d[2] = r /\ d[3] = c[2]
    BY <1>2, <1>9
  <2>2. jds[1] = ids[1] /\ jds[2] = h /\ jds[3] = ids[2]
    BY <1>3, <1>10
  <2> QED BY <1>9, <2>1, <2>2 DEF Remembers
<1>12. Refit(w1, w2) /\ w2.sc[id] = d /\ w2.svc.ruleID = jds /\ w2.res = "ok"
  <2>1. w1.svc \in ServiceInfo /\ SvcID(w1.svc) = id
    BY <1>1, <1>8 DEF id
  <2> QED BY <1>8, <1>10, <1>11, <2>1, WithRulesRefit
<1> HIDE DEF w2
<1>13. /\ Typed(w2) /\ w2.svc \in ServiceInfo /\ SvcID(w2.svc) = id /\ w2.svc.withEP
       /\ w2.eps = w.eps /\ w2.ec = w.ec /\ w2.am = w1.am /\ w2.sets = w.sets
       /\ \A k \in SvcKey : k # id => w2.sc[k] = Nil
  BY <1>1, <1>8, <1>12 DEF Refit, id
<1>14. EndpointsChange(w2, w3) /\ w3.res = "ok" /\ EndpointsOK(TRUE, id, w3.eps, w3.ec)
  BY <1>1, <1>8, <1>12, <1>13, AddAffinityEndpointOK
<1> HIDE DEF w3
<1>15. /\ Typed(w3) /\ SameTargets(w.eps, w3.eps) /\ w3.svc = w2.svc /\ w3.sc = w2.sc
       /\ w3.am = w1.am /\ w3.sets = w.sets
  BY <1>13, <1>14 DEF EndpointsChange
<1>16. /\ Typed(u) /\ u.svc \in ServiceInfo /\ SvcID(u.svc) = id
       /\ u.svc.withAff = TRUE /\ u.svc.ruleID = jds /\ u.svc.withEP
       /\ u.eps = w3.eps /\ u.sc = w2.sc /\ u.ec = w3.ec /\ u.am = w1.am /\ u.sets = w.sets
       /\ u.res = "ok"
  <2> DEFINE yes == TRUE
  <2>1. Typed(w3) /\ w3.svc \in ServiceInfo /\ yes \in BOOLEAN /\ u = MarkAffinity(w3, yes)
    BY <1>13, <1>15 DEF MarkAffinity
  <2> HIDE DEF u, yes
  <2>2. /\ Typed(u) /\ u.svc \in ServiceInfo /\ SvcID(u.svc) = SvcID(w3.svc)
        /\ u.svc.withAff = yes /\ u.svc.ruleID = w3.svc.ruleID /\ u.svc.withEP = w3.svc.withEP
        /\ u.eps = w3.eps /\ u.sc = w3.sc /\ u.ec = w3.ec /\ u.am = w3.am /\ u.sets = w3.sets
        /\ u.res = w3.res
    BY <2>1, MarkAffinityTyped
  <2> QED BY <1>12, <1>13, <1>14, <1>15, <2>2 DEF yes
<1> HIDE DEF u
<1>17. ChainOK(u.svc, w.eps, d)
  <2>1. d[1] = CounterRule(jds[1]) /\ d[2] = MatchActRule(jds[2], id, w.eps) /\ d[3] = LoadBalanceRule(jds[3], w.eps)
    BY <1>2, <1>11 DEF r
  <2> QED BY <1>9, <1>11, <1>16, <2>1 DEF ChainOK
<1>18. ChainOK(u.svc, u.eps, u.sc[id]) /\ u.eps # <<>>
  <2>1. w.eps \in Seq(EndpointInfo) /\ w3.eps \in Seq(EndpointInfo)
    BY <1>1, <1>15 DEF Typed
  <2> QED BY <1>12, <1>15, <1>16, <1>17, <2>1, SameTargetsChain
<1>19. PortOK(u)
  <2>1. EndpointsOK(u.svc.withAff, id, u.eps, u.ec)
    BY <1>14, <1>16
  <2>2. /\ \A k \in SvcKey : k # id => u.sc[k] = Nil /\ u.am[k] = Nil
        /\ u.am[id] # Nil
    BY <1>1, <1>8, <1>13, <1>16
  <2> QED BY <1>16, <1>18, <2>1, <2>2, PortKnownOK
<1>20. Effect(u, TRUE, TRUE, AddrsOf(w.eps))
  <2>1. w.eps \in Seq(EndpointInfo) /\ w3.eps \in Seq(EndpointInfo)
    BY <1>1, <1>15 DEF Typed
  <2>2. AddrsOf(u.eps) = AddrsOf(w.eps)
    BY <1>15, <1>16, <2>1, SameTargetsChain
  <2>3. u.svc # Nil /\ HasAff(u.svc)
    BY <1>16, SvcIDType DEF HasAff
  <2> QED BY <2>2, <2>3 DEF Effect
<1> QED BY <1>7, <1>16, <1>19, <1>20

\* The rules of a service chain change.
WithChain(w, id, c) == [w EXCEPT !.sc[id] = c]

\* Nothing else changes with them.
LEMMA WithChainTyped ==
    ASSUME NEW w, Typed(w), NEW id \in SvcKey, NEW c \in Chain, NEW u, u = WithChain(w, id, c)
    PROVE  /\ Typed(u) /\ u.svc = w.svc /\ u.eps = w.eps /\ u.ec = w.ec /\ u.am = w.am
           /\ u.sets = w.sets /\ u.res = w.res
           /\ u.sc[id] = c /\ \A k \in SvcKey : k # id => u.sc[k] = w.sc[k]
<1>0. w.sc \in [SvcKey -> Chain]
  BY DEF Typed
<1>1. /\ DOMAIN u = Fields /\ u.svc = w.svc /\ u.eps = w.eps /\ u.ec = w.ec /\ u.am = w.am
      /\ u.sets = w.sets /\ u.res = w.res /\ u.sc = [w.sc EXCEPT ![id] = c]
  BY DEF WithChain, Typed, Fields
<1>2. u.sc \in [SvcKey -> Chain] /\ u.sc[id] = c /\ \A k \in SvcKey : k # id => u.sc[k] = w.sc[k]
  BY <1>0, <1>1
<1>3. Typed(u)
  BY <1>1, <1>2 DEF Typed
<1> QED BY <1>1, <1>2, <1>3

\* The remembered identifiers change.
WithRuleID(w, ids) == [w EXCEPT !.svc.ruleID = ids]

\* Nothing else changes with them.
LEMMA WithRuleIDTyped ==
    ASSUME NEW w, Typed(w), w.svc \in ServiceInfo, NEW ids \in Seq(Handles), NEW u, u = WithRuleID(w, ids)
    PROVE  /\ Typed(u) /\ u.svc \in ServiceInfo /\ SvcID(u.svc) = SvcID(w.svc)
           /\ u.svc.withAff = w.svc.withAff /\ u.svc.ruleID = ids /\ u.svc.withEP = w.svc.withEP
           /\ u.eps = w.eps /\ u.sc = w.sc /\ u.ec = w.ec /\ u.am = w.am /\ u.sets = w.sets
           /\ u.res = w.res
<1>1. /\ DOMAIN u = Fields /\ u.svc = [w.svc EXCEPT !.ruleID = ids]
      /\ u.eps = w.eps /\ u.sc = w.sc /\ u.ec = w.ec /\ u.am = w.am /\ u.sets = w.sets
      /\ u.res = w.res
  BY DEF WithRuleID, Typed, Fields
<1>2. /\ u.svc \in ServiceInfo /\ u.svc.ip = w.svc.ip /\ u.svc.port = w.svc.port
      /\ u.svc.withAff = w.svc.withAff /\ u.svc.ruleID = ids /\ u.svc.withEP = w.svc.withEP
  BY <1>1 DEF ServiceInfo
<1>3. SvcID(u.svc) = SvcID(w.svc)
  BY <1>2 DEF SvcID
<1>4. Typed(u)
  BY <1>1, <1>2 DEF Typed
<1> QED BY <1>1, <1>2, <1>3, <1>4

\* Once the Update rules and the MatchAct rule are gone nothing refers to the
\* affinity map.
LEMMA MapFree ==
    ASSUME NEW w, NEW id \in SvcKey, NEW jd, EndpointsOK(FALSE, jd, w.eps, w.ec),
           \A k \in SvcKey : w.sc[k] = Nil \/ \A i \in DOMAIN w.sc[k] : w.sc[k][i].map # id
    PROVE  ~MapBusy(w, id)
<1>1. \A k \in SvcKey : ~RefersTo(w.sc[k], id)
  BY DEF RefersTo
<1>2. ASSUME NEW a \in Addr, w.ec[a] # Nil
      PROVE  \A i \in DOMAIN w.ec[a] : w.ec[a][i].map # id
  <2>1. PICK n \in DOMAIN w.eps : w.eps[n].addr = a
    BY <1>2 DEF EndpointsOK
  <2> DEFINE c == w.ec[a]
             ids == w.eps[n].ruleID
  <2>2. EndpointOK(FALSE, jd, w.eps[n], c)
    BY <2>1 DEF EndpointsOK
  <2>3. /\ Len(c) = 3 /\ c \in Seq(RuleType) /\ c[1] = PlainRule(ids[1], "counter")
        /\ c[2] = PlainRule(ids[2], "masq") /\ c[3] = PlainRule(ids[3], "dnat")
    BY <2>2 DEF EndpointOK, Remembers
  <2> HIDE DEF c, ids
  <2>4. DOMAIN c = {1, 2, 3}
    BY <2>3, LenProperties
  <2>5. c[1].map = Nil /\ c[2].map = Nil /\ c[3].map = Nil
    BY <2>3 DEF PlainRule, Rule
  <2>6. \A i \in DOMAIN c : c[i].map = Nil
    BY <2>4, <2>5
  <2> QED BY <2>6, NilAssumption DEF c
<1>3. \A a \in Addr : ~RefersTo(w.ec[a], id)
  BY <1>2 DEF RefersTo
<1> QED BY <1>1, <1>3 DEF MapBusy

\* The affinity map is deleted.
LEMMA DeleteMapTyped ==
    ASSUME NEW w, Typed(w), NEW id \in SvcKey, w.am[id] # Nil, ~MapBusy(w, id)
    PROVE  LET u == DeleteServiceAffinityMap(w, id) IN
           /\ Typed(u) /\ u.svc = w.svc /\ u.eps = w.eps /\ u.sc = w.sc /\ u.ec = w.ec
           /\ u.sets = w.sets /\ u.res = w.res
           /\ u.am[id] = Nil /\ \A k \in SvcKey : k # id => u.am[k] = w.am[k]
<1> DEFINE u == DeleteServiceAffinityMap(w, id)
<1>0. w.am \in [SvcKey -> Timeout \cup {0, Nil}]
  BY DEF Typed
<1>1. /\ DOMAIN u = Fields /\ u.svc = w.svc /\ u.eps = w.eps /\ u.sc = w.sc /\ u.ec = w.ec
      /\ u.sets = w.sets /\ u.res = w.res /\ u.am = [w.am EXCEPT ![id] = Nil]
  BY DEF DeleteServiceAffinityMap, Typed, Fields
<1> HIDE DEF u
<1>2. /\ u.am \in [SvcKey -> Timeout \cup {0, Nil}] /\ u.am[id] = Nil
      /\ \A k \in SvcKey : k # id => u.am[k] = w.am[k]
  BY <1>0, <1>1
<1>4. Typed(u)
  BY <1>1, <1>2 DEF Typed
<1> QED BY <1>1, <1>2, <1>4 DEF u

\* A service chain without MatchAct rule does not refer to the affinity map.
LEMMA PlainChainFree ==
    ASSUME NEW svc, NEW eps, NEW c, NEW id \in SvcKey, ChainOK(svc, eps, c), ~svc.withAff
    PROVE  \A i \in DOMAIN c : c[i].map # id
<1>1. c \in Seq(RuleType) /\ (Len(c) = 0 \/ (Len(c) = 2 /\ c[1].map = Nil /\ c[2].map = Nil))
  BY DEF ChainOK, Remembers, CounterRule, LoadBalanceRule, Rule
<1>2. DOMAIN c = 1..Len(c)
  BY <1>1, LenProperties
<1>3. CASE Len(c) = 0
  BY <1>2, <1>3
<1>4. CASE Len(c) = 2 /\ c[1].map = Nil /\ c[2].map = Nil
  <2>1. DOMAIN c = {1, 2}
    BY <1>2, <1>4
  <2> QED BY <1>4, <2>1, NilAssumption
<1> QED BY <1>1, <1>3, <1>4

\* Session affinity is removed from a service port, with or without endpoints.
LEMMA RemoveAffinityOK ==
    ASSUME NEW w, PortOK(w), w.svc # Nil, w.svc.withAff, w.res = "ok"
    PROVE  /\ PortOK(removeAffinity(w)) /\ removeAffinity(w).res = "ok" /\ removeAffinity(w).sets = w.sets
           /\ Effect(removeAffinity(w), TRUE, FALSE, AddrsOf(w.eps))
<1> DEFINE id  == SvcID(w.svc)
           c   == w.sc[id]
           ids == w.svc.ruleID
           d   == DeleteRule(c, ids[2])
           jds == RemoveAt(ids, 2)
           w1  == WithChain(w, id, d)
           w2  == deleteAffinityEndpoint(w1)
           w3  == IF w.svc.withEP THEN WithRuleID(w2, jds) ELSE w
           w4  == DeleteServiceAffinityMap(w3, id)
           no  == FALSE
           u   == MarkAffinity(w4, no)
           \* The state before the affinity map is deleted.
           Ready(v) == /\ Typed(v) /\ v.svc \in ServiceInfo /\ SvcID(v.svc) = id /\ v.res = "ok"
                       /\ v.svc.withEP = w.svc.withEP /\ (v.eps = <<>> <=> w.eps = <<>>)
                       /\ AddrsOf(v.eps) = AddrsOf(w.eps)
                       /\ v.am = w.am /\ v.sets = w.sets
                       /\ EndpointsOK(FALSE, id, v.eps, v.ec)
                       /\ \A svc : svc.ruleID = v.svc.ruleID /\ ~svc.withAff =>
                             ChainOK(svc, v.eps, v.sc[id])
                       /\ \A k \in SvcKey : k # id => v.sc[k] = Nil
<1>1. /\ Typed(w) /\ w.svc \in ServiceInfo /\ id \in SvcKey /\ ids \in Seq(Handles)
      /\ ChainOK(w.svc, w.eps, c) /\ (w.svc.withEP <=> w.eps # <<>>)
      /\ EndpointsOK(TRUE, id, w.eps, w.ec)
      /\ \A k \in SvcKey : k # id => w.sc[k] = Nil /\ w.am[k] = Nil
      /\ w.am[id] # Nil
  <2>1. w.svc.withAff = TRUE
    BY PortKnown
  <2> QED BY <2>1, PortKnown
<1>2. ASSUME w.eps # <<>>
      PROVE  Ready(w3) /\ (w.svc.withEP => ~(Len(ids) < 2) /\ HasRule(c, ids[2]) /\ w2.res = "ok")
  <2>1. /\ Remembers(c, ids) /\ Len(c) = 3 /\ c[1] = CounterRule(ids[1])
        /\ c[3] = LoadBalanceRule(ids[3], w.eps)
    BY <1>1, <1>2 DEF ChainOK
  <2>2. c # Nil /\ Len(ids) = 3 /\ 2 \in 1..Len(ids) /\ ~(Len(ids) < 2)
    <3>1. c # Nil
      BY <2>1, RememberedExists
    <3> HIDE DEF c, ids
    <3>2. Len(ids) = 3
      BY <2>1 DEF Remembers
    <3> QED BY <3>1, <3>2
  <2>3. HasRule(c, ids[2])
    BY <2>1, <2>2, PositionRemembered
  <2> HIDE DEF c, ids
  <2>4. /\ Remembers(d, jds) /\ Len(d) = Len(c) - 1
        /\ \A i \in 1..(Len(c) - 1) : d[i] = IF i < 2 THEN c[i] ELSE c[i + 1]
    <3>1. Remembers(c, ids) /\ c # Nil /\ 2 \in 1..Len(ids)
      BY <2>1, <2>2
    <3> QED BY <3>1, DeleteRemembers
  <2>5. \A i \in 1..(Len(ids) - 1) : jds[i] = IF i < 2 THEN ids[i] ELSE ids[i + 1]
    <3>1. ids \in Seq(Handles) /\ 2 \in 1..Len(ids)
      BY <1>1, <2>2
    <3> QED BY <3>1, RemoveAtProperties
  <2> HIDE DEF d, jds
  <2>6. Len(d) = 2 /\ d[1] = c[1] /\ d[2] = c[3] /\ jds[1] = ids[1] /\ jds[2] = ids[3]
    <3>1. Len(d) = 2 /\ d[1] = c[1] /\ d[2] = c[3]
      BY <2>1, <2>4
    <3>2. jds[1] = ids[1] /\ jds[2] = ids[3]
      BY <2>2, <2>5
    <3> QED BY <3>1, <3>2
  <2>7. d \in Chain /\ jds \in Seq(Handles)
    BY <2>4 DEF Remembers, Chain
  <2>8. /\ Typed(w1) /\ w1.svc = w.svc /\ w1.eps = w.eps /\ w1.ec = w.ec /\ w1.am = w.am
        /\ w1.sets = w.sets /\ w1.res = w.res
        /\ w1.sc[id] = d /\ \A k \in SvcKey : k # id => w1.sc[k] = w.sc[k]
    BY <1>1, <2>7, WithChainTyped
  <2> HIDE DEF w1
  <2>9. EndpointsChange(w1, w2) /\ w2.res = "ok" /\ EndpointsOK(FALSE, id, w2.eps, w2.ec)
    BY <1>1, <2>8, DeleteAffinityEndpointOK
  <2> HIDE DEF w2
  <2>10. Typed(w2) /\ w2.svc = w.svc /\ w2.sc = w1.sc /\ w2.am = w.am /\ w2.sets = w.sets
         /\ SameTargets(w.eps, w2.eps)
    BY <2>8, <2>9 DEF EndpointsChange
  <2> DEFINE v == WithRuleID(w2, jds)
  <2>11. /\ Typed(v) /\ v.svc \in ServiceInfo /\ SvcID(v.svc) = SvcID(w2.svc)
         /\ v.svc.withAff = w2.svc.withAff /\ v.svc.ruleID = jds /\ v.svc.withEP = w2.svc.withEP
         /\ v.eps = w2.eps /\ v.sc = w2.sc /\ v.ec = w2.ec /\ v.am = w2.am /\ v.sets = w2.sets
         /\ v.res = w2.res
    BY <1>1, <2>7, <2>10, WithRuleIDTyped
  <2> HIDE DEF v
  <2>12. w3 = v
    BY <1>1, <1>2 DEF v
  <2> HIDE DEF w3
  <2>13. ASSUME NEW svc, svc.ruleID = jds, ~svc.withAff
         PROVE  ChainOK(svc, w2.eps, d)
    <3>1. ChainOK(svc, w.eps, d)
      BY <1>2, <2>1, <2>4, <2>6, <2>13 DEF ChainOK
    <3>2. w.eps \in Seq(EndpointInfo) /\ w2.eps \in Seq(EndpointInfo)
      BY <1>1, <2>10 DEF Typed
    <3> QED BY <2>10, <3>1, <3>2, SameTargetsChain
  <2>14. (w2.eps = <<>> <=> w.eps = <<>>) /\ AddrsOf(w2.eps) = AddrsOf(w.eps)
    <3>2. w.eps \in Seq(EndpointInfo) /\ w2.eps \in Seq(EndpointInfo)
      BY <1>1, <2>10 DEF Typed
    <3> QED BY <2>10, <3>2, SameTargetsChain
  <2>15. Ready(w3)
    BY <1>1, <2>8, <2>9, <2>10, <2>11, <2>12, <2>13, <2>14
  <2>16. w.svc.withEP => ~(Len(ids) < 2) /\ HasRule(c, ids[2]) /\ w2.res = "ok"
    BY <2>2, <2>3, <2>9
  <2> QED BY <2>15, <2>16
<1>3. ASSUME w.eps = <<>>
      PROVE  Ready(w3) /\ (w.svc.withEP => ~(Len(ids) < 2) /\ HasRule(c, ids[2]) /\ w2.res = "ok")
  <2>1. w3 = w /\ ~w.svc.withEP
    BY <1>1, <1>3
  <2>2. Remembers(c, ids) /\ Len(c) = 0
    BY <1>1, <1>3 DEF ChainOK
  <2>3. ASSUME NEW svc, svc.ruleID = ids, ~svc.withAff
        PROVE  ChainOK(svc, w.eps, c)
    BY <1>3, <2>2, <2>3 DEF ChainOK
  <2>4. EndpointsOK(FALSE, id, w.eps, w.ec)
    BY <1>1, <1>3 DEF EndpointsOK
  <2>5. Ready(w)
    BY <1>1, <2>3, <2>4
  <2> QED BY <2>1, <2>5
<1>4. Ready(w3) /\ (w.svc.withEP => ~(Len(ids) < 2) /\ HasRule(c, ids[2]) /\ w2.res = "ok")
  BY <1>2, <1>3
<1>5. removeAffinity(w) = IF w4.res # "ok" THEN w4 ELSE u
  <2>1. ~(w.svc.withEP /\ (Len(ids) < 2 \/ ~HasRule(c, ids[2]))) /\ ~(w.svc.withEP /\ w2.res # "ok")
    BY <1>4
  <2>2. w.svc.withEP => w2.svc.ruleID = ids
    <3>1. DOMAIN w1 = Fields /\ w1.svc = w.svc
      BY <1>1 DEF WithChain, Typed, Fields
    <3> HIDE DEF w1
    <3> QED BY <3>1, AffinityKeeps
  <2>3. w3 = IF w.svc.withEP THEN [w2 EXCEPT !.svc.ruleID = RemoveAt(@, 2)] ELSE w
    <3> HIDE DEF w2
    <3> QED BY <2>2 DEF WithRuleID
  <2> HIDE DEF w3
  <2> QED BY <2>1, <2>3 DEF removeAffinity, WithChain, MarkAffinity
<1> HIDE DEF w3, c, ids, w2
<1>6. ~MapBusy(w3, id)
  <2> DEFINE svc == [w3.svc EXCEPT !.withAff = FALSE]
  <2>1. svc.ruleID = w3.svc.ruleID /\ ~svc.withAff
    BY <1>4 DEF ServiceInfo
  <2> HIDE DEF svc
  <2>2. ChainOK(svc, w3.eps, w3.sc[id])
    BY <1>4, <2>1
  <2>3. \A i \in DOMAIN w3.sc[id] : w3.sc[id][i].map # id
    BY <1>1, <2>1, <2>2, PlainChainFree
  <2>4. \A k \in SvcKey : w3.sc[k] = Nil \/ \A i \in DOMAIN w3.sc[k] : w3.sc[k][i].map # id
    BY <1>4, <2>3
  <2> QED BY <1>1, <1>4, <2>4, MapFree
<1>7. /\ Typed(w4) /\ w4.svc = w3.svc /\ w4.eps = w3.eps /\ w4.sc = w3.sc /\ w4.ec = w3.ec
      /\ w4.sets = w3.sets /\ w4.res = w3.res
      /\ w4.am[id] = Nil /\ \A k \in SvcKey : k # id => w4.am[k] = w3.am[k]
  BY <1>1, <1>4, <1>6, DeleteMapTyped
<1> HIDE DEF w4
<1>8. /\ Typed(u) /\ u.svc \in ServiceInfo /\ SvcID(u.svc) = id
      /\ u.svc.withAff = no /\ u.svc.ruleID = w3.svc.ruleID /\ u.svc.withEP = w.svc.withEP
      /\ u.eps = w3.eps /\ u.sc = w3.sc /\ u.ec = w3.ec /\ u.am = w4.am /\ u.sets = w.sets
      /\ u.res = "ok"
  <2>1. no \in BOOLEAN /\ w4.svc \in ServiceInfo
    BY <1>4, <1>7
  <2> HIDE DEF no
  <2>2. /\ Typed(u) /\ u.svc \in ServiceInfo /\ SvcID(u.svc) = SvcID(w4.svc)
        /\ u.svc.withAff = no /\ u.svc.ruleID = w4.svc.ruleID /\ u.svc.withEP = w4.svc.withEP
        /\ u.eps = w4.eps /\ u.sc = w4.sc /\ u.ec = w4.ec /\ u.am = w4.am /\ u.sets = w4.sets
        /\ u.res = w4.res
    BY <1>7, <2>1, MarkAffinityTyped
  <2> HIDE DEF u
  <2> QED BY <1>4, <1>7, <2>2
<1> HIDE DEF u
<1>9. PortOK(u)
  <2>1. ~u.svc.withAff /\ EndpointsOK(u.svc.withAff, id, u.eps, u.ec)
    BY <1>4, <1>8
  <2>2. ChainOK(u.svc, u.eps, u.sc[id]) /\ (u.svc.withEP <=> u.eps # <<>>)
    BY <1>1, <1>4, <1>8, <2>1
  <2>3. /\ \A k \in SvcKey : k # id => u.sc[k] = Nil /\ u.am[k] = Nil
        /\ u.am[id] = Nil
    BY <1>1, <1>4, <1>7, <1>8
  <2> QED BY <1>8, <2>1, <2>2, <2>3, PortKnownOK
<1>10. Effect(u, TRUE, FALSE, AddrsOf(w.eps))
  <2>1. AddrsOf(u.eps) = AddrsOf(w.eps)
    BY <1>4, <1>8
  <2>2. u.svc # Nil /\ ~HasAff(u.svc)
    BY <1>8, SvcIDType DEF HasAff
  <2> QED BY <2>1, <2>2 DEF Effect
<1> QED BY <1>4, <1>5, <1>7, <1>8, <1>9, <1>10

(***************************************************************************)
(* addEndpoint and deleteEndpoint.                                         *)
(***************************************************************************)
\* The part of PortOK about the service port.
ServiceOK(w) ==
    /\ w.svc # Nil => ChainOK(w.svc, w.eps, w.sc[SvcID(w.svc)]) /\ (w.svc.withEP <=> w.eps # <<>>)
    /\ \A id \in SvcKey : w.sc[id] # Nil => w.svc # Nil /\ SvcID(w.svc) = id
    /\ \A id \in SvcKey : w.am[id] # Nil <=> w.svc # Nil /\ SvcID(w.svc) = id /\ w.svc.withAff

\* The two parts make the whole.
LEMMA PortParts ==
    ASSUME NEW w
    PROVE  PortOK(w) <=> /\ Typed(w) /\ ServiceOK(w)
                         /\ EndpointsOK(HasAff(w.svc), SvcID(w.svc), w.eps, w.ec)
BY DEF PortOK, ServiceOK

\* From w to v the endpoints changed; updateServiceChain follows them.
LEMMA ServiceFollows ==
    ASSUME NEW spn \in ServicePortName, NEW w, PortOK(w), NEW v, Typed(v), TargetsExist(v), v.res = "ok",
           v.svc = w.svc, v.sc = w.sc, v.am = w.am
    PROVE  LET u == updateServiceChain(spn, v) IN
           /\ Typed(u) /\ ServiceOK(u) /\ u.res = "ok" /\ u.eps = v.eps /\ u.ec = v.ec
           /\ HasAff(u.svc) = HasAff(w.svc) /\ SvcID(u.svc) = SvcID(w.svc)
           /\ u.svc = Nil <=> w.svc = Nil
<1> DEFINE u == updateServiceChain(spn, v)
<1>1. CASE w.svc = Nil
  <2>1. u = v
    BY <1>1, UpdateServiceChainNil
  <2>2. ServiceOK(v)
    BY <1>1 DEF PortOK, ServiceOK
  <2> QED BY <1>1, <2>1, <2>2
<1>2. CASE w.svc # Nil
  <2> DEFINE id == SvcID(w.svc)
  <2>1. /\ w.svc \in ServiceInfo /\ id \in SvcKey /\ w.svc.withAff \in BOOLEAN
        /\ ChainOK(w.svc, w.eps, w.sc[id])
        /\ \A k \in SvcKey : k # id => w.sc[k] = Nil /\ w.am[k] = Nil
        /\ w.am[id] # Nil <=> w.svc.withAff
    BY <1>2, PortKnown
  <2>2. Shape(w.svc, w.sc[id])
    BY <2>1, ChainOKShape
  <2>3. Updated(v, u) /\ u.res = "ok"
    <3>1. v.svc \in ServiceInfo /\ Shape(v.svc, v.sc[SvcID(v.svc)]) /\ (v.svc.withAff => v.am[SvcID(v.svc)] # Nil)
      BY <2>1, <2>2
    <3> QED BY <3>1, UpdateServiceChainOK
  <2> HIDE DEF u
  <2>4. /\ Typed(u) /\ u.svc \in ServiceInfo /\ SvcID(u.svc) = id /\ u.svc.withAff = w.svc.withAff
        /\ u.svc.withEP <=> u.eps # <<>>
        /\ \A k \in SvcKey : k # id => u.sc[k] = Nil
        /\ u.eps = v.eps /\ u.ec = v.ec /\ u.am = w.am
        /\ ChainOK(u.svc, u.eps, u.sc[id])
    BY <2>1, <2>3 DEF Updated
  <2>5. u.svc # Nil
    BY <2>4, SvcIDType
  <2>6. HasAff(u.svc) = HasAff(w.svc)
    BY <1>2, <2>4, <2>5 DEF HasAff
  <2>7. ServiceOK(u)
    BY <2>1, <2>4, <2>5 DEF ServiceOK
  <2> QED BY <1>2, <2>3, <2>4, <2>5, <2>6, <2>7 DEF u
<1> QED BY <1>1, <1>2

\* An endpoint and its chain are added.
WithEndpoint(w, f, d) == [w EXCEPT !.ec[f.addr] = d, !.eps = Append(@, f)]

\* An endpoint with its chain joins the others.
LEMMA EndpointJoins ==
    ASSUME NEW w, Typed(w), NEW aff, NEW id, EndpointsOK(aff, id, w.eps, w.ec),
           NEW f \in EndpointInfo, NEW d, EndpointOK(aff, id, f, d),
           \A i \in DOMAIN w.eps : w.eps[i].addr # f.addr, NEW v, v = WithEndpoint(w, f, d)
    PROVE  /\ Typed(v) /\ EndpointsOK(aff, id, v.eps, v.ec)
           /\ v.svc = w.svc /\ v.sc = w.sc /\ v.am = w.am /\ v.sets = w.sets /\ v.res = w.res
<1> DEFINE eps == w.eps
           ec == w.ec
           all == v.eps
           dc == v.ec
<1>0. /\ DOMAIN v = Fields /\ v.svc = w.svc /\ v.sc = w.sc /\ v.am = w.am /\ v.sets = w.sets
      /\ v.res = w.res /\ all = Append(eps, f) /\ dc = [ec EXCEPT ![f.addr] = d]
  BY DEF WithEndpoint, Typed, Fields
<1>12. /\ eps \in Seq(EndpointInfo) /\ ec \in [Addr -> Chain] /\ EndpointsOK(aff, id, eps, ec)
      /\ \A i \in DOMAIN eps : eps[i].addr # f.addr
  BY DEF Typed
<1> HIDE DEF eps, ec, all, dc
<1> DEFINE n == Len(eps)
<1>1. /\ all \in Seq(EndpointInfo) /\ Len(all) = n + 1 /\ n \in Nat
      /\ \A i \in 1..n : all[i] = eps[i]
  BY <1>0, <1>12, AppendProperties, LenProperties
<1>2. all[n + 1] = f
  BY <1>0, <1>12, AppendProperties
<1>3. DOMAIN all = 1..(n + 1) /\ DOMAIN eps = 1..n
  BY <1>1, <1>12, LenProperties
<1>4. d \in Chain /\ f.addr \in Addr
  BY RememberedExists DEF EndpointOK, EndpointInfo
<1>5. dc \in [Addr -> Chain] /\ dc[f.addr] = d /\ \A a \in Addr : a # f.addr => dc[a] = ec[a]
  BY <1>0, <1>4, <1>12
<1>6. \A i \in DOMAIN all : (i \in DOMAIN eps /\ all[i] = eps[i]) \/ (i = n + 1 /\ all[i] = f)
  BY <1>1, <1>2, <1>3
<1> HIDE DEF n
<1>7. \A i \in DOMAIN eps : i # n + 1 /\ i \in DOMAIN all /\ eps[i].addr \in Addr /\ eps[i].addr # f.addr
  BY <1>1, <1>3, <1>12, EndpointsType DEF n
<1>8. \A i \in DOMAIN all : EndpointOK(aff, id, all[i], dc[all[i].addr])
  <2>1. \A i \in DOMAIN eps : EndpointOK(aff, id, eps[i], ec[eps[i].addr])
    BY <1>12 DEF EndpointsOK
  <2> QED BY <1>5, <1>6, <1>7, <2>1
<1>9. \A i, j \in DOMAIN all : all[i].addr = all[j].addr => i = j
  <2>1. \A i, j \in DOMAIN eps : eps[i].addr = eps[j].addr => i = j
    BY <1>12 DEF EndpointsOK
  <2> QED BY <1>6, <1>7, <2>1
<1>10. \A a \in Addr : dc[a] # Nil => \E i \in DOMAIN all : all[i].addr = a
  <2>1. \A a \in Addr : ec[a] # Nil => \E i \in DOMAIN eps : eps[i].addr = a
    BY <1>12 DEF EndpointsOK
  <2>2. n + 1 \in DOMAIN all
    BY <1>1, <1>3
  <2>3. ASSUME NEW a \in Addr, dc[a] # Nil
        PROVE  \E i \in DOMAIN all : all[i].addr = a
    <3>1. CASE a = f.addr
      BY <1>2, <2>2, <3>1
    <3>2. CASE a # f.addr
      <4>1. PICK i \in DOMAIN eps : eps[i].addr = a
        BY <1>5, <2>1, <2>3, <3>2
      <4>2. i \in DOMAIN all /\ all[i] = eps[i]
        BY <1>6, <1>7
      <4> QED BY <4>1, <4>2
    <3> QED BY <3>1, <3>2
  <2> QED BY <2>3
<1>11. EndpointsOK(aff, id, all, dc)
  BY <1>8, <1>9, <1>10 DEF EndpointsOK
<1> QED BY <1>0, <1>1, <1>5, <1>11 DEF Typed, all, dc

\* The address of a new endpoint joins those of the others.
LEMMA AddressJoins ==
    ASSUME NEW eps \in Seq(EndpointInfo), NEW f \in EndpointInfo
    PROVE  AddrsOf(Append(eps, f)) = AddrsOf(eps) \cup {f.addr}
<1> DEFINE all == Append(eps, f)
           n == Len(eps)
<1>1. /\ n \in Nat /\ DOMAIN eps = 1..n /\ DOMAIN all = 1..(n + 1) /\ all[n + 1] = f
      /\ \A i \in 1..n : all[i] = eps[i]
  BY AppendProperties, LenProperties
<1> HIDE DEF all, n
<1>2. \A i \in DOMAIN all : (i \in DOMAIN eps /\ all[i] = eps[i]) \/ (i = n + 1 /\ all[i] = f)
  BY <1>1
<1>3. n + 1 \in DOMAIN all /\ \A i \in DOMAIN eps : i \in DOMAIN all /\ all[i] = eps[i]
  BY <1>1
<1>4. AddrsOf(all) = AddrsOf(eps) \cup {f.addr}
  BY <1>1, <1>2, <1>3 DEF AddrsOf
<1> QED BY <1>4 DEF all

\* The rules of a new endpoint without affinity.
LEMMA PlainEndpointRules ==
    ASSUME NEW h1 \in Handles, NEW h2 \in Handles, NEW h3 \in Handles, h1 # h2, h1 # h3, h2 # h3,
           NEW ep \in EndpointInfo, ep.ruleID = <<h1, h2, h3>>, ~ep.withAff, NEW id
    PROVE  EndpointOK(FALSE, id, ep, EndpointRules(h1, h2, h3))
<1> DEFINE r1 == PlainRule(h1, "counter")
           r2 == PlainRule(h2, "masq")
           r3 == PlainRule(h3, "dnat")
           c == <<r1, r2, r3>>
           ids == <<h1, h2, h3>>
<1>1. r1 \in RuleType /\ r2 \in RuleType /\ r3 \in RuleType /\ r1.h = h1 /\ r2.h = h2 /\ r3.h = h3
  BY EndpointRuleTypes, RuleHandles DEF RuleKinds
<1>2. EndpointRules(h1, h2, h3) = c
  BY DEF EndpointRules, PlainRule
<1>3. /\ c \in Seq(RuleType) /\ Len(c) = 3 /\ c[1] = r1 /\ c[2] = r2 /\ c[3] = r3
      /\ ids \in Seq(Handles) /\ Len(ids) = 3 /\ ids[1] = h1 /\ ids[2] = h2 /\ ids[3] = h3
  <2> HIDE DEF r1, r2, r3
  <2> QED BY <1>1
<1>4. ep.ruleID = ids
  OBVIOUS
<1> HIDE DEF c, ids
<1>5. Remembers(c, ids)
  <2> HIDE DEF r1, r2, r3
  <2> QED BY <1>1, <1>3 DEF Remembers
<1> QED BY <1>2, <1>3, <1>4, <1>5 DEF EndpointOK

\* The rules of a new endpoint with affinity.
LEMMA StickyEndpointRules ==
    ASSUME NEW h1 \in Handles, NEW h2 \in Handles, NEW h3 \in Handles, NEW h4 \in Handles,
           h1 # h2, h1 # h3, h2 # h3, h4 # h1, h4 # h2, h4 # h3,
           NEW ep \in EndpointInfo, ep.ruleID = <<h4, h1, h2, h3>>, ep.withAff, NEW id \in SvcKey,
           NEW d, d = <<UpdateRule(h4, id, ep)>> \o EndpointRules(h1, h2, h3)
    PROVE  EndpointOK(TRUE, id, ep, d)
<1> DEFINE r1 == PlainRule(h1, "counter")
           r2 == PlainRule(h2, "masq")
           r3 == PlainRule(h3, "dnat")
           r4 == UpdateRule(h4, id, ep)
           c == EndpointRules(h1, h2, h3)
           ids == <<h4, h1, h2, h3>>
<1>1. /\ r1 \in RuleType /\ r2 \in RuleType /\ r3 \in RuleType /\ r1.h = h1 /\ r2.h = h2 /\ r3.h = h3
      /\ r4 \in RuleType /\ r4.h = h4
  BY EndpointRuleTypes, RuleHandles DEF RuleKinds, EndpointInfo
<1>2. c \in Seq(RuleType) /\ Len(c) = 3 /\ c[1] = r1 /\ c[2] = r2 /\ c[3] = r3
  <2>1. EndpointRules(h1, h2, h3) = <<r1, r2, r3>>
    BY DEF EndpointRules, PlainRule
  <2> HIDE DEF r1, r2, r3
  <2> QED BY <1>1, <2>1
<1>3. d \in Seq(RuleType) /\ Len(d) = 4 /\ d[1] = r4 /\ d[2] = r1 /\ d[3] = r2 /\ d[4] = r3
  <2>1. d = <<r4>> \o c
    OBVIOUS
  <2> HIDE DEF r1, r2, r3, r4, c
  <2>2. /\ d \in Seq(RuleType) /\ Len(d) = Len(c) + 1 /\ d[1] = r4
        /\ \A i \in 1..Len(c) : d[i + 1] = c[i]
    <3>1. c \in Seq(RuleType) /\ r4 \in RuleType
      BY <1>1, <1>2
    <3>2. /\ <<r4>> \o c \in Seq(RuleType) /\ Len(<<r4>> \o c) = Len(c) + 1 /\ (<<r4>> \o c)[1] = r4
          /\ \A i \in 1..Len(c) : (<<r4>> \o c)[i + 1] = c[i]
      BY <3>1, Prepend
    <3> QED BY ONLY <2>1, <3>2
  <2> QED BY <1>2, <2>2
<1>4. /\ ids \in Seq(Handles) /\ Len(ids) = 4 /\ ids[1] = h4 /\ ids[2] = h1 /\ ids[3] = h2 /\ ids[4] = h3
      /\ ep.ruleID = ids
  OBVIOUS
<1> HIDE DEF ids
<1>5. Remembers(d, ids)
  <2> HIDE DEF r1, r2, r3, r4
  <2> QED BY <1>1, <1>3, <1>4 DEF Remembers
<1> QED BY <1>3, <1>4, <1>5 DEF EndpointOK

\* The service chain follows a new endpoint.
LEMMA EndpointAdded ==
    ASSUME NEW spn \in ServicePortName, NEW w, PortOK(w), w.res = "ok", NEW f \in EndpointInfo, NEW d,
           EndpointOK(HasAff(w.svc), SvcID(w.svc), f, d), \A i \in DOMAIN w.eps : w.eps[i].addr # f.addr
    PROVE  LET u == updateServiceChain(spn, WithEndpoint(w, f, d)) IN
           /\ PortOK(u) /\ u.res = "ok"
           /\ Effect(u, w.svc # Nil, HasAff(w.svc), AddrsOf(w.eps) \cup {f.addr})
           /\ KeepsEndpoints(w, u)
<1> DEFINE v == WithEndpoint(w, f, d)
           u == updateServiceChain(spn, v)
           id == SvcID(w.svc)
           aff == HasAff(w.svc)
<1>1. Typed(w) /\ EndpointsOK(aff, id, w.eps, w.ec)
  BY DEF PortOK
<1> HIDE DEF aff, id, v
<1>2. /\ Typed(v) /\ EndpointsOK(aff, id, v.eps, v.ec)
      /\ v.svc = w.svc /\ v.sc = w.sc /\ v.am = w.am /\ v.sets = w.sets /\ v.res = w.res
      /\ AddrsOf(v.eps) = AddrsOf(w.eps) \cup {f.addr}
      /\ KeepsEndpoints(w, v)
  <2>1. EndpointOK(aff, id, f, d) /\ v = WithEndpoint(w, f, d)
    BY DEF aff, id, v
  <2>2. v.eps = Append(w.eps, f) /\ w.eps \in Seq(EndpointInfo)
    BY <1>1 DEF v, WithEndpoint, Typed, Fields
  <2>3. AddrsOf(v.eps) = AddrsOf(w.eps) \cup {f.addr}
    BY <2>2, AddressJoins
  <2>4. /\ Typed(v) /\ EndpointsOK(aff, id, v.eps, v.ec)
        /\ v.svc = w.svc /\ v.sc = w.sc /\ v.am = w.am /\ v.sets = w.sets /\ v.res = w.res
    BY <1>1, <2>1, EndpointJoins
  <2>5. KeepsEndpoints(w, v)
    <3> DEFINE n == Len(w.eps)
               all == v.eps
    <3>1. /\ n \in Nat /\ DOMAIN w.eps = 1..n /\ DOMAIN all = 1..(n + 1)
          /\ all[n + 1] = f /\ \A i \in 1..n : all[i] = w.eps[i]
      <4>1. /\ Len(all) = n + 1 /\ all[n + 1] = f /\ all \in Seq(EndpointInfo)
            /\ \A i \in 1..n : all[i] = w.eps[i]
        BY <2>2, AppendProperties
      <4> HIDE DEF all
      <4> QED BY <2>2, <4>1, LenProperties
    <3>2. \A a \in Addr : a # f.addr => v.ec[a] = w.ec[a]
      BY <1>1 DEF v, WithEndpoint, Typed, Fields
    <3>3. \A i, j \in DOMAIN w.eps : w.eps[i].addr = w.eps[j].addr => i = j
      BY <1>1 DEF EndpointsOK
    <3>4. \A i \in DOMAIN w.eps : w.eps[i].addr \in Addr /\ w.eps[i].addr # f.addr
      BY <2>2, EndpointsType
    <3> HIDE DEF n, all
    <3>5. ASSUME NEW i \in DOMAIN w.eps, NEW j \in DOMAIN all, w.eps[i].addr = all[j].addr
          PROVE  w.eps[i] = all[j] /\ w.ec[w.eps[i].addr] = v.ec[w.eps[i].addr]
      <4>1. j # n + 1
        BY <3>1, <3>4, <3>5
      <4>2. j \in DOMAIN w.eps /\ all[j] = w.eps[j]
        BY <3>1, <4>1
      <4>3. i = j
        BY <3>3, <3>5, <4>2
      <4> QED BY <3>2, <3>4, <4>2, <4>3
    <3> QED BY <3>5 DEF KeepsEndpoints, SameEndpoints, all
  <2> QED BY <2>3, <2>4, <2>5
<1>4. TargetsExist(v)
  BY <1>2, EndpointChainsExist
<1>5. /\ Typed(u) /\ ServiceOK(u) /\ u.res = "ok" /\ u.eps = v.eps /\ u.ec = v.ec
      /\ HasAff(u.svc) = HasAff(w.svc) /\ SvcID(u.svc) = SvcID(w.svc)
      /\ u.svc = Nil <=> w.svc = Nil
  BY <1>2, <1>4, ServiceFollows
<1> HIDE DEF u
<1>6. PortOK(u)
  <2>1. EndpointsOK(HasAff(u.svc), SvcID(u.svc), u.eps, u.ec)
    BY <1>2, <1>5 DEF aff, id
  <2> QED BY <1>5, <2>1, PortParts
<1>7. Effect(u, w.svc # Nil, HasAff(w.svc), AddrsOf(w.eps) \cup {f.addr})
  BY <1>2, <1>5 DEF Effect
<1>8. KeepsEndpoints(w, u)
  BY <1>2, <1>5 DEF KeepsEndpoints
<1> QED BY <1>5, <1>6, <1>7, <1>8 DEF u, v

\* addEndpoint, of an address the port does not have.
LEMMA AddEndpointOK ==
    ASSUME NEW spn \in ServicePortName, NEW addr \in Addr, NEW local \in BOOLEAN, NEW w, PortOK(w),
           w.res = "ok", \A i \in DOMAIN w.eps : w.eps[i].addr # addr
    PROVE  LET u == addEndpoint(spn, addr, local, w) IN
           /\ PortOK(u) /\ u.res = "ok"
           /\ Effect(u, w.svc # Nil, HasAff(w.svc), AddrsOf(w.eps) \cup {addr})
           /\ KeepsEndpoints(w, u)
<1> DEFINE id == SvcID(w.svc)
           aff == HasAff(w.svc)
           h1 == NewHandle({})
           h2 == NewHandle({h1})
           h3 == NewHandle({h1, h2})
           h4 == NewHandle({h1, h2, h3})
           ep(ids) == [addr |-> addr, local |-> local, index |-> Len(w.eps),
                       withAff |-> aff, ruleID |-> ids]
           rules == EndpointRules(h1, h2, h3)
<1>0. aff \in BOOLEAN /\ Len(w.eps) \in Nat /\ w.ec \in [Addr -> Chain]
  <2>1. w.svc # Nil => w.svc.withAff \in BOOLEAN
    BY PortKnown
  <2> QED BY <2>1, LenProperties DEF HasAff, PortOK, Typed
<1>1. h1 \in Handles
  BY FreshHandle
<1>2. h2 \in Handles /\ h2 # h1
  BY FreshHandle
<1>3. h3 \in Handles /\ h3 # h1 /\ h3 # h2
  BY FreshHandle
<1>4. h4 \in Handles /\ h4 # h1 /\ h4 # h2 /\ h4 # h3
  <2> HIDE DEF h1, h2, h3
  <2> QED BY FreshHandle
<1>5. w.ec[addr] = Nil /\ CreateChain(w.ec[addr]) = <<>> /\ HandlesOf(<<>>) = {}
  BY DEF PortOK, EndpointsOK, CreateChain, HandlesOf
<1> HIDE DEF h1, h2, h3, h4
<1>8. /\ h1 = NewHandle(HandlesOf(<<>>)) /\ h2 = NewHandle(HandlesOf(<<>>) \cup {h1})
      /\ h3 = NewHandle(HandlesOf(<<>>) \cup {h1, h2}) /\ h4 = NewHandle(HandlesOf(<<>>) \cup {h1, h2, h3})
  <2>1. \A S : HandlesOf(<<>>) \cup S = S
    BY <1>5
  <2> QED BY <1>5, <2>1, Zenon DEF h1, h2, h3, h4
<1>9. addEndpoint(spn, addr, local, w)
        = IF ~aff
          THEN updateServiceChain(spn,
                 [w EXCEPT !.ec[addr] = <<>> \o rules,
                           !.eps = Append(@, [ep(<<>>) EXCEPT !.ruleID = <<h1, h2, h3>>])])
          ELSE IF w.am[id] = Nil THEN [w EXCEPT !.res = "error"]
          ELSE updateServiceChain(spn,
                 [w EXCEPT !.ec[addr] = (<<UpdateRule(h4, id, ep(<<>>))>> \o <<>>) \o rules,
                           !.eps = Append(@, [ep(<<>>) EXCEPT !.ruleID = <<h4, h1, h2, h3>>])])
  BY <1>5, <1>8, Zenon DEF addEndpoint, HasAff
<1>6. CASE ~aff
  <2> DEFINE f == ep(<<h1, h2, h3>>)
  <2>1. f \in EndpointInfo /\ f.addr = addr /\ ~f.withAff /\ f.ruleID = <<h1, h2, h3>>
    <3>1. <<h1, h2, h3>> \in Seq(Handles)
      BY <1>1, <1>2, <1>3
    <3> QED BY <1>0, <1>6, <3>1 DEF EndpointInfo
  <2> HIDE DEF f
  <2>2. EndpointOK(FALSE, id, f, rules)
    BY <1>1, <1>2, <1>3, <2>1, PlainEndpointRules
  <2>3. addEndpoint(spn, addr, local, w) = updateServiceChain(spn, WithEndpoint(w, f, rules))
    <3>1. <<>> \o rules = rules
      BY DEF EndpointRules
    <3>2. [ep(<<>>) EXCEPT !.ruleID = <<h1, h2, h3>>] = f
      BY DEF f
    <3>3. WithEndpoint(w, f, rules) = [w EXCEPT !.ec[addr] = rules, !.eps = Append(@, f)]
      BY <2>1 DEF WithEndpoint
    <3> HIDE DEF rules, ep
    <3> QED BY <1>6, <1>9, <3>1, <3>2, <3>3
  <2> HIDE DEF rules
  <2>4. EndpointOK(HasAff(w.svc), SvcID(w.svc), f, rules)
    BY <1>0, <1>6, <2>2
  <2> QED BY <2>1, <2>3, <2>4, EndpointAdded
<1>7. CASE aff
  <2> DEFINE f == ep(<<h4, h1, h2, h3>>)
             d == <<UpdateRule(h4, id, f)>> \o rules
  <2>0. id \in SvcKey /\ w.am[id] # Nil
    BY <1>7, PortKnown DEF HasAff
  <2>1. f \in EndpointInfo /\ f.addr = addr /\ f.withAff /\ f.ruleID = <<h4, h1, h2, h3>>
    <3>1. <<h4, h1, h2, h3>> \in Seq(Handles)
      BY <1>1, <1>2, <1>3, <1>4
    <3> QED BY <1>0, <1>7, <3>1 DEF EndpointInfo
  <2>2. UpdateRule(h4, id, f) = UpdateRule(h4, id, ep(<<>>))
    BY DEF UpdateRule
  <2> HIDE DEF f
  <2>3. EndpointOK(TRUE, id, f, d)
    BY <1>1, <1>2, <1>3, <1>4, <2>0, <2>1, StickyEndpointRules
  <2>4. addEndpoint(spn, addr, local, w) = updateServiceChain(spn, WithEndpoint(w, f, d))
    <3>1. (<<UpdateRule(h4, id, ep(<<>>))>> \o <<>>) \o rules = d
      <4> DEFINE r == UpdateRule(h4, id, f)
      <4> HIDE DEF r
      <4>1. <<r>> \o <<>> = <<r>>
        OBVIOUS
      <4> QED BY <2>2, <4>1 DEF r
    <3>2. [ep(<<>>) EXCEPT !.ruleID = <<h4, h1, h2, h3>>] = f
      BY DEF f
    <3>3. WithEndpoint(w, f, d) = [w EXCEPT !.ec[addr] = d, !.eps = Append(@, f)]
      BY <2>1 DEF WithEndpoint
    <3> HIDE DEF rules, ep, d
    <3> QED BY <1>7, <1>9, <2>0, <3>1, <3>2, <3>3
  <2> HIDE DEF d
  <2>5. EndpointOK(HasAff(w.svc), SvcID(w.svc), f, d)
    BY <1>0, <1>7, <2>3
  <2> QED BY <2>1, <2>4, <2>5, EndpointAdded
<1> QED BY <1>0, <1>6, <1>7

\* A service chain that is up to date jumps to no chain but those of the
\* endpoints.
LEMMA ChainJumps ==
    ASSUME NEW svc, NEW eps, NEW c, ChainOK(svc, eps, c), NEW addr,
           \A i \in DOMAIN eps : eps[i].addr # addr
    PROVE  ~JumpsTo(c, addr)
<1>1. \A t \in Targets(eps) \cup ActElement(eps) : t[2] # addr
  BY DEF Targets, ActElement
<1>2. c \in Seq(RuleType)
  BY DEF ChainOK, Remembers
<1>3. DOMAIN c = 1..Len(c)
  BY <1>2, LenProperties
<1>4. \A i \in DOMAIN c : c[i].to \in {{}, Targets(eps), ActElement(eps)}
  <2>1. CASE Len(c) = 0
    BY <1>3, <2>1
  <2>2. CASE eps # <<>> /\ svc.withAff
    <3>1. Len(c) = 3 /\ c[1].to = {} /\ c[2].to = ActElement(eps) /\ c[3].to = Targets(eps)
      BY <2>2 DEF ChainOK, CounterRule, MatchActRule, LoadBalanceRule, Rule
    <3>2. DOMAIN c = {1, 2, 3}
      BY <1>3, <3>1
    <3> QED BY <3>1, <3>2
  <2>3. CASE eps # <<>> /\ ~svc.withAff
    <3>1. Len(c) = 2 /\ c[1].to = {} /\ c[2].to = Targets(eps)
      BY <2>3 DEF ChainOK, CounterRule, LoadBalanceRule, Rule
    <3>2. DOMAIN c = {1, 2}
      BY <1>3, <3>1
    <3> QED BY <3>1, <3>2
  <2> QED BY <2>1, <2>2, <2>3 DEF ChainOK
<1>5. \A i \in DOMAIN c : \A t \in c[i].to : t[2] # addr
  BY <1>1, <1>4
<1> QED BY <1>5 DEF JumpsTo

\* A chain is deleted.
WithoutChain(ec, addr) == [ec EXCEPT ![addr] = Nil]

\* One endpoint less is still a sequence of endpoints.
LEMMA WithoutEndpointTyped ==
    ASSUME NEW eps \in Seq(EndpointInfo), NEW n \in DOMAIN eps
    PROVE  WithoutEndpoint(eps, n) \in Seq(EndpointInfo)
<1>1. n \in 1..Len(eps)
  BY LenProperties
<1>2. RemoveAt(eps, n) \in Seq(EndpointInfo)
  BY <1>1, RemoveAtProperties
<1> QED BY <1>2, Zenon DEF WithoutEndpoint

\* An endpoint leaves the others, and its chain is deleted.
LEMMA EndpointLeaves ==
    ASSUME NEW aff, NEW id, NEW eps \in Seq(EndpointInfo), NEW ec \in [Addr -> Chain],
           EndpointsOK(aff, id, eps, ec), NEW n \in DOMAIN eps,
           NEW rest, rest = WithoutEndpoint(eps, n), NEW addr, addr = eps[n].addr,
           NEW dc, dc = WithoutChain(ec, addr)
    PROVE  /\ rest \in Seq(EndpointInfo) /\ addr \in Addr
           /\ EndpointsOK(aff, id, rest, dc) /\ dc \in [Addr -> Chain]
           /\ AddrsOf(rest) = AddrsOf(eps) \ {addr}
           /\ SameEndpoints(eps, ec, rest, dc)
<1> DEFINE old(i) == IF i < n THEN i ELSE i + 1
<1>0. DOMAIN eps = 1..Len(eps) /\ Len(eps) \in Nat /\ n \in 1..Len(eps) /\ n \in Nat
  BY LenProperties
<1>1. /\ rest \in Seq(EndpointInfo) /\ Len(rest) = Len(eps) - 1
      /\ \A i \in 1..(Len(eps) - 1) : rest[i] = IF i < n THEN eps[i] ELSE eps[i + 1]
  <2>1. /\ RemoveAt(eps, n) \in Seq(EndpointInfo) /\ Len(RemoveAt(eps, n)) = Len(eps) - 1
        /\ \A i \in 1..(Len(eps) - 1) : RemoveAt(eps, n)[i] = IF i < n THEN eps[i] ELSE eps[i + 1]
    BY <1>0, RemoveAtProperties
  <2>2. rest = RemoveAt(eps, n)
    BY DEF WithoutEndpoint
  <2> QED BY ONLY <2>1, <2>2, Zenon
<1>2. DOMAIN rest = 1..(Len(eps) - 1)
  BY <1>1, LenProperties
<1>3. ASSUME NEW i \in DOMAIN rest
      PROVE  old(i) \in DOMAIN eps /\ old(i) # n /\ rest[i] = eps[old(i)]
  BY <1>0, <1>1, <1>2
<1>4. \A i, j \in DOMAIN rest : old(i) = old(j) => i = j
  BY <1>0, <1>2
<1>5. ASSUME NEW k \in DOMAIN eps, k # n
      PROVE  \E i \in DOMAIN rest : rest[i] = eps[k]
  <2>1. CASE k < n
    <3>1. k \in DOMAIN rest /\ rest[k] = eps[k]
      BY <1>0, <1>1, <1>2, <2>1
    <3> QED BY <3>1
  <2>2. CASE k > n
    <3>1. k - 1 \in DOMAIN rest /\ rest[k - 1] = eps[k]
      BY <1>0, <1>1, <1>2, <2>2
    <3> QED BY <3>1
  <2> QED BY <1>0, <1>5, <2>1, <2>2
<1> HIDE DEF old
<1>6. /\ \A i \in DOMAIN eps : EndpointOK(aff, id, eps[i], ec[eps[i].addr]) /\ eps[i].addr \in Addr
      /\ \A i, j \in DOMAIN eps : eps[i].addr = eps[j].addr => i = j
      /\ \A a \in Addr : ec[a] # Nil => \E i \in DOMAIN eps : eps[i].addr = a
  BY EndpointsType DEF EndpointsOK
<1>7. \A i \in DOMAIN eps : ec[eps[i].addr] # Nil
  BY <1>6, RememberedExists DEF EndpointOK
<1>8. \A i \in DOMAIN rest : rest[i].addr # addr /\ rest[i].addr \in Addr /\ ec[rest[i].addr] # Nil
  BY <1>3, <1>6, <1>7
<1>9. addr \in Addr
  BY <1>6
<1>10. dc \in [Addr -> Chain] /\ dc[addr] = Nil /\ \A a \in Addr : a # addr => dc[a] = ec[a]
  BY <1>9 DEF Chain, WithoutChain
<1>11. \A i \in DOMAIN rest : EndpointOK(aff, id, rest[i], dc[rest[i].addr])
  BY <1>3, <1>6, <1>8, <1>10
<1>12. \A i, j \in DOMAIN rest : rest[i].addr = rest[j].addr => i = j
  BY <1>3, <1>4, <1>6
<1>13. ASSUME NEW a \in Addr, dc[a] # Nil
       PROVE  \E i \in DOMAIN rest : rest[i].addr = a
  <2>1. a # addr /\ ec[a] # Nil
    BY <1>10, <1>13
  <2>2. PICK k \in DOMAIN eps : eps[k].addr = a
    BY <1>6, <2>1
  <2>3. k # n
    BY <2>1, <2>2
  <2> QED BY <1>5, <2>2, <2>3
<1>14. EndpointsOK(aff, id, rest, dc)
  BY <1>11, <1>12, <1>13 DEF EndpointsOK
<1>15. AddrsOf(rest) = AddrsOf(eps) \ {addr}
  <2>1. \A i \in DOMAIN rest : rest[i].addr \in AddrsOf(eps) /\ rest[i].addr # addr
    BY <1>3, <1>8 DEF AddrsOf
  <2>2. ASSUME NEW k \in DOMAIN eps, eps[k].addr # addr
        PROVE  eps[k].addr \in AddrsOf(rest)
    <3>1. k # n
      BY <2>2
    <3>2. PICK i \in DOMAIN rest : rest[i] = eps[k]
      BY <1>5, <3>1
    <3> QED BY <3>2 DEF AddrsOf
  <2> QED BY <2>1, <2>2 DEF AddrsOf
<1>16. ASSUME NEW i \in DOMAIN eps, NEW j \in DOMAIN rest, eps[i].addr = rest[j].addr
       PROVE  eps[i] = rest[j] /\ ec[eps[i].addr] = dc[eps[i].addr]
  <2>1. i = old(j)
    BY <1>3, <1>6, <1>16
  <2> QED BY <1>3, <1>8, <1>10, <1>16, <2>1
<1>17. SameEndpoints(eps, ec, rest, dc)
  BY <1>16 DEF SameEndpoints
<1> QED BY <1>1, <1>8, <1>9, <1>10, <1>14, <1>15, <1>17

\* deleteEndpoint, of any address.
LEMMA DeleteEndpointOK ==
    ASSUME NEW spn \in ServicePortName, NEW addr \in Addr, NEW local \in BOOLEAN, NEW w, PortOK(w),
           w.res = "ok"
    PROVE  LET u == deleteEndpoint(spn, addr, local, w) IN
           /\ PortOK(u) /\ u.res = "ok"
           /\ u = w \/ Effect(u, w.svc # Nil, HasAff(w.svc), AddrsOf(w.eps) \ {addr})
           /\ KeepsEndpoints(w, u)
<1> DEFINE matches == {i \in DOMAIN w.eps : w.eps[i].addr = addr /\ w.eps[i].local = local}
           n    == CHOOSE i \in matches : \A j \in matches : i <= j
           rest == WithoutEndpoint(w.eps, n)
           v    == [w EXCEPT !.eps = rest]
           w1   == updateServiceChain(spn, v)
           id   == SvcID(w.svc)
           aff  == HasAff(w.svc)
           u    == [w1 EXCEPT !.ec[addr] = Nil]
<1>1. CASE matches = {}
  <2>1. deleteEndpoint(spn, addr, local, w) = w
    BY <1>1 DEF deleteEndpoint
  <2>2. KeepsEndpoints(w, w)
    BY DEF PortOK, EndpointsOK, KeepsEndpoints, SameEndpoints
  <2> QED BY <2>1, <2>2
<1>2. CASE matches # {}
  <2>1. Typed(w) /\ w.eps \in Seq(EndpointInfo) /\ w.ec \in [Addr -> Chain] /\ EndpointsOK(aff, id, w.eps, w.ec)
    BY DEF PortOK, Typed
  <2>2. n \in DOMAIN w.eps /\ w.eps[n].addr = addr
    <3>1. PICK i \in matches : TRUE
      BY <1>2
    <3>2. i \in Nat /\ \A j \in matches : j = i
      <4>1. i \in DOMAIN w.eps /\ \A j \in matches : j \in DOMAIN w.eps /\ w.eps[j].addr = w.eps[i].addr
        OBVIOUS
      <4>2. i \in Nat
        BY <2>1, <4>1, EndpointsType
      <4> QED BY <2>1, <4>1, <4>2 DEF EndpointsOK
    <3>3. \E k \in matches : \A j \in matches : k <= j
      <4>1. i <= i
        BY <3>2
      <4> HIDE DEF matches
      <4> QED BY <3>1, <3>2, <4>1
    <3>4. n \in matches
      <4> HIDE DEF matches
      <4> QED BY <3>3
    <3> HIDE DEF n
    <3> QED BY <3>4
  <2> HIDE DEF aff, id
  <2>3. EndpointOK(aff, id, w.eps[n], w.ec[addr])
    <3> HIDE DEF n
    <3> QED BY <2>1, <2>2 DEF EndpointsOK
  <2>4. Remembers(w.ec[addr], w.eps[n].ruleID)
    <3> HIDE DEF n
    <3> QED BY <2>3 DEF EndpointOK
  <2>5. DeleteChainRulesOK(w.ec[addr], w.eps[n].ruleID)
    <3> HIDE DEF n
    <3> QED BY <2>4, RememberedExists, DeleteAllRemembered
  <2>6. deleteEndpoint(spn, addr, local, w)
          = IF w1.res # "ok" THEN w1
            ELSE IF EpChainBusy(w1, addr)
            THEN [w1 EXCEPT !.ec[addr] = DeleteChainRules(w.ec[addr], w.eps[n].ruleID), !.res = "error"]
            ELSE u
    <3> DEFINE ok == DeleteChainRulesOK(w.ec[addr], w.eps[n].ruleID)
               failed == [w1 EXCEPT !.ec[addr] = DeleteChainRules(w.ec[addr], w.eps[n].ruleID),
                                    !.res = "error"]
    <3>1. deleteEndpoint(spn, addr, local, w)
            = IF matches = {} THEN w ELSE IF w1.res # "ok" THEN w1
              ELSE IF ~ok THEN failed ELSE IF EpChainBusy(w1, addr) THEN failed ELSE u
      BY DEF deleteEndpoint
    <3> HIDE DEF matches, w1, failed, u
    <3>2. ok
      BY <2>5
    <3> HIDE DEF ok
    <3> QED BY <1>2, <3>1, <3>2 DEF failed
  <2> HIDE DEF n, matches
  <2> DEFINE dc == WithoutChain(w.ec, addr)
  <2>7. /\ rest \in Seq(EndpointInfo)
        /\ \A i \in DOMAIN rest : rest[i].addr # addr /\ w.ec[rest[i].addr] # Nil
        /\ EndpointsOK(aff, id, rest, dc) /\ dc \in [Addr -> Chain]
        /\ AddrsOf(rest) = AddrsOf(w.eps) \ {addr}
        /\ SameEndpoints(w.eps, w.ec, rest, dc)
    <3>1. /\ rest \in Seq(EndpointInfo)
          /\ EndpointsOK(aff, id, rest, dc) /\ dc \in [Addr -> Chain]
          /\ AddrsOf(rest) = AddrsOf(w.eps) \ {addr}
          /\ SameEndpoints(w.eps, w.ec, rest, dc)
      <4> DEFINE eps == w.eps
                 ec == w.ec
      <4>1. /\ eps \in Seq(EndpointInfo) /\ ec \in [Addr -> Chain] /\ EndpointsOK(aff, id, eps, ec)
            /\ n \in DOMAIN eps /\ rest = WithoutEndpoint(eps, n) /\ addr = eps[n].addr
            /\ dc = WithoutChain(ec, addr)
        BY <2>1, <2>2
      <4> HIDE DEF eps, ec, rest, dc
      <4>2. /\ rest \in Seq(EndpointInfo)
            /\ EndpointsOK(aff, id, rest, dc) /\ dc \in [Addr -> Chain]
            /\ AddrsOf(rest) = AddrsOf(eps) \ {addr}
            /\ SameEndpoints(eps, ec, rest, dc)
        <5>1. rest \in Seq(EndpointInfo)
          BY <4>1, WithoutEndpointTyped, Zenon
        <5>5. dc \in [Addr -> Chain]
          BY <4>1, EndpointLeaves
        <5>2. EndpointsOK(aff, id, rest, dc)
          BY <4>1, EndpointLeaves
        <5>3. AddrsOf(rest) = AddrsOf(eps) \ {addr}
          BY <4>1, EndpointLeaves
        <5>4. SameEndpoints(eps, ec, rest, dc)
          BY <4>1, EndpointLeaves
        <5> QED BY <5>1, <5>2, <5>3, <5>4, <5>5
      <4> QED BY <4>2 DEF eps, ec
    <3>5. dc[addr] = Nil /\ \A b \in Addr : b # addr => dc[b] = w.ec[b]
      BY <2>1 DEF WithoutChain
    <3> HIDE DEF rest, dc
    <3>6. ASSUME NEW i \in DOMAIN rest
          PROVE  rest[i].addr # addr /\ w.ec[rest[i].addr] # Nil
      <4>1. Remembers(dc[rest[i].addr], rest[i].ruleID)
        BY <3>1 DEF EndpointsOK, EndpointOK
      <4>2. dc[rest[i].addr] # Nil /\ rest[i].addr \in Addr
        BY <3>1, <4>1, RememberedExists, EndpointsType
      <4> QED BY <3>5, <4>2
    <3> QED BY <3>1, <3>6
  <2> HIDE DEF rest
  <2>8. /\ Typed(v) /\ TargetsExist(v) /\ v.res = "ok" /\ v.svc = w.svc /\ v.sc = w.sc /\ v.am = w.am
        /\ v.eps = rest /\ v.ec = w.ec
    <3>1. /\ DOMAIN v = Fields /\ v.svc = w.svc /\ v.sc = w.sc /\ v.am = w.am /\ v.sets = w.sets
          /\ v.eps = rest /\ v.ec = w.ec /\ v.res = "ok"
      BY <2>1 DEF Typed, Fields
    <3> HIDE DEF v
    <3> QED BY <2>1, <2>7, <3>1 DEF Typed, TargetsExist
  <2> HIDE DEF v
  <2>9. /\ Typed(w1) /\ ServiceOK(w1) /\ w1.res = "ok" /\ w1.eps = rest /\ w1.ec = w.ec
        /\ HasAff(w1.svc) = aff /\ SvcID(w1.svc) = id /\ (w1.svc = Nil <=> w.svc = Nil)
    BY <2>8, ServiceFollows DEF aff, id
  <2> HIDE DEF w1
  <2>10. ~EpChainBusy(w1, addr)
    <3>1. ASSUME NEW k \in SvcKey, w1.sc[k] # Nil
          PROVE  ~JumpsTo(w1.sc[k], addr)
      <4>1. ChainOK(w1.svc, rest, w1.sc[k])
        BY <2>9, <3>1 DEF ServiceOK
      <4> QED BY <2>7, <4>1, ChainJumps
    <3>2. \A k \in SvcKey : ~JumpsTo(w1.sc[k], addr)
      BY <3>1 DEF JumpsTo
    <3> QED BY <3>2 DEF EpChainBusy
  <2>11. /\ DOMAIN u = Fields /\ u.svc = w1.svc /\ u.eps = w1.eps /\ u.sc = w1.sc /\ u.am = w1.am
         /\ u.sets = w1.sets /\ u.res = w1.res /\ u.ec = dc
    BY <2>9 DEF Typed, Fields, WithoutChain
  <2>12. deleteEndpoint(spn, addr, local, w) = u
    BY <2>6, <2>9, <2>10
  <2> HIDE DEF u, dc
  <2>13. Typed(u)
    BY <2>7, <2>9, <2>11 DEF Typed
  <2>14. ServiceOK(u) /\ EndpointsOK(HasAff(u.svc), SvcID(u.svc), u.eps, u.ec)
    BY <2>7, <2>9, <2>11 DEF ServiceOK
  <2>15. PortOK(u)
    BY <2>13, <2>14, PortParts
  <2>16. Effect(u, w.svc # Nil, HasAff(w.svc), AddrsOf(w.eps) \ {addr})
    BY <2>7, <2>9, <2>11 DEF Effect, aff
  <2>17. KeepsEndpoints(w, u)
    BY <2>7, <2>9, <2>11 DEF KeepsEndpoints
  <2> QED BY <2>9, <2>11, <2>12, <2>15, <2>16, <2>17
<1> QED BY <1>1, <1>2


(***************************************************************************)
(* Set elements.                                                           *)
(***************************************************************************)
\* The elements of a service port have their type.
LEMMA OwnedType ==
    ASSUME NEW spn \in ServicePortName, NEW svc \in ServiceInfo
    PROVE  Owned(spn, svc) \subseteq SetElement
<1>1. <<spn, SvcID(svc)>> \in SvcRef
  BY SvcIDType DEF SvcRef
<1> QED BY <1>1 DEF Owned, SetElement

\* Adding a sequence of them to the sets.
LEMMA AddAllTyped ==
    ASSUME NEW S, NEW all \in SUBSET S, NEW es \in Seq(S)
    PROVE  AddAllToSets(all, es) \subseteq S
<1>1. \A j \in DOMAIN es : es[j] \in S
  BY LenProperties, ElementOfSeq
<1> QED BY <1>1 DEF AddAllToSets

\* Without endpoints there is no endpoint chain to be right or wrong.
LEMMA NoEndpointsOK ==
    ASSUME NEW aff, NEW id, NEW eps, NEW ec, EndpointsOK(aff, id, eps, ec), eps = <<>>, NEW yes, NEW jd
    PROVE  EndpointsOK(yes, jd, eps, ec)
<1>1. DOMAIN eps = {}
  OBVIOUS
<1> QED BY <1>1 DEF EndpointsOK

\* The sets change.
WithSets(w, s) == [w EXCEPT !.sets = s]

\* Nothing else changes with them.
LEMMA WithSetsTyped ==
    ASSUME NEW w, Typed(w), NEW s \in SUBSET SetElement, NEW u, u = WithSets(w, s)
    PROVE  /\ Typed(u) /\ u.svc = w.svc /\ u.eps = w.eps /\ u.sc = w.sc /\ u.ec = w.ec /\ u.am = w.am
           /\ u.sets = s /\ u.res = w.res
<1>1. /\ DOMAIN u = Fields /\ u.svc = w.svc /\ u.eps = w.eps /\ u.sc = w.sc /\ u.ec = w.ec
      /\ u.am = w.am /\ u.sets = s /\ u.res = w.res
  BY DEF WithSets, Typed, Fields
<1> QED BY <1>1 DEF Typed

(***************************************************************************)
(* addServicePort.                                                         *)
(***************************************************************************)
\* The record of a new service port.
LEMMA NewServiceInfoType ==
    ASSUME NEW spec \in PortSpec, NEW b \in BOOLEAN, NEW svc, svc = NewServiceInfo(spec, b)
    PROVE  /\ svc \in ServiceInfo /\ svc # Nil /\ svc.ruleID = <<>> /\ svc.withEP = b
           /\ svc.maxAge \in Timeout \cup {0} /\ SvcID(svc) \in SvcKey /\ svc.withAff \in BOOLEAN
           /\ svc.withAff = (spec.aff # Nil)
<1>1. svc \in ServiceInfo /\ svc.ruleID = <<>> /\ svc.withEP = b /\ svc.withAff = (spec.aff # Nil)
  BY NftAssumption DEF NewServiceInfo, ServiceInfo, PortSpec
<1>2. svc.maxAge \in Timeout \cup {0}
  BY <1>1 DEF ServiceInfo
<1> QED BY <1>1, <1>2, SvcIDType

\* A service port before its elements are added and its chain is programmed:
\* the chain is empty, the affinity map and the Update rules are there.
Prepared(w, svc) ==
    LET id == SvcID(svc) IN
    /\ Typed(w) /\ w.svc = svc /\ w.res = "ok" /\ w.sc[id] = <<>>
    /\ EndpointsOK(svc.withAff, id, w.eps, w.ec)
    /\ \A k \in SvcKey : k # id => w.sc[k] = Nil /\ w.am[k] = Nil
    /\ w.am[id] # Nil <=> svc.withAff

\* With its elements it becomes a service port like any other.
LEMMA PreparedUpdates ==
    ASSUME NEW spn \in ServicePortName, NEW svc \in ServiceInfo, svc.ruleID = <<>>,
           NEW w, Prepared(w, svc), NEW s \in SUBSET SetElement, NEW v, v = WithSets(w, s)
    PROVE  /\ PortOK(updateServiceChain(spn, v)) /\ updateServiceChain(spn, v).res = "ok"
           /\ Effect(updateServiceChain(spn, v), TRUE, svc.withAff, AddrsOf(w.eps))
<1> DEFINE id == SvcID(svc)
           u  == updateServiceChain(spn, v)
<1>0. id \in SvcKey
  BY SvcIDType
<1>1. /\ Typed(w) /\ w.svc = svc /\ w.res = "ok" /\ w.sc[id] = <<>>
      /\ EndpointsOK(svc.withAff, id, w.eps, w.ec)
      /\ \A k \in SvcKey : k # id => w.sc[k] = Nil /\ w.am[k] = Nil
      /\ w.am[id] # Nil <=> svc.withAff
  BY DEF Prepared
<1>2. /\ Typed(v) /\ v.svc = w.svc /\ v.eps = w.eps /\ v.sc = w.sc /\ v.ec = w.ec /\ v.am = w.am
      /\ v.res = w.res
  BY <1>1, WithSetsTyped
<1> HIDE DEF id
<1>3. v.svc \in ServiceInfo /\ SvcID(v.svc) = id /\ v.res = "ok" /\ v.svc.withAff = svc.withAff
  BY <1>1, <1>2 DEF id
<1>4. EndpointsOK(v.svc.withAff, id, v.eps, v.ec)
  BY <1>1, <1>2
<1>5. TargetsExist(v)
  BY <1>4, EndpointChainsExist
<1>6. Shape(v.svc, v.sc[SvcID(v.svc)])
  <2>1. v.sc[SvcID(v.svc)] = <<>> /\ v.svc.ruleID = <<>>
    BY <1>1, <1>2, <1>3
  <2> QED BY <2>1, EmptyChainOK
<1>7. v.svc.withAff => v.am[SvcID(v.svc)] # Nil
  BY <1>1, <1>2, <1>3
<1>8. Updated(v, u) /\ u.res = "ok"
  BY <1>2, <1>3, <1>5, <1>6, <1>7, UpdateServiceChainOK
<1> HIDE DEF u
<1>9. /\ Typed(u) /\ u.svc \in ServiceInfo /\ id = SvcID(u.svc) /\ u.svc.withAff = v.svc.withAff
      /\ u.eps = v.eps /\ u.ec = v.ec /\ u.am = v.am
      /\ \A k \in SvcKey : k # id => u.sc[k] = v.sc[k]
      /\ u.svc.withEP <=> u.eps # <<>>
      /\ ChainOK(u.svc, u.eps, u.sc[id])
  BY <1>3, <1>8 DEF Updated
<1>10. EndpointsOK(u.svc.withAff, id, u.eps, u.ec)
  BY <1>4, <1>9
<1>11. (\A k \in SvcKey : k # id => u.sc[k] = Nil /\ u.am[k] = Nil) /\ (u.am[id] # Nil <=> u.svc.withAff)
  BY <1>1, <1>2, <1>9
<1>12. PortOK(u)
  BY <1>9, <1>10, <1>11, PortKnownOK
<1>13. Effect(u, TRUE, svc.withAff, AddrsOf(w.eps))
  <2>1. u.svc # Nil /\ (HasAff(u.svc) <=> svc.withAff)
    BY <1>3, <1>9, SvcIDType DEF HasAff
  <2>2. AddrsOf(u.eps) = AddrsOf(w.eps)
    BY <1>2, <1>9
  <2> QED BY <2>1, <2>2 DEF Effect
<1> QED BY <1>8, <1>12, <1>13 DEF u

\* A new service port and its empty chain.
WithService(w, svc, s) == [w EXCEPT !.svc = svc, !.sc[SvcID(svc)] = <<>>, !.sets = s]

\* Nothing else changes with them.
LEMMA WithServiceTyped ==
    ASSUME NEW w, Typed(w), NEW svc \in ServiceInfo, NEW s \in SUBSET SetElement,
           NEW u, u = WithService(w, svc, s)
    PROVE  /\ Typed(u) /\ u.svc = svc /\ u.eps = w.eps /\ u.ec = w.ec /\ u.am = w.am
           /\ u.sets = s /\ u.res = w.res /\ u.sc[SvcID(svc)] = <<>>
           /\ \A k \in SvcKey : k # SvcID(svc) => u.sc[k] = w.sc[k]
<1> DEFINE id == SvcID(svc)
           c == <<>>
<1>0. w.sc \in [SvcKey -> Chain] /\ id \in SvcKey /\ c \in Chain
  BY SvcIDType DEF Typed, Chain
<1>1. /\ DOMAIN u = Fields /\ u.svc = svc /\ u.eps = w.eps /\ u.ec = w.ec /\ u.am = w.am
      /\ u.sets = s /\ u.res = w.res /\ u.sc = [w.sc EXCEPT ![id] = c]
  BY DEF WithService, Typed, Fields
<1> HIDE DEF id, c
<1>2. u.sc \in [SvcKey -> Chain] /\ u.sc[id] = c /\ \A k \in SvcKey : k # id => u.sc[k] = w.sc[k]
  BY <1>0, <1>1
<1>3. Typed(u)
  BY <1>1, <1>2 DEF Typed
<1> QED BY <1>1, <1>2, <1>3 DEF id, c

\* The affinity part of addServicePort.
PrepareAffinity(w, svc) ==
    LET w2 == AddServiceAffinityMap(w, SvcID(svc), svc.maxAge)
    IN  IF ~svc.withAff THEN w ELSE IF ~svc.withEP THEN w2 ELSE addAffinityEndpoint(w2)

\* The affinity map and the Update rules of the endpoints that came first.
LEMMA AffinityPrepared ==
    ASSUME NEW w, Typed(w), NEW svc \in ServiceInfo, w.svc = svc, w.res = "ok", w.sc[SvcID(svc)] = <<>>,
           svc.withEP <=> w.eps # <<>>, NEW jd, EndpointsOK(FALSE, jd, w.eps, w.ec),
           \A k \in SvcKey : (k # SvcID(svc) => w.sc[k] = Nil) /\ w.am[k] = Nil,
           NEW w3, w3 = PrepareAffinity(w, svc)
    PROVE  Prepared(w3, svc) /\ w3.sets = w.sets /\ AddrsOf(w3.eps) = AddrsOf(w.eps)
<1> DEFINE id == SvcID(svc)
           w2 == AddServiceAffinityMap(w, id, svc.maxAge)
<1>0. w3 = IF ~svc.withAff THEN w ELSE IF ~svc.withEP THEN w2 ELSE addAffinityEndpoint(w2)
  BY DEF PrepareAffinity
<1>1. id \in SvcKey /\ svc.withAff \in BOOLEAN /\ svc.maxAge \in Timeout \cup {0} /\ w.am[id] = Nil
  BY SvcIDType DEF ServiceInfo
<1>2. /\ Typed(w2) /\ w2.svc = w.svc /\ w2.eps = w.eps /\ w2.sc = w.sc /\ w2.ec = w.ec
      /\ w2.sets = w.sets /\ w2.res = w.res
      /\ w2.am[id] # Nil /\ \A k \in SvcKey : k # id => w2.am[k] = w.am[k]
  BY <1>1, AddAffinityMapTyped
<1>3. id = SvcID(w2.svc)
  BY <1>2
<1> HIDE DEF id, w2
<1>4. CASE ~svc.withAff
  <2>1. w3 = w /\ EndpointsOK(FALSE, id, w.eps, w.ec) /\ svc.withAff = FALSE
    BY <1>1, <1>4, <1>0, PlainEndpoints
  <2>2. EndpointsOK(svc.withAff, id, w.eps, w.ec)
    BY <2>1
  <2> QED BY <1>1, <1>4, <2>1, <2>2 DEF Prepared, id
<1>5. CASE svc.withAff /\ ~svc.withEP
  <2>1. w3 = w2 /\ w.eps = <<>>
    BY <1>5, <1>0
  <2>2. EndpointsOK(svc.withAff, id, w.eps, w.ec)
    BY <2>1, NoEndpointsOK
  <2>3. /\ Typed(w3) /\ w3.svc = svc /\ w3.res = "ok" /\ w3.sets = w.sets /\ w3.sc[id] = <<>>
        /\ w3.eps = w.eps /\ w3.ec = w.ec /\ w3.am[id] # Nil
        /\ \A k \in SvcKey : k # id => w3.sc[k] = Nil /\ w3.am[k] = Nil
    BY <1>2, <2>1 DEF id
  <2> QED BY ONLY <1>5, <2>2, <2>3 DEF Prepared, id
<1>6. CASE svc.withAff /\ svc.withEP
  <2> DEFINE z == addAffinityEndpoint(w2)
  <2>1. EndpointsOK(FALSE, jd, w2.eps, w2.ec)
    BY <1>2
  <2>2. EndpointsChange(w2, z) /\ z.res = w2.res /\ EndpointsOK(TRUE, id, z.eps, z.ec)
    BY ONLY <1>1, <1>2, <1>3, <2>1, AddAffinityEndpointOK
  <2>3. w3 = z
    BY <1>6, <1>0
  <2> HIDE DEF z
  <2>4. /\ Typed(w3) /\ w3.svc = svc /\ w3.res = "ok" /\ w3.sets = w.sets /\ w3.sc[id] = <<>>
        /\ w3.am[id] # Nil
        /\ \A k \in SvcKey : k # id => w3.sc[k] = Nil /\ w3.am[k] = Nil
    BY <1>2, <2>2, <2>3 DEF EndpointsChange, id
  <2>6. AddrsOf(w3.eps) = AddrsOf(w.eps)
    <3>1. SameTargets(w2.eps, z.eps) /\ w2.eps \in Seq(EndpointInfo) /\ z.eps \in Seq(EndpointInfo)
      BY <1>2, <2>2 DEF EndpointsChange, Typed
    <3>2. AddrsOf(z.eps) = AddrsOf(w2.eps)
      BY <3>1, SameTargetsChain
    <3> QED BY <1>2, <2>3, <3>2
  <2>5. EndpointsOK(svc.withAff, id, w3.eps, w3.ec)
    <3>1. svc.withAff = TRUE
      BY <1>1, <1>6
    <3> QED BY ONLY <2>2, <2>3, <3>1
  <2> QED BY ONLY <1>6, <2>4, <2>5, <2>6 DEF Prepared, id
<1> QED BY <1>1, <1>4, <1>5, <1>6

\* addServicePort: when no other port owns an address of the new one.
LEMMA AddServicePortOK ==
    ASSUME NEW spn \in ServicePortName, NEW spec \in PortSpec, NEW w, PortOK(w), w.res = "ok",
           AddAllToSetsOK(w.sets, ServicePortElements(spn, NewServiceInfo(spec, w.eps # <<>>)))
    PROVE  LET u == addServicePort(spn, spec, w) IN
           /\ PortOK(u) /\ u.res = "ok"
           /\ IF w.svc # Nil THEN u = w ELSE Effect(u, TRUE, spec.aff # Nil, AddrsOf(w.eps))
<1>1. CASE w.svc # Nil
  BY <1>1 DEF addServicePort
<1>2. CASE w.svc = Nil
  <2> DEFINE has == w.eps # <<>>
             svc == NewServiceInfo(spec, has)
             id  == SvcID(svc)
             es  == ServicePortElements(spn, svc)
             none == NoEndpointsElements(spn, svc)
             all == IF svc.withEP THEN w.sets ELSE w.sets \cup none
             w1  == WithService(w, svc, all)
             w2  == AddServiceAffinityMap(w1, id, svc.maxAge)
             w3  == IF ~svc.withAff THEN w1 ELSE IF ~svc.withEP THEN w2 ELSE addAffinityEndpoint(w2)
             more == AddAllToSets(w3.sets, es)
             w4  == WithSets(w3, more)
             u   == updateServiceChain(spn, w4)
  <2>1. /\ svc \in ServiceInfo /\ svc # Nil /\ svc.ruleID = <<>> /\ svc.withEP = has
        /\ id \in SvcKey /\ svc.withAff = (spec.aff # Nil)
    BY NewServiceInfoType
  <2>2. /\ Typed(w) /\ EndpointsOK(FALSE, SvcID(w.svc), w.eps, w.ec)
        /\ \A k \in SvcKey : w.sc[k] = Nil /\ w.am[k] = Nil
    BY <1>2, PortUnknown
  <2>3. addServicePort(spn, spec, w)
          = IF ~AddAllToSetsOK(w3.sets, es) THEN [w4 EXCEPT !.svc = Nil, !.res = "error"] ELSE u
    <3>1. w1 = [w EXCEPT !.svc = svc, !.sc[id] = CreateChain(@),
                         !.sets = IF svc.withEP THEN @ ELSE @ \cup none]
      <4>1. CreateChain(w.sc[id]) = <<>>
        BY <2>1, <2>2 DEF CreateChain
      <4> HIDE DEF svc, none
      <4> QED BY <4>1 DEF WithService
    <3> HIDE DEF w1
    <3> QED BY <1>2, <3>1 DEF addServicePort, WithSets
  <2>4. AddAllToSetsOK(w.sets, es)
    OBVIOUS
  <2>5. es \in Seq(Owned(spn, svc)) /\ none \subseteq SetElement /\ \A x \in none : x.set = "noendpoints"
    BY <2>1, ServicePortElementsOwned, NoEndpointsType, NoEndpointsLeadNowhere
  <2> HIDE DEF svc, es, none
  <2>6. all \subseteq SetElement /\ all \in {w.sets, w.sets \cup none}
    BY <2>2, <2>5 DEF Typed
  <2> HIDE DEF all
  <2>7. /\ Typed(w1) /\ w1.svc = svc /\ w1.eps = w.eps /\ w1.ec = w.ec /\ w1.am = w.am
        /\ w1.sets = all /\ w1.res = w.res /\ w1.sc[SvcID(svc)] = <<>>
        /\ \A k \in SvcKey : k # SvcID(svc) => w1.sc[k] = w.sc[k]
    <3> HIDE DEF id
    <3> QED BY <2>1, <2>2, <2>6, WithServiceTyped
  <2> HIDE DEF w1
  <2>8. Prepared(w3, svc) /\ w3.sets = all /\ AddrsOf(w3.eps) = AddrsOf(w.eps)
    <3> DEFINE jd == SvcID(w.svc)
    <3>1. /\ Typed(w1) /\ svc \in ServiceInfo /\ w1.svc = svc /\ w1.res = "ok"
          /\ w1.sc[SvcID(svc)] = <<>> /\ (svc.withEP <=> w1.eps # <<>>)
          /\ EndpointsOK(FALSE, jd, w1.eps, w1.ec)
          /\ \A k \in SvcKey : (k # SvcID(svc) => w1.sc[k] = Nil) /\ w1.am[k] = Nil
      BY <2>1, <2>2, <2>7
    <3>2. w3 = PrepareAffinity(w1, svc)
      BY DEF PrepareAffinity
    <3> HIDE DEF jd, w3, id
    <3>3. Prepared(w3, svc) /\ w3.sets = w1.sets /\ AddrsOf(w3.eps) = AddrsOf(w1.eps)
      BY ONLY <3>1, <3>2, AffinityPrepared
    <3> QED BY <2>7, <3>3
  <2> HIDE DEF w3
  <2>9. \A j \in DOMAIN es : es[j].set # "noendpoints"
    <3>1. \A j \in DOMAIN es : es[j] \in Owned(spn, svc)
      BY <2>5, LenProperties, ElementOfSeq
    <3> QED BY <3>1 DEF Owned
  <2>10. AddAllToSetsOK(w3.sets, es)
    BY <2>4, <2>5, <2>6, <2>8, <2>9 DEF AddAllToSetsOK, Conflicts
  <2>11. more \subseteq SetElement
    <3>1. Owned(spn, svc) \subseteq SetElement
      BY <2>1, OwnedType
    <3>2. es \in Seq(SetElement) /\ w3.sets \in SUBSET SetElement
      BY <2>5, <2>6, <2>8, <3>1
    <3> QED BY <3>2, AddAllTyped
  <2> HIDE DEF more
  <2>12. PortOK(u) /\ u.res = "ok" /\ Effect(u, TRUE, svc.withAff, AddrsOf(w3.eps))
    <3>1. w4 = WithSets(w3, more) /\ more \in SUBSET SetElement
      BY <2>11
    <3> HIDE DEF w4
    <3> QED BY <2>1, <2>8, <3>1, PreparedUpdates
  <2> HIDE DEF u, w4
  <2>13. Effect(u, TRUE, spec.aff # Nil, AddrsOf(w.eps))
    BY <2>1, <2>8, <2>12
  <2> QED BY <1>2, <2>3, <2>10, <2>12, <2>13
<1> QED BY <1>1, <1>2

(***************************************************************************)
(* deleteServicePort.                                                      *)
(***************************************************************************)
\* The affinity part of deleteServicePort.
DropAffinity(w, svc) ==
    LET w2 == IF svc.withEP THEN deleteAffinityEndpoint(w) ELSE w
    IN  IF ~svc.withAff THEN w ELSE IF w2.res # "ok" THEN w2 ELSE DeleteServiceAffinityMap(w2, SvcID(svc))

\* A service port whose rules are gone, but not yet its affinity.
Emptied(w, svc) ==
    LET id == SvcID(svc) IN
    /\ Typed(w) /\ w.svc = svc /\ w.res = "ok"
    /\ \A k \in SvcKey : w.sc[k] = Nil \/ DOMAIN w.sc[k] = {}
    /\ \A k \in SvcKey : k # id => w.sc[k] = Nil /\ w.am[k] = Nil
    /\ EndpointsOK(svc.withAff, id, w.eps, w.ec) /\ (svc.withEP <=> w.eps # <<>>)
    /\ w.am[id] # Nil <=> svc.withAff

\* The affinity is gone too.
Dropped(w, svc, u) ==
    /\ Typed(u) /\ u.svc = svc /\ u.res = "ok" /\ u.sets = w.sets /\ u.sc = w.sc
    /\ EndpointsOK(FALSE, SvcID(svc), u.eps, u.ec) /\ AddrsOf(u.eps) = AddrsOf(w.eps)
    /\ \A k \in SvcKey : u.am[k] = Nil

\* The Update rules and then the affinity map go.
LEMMA AffinityDropped ==
    ASSUME NEW svc \in ServiceInfo, NEW w, Emptied(w, svc), NEW u, u = DropAffinity(w, svc)
    PROVE  Dropped(w, svc, u)
<1> DEFINE id == SvcID(svc)
           w2 == IF svc.withEP THEN deleteAffinityEndpoint(w) ELSE w
           w3 == DeleteServiceAffinityMap(w2, id)
<1>0. id \in SvcKey /\ svc.withAff \in BOOLEAN
  BY SvcIDType
<1>1. /\ Typed(w) /\ w.svc = svc /\ w.res = "ok"
      /\ \A k \in SvcKey : w.sc[k] = Nil \/ DOMAIN w.sc[k] = {}
      /\ \A k \in SvcKey : k # id => w.am[k] = Nil
      /\ EndpointsOK(svc.withAff, id, w.eps, w.ec) /\ (svc.withEP <=> w.eps # <<>>)
      /\ w.am[id] # Nil <=> svc.withAff
  BY DEF Emptied
<1>2. u = IF ~svc.withAff THEN w ELSE IF w2.res # "ok" THEN w2 ELSE w3
  BY DEF DropAffinity
<1> HIDE DEF id
<1>3. CASE ~svc.withAff
  <2>1. u = w /\ svc.withAff = FALSE
    BY <1>0, <1>2, <1>3
  <2>2. EndpointsOK(FALSE, id, w.eps, w.ec)
    BY <1>1, <2>1
  <2>3. \A k \in SvcKey : w.am[k] = Nil
    BY <1>1, <1>3
  <2> QED BY <1>1, <2>1, <2>2, <2>3 DEF Dropped, id
<1>4. CASE svc.withAff
  <2>1. /\ Typed(w2) /\ w2.svc = svc /\ w2.res = "ok" /\ w2.sets = w.sets /\ w2.sc = w.sc
        /\ w2.am = w.am /\ EndpointsOK(FALSE, id, w2.eps, w2.ec) /\ AddrsOf(w2.eps) = AddrsOf(w.eps)
    <3>1. CASE svc.withEP
      <4> DEFINE z == deleteAffinityEndpoint(w)
      <4>1. EndpointsOK(TRUE, id, w.eps, w.ec)
        <5>1. svc.withAff = TRUE
          BY <1>0, <1>4
        <5> QED BY ONLY <1>1, <5>1
      <4>2. EndpointsChange(w, z) /\ z.res = "ok" /\ EndpointsOK(FALSE, id, z.eps, z.ec)
        BY ONLY <1>1, <4>1, DeleteAffinityEndpointOK
      <4>3. w2 = z
        BY <3>1
      <4> HIDE DEF z, w2
      <4>4. SameTargets(w.eps, z.eps) /\ w.eps \in Seq(EndpointInfo) /\ z.eps \in Seq(EndpointInfo)
        BY <1>1, <4>2 DEF EndpointsChange, Typed
      <4>5. AddrsOf(z.eps) = AddrsOf(w.eps)
        BY <4>4, SameTargetsChain
      <4> QED BY <1>1, <4>2, <4>3, <4>5 DEF EndpointsChange
    <3>2. CASE ~svc.withEP
      <4> DEFINE no == FALSE
      <4>1. w2 = w /\ w.eps = <<>>
        BY <1>1, <3>2
      <4> HIDE DEF w2, no
      <4>2. EndpointsOK(no, id, w.eps, w.ec)
        BY <1>1, <4>1, NoEndpointsOK
      <4> QED BY <1>1, <4>1, <4>2 DEF no
    <3> QED BY <3>1, <3>2
  <2> HIDE DEF w2
  <2>2. ~MapBusy(w2, id)
    <3>1. \A k \in SvcKey : w2.sc[k] = Nil \/ \A i \in DOMAIN w2.sc[k] : w2.sc[k][i].map # id
      BY <1>1, <2>1
    <3> QED BY <1>0, <2>1, <3>1, MapFree
  <2>3. w2.am[id] # Nil
    BY <1>1, <1>4, <2>1
  <2>4. /\ Typed(w3) /\ w3.svc = w2.svc /\ w3.eps = w2.eps /\ w3.sc = w2.sc /\ w3.ec = w2.ec
        /\ w3.sets = w2.sets /\ w3.res = w2.res
        /\ w3.am[id] = Nil /\ \A k \in SvcKey : k # id => w3.am[k] = w2.am[k]
    BY ONLY <1>0, <2>1, <2>2, <2>3, DeleteMapTyped
  <2>5. u = w3
    BY <1>2, <1>4, <2>1
  <2> HIDE DEF w3
  <2>6. \A k \in SvcKey : w3.am[k] = Nil
    BY <1>1, <2>1, <2>4
  <2> QED BY <2>1, <2>4, <2>5, <2>6 DEF Dropped, id
<1> QED BY <1>0, <1>3, <1>4

\* The service port leaves serviceMap and its chain goes.
WithoutService(w, id) == [w EXCEPT !.svc = Nil, !.sc[id] = Nil]

\* Nothing else changes with them.
LEMMA WithoutServiceTyped ==
    ASSUME NEW w, Typed(w), NEW id \in SvcKey, NEW u, u = WithoutService(w, id)
    PROVE  /\ Typed(u) /\ u.svc = Nil /\ u.eps = w.eps /\ u.ec = w.ec /\ u.am = w.am
           /\ u.sets = w.sets /\ u.res = w.res /\ u.sc[id] = Nil
           /\ \A k \in SvcKey : k # id => u.sc[k] = w.sc[k]
<1>0. w.sc \in [SvcKey -> Chain] /\ Nil \in Chain
  BY DEF Typed, Chain
<1>1. /\ DOMAIN u = Fields /\ u.svc = Nil /\ u.eps = w.eps /\ u.ec = w.ec /\ u.am = w.am
      /\ u.sets = w.sets /\ u.res = w.res /\ u.sc = [w.sc EXCEPT ![id] = Nil]
  BY DEF WithoutService, Typed, Fields
<1>2. u.sc \in [SvcKey -> Chain] /\ u.sc[id] = Nil /\ \A k \in SvcKey : k # id => u.sc[k] = w.sc[k]
  BY <1>0, <1>1
<1>3. Typed(u)
  BY <1>1, <1>2 DEF Typed
<1> QED BY <1>1, <1>2, <1>3

\* deleteServicePort: when the cached Service object knows the elements of the
\* port, nothing of it is left behind.
LEMMA DeleteServicePortOK ==
    ASSUME NEW spn \in ServicePortName, NEW stored, NEW w, PortOK(w), w.res = "ok",
           w.svc # Nil => \A x \in RemoveFromSets(w.sets, StoredElements(spn, w.svc, stored)) :
                             x.to # <<spn, SvcID(w.svc)>>
    PROVE  LET u == deleteServicePort(spn, stored, w) IN
           /\ PortOK(u) /\ u.res = "ok"
           /\ IF w.svc = Nil THEN u = w ELSE Effect(u, FALSE, FALSE, AddrsOf(w.eps))
<1>1. CASE w.svc = Nil
  BY <1>1 DEF deleteServicePort
<1>2. CASE w.svc # Nil
  <2> DEFINE svc == w.svc
             id == SvcID(svc)
             c  == w.sc[id]
             d  == <<>>
             known == StoredElements(spn, svc, stored)
             gone == known \cup IF svc.withEP THEN {} ELSE NoEndpointsElements(spn, svc)
             less == RemoveFromSets(w.sets, gone)
             w0 == WithSets(w, less)
             w1 == WithChain(w0, id, d)
             w3 == DropAffinity(w1, svc)
             u  == WithoutService(w3, id)
  <2>1. /\ Typed(w) /\ svc \in ServiceInfo /\ id \in SvcKey /\ svc.ruleID \in Seq(Handles)
        /\ ChainOK(svc, w.eps, c) /\ (svc.withEP <=> w.eps # <<>>)
        /\ EndpointsOK(svc.withAff, id, w.eps, w.ec)
        /\ \A k \in SvcKey : k # id => w.sc[k] = Nil /\ w.am[k] = Nil
        /\ w.am[id] # Nil <=> svc.withAff
    BY <1>2, PortKnown
  <2>2. DeleteChainRules(c, svc.ruleID) = d
    <3>1. Remembers(c, svc.ruleID) /\ c # Nil
      BY <2>1, RememberedExists DEF ChainOK
    <3> QED BY <3>1, DeleteAllRemembered
  <2>3. deleteServicePort(spn, stored, w)
          = IF w3.res # "ok" THEN w3
            ELSE [w3 EXCEPT !.svc = Nil, !.sc[id] = IF SvcChainBusy(w3, <<spn, id>>) THEN @ ELSE Nil]
    <3>1. w1 = [w EXCEPT !.sets = RemoveFromSets(@, gone), !.sc[id] = DeleteChainRules(@, svc.ruleID)]
      BY <2>2 DEF WithSets, WithChain
    <3> HIDE DEF w1
    <3> QED BY <1>2, <3>1 DEF deleteServicePort, DropAffinity
  <2>4. less \subseteq SetElement /\ \A x \in less : x.to # <<spn, id>>
    <3>1. w.sets \subseteq SetElement
      BY <2>1 DEF Typed
    <3>2. \A x \in RemoveFromSets(w.sets, known) : x.to # <<spn, id>>
      BY <1>2
    <3>3. less \subseteq w.sets /\ less \subseteq RemoveFromSets(w.sets, known)
      BY DEF RemoveFromSets
    <3> HIDE DEF less
    <3> QED BY <3>1, <3>2, <3>3
  <2> HIDE DEF less
  <2>5. /\ Typed(w0) /\ w0.svc = w.svc /\ w0.eps = w.eps /\ w0.sc = w.sc /\ w0.ec = w.ec /\ w0.am = w.am
        /\ w0.sets = less /\ w0.res = w.res
    BY <2>1, <2>4, WithSetsTyped
  <2>6. d \in Chain /\ DOMAIN d = {}
    BY DEF Chain
  <2> HIDE DEF w0, d, svc, id
  <2>7. /\ Typed(w1) /\ w1.svc = svc /\ w1.eps = w.eps /\ w1.ec = w.ec /\ w1.am = w.am
        /\ w1.sets = less /\ w1.res = "ok"
        /\ w1.sc[id] = d /\ \A k \in SvcKey : k # id => w1.sc[k] = w.sc[k]
    <3>1. /\ Typed(w1) /\ w1.svc = w0.svc /\ w1.eps = w0.eps /\ w1.ec = w0.ec /\ w1.am = w0.am
          /\ w1.sets = w0.sets /\ w1.res = w0.res
          /\ w1.sc[id] = d /\ \A k \in SvcKey : k # id => w1.sc[k] = w0.sc[k]
      BY ONLY <2>1, <2>5, <2>6, WithChainTyped
    <3> HIDE DEF w1
    <3> QED BY <2>5, <3>1 DEF svc
  <2> HIDE DEF w1
  <2>8. Emptied(w1, svc)
    <3>1. \A k \in SvcKey : w1.sc[k] = Nil \/ DOMAIN w1.sc[k] = {}
      BY <2>1, <2>6, <2>7
    <3>2. /\ \A k \in SvcKey : k # id => w1.sc[k] = Nil /\ w1.am[k] = Nil
          /\ EndpointsOK(svc.withAff, id, w1.eps, w1.ec) /\ (svc.withEP <=> w1.eps # <<>>)
          /\ w1.am[id] # Nil <=> svc.withAff
      BY <2>1, <2>7
    <3> QED BY <2>7, <3>1, <3>2 DEF Emptied, id
  <2>9. /\ Typed(w3) /\ w3.svc = svc /\ w3.res = "ok" /\ w3.sets = w1.sets /\ w3.sc = w1.sc
        /\ EndpointsOK(FALSE, SvcID(svc), w3.eps, w3.ec) /\ AddrsOf(w3.eps) = AddrsOf(w1.eps)
        /\ \A k \in SvcKey : w3.am[k] = Nil
    <3>1. svc \in ServiceInfo /\ w3 = DropAffinity(w1, svc)
      BY <2>1
    <3> HIDE DEF w3
    <3>2. Dropped(w1, svc, w3)
      BY ONLY <2>8, <3>1, AffinityDropped
    <3> QED BY <3>2 DEF Dropped
  <2> HIDE DEF w3
  <2>10. ~SvcChainBusy(w3, <<spn, id>>)
    BY <2>4, <2>7, <2>9 DEF SvcChainBusy
  <2>11. deleteServicePort(spn, stored, w) = u
    BY <2>3, <2>9, <2>10 DEF WithoutService
  <2>12. /\ Typed(u) /\ u.svc = Nil /\ u.eps = w3.eps /\ u.ec = w3.ec /\ u.am = w3.am
         /\ u.sets = w3.sets /\ u.res = w3.res /\ u.sc[id] = Nil
         /\ \A k \in SvcKey : k # id => u.sc[k] = w3.sc[k]
    BY <2>1, <2>9, WithoutServiceTyped
  <2> HIDE DEF u
  <2>13. \A k \in SvcKey : u.sc[k] = Nil /\ u.am[k] = Nil
    BY <2>1, <2>7, <2>9, <2>12
  <2>14. EndpointsOK(FALSE, SvcID(u.svc), u.eps, u.ec)
    <3> DEFINE jd == SvcID(u.svc)
               kd == SvcID(svc)
    <3>1. EndpointsOK(FALSE, kd, u.eps, u.ec)
      BY <2>9, <2>12
    <3> HIDE DEF jd, kd
    <3>2. EndpointsOK(FALSE, jd, u.eps, u.ec)
      BY <3>1, PlainEndpoints
    <3> QED BY <3>2 DEF jd
  <2>15. PortOK(u)
    BY <2>12, <2>13, <2>14, PortUnknown
  <2>16. Effect(u, FALSE, FALSE, AddrsOf(w.eps))
    BY <2>7, <2>9, <2>12 DEF Effect, HasAff
  <2> QED BY <1>2, <2>9, <2>11, <2>12, <2>15, <2>16
<1> QED BY <1>1, <1>2

(***************************************************************************)
(* The inductive invariant.                                                *)
(***************************************************************************)
\* Every service port is in step with the kernel, and the process is running
\* or was killed.
PortInv ==
    /\ TypeOK
    /\ proc # "panicked"
    /\ \A spn \in ServicePortName : PortOK(Local(spn))

(***************************************************************************)
(* One service port and the others.                                        *)
(***************************************************************************)
\* The state every critical section starts from.
LEMMA LocalFields ==
    ASSUME NEW spn
    PROVE  /\ DOMAIN Local(spn) = Fields /\ Local(spn).svc = serviceMap[spn]
           /\ Local(spn).eps = endpointsMap[spn] /\ Local(spn).sc = svcChain[spn]
           /\ Local(spn).ec = epChain[spn] /\ Local(spn).am = affinityMap[spn]
           /\ Local(spn).sets = sets /\ Local(spn).res = "ok"
BY DEF Local, Fields

\* The shared sets play no part in the invariant but for their type.
LEMMA PortOKOf ==
    ASSUME NEW u, PortOK(u), NEW v, DOMAIN v = Fields, v.svc = u.svc, v.eps = u.eps, v.sc = u.sc,
           v.ec = u.ec, v.am = u.am, v.sets \subseteq SetElement
    PROVE  PortOK(v)
<1>1. Typed(v)
  BY DEF PortOK, Typed
<1> QED BY <1>1 DEF PortOK

\* After a step, the service port spn is in the state u.
Becomes(spn, u) ==
    /\ serviceMap'[spn] = u.svc /\ endpointsMap'[spn] = u.eps /\ svcChain'[spn] = u.sc
    /\ epChain'[spn] = u.ec /\ affinityMap'[spn] = u.am

\* So it is in step with the kernel.
LEMMA PortAfter ==
    ASSUME NEW spn \in ServicePortName, NEW u, PortOK(u), Becomes(spn, u), sets' \subseteq SetElement
    PROVE  PortOK(Local(spn))'
<1> DEFINE v == Local(spn)'
<1>1. /\ DOMAIN v = Fields /\ v.svc = u.svc /\ v.eps = u.eps /\ v.sc = u.sc /\ v.ec = u.ec
      /\ v.am = u.am /\ v.sets = sets'
  BY DEF Local, Fields, Becomes
<1> HIDE DEF v
<1>2. PortOK(v)
  BY <1>1, PortOKOf
<1> QED BY <1>2 DEF v

\* The types of a service port that is in step.
LEMMA PortTypes ==
    ASSUME NEW u, PortOK(u)
    PROVE  /\ u.svc \in ServiceInfo \cup {Nil} /\ u.eps \in Seq(EndpointInfo)
           /\ u.sc \in [SvcKey -> Chain] /\ u.ec \in [Addr -> Chain]
           /\ u.am \in [SvcKey -> Timeout \cup {0, Nil}] /\ u.sets \subseteq SetElement
BY DEF PortOK, Typed

(***************************************************************************)
(* The actions.                                                            *)
(***************************************************************************)
\* A critical section that leaves its service port in step.
LEMMA CommitKeepsStep ==
    ASSUME PortInv, NEW spn \in ServicePortName, NEW u, PortOK(u), u.res = "ok", Commit(spn, u)
    PROVE  PortInv'
<1>1. /\ serviceMap' = [serviceMap EXCEPT ![spn] = u.svc]
      /\ endpointsMap' = [endpointsMap EXCEPT ![spn] = u.eps]
      /\ svcChain' = [svcChain EXCEPT ![spn] = u.sc]
      /\ epChain' = [epChain EXCEPT ![spn] = u.ec]
      /\ affinityMap' = [affinityMap EXCEPT ![spn] = u.am]
      /\ sets' = u.sets /\ proc' = proc
  BY DEF Commit
<1>2. TypeOK
  BY DEF PortInv
<1>3. TypeOK'
  <2>1. serviceMap' \in [ServicePortName -> ServiceInfo \cup {Nil}]
    BY <1>1, <1>2, PortTypes DEF TypeOK
  <2>2. endpointsMap' \in [ServicePortName -> Seq(EndpointInfo)]
    BY <1>1, <1>2, PortTypes DEF TypeOK
  <2>3. svcChain' \in [ServicePortName -> [SvcKey -> Chain]]
    BY <1>1, <1>2, PortTypes DEF TypeOK
  <2>4. epChain' \in [ServicePortName -> [Addr -> Chain]]
    BY <1>1, <1>2, PortTypes DEF TypeOK
  <2>5. affinityMap' \in [ServicePortName -> [SvcKey -> Timeout \cup {0, Nil}]]
    BY <1>1, <1>2, PortTypes DEF TypeOK
  <2>6. sets' \subseteq SetElement /\ proc' \in {"running", "panicked", "killed"}
    BY <1>1, <1>2, PortTypes DEF TypeOK
  <2> QED BY <2>1, <2>2, <2>3, <2>4, <2>5, <2>6 DEF TypeOK
<1>4. proc' # "panicked"
  BY <1>1 DEF PortInv
<1>5. sets' \subseteq SetElement
  BY <1>3 DEF TypeOK
<1>6. ASSUME NEW s \in ServicePortName
      PROVE  PortOK(Local(s))'
  <2>1. CASE s = spn
    <3>1. Becomes(spn, u)
      BY <1>1, <1>2 DEF Becomes, TypeOK
    <3> QED BY <1>5, <2>1, <3>1, PortAfter
  <2>2. CASE s # spn
    <3>1. Becomes(s, Local(s))
      BY <1>1, <1>2, <2>2, LocalFields DEF Becomes, TypeOK
    <3>2. PortOK(Local(s))
      BY DEF PortInv
    <3> QED BY <1>5, <3>1, <3>2, PortAfter
  <2> QED BY <2>1, <2>2
<1> QED BY <1>3, <1>4, <1>6 DEF PortInv

\* processAffinityChange leaves every port of the service in step.
LEMMA AffinityChangeKeepsStep ==
    ASSUME PortInv, NEW ports \in SUBSET ServicePortName, NEW after, AffinityChange(ports, after),
           \A s \in ports : PortOK(after[s]) /\ after[s].res = "ok"
    PROVE  PortInv'
<1>1. /\ serviceMap' = [s \in ServicePortName |-> IF s \in ports THEN after[s].svc ELSE serviceMap[s]]
      /\ endpointsMap' = [s \in ServicePortName |-> IF s \in ports THEN after[s].eps ELSE endpointsMap[s]]
      /\ svcChain' = [s \in ServicePortName |-> IF s \in ports THEN after[s].sc ELSE svcChain[s]]
      /\ epChain' = [s \in ServicePortName |-> IF s \in ports THEN after[s].ec ELSE epChain[s]]
      /\ affinityMap' = [s \in ServicePortName |-> IF s \in ports THEN after[s].am ELSE affinityMap[s]]
      /\ sets' = sets /\ proc' = proc
  BY DEF AffinityChange
<1>2. TypeOK
  BY DEF PortInv
<1>3. \A s \in ports : /\ after[s].svc \in ServiceInfo \cup {Nil} /\ after[s].eps \in Seq(EndpointInfo)
                       /\ after[s].sc \in [SvcKey -> Chain] /\ after[s].ec \in [Addr -> Chain]
                       /\ after[s].am \in [SvcKey -> Timeout \cup {0, Nil}]
  BY PortTypes
<1>4. TypeOK'
  <2>1. serviceMap' \in [ServicePortName -> ServiceInfo \cup {Nil}]
    BY <1>1, <1>2, <1>3 DEF TypeOK
  <2>2. endpointsMap' \in [ServicePortName -> Seq(EndpointInfo)]
    BY <1>1, <1>2, <1>3 DEF TypeOK
  <2>3. svcChain' \in [ServicePortName -> [SvcKey -> Chain]]
    BY <1>1, <1>2, <1>3 DEF TypeOK
  <2>4. epChain' \in [ServicePortName -> [Addr -> Chain]]
    BY <1>1, <1>2, <1>3 DEF TypeOK
  <2>5. affinityMap' \in [ServicePortName -> [SvcKey -> Timeout \cup {0, Nil}]]
    BY <1>1, <1>2, <1>3 DEF TypeOK
  <2> QED BY <1>1, <1>2, <2>1, <2>2, <2>3, <2>4, <2>5 DEF TypeOK
<1>5. sets' \subseteq SetElement
  BY <1>4 DEF TypeOK
<1>6. ASSUME NEW s \in ServicePortName
      PROVE  PortOK(Local(s))'
  <2>1. CASE s \in ports
    <3> DEFINE u == after[s]
    <3>1. Becomes(s, u) /\ PortOK(u)
      BY <1>1, <2>1 DEF Becomes
    <3> HIDE DEF u
    <3> QED BY <1>5, <3>1, PortAfter
  <2>2. CASE s \notin ports
    <3>1. Becomes(s, Local(s))
      BY <1>1, <1>2, <2>2, LocalFields DEF Becomes, TypeOK
    <3>2. PortOK(Local(s))
      BY DEF PortInv
    <3> QED BY <1>5, <3>1, <3>2, PortAfter
  <2> QED BY <2>1, <2>2
<1> QED BY <1>1, <1>4, <1>6 DEF PortInv

\* Steps that change the sets or the process only.
LEMMA OthersKeepStep ==
    ASSUME PortInv, sets' \subseteq SetElement, proc' \in {"running", "killed"},
           UNCHANGED <<serviceMap, endpointsMap, svcChain, epChain, affinityMap>>
    PROVE  PortInv'
<1>1. TypeOK'
  BY DEF PortInv, TypeOK
<1>2. ASSUME NEW s \in ServicePortName
      PROVE  PortOK(Local(s))'
  <2>1. Becomes(s, Local(s)) /\ PortOK(Local(s))
    BY LocalFields DEF Becomes, PortInv
  <2> QED BY <2>1, PortAfter
<1> QED BY <1>1, <1>2 DEF PortInv

\* The elements a Service update adds one by one have their type.
LEMMA SetElementKeepsStep ==
    ASSUME PortInv, NEW spn \in ServicePortName, NEW set \in UpdatedSets, NEW port \in Port,
           NEW ip \in AddressesOf(set),
           AddSetElement(spn, set, ip, port) \/ RemoveSetElement(spn, set, ip, port)
    PROVE  PortInv'
<1>1. serviceMap[spn] \in ServiceInfo /\ sets \subseteq SetElement
  BY DEF PortInv, TypeOK, AddSetElement, RemoveSetElement
<1>2. set \in SetNames \ {"noendpoints"} /\ ip \in IP \cup {Nil}
  BY ProxyAssumption DEF AddressesOf
<1>3. CASE AddSetElement(spn, set, ip, port)
  <2> DEFINE ref == <<spn, SvcID(serviceMap[spn])>>
             to == IF set = "markmasq" THEN Nil ELSE ref
             e == Element(set, spn, ip, port, to)
  <2>1. e \in SetElement
    <3>1. to \in {Nil, ref}
      OBVIOUS
    <3>2. e \in Owned(spn, serviceMap[spn])
      <4> HIDE DEF to
      <4> QED BY <1>2, <3>1, ElementOwned
    <3> QED BY <1>1, <3>2, OwnedType
  <2>2. sets' = AddToSet(sets, e)
    BY <1>3 DEF AddSetElement
  <2> HIDE DEF e
  <2>3. sets' \subseteq SetElement
    BY <1>1, <2>1, <2>2 DEF AddToSet
  <2> QED BY <1>3, <2>3, OthersKeepStep DEF AddSetElement, PortInv
<1>4. CASE RemoveSetElement(spn, set, ip, port)
  <2>1. sets' \subseteq SetElement
    BY <1>1, <1>4 DEF RemoveSetElement, RemoveFromSets
  <2> QED BY <1>4, <2>1, OthersKeepStep DEF RemoveSetElement, PortInv
<1> QED BY <1>3, <1>4

\* A service port nobody has told the process about.
LEMMA FreshPort ==
    ASSUME NEW u, DOMAIN u = Fields, u.svc = Nil, u.eps = <<>>, u.sc = [id \in SvcKey |-> Nil],
           u.ec = [a \in Addr |-> Nil], u.am = [id \in SvcKey |-> Nil], u.sets = {}
    PROVE  PortOK(u)
<1>1. u.eps \in Seq(EndpointInfo) /\ DOMAIN u.eps = {}
  OBVIOUS
<1>2. Typed(u)
  BY <1>1 DEF Typed, Chain
<1>3. EndpointsOK(FALSE, SvcID(u.svc), u.eps, u.ec)
  BY <1>1 DEF EndpointsOK
<1>4. \A k \in SvcKey : u.sc[k] = Nil /\ u.am[k] = Nil
  OBVIOUS
<1> QED BY <1>2, <1>3, <1>4, PortUnknown

\* The process starts, and starts again, with nothing.
LEMMA StartInStep ==
    ASSUME Init
    PROVE  PortInv
<1>1. TypeOK
  BY DEF Init, TypeOK, Chain
<1>2. ASSUME NEW spn \in ServicePortName
      PROVE  PortOK(Local(spn))
  <2> DEFINE u == Local(spn)
  <2>1. /\ DOMAIN u = Fields /\ u.svc = Nil /\ u.eps = <<>> /\ u.sc = [id \in SvcKey |-> Nil]
        /\ u.ec = [a \in Addr |-> Nil] /\ u.am = [id \in SvcKey |-> Nil] /\ u.sets = {}
    BY LocalFields DEF Init
  <2> HIDE DEF u
  <2>2. PortOK(u)
    BY <2>1, FreshPort
  <2> QED BY <2>2 DEF u
<1> QED BY <1>1, <1>2 DEF PortInv, Init

\* A restart is a new start.
LEMMA RestartInStep == Restart => PortInv'
<1>1. Init => PortInv
  BY StartInStep
<1>2. Restart => Init'
  BY DEF Restart, Init
<1> QED BY <1>1, <1>2, PTL

\* Every critical section that respects its contract leaves every service port
\* in step.
LEMMA SectionsKeepStep ==
    ASSUME PortInv
    PROVE  /\ \A spn \in ServicePortName, spec \in PortSpec : AddServicePort(spn, spec) => PortInv'
           /\ \A spn \in ServicePortName : \A stored : DeleteServicePort(spn, stored) => PortInv'
           /\ \A spn \in ServicePortName, addr \in Addr, local \in BOOLEAN :
                AddEndpoint(spn, addr, local) \/ DeleteEndpoint(spn, addr, local) => PortInv'
           /\ \A ports \in SUBSET ServicePortName : AddAffinity(ports) \/ RemoveAffinity(ports) => PortInv'
<1>0. ASSUME NEW spn \in ServicePortName
      PROVE  PortOK(Local(spn)) /\ Local(spn).res = "ok"
  BY LocalFields DEF PortInv
<1>1. ASSUME NEW spn \in ServicePortName, NEW spec \in PortSpec, AddServicePort(spn, spec)
      PROVE  PortInv'
  <2> DEFINE w == Local(spn)
             u == addServicePort(spn, spec, w)
  <2>1. AddAllToSetsOK(w.sets, ServicePortElements(spn, NewServiceInfo(spec, w.eps # <<>>)))
    BY <1>1, LocalFields DEF AddServicePort
  <2>2. Commit(spn, u)
    BY <1>1 DEF AddServicePort
  <2>3. PortOK(w) /\ w.res = "ok"
    BY <1>0
  <2> HIDE DEF w
  <2>4. PortOK(u) /\ u.res = "ok"
    BY <2>1, <2>3, AddServicePortOK
  <2> QED BY <2>2, <2>4, CommitKeepsStep
<1>2. ASSUME NEW spn \in ServicePortName, NEW stored, DeleteServicePort(spn, stored)
      PROVE  PortInv'
  <2> DEFINE w == Local(spn)
             u == deleteServicePort(spn, stored, w)
  <2>1. w.svc # Nil => \A x \in RemoveFromSets(w.sets, StoredElements(spn, w.svc, stored)) :
                          x.to # <<spn, SvcID(w.svc)>>
    BY <1>2, LocalFields DEF DeleteServicePort
  <2>2. Commit(spn, u)
    BY <1>2 DEF DeleteServicePort
  <2>3. PortOK(w) /\ w.res = "ok"
    BY <1>0
  <2> HIDE DEF w
  <2>4. PortOK(u) /\ u.res = "ok"
    BY <2>1, <2>3, DeleteServicePortOK
  <2> QED BY <2>2, <2>4, CommitKeepsStep
<1>3. ASSUME NEW spn \in ServicePortName, NEW addr \in Addr, NEW local \in BOOLEAN,
             AddEndpoint(spn, addr, local)
      PROVE  PortInv'
  <2> DEFINE w == Local(spn)
             u == addEndpoint(spn, addr, local, w)
  <2>1. \A i \in DOMAIN w.eps : w.eps[i].addr # addr
    BY <1>3, LocalFields DEF AddEndpoint
  <2>2. Commit(spn, u)
    BY <1>3 DEF AddEndpoint
  <2>3. PortOK(w) /\ w.res = "ok"
    BY <1>0
  <2> HIDE DEF w
  <2>4. PortOK(u) /\ u.res = "ok"
    BY <2>1, <2>3, AddEndpointOK
  <2> QED BY <2>2, <2>4, CommitKeepsStep
<1>4. ASSUME NEW spn \in ServicePortName, NEW addr \in Addr, NEW local \in BOOLEAN,
             DeleteEndpoint(spn, addr, local)
      PROVE  PortInv'
  <2> DEFINE w == Local(spn)
             u == deleteEndpoint(spn, addr, local, w)
  <2>1. Commit(spn, u)
    BY <1>4 DEF DeleteEndpoint
  <2>2. PortOK(w) /\ w.res = "ok"
    BY <1>0
  <2> HIDE DEF w
  <2>3. PortOK(u) /\ u.res = "ok"
    BY <2>2, DeleteEndpointOK
  <2> QED BY <2>1, <2>3, CommitKeepsStep
<1>5. ASSUME NEW ports \in SUBSET ServicePortName, AddAffinity(ports)
      PROVE  PortInv'
  <2> DEFINE after == [s \in ports |-> addAffinity(Local(s))]
  <2>1. ASSUME NEW s \in ports
        PROVE  PortOK(after[s]) /\ after[s].res = "ok"
    <3> DEFINE w == Local(s)
    <3>1. PortOK(w) /\ w.res = "ok" /\ w.svc # Nil /\ ~w.svc.withAff /\ w.eps # <<>>
      BY <1>0, <1>5, <2>1, LocalFields DEF AddAffinity
    <3> HIDE DEF w
    <3>2. PortOK(addAffinity(w)) /\ addAffinity(w).res = "ok"
      BY <3>1, AddAffinityOK
    <3>3. after[s] = addAffinity(w)
      BY <2>1 DEF w
    <3> QED BY <3>2, <3>3
  <2>2. AffinityChange(ports, after)
    BY <1>5 DEF AddAffinity
  <2> HIDE DEF after
  <2> QED BY <2>1, <2>2, AffinityChangeKeepsStep
<1>6. ASSUME NEW ports \in SUBSET ServicePortName, RemoveAffinity(ports)
      PROVE  PortInv'
  <2> DEFINE after == [s \in ports |-> removeAffinity(Local(s))]
  <2>1. ASSUME NEW s \in ports
        PROVE  PortOK(after[s]) /\ after[s].res = "ok"
    <3> DEFINE w == Local(s)
    <3>1. PortOK(w) /\ w.res = "ok" /\ w.svc # Nil /\ w.svc.withAff
      BY <1>0, <1>6, <2>1, LocalFields DEF RemoveAffinity
    <3> HIDE DEF w
    <3>2. PortOK(removeAffinity(w)) /\ removeAffinity(w).res = "ok"
      BY <3>1, RemoveAffinityOK
    <3>3. after[s] = removeAffinity(w)
      BY <2>1 DEF w
    <3> QED BY <3>2, <3>3
  <2>2. AffinityChange(ports, after)
    BY <1>6 DEF RemoveAffinity
  <2> HIDE DEF after
  <2> QED BY <2>1, <2>2, AffinityChangeKeepsStep
<1> QED BY <1>1, <1>2, <1>3, <1>4, <1>5, <1>6

\* The invariant is inductive, so it holds in every reachable state: after any
\* sequence of critical sections of the two informers, crashes and restarts,
\* every service port is in step with the kernel.
THEOREM PortInvariant == Spec => []PortInv
<1>1. Init => PortInv
  BY StartInStep
<1>2. PortInv /\ [Next]_vars => PortInv'
  <2> SUFFICES ASSUME PortInv, [Next]_vars PROVE PortInv'
    OBVIOUS
  <2>1. CASE Kill
    BY <2>1, OthersKeepStep DEF Kill, Stop, PortInv, TypeOK
  <2>2. CASE Restart
    BY <2>2, RestartInStep
  <2>3. CASE UNCHANGED vars
    BY <2>3, OthersKeepStep DEF vars, PortInv, TypeOK
  <2> QED BY <2>1, <2>2, <2>3, SectionsKeepStep, SetElementKeepsStep DEF Next
<1> QED BY <1>1, <1>2, PTL DEF Spec

(***************************************************************************)
(* What the invariant says of the rules.                                   *)
(***************************************************************************)
\* The types of all variables, for every set of constants.
THEOREM TypesHold == Spec => []TypeOK
<1>1. PortInv => TypeOK
  BY DEF PortInv
<1> QED BY <1>1, PortInvariant, PTL

\* No index of RuleID is out of range and no service port is missing where the
\* code takes it for granted, whatever the order of the critical sections.
THEOREM PanicsNever == Spec => []NeverPanics
<1>1. PortInv => NeverPanics
  BY DEF PortInv, NeverPanics
<1> QED BY <1>1, PortInvariant, PTL

\* A remembered chain has as many identifiers as rules, all different.
LEMMA RememberedIDs ==
    ASSUME NEW c, NEW ids, Remembers(c, ids)
    PROVE  Len(ids) = Len(c) /\ c \in Seq(RuleType) /\ IsInjective(ids)
<1>1. ids \in Seq(Handles) /\ Len(ids) = Len(c) /\ c \in Seq(RuleType)
  BY DEF Remembers
<1>2. DOMAIN ids = 1..Len(ids)
  BY <1>1, LenProperties
<1> QED BY <1>1, <1>2 DEF Remembers, IsInjective

\* A service chain that is up to date is the expected one.
LEMMA ChainExpected ==
    ASSUME NEW svc, NEW eps, NEW c, ChainOK(svc, eps, c)
    PROVE  /\ c = ExpectedServiceChain(svc, eps)
           /\ Len(svc.ruleID) = ExpectedRuleCount(svc, eps) /\ IsInjective(svc.ruleID)
<1>1. Len(svc.ruleID) = Len(c) /\ c \in Seq(RuleType) /\ IsInjective(svc.ruleID)
  BY RememberedIDs DEF ChainOK
<1>2. CASE eps = <<>>
  <2>1. Len(c) = 0
    BY <1>2 DEF ChainOK
  <2> QED BY <1>1, <1>2, <2>1, Tuples DEF ExpectedServiceChain, ExpectedRuleCount
<1>3. CASE eps # <<>> /\ svc.withAff
  <2>1. /\ Len(c) = 3 /\ c[1] = CounterRule(svc.ruleID[1])
        /\ c[2] = MatchActRule(svc.ruleID[2], SvcID(svc), eps) /\ c[3] = LoadBalanceRule(svc.ruleID[3], eps)
    BY <1>3 DEF ChainOK
  <2>2. c = <<c[1], c[2], c[3]>>
    BY <1>1, <2>1, Tuples
  <2> QED BY <1>1, <1>3, <2>1, <2>2 DEF ExpectedServiceChain, ExpectedRuleCount
<1>4. CASE eps # <<>> /\ ~svc.withAff
  <2>1. /\ Len(c) = 2 /\ c[1] = CounterRule(svc.ruleID[1]) /\ c[2] = LoadBalanceRule(svc.ruleID[2], eps)
    BY <1>4 DEF ChainOK
  <2>2. c = <<c[1], c[2]>>
    BY <1>1, <2>1, Tuples
  <2> QED BY <1>1, <1>4, <2>1, <2>2 DEF ExpectedServiceChain, ExpectedRuleCount
<1> QED BY <1>2, <1>3, <1>4

\* The rules of every service chain are those its endpoints and its affinity
\* ask for, and RuleID remembers them, in every reachable state.
THEOREM ServiceRulesAlwaysCurrent == Spec => []ServiceRulesCurrent
<1>1. ASSUME PortInv, NEW spn \in ServicePortName, serviceMap[spn] # Nil
      PROVE  LET svc == serviceMap[spn]
                 eps == endpointsMap[spn]
             IN  /\ svcChain[spn][SvcID(svc)] = ExpectedServiceChain(svc, eps)
                 /\ Len(svc.ruleID) = ExpectedRuleCount(svc, eps)
                 /\ IsInjective(svc.ruleID)
                 /\ svc.withEP <=> eps # <<>>
  <2> DEFINE w == Local(spn)
  <2>1. /\ w.svc = serviceMap[spn] /\ w.eps = endpointsMap[spn] /\ w.sc = svcChain[spn] /\ PortOK(w)
    BY <1>1, LocalFields DEF PortInv
  <2> HIDE DEF w
  <2>2. ChainOK(w.svc, w.eps, w.sc[SvcID(w.svc)]) /\ (w.svc.withEP <=> w.eps # <<>>)
    BY <1>1, <2>1 DEF PortOK
  <2>3. /\ w.sc[SvcID(w.svc)] = ExpectedServiceChain(w.svc, w.eps)
        /\ Len(w.svc.ruleID) = ExpectedRuleCount(w.svc, w.eps) /\ IsInjective(w.svc.ruleID)
    BY <2>2, ChainExpected
  <2> QED BY <2>1, <2>2, <2>3
<1>2. PortInv => ServiceRulesCurrent
  BY <1>1 DEF ServiceRulesCurrent
<1> QED BY <1>2, PortInvariant, PTL

\* Whatever exists in the kernel belongs to an entry of one of the two maps, in
\* every reachable state.
THEOREM NothingEverLeftBehind == Spec => []NothingLeftBehind
<1>1. ASSUME PortInv, NEW spn \in ServicePortName
      PROVE  /\ \A id \in SvcKey : svcChain[spn][id] # Nil =>
                   serviceMap[spn] # Nil /\ SvcID(serviceMap[spn]) = id
             /\ \A id \in SvcKey : affinityMap[spn][id] # Nil <=>
                   serviceMap[spn] # Nil /\ SvcID(serviceMap[spn]) = id /\ serviceMap[spn].withAff
             /\ \A a \in Addr : epChain[spn][a] # Nil =>
                   \E i \in DOMAIN endpointsMap[spn] : endpointsMap[spn][i].addr = a
  <2> DEFINE w == Local(spn)
  <2>1. /\ w.svc = serviceMap[spn] /\ w.eps = endpointsMap[spn] /\ w.sc = svcChain[spn]
        /\ w.ec = epChain[spn] /\ w.am = affinityMap[spn] /\ PortOK(w)
    BY <1>1, LocalFields DEF PortInv
  <2> HIDE DEF w
  <2> QED BY <2>1 DEF PortOK, EndpointsOK
<1>2. PortInv => NothingLeftBehind
  BY <1>1 DEF NothingLeftBehind
<1> QED BY <1>2, PortInvariant, PTL

\* A chain that is right for its endpoint is the expected one.
LEMMA EndpointExpected ==
    ASSUME NEW svc \in ServiceInfo \cup {Nil}, NEW ep, NEW c, EndpointOK(HasAff(svc), SvcID(svc), ep, c)
    PROVE  /\ c = ExpectedEndpointChain(svc, ep)
           /\ Len(ep.ruleID) = IF HasAff(svc) THEN 4 ELSE 3
           /\ IsInjective(ep.ruleID)
           /\ ep.withAff <=> HasAff(svc)
<1> DEFINE ids == ep.ruleID
           id == SvcID(svc)
<1>1. Len(ids) = Len(c) /\ c \in Seq(RuleType) /\ IsInjective(ids) /\ (ep.withAff <=> HasAff(svc))
  BY RememberedIDs DEF EndpointOK
<1>2. CASE HasAff(svc)
  <2> DEFINE r1 == UpdateRule(ids[1], id, ep)
             r2 == PlainRule(ids[2], "counter")
             r3 == PlainRule(ids[3], "masq")
             r4 == PlainRule(ids[4], "dnat")
  <2>1. Len(c) = 4 /\ c[1] = r1 /\ c[2] = r2 /\ c[3] = r3 /\ c[4] = r4
    BY <1>2 DEF EndpointOK
  <2>2. ExpectedEndpointChain(svc, ep) = <<r1>> \o <<r2, r3, r4>>
    BY <1>2 DEF ExpectedEndpointChain, EndpointRules, PlainRule, HasAff
  <2> HIDE DEF r1, r2, r3, r4
  <2>3. <<r1>> \o <<r2, r3, r4>> = <<r1, r2, r3, r4>>
    <3> DEFINE S == {r1, r2, r3, r4}
               t == <<r2, r3, r4>>
               d == <<r1>> \o t
    <3>1. r1 \in S /\ t \in Seq(S) /\ Len(t) = 3 /\ t[1] = r2 /\ t[2] = r3 /\ t[3] = r4
      OBVIOUS
    <3> HIDE DEF S, t
    <3>2. d \in Seq(S) /\ Len(d) = Len(t) + 1 /\ d[1] = r1 /\ \A i \in 1..Len(t) : d[i + 1] = t[i]
      <4>1. r1 \in S /\ t \in Seq(S)
        BY <3>1
      <4> QED BY ONLY <4>1, Prepend
    <3> HIDE DEF d
    <3>3. d[2] = r2 /\ d[3] = r3 /\ d[4] = r4 /\ Len(d) = 4
      <4>1. d[1 + 1] = t[1] /\ d[2 + 1] = t[2] /\ d[3 + 1] = t[3]
        BY <3>1, <3>2
      <4> QED BY <3>1, <3>2, <4>1
    <3>4. d = <<d[1], d[2], d[3], d[4]>>
      BY <3>2, <3>3, Tuples
    <3> QED BY <3>2, <3>3, <3>4 DEF d, t
  <2>4. c = <<c[1], c[2], c[3], c[4]>>
    BY <1>1, <2>1, Tuples
  <2>5. c = <<r1, r2, r3, r4>>
    BY <2>1, <2>4
  <2> QED BY <1>1, <1>2, <2>1, <2>2, <2>3, <2>5
<1>3. CASE ~HasAff(svc)
  <2> DEFINE r1 == PlainRule(ids[1], "counter")
             r2 == PlainRule(ids[2], "masq")
             r3 == PlainRule(ids[3], "dnat")
  <2>1. Len(c) = 3 /\ c[1] = r1 /\ c[2] = r2 /\ c[3] = r3
    BY <1>3 DEF EndpointOK
  <2>2. ExpectedEndpointChain(svc, ep) = <<r1, r2, r3>>
    BY <1>3 DEF ExpectedEndpointChain, EndpointRules, PlainRule, HasAff
  <2> HIDE DEF r1, r2, r3
  <2>3. c = <<c[1], c[2], c[3]>>
    BY <1>1, <2>1, Tuples
  <2>4. c = <<r1, r2, r3>>
    BY <2>1, <2>3
  <2> QED BY <1>1, <1>3, <2>1, <2>2, <2>4
<1> QED BY <1>2, <1>3

\* The rules of every endpoint chain are those its service port asks for, and
\* RuleID remembers them, whichever of service and endpoint came first.
THEOREM EndpointRulesAlwaysCurrent == Spec => []EndpointRulesCurrent
<1>1. ASSUME PortInv, NEW spn \in ServicePortName, NEW i \in DOMAIN endpointsMap[spn]
      PROVE  LET svc == serviceMap[spn]
                 ep  == endpointsMap[spn][i]
             IN  /\ epChain[spn][ep.addr] = ExpectedEndpointChain(svc, ep)
                 /\ Len(ep.ruleID) = IF svc # Nil /\ svc.withAff THEN 4 ELSE 3
                 /\ IsInjective(ep.ruleID)
                 /\ ep.withAff <=> svc # Nil /\ svc.withAff
                 /\ \A j \in DOMAIN endpointsMap[spn] : endpointsMap[spn][j].addr = ep.addr => i = j
  <2> DEFINE w == Local(spn)
             svc == serviceMap[spn]
             eps == endpointsMap[spn]
             ec == epChain[spn]
             ep == eps[i]
             c == ec[ep.addr]
  <2>1. /\ w.svc = svc /\ w.eps = eps /\ w.ec = ec /\ PortOK(w)
    BY <1>1, LocalFields DEF PortInv
  <2> HIDE DEF w
  <2>2. EndpointsOK(HasAff(svc), SvcID(svc), eps, ec) /\ svc \in ServiceInfo \cup {Nil}
    BY <2>1 DEF PortOK, Typed
  <2>3. EndpointOK(HasAff(svc), SvcID(svc), ep, c) /\ \A j \in DOMAIN eps : eps[j].addr = ep.addr => i = j
    BY <1>1, <2>2 DEF EndpointsOK
  <2> HIDE DEF svc, ep, c
  <2>4. /\ c = ExpectedEndpointChain(svc, ep)
        /\ Len(ep.ruleID) = IF HasAff(svc) THEN 4 ELSE 3
        /\ IsInjective(ep.ruleID)
        /\ ep.withAff <=> HasAff(svc)
    BY <2>2, <2>3, EndpointExpected
  <2> QED BY <2>3, <2>4 DEF HasAff, svc, ep, c
<1>2. PortInv => EndpointRulesCurrent
  BY <1>1 DEF EndpointRulesCurrent
<1> QED BY <1>2, PortInvariant, PTL

(***************************************************************************)
(* What no step does to the endpoints that stay.                           *)
(***************************************************************************)
\* A service port that stays, with or without affinity as it was, keeps the
\* endpoints it has before and after the step.
PortUndisturbed(spn) ==
    (/\ serviceMap[spn] # Nil /\ serviceMap'[spn] # Nil
     /\ serviceMap[spn].withAff = serviceMap'[spn].withAff) =>
    SameEndpoints(endpointsMap[spn], epChain[spn], endpointsMap'[spn], epChain'[spn])

\* No two endpoints of a port have the same address, so nothing changes for a
\* port that is left alone.
LEMMA LeftAlone ==
    ASSUME PortInv, NEW spn \in ServicePortName,
           endpointsMap'[spn] = endpointsMap[spn], epChain'[spn] = epChain[spn]
    PROVE  PortUndisturbed(spn)
<1> DEFINE eps == endpointsMap[spn]
           ec == epChain[spn]
<1>1. \A i, j \in DOMAIN eps : eps[i].addr = eps[j].addr => i = j
  <2>1. PortOK(Local(spn)) /\ Local(spn).eps = eps
    BY LocalFields DEF PortInv
  <2> QED BY <2>1 DEF PortOK, EndpointsOK
<1>2. SameEndpoints(eps, ec, eps, ec)
  BY <1>1 DEF SameEndpoints
<1> QED BY <1>2 DEF PortUndisturbed

\* A critical section that keeps the endpoints of its port, as long as the port
\* and its affinity stay, disturbs none.
LEMMA CommitUndisturbed ==
    ASSUME PortInv, NEW spn \in ServicePortName, NEW u, u.res = "ok", Commit(spn, u),
           (/\ serviceMap[spn] # Nil /\ u.svc # Nil /\ serviceMap[spn].withAff = u.svc.withAff) =>
           KeepsEndpoints(Local(spn), u)
    PROVE  \A s \in ServicePortName : PortUndisturbed(s)
<1>1. /\ serviceMap' = [serviceMap EXCEPT ![spn] = u.svc]
      /\ endpointsMap' = [endpointsMap EXCEPT ![spn] = u.eps]
      /\ epChain' = [epChain EXCEPT ![spn] = u.ec]
  BY DEF Commit
<1>2. TypeOK
  BY DEF PortInv
<1>3. /\ serviceMap'[spn] = u.svc /\ endpointsMap'[spn] = u.eps /\ epChain'[spn] = u.ec
      /\ \A s \in ServicePortName : s # spn =>
            endpointsMap'[s] = endpointsMap[s] /\ epChain'[s] = epChain[s]
  BY <1>1, <1>2 DEF TypeOK
<1>4. PortUndisturbed(spn)
  BY <1>3, LocalFields DEF PortUndisturbed, KeepsEndpoints
<1> QED BY <1>3, <1>4, LeftAlone

\* processAffinityChange turns the affinity of its ports, and leaves the others
\* alone.
LEMMA AffinityUndisturbed ==
    ASSUME PortInv, NEW ports \in SUBSET ServicePortName, NEW after, NEW sticky \in BOOLEAN,
           AffinityChange(ports, after),
           \A s \in ports : /\ after[s].res = "ok" /\ serviceMap[s].withAff = ~sticky
                            /\ after[s].svc # Nil => after[s].svc.withAff = sticky
    PROVE  \A s \in ServicePortName : PortUndisturbed(s)
<1>1. /\ serviceMap' = [s \in ServicePortName |-> IF s \in ports THEN after[s].svc ELSE serviceMap[s]]
      /\ endpointsMap' = [s \in ServicePortName |-> IF s \in ports THEN after[s].eps ELSE endpointsMap[s]]
      /\ epChain' = [s \in ServicePortName |-> IF s \in ports THEN after[s].ec ELSE epChain[s]]
  BY DEF AffinityChange
<1>2. ASSUME NEW s \in ports
      PROVE  PortUndisturbed(s)
  BY <1>1 DEF PortUndisturbed
<1>3. ASSUME NEW s \in ServicePortName, s \notin ports
      PROVE  PortUndisturbed(s)
  BY <1>1, <1>3, LeftAlone
<1> QED BY <1>2, <1>3

\* The affinity of a service port is on or off.
LEMMA AffinityOnOrOff ==
    ASSUME NEW u, PortOK(u), u.svc # Nil
    PROVE  u.svc.withAff \in BOOLEAN /\ (HasAff(u.svc) <=> u.svc.withAff)
BY SvcIDType DEF PortOK, Typed, HasAff

\* In no step of the proxy is the record or the chain of an endpoint that stays
\* touched while its service port keeps its affinity.
THEOREM EndpointsNeverDisturbed == Spec => EndpointsUndisturbed
<1>1. ASSUME PortInv, [Next]_vars
      PROVE  \A s \in ServicePortName : PortUndisturbed(s)
  <2>0. ASSUME NEW spn \in ServicePortName
        PROVE  PortOK(Local(spn)) /\ Local(spn).res = "ok" /\ Local(spn).svc = serviceMap[spn]
    BY <1>1, LocalFields DEF PortInv
  <2>1. ASSUME NEW spn \in ServicePortName, NEW spec \in PortSpec, AddServicePort(spn, spec)
        PROVE  \A s \in ServicePortName : PortUndisturbed(s)
    <3> DEFINE w == Local(spn)
               u == addServicePort(spn, spec, w)
    <3>1. AddAllToSetsOK(w.sets, ServicePortElements(spn, NewServiceInfo(spec, w.eps # <<>>)))
      BY <2>1, LocalFields DEF AddServicePort
    <3>2. Commit(spn, u) /\ PortOK(w) /\ w.res = "ok" /\ w.svc = serviceMap[spn]
      BY <2>0, <2>1 DEF AddServicePort
    <3> HIDE DEF w
    <3>3. u.res = "ok" /\ (w.svc # Nil => u = w)
      BY <3>1, <3>2, AddServicePortOK
    <3> HIDE DEF u
    <3>4. KeepsEndpoints(w, w)
      BY <3>2 DEF PortOK, EndpointsOK, KeepsEndpoints, SameEndpoints
    <3> QED BY <1>1, <3>2, <3>3, <3>4, CommitUndisturbed DEF w
  <2>2. ASSUME NEW spn \in ServicePortName, NEW stored, DeleteServicePort(spn, stored)
        PROVE  \A s \in ServicePortName : PortUndisturbed(s)
    <3> DEFINE w == Local(spn)
               u == deleteServicePort(spn, stored, w)
    <3>1. w.svc # Nil => \A x \in RemoveFromSets(w.sets, StoredElements(spn, w.svc, stored)) :
                            x.to # <<spn, SvcID(w.svc)>>
      BY <2>2, LocalFields DEF DeleteServicePort
    <3>2. Commit(spn, u) /\ PortOK(w) /\ w.res = "ok" /\ w.svc = serviceMap[spn]
      BY <2>0, <2>2 DEF DeleteServicePort
    <3> HIDE DEF w
    <3>3. u.res = "ok" /\ (w.svc # Nil => Effect(u, FALSE, FALSE, AddrsOf(w.eps)))
      BY <3>1, <3>2, DeleteServicePortOK
    <3> HIDE DEF u
    <3>4. w.svc # Nil => u.svc = Nil
      BY <3>3 DEF Effect
    <3> QED BY <1>1, <3>2, <3>3, <3>4, CommitUndisturbed DEF w
  <2>3. ASSUME NEW spn \in ServicePortName, NEW addr \in Addr, NEW local \in BOOLEAN,
               AddEndpoint(spn, addr, local)
        PROVE  \A s \in ServicePortName : PortUndisturbed(s)
    <3> DEFINE w == Local(spn)
               u == addEndpoint(spn, addr, local, w)
    <3>1. \A i \in DOMAIN w.eps : w.eps[i].addr # addr
      BY <2>3, LocalFields DEF AddEndpoint
    <3>2. Commit(spn, u) /\ PortOK(w) /\ w.res = "ok"
      BY <2>0, <2>3 DEF AddEndpoint
    <3> HIDE DEF w
    <3>3. u.res = "ok" /\ KeepsEndpoints(w, u)
      BY <3>1, <3>2, AddEndpointOK
    <3> HIDE DEF u
    <3> QED BY <1>1, <3>2, <3>3, CommitUndisturbed DEF w
  <2>4. ASSUME NEW spn \in ServicePortName, NEW addr \in Addr, NEW local \in BOOLEAN,
               DeleteEndpoint(spn, addr, local)
        PROVE  \A s \in ServicePortName : PortUndisturbed(s)
    <3> DEFINE w == Local(spn)
               u == deleteEndpoint(spn, addr, local, w)
    <3>1. Commit(spn, u) /\ PortOK(w) /\ w.res = "ok"
      BY <2>0, <2>4 DEF DeleteEndpoint
    <3> HIDE DEF w
    <3>2. u.res = "ok" /\ KeepsEndpoints(w, u)
      BY <3>1, DeleteEndpointOK
    <3> HIDE DEF u
    <3> QED BY <1>1, <3>1, <3>2, CommitUndisturbed DEF w
  <2>5. ASSUME NEW ports \in SUBSET ServicePortName, AddAffinity(ports)
        PROVE  \A s \in ServicePortName : PortUndisturbed(s)
    <3> DEFINE after == [s \in ports |-> addAffinity(Local(s))]
    <3>1. ASSUME NEW s \in ports
          PROVE  /\ after[s].res = "ok" /\ serviceMap[s].withAff = ~TRUE
                 /\ after[s].svc # Nil => after[s].svc.withAff = TRUE
      <4> DEFINE w == Local(s)
                 u == addAffinity(w)
      <4>1. /\ PortOK(w) /\ w.res = "ok" /\ w.svc # Nil /\ ~w.svc.withAff /\ w.eps # <<>>
            /\ w.svc = serviceMap[s]
        BY <2>0, <2>5, <3>1, LocalFields DEF AddAffinity
      <4>2. after[s] = u
        BY <3>1
      <4> HIDE DEF w
      <4>3. PortOK(u) /\ u.res = "ok" /\ Effect(u, TRUE, TRUE, AddrsOf(w.eps))
        BY <4>1, AddAffinityOK
      <4> HIDE DEF u
      <4>4. u.svc # Nil /\ u.svc.withAff = TRUE /\ w.svc.withAff = FALSE
        BY <4>1, <4>3, AffinityOnOrOff DEF Effect
      <4> HIDE DEF after
      <4> QED BY <4>1, <4>2, <4>3, <4>4
    <3>2. AffinityChange(ports, after)
      BY <2>5 DEF AddAffinity
    <3> HIDE DEF after
    <3> QED BY <1>1, <3>1, <3>2, AffinityUndisturbed
  <2>6. ASSUME NEW ports \in SUBSET ServicePortName, RemoveAffinity(ports)
        PROVE  \A s \in ServicePortName : PortUndisturbed(s)
    <3> DEFINE after == [s \in ports |-> removeAffinity(Local(s))]
    <3>1. ASSUME NEW s \in ports
          PROVE  /\ after[s].res = "ok" /\ serviceMap[s].withAff = ~FALSE
                 /\ after[s].svc # Nil => after[s].svc.withAff = FALSE
      <4> DEFINE w == Local(s)
                 u == removeAffinity(w)
      <4>1. PortOK(w) /\ w.res = "ok" /\ w.svc # Nil /\ w.svc.withAff /\ w.svc = serviceMap[s]
        BY <2>0, <2>6, <3>1, LocalFields DEF RemoveAffinity
      <4>2. after[s] = u
        BY <3>1
      <4> HIDE DEF w
      <4>3. PortOK(u) /\ u.res = "ok" /\ Effect(u, TRUE, FALSE, AddrsOf(w.eps))
        BY <4>1, RemoveAffinityOK
      <4> HIDE DEF u
      <4>4. u.svc # Nil /\ u.svc.withAff = FALSE /\ w.svc.withAff = TRUE
        BY <4>1, <4>3, AffinityOnOrOff DEF Effect
      <4> HIDE DEF after
      <4> QED BY <4>1, <4>2, <4>3, <4>4
    <3>2. AffinityChange(ports, after)
      BY <2>6 DEF RemoveAffinity
    <3> HIDE DEF after
    <3> QED BY <1>1, <3>1, <3>2, AffinityUndisturbed
  <2>7. ASSUME UNCHANGED <<serviceMap, endpointsMap, epChain>>
        PROVE  \A s \in ServicePortName : PortUndisturbed(s)
    BY <1>1, <2>7, LeftAlone
  <2>8. ASSUME NEW spn, NEW set, NEW ip, NEW port,
               AddSetElement(spn, set, ip, port) \/ RemoveSetElement(spn, set, ip, port)
        PROVE  \A s \in ServicePortName : PortUndisturbed(s)
    BY <2>7, <2>8 DEF AddSetElement, RemoveSetElement
  <2>9. CASE Kill
    BY <2>7, <2>9 DEF Kill, Stop
  <2>10. CASE Restart
    BY <2>10 DEF Restart, PortUndisturbed
  <2>11. CASE UNCHANGED vars
    BY <2>7, <2>11 DEF vars
  <2> QED BY <1>1, <2>1, <2>2, <2>3, <2>4, <2>5, <2>6, <2>8, <2>9, <2>10, <2>11 DEF Next
<1> DEFINE Undisturbed ==
             \A spn \in ServicePortName :
               (/\ serviceMap[spn] # Nil /\ serviceMap'[spn] # Nil
                /\ serviceMap[spn].withAff = serviceMap'[spn].withAff) =>
               \A i \in DOMAIN endpointsMap[spn], j \in DOMAIN endpointsMap'[spn] :
                  endpointsMap[spn][i].addr = endpointsMap'[spn][j].addr =>
                     /\ endpointsMap[spn][i] = endpointsMap'[spn][j]
                     /\ epChain[spn][endpointsMap[spn][i].addr] = epChain'[spn][endpointsMap[spn][i].addr]
<1>2. PortInv /\ [Next]_vars => [Undisturbed]_vars
  BY <1>1 DEF PortUndisturbed, SameEndpoints
<1> QED BY <1>2, PortInvariant, PTL DEF Spec, EndpointsUndisturbed
=============================================================================
