--------------------------- MODULE FlattenProofs ----------------------------
(***************************************************************************)
(* FlattenSeq, which puts a sequence of sequences together: what its       *)
(* elements are, how long it is, and that it undoes the cutting of a       *)
(* sequence into pieces.                                                   *)
(*                                                                         *)
(* FlattenSeq is a recursive function, so its lemmas are inductions on the *)
(* number of sequences.  SetInduction stands for the induction rule of the *)
(* library, which takes a predicate.                                       *)
(***************************************************************************)
EXTENDS Integers, SequencesExt, SequenceTheorems, WellFoundedInduction, NaturalsInduction, TLAPS

\* Induction: a set of numbers with 0 and the successor of each of its elements
\* has them all (it has no least number that is missing).
LEMMA SetInduction ==
    ASSUME NEW T \in SUBSET Nat, 0 \in T, \A n \in T : n + 1 \in T
    PROVE  T = Nat
<1> DEFINE R == {p \in Nat \X Nat : p[1] < p[2]}
           U == Nat \ T
<1>1. IsWellFoundedOn(R, Nat)
  <2>1. R = OpToRel(<, Nat)
    BY DEF OpToRel
  <2> QED BY <2>1, NatLessThanWellFounded
<1>2. SUFFICES ASSUME U # {} PROVE FALSE
  OBVIOUS
<1>3. PICK x \in U : \A y \in U : ~(<<y, x>> \in R)
  BY <1>1, <1>2, WFMin
<1>4. x \in Nat /\ x # 0 /\ x - 1 \in Nat /\ (x - 1) + 1 = x
  BY <1>3
<1>5. <<x - 1, x>> \in R
  BY <1>4
<1>6. x - 1 \in T
  BY <1>3, <1>4, <1>5
<1>7. (x - 1) + 1 \in T
  BY <1>6
<1> QED BY <1>3, <1>4, <1>7

\* f[i] is what the first i of the sequences make together, as in FlattenSeq.
IsFlat(f, seqs, n) == f = [i \in 1..n |-> IF i = 1 THEN seqs[i] ELSE f[i - 1] \o seqs[i]]

\* There is such a function.
LEMMA FlatExists ==
    ASSUME NEW seqs, NEW n \in Nat
    PROVE  \E f : IsFlat(f, seqs, n)
<1> DEFINE T == {m \in Nat : \E f : IsFlat(f, seqs, m)}
<1>1. 0 \in T
  <2>1. IsFlat([i \in 1..0 |-> 0], seqs, 0)
    BY DEF IsFlat
  <2> QED BY <2>1
<1>2. ASSUME NEW m \in T PROVE m + 1 \in T
  <2>1. PICK f : IsFlat(f, seqs, m)
    OBVIOUS
  <2> DEFINE g == [i \in 1..(m + 1) |-> IF i <= m THEN f[i] ELSE IF i = 1 THEN seqs[i] ELSE f[i - 1] \o seqs[i]]
             h == [i \in 1..(m + 1) |-> IF i = 1 THEN seqs[i] ELSE g[i - 1] \o seqs[i]]
  <2>2. ASSUME NEW i \in 1..(m + 1) PROVE g[i] = h[i]
    <3>1. CASE i = 1
      BY <2>1, <3>1 DEF IsFlat
    <3>2. CASE i # 1 /\ i <= m
      <4>1. i - 1 \in 1..m /\ i \in 1..m
        BY <3>2
      <4>2. f[i] = f[i - 1] \o seqs[i]
        BY <2>1, <3>2, <4>1 DEF IsFlat
      <4>3. g[i] = f[i] /\ g[i - 1] = f[i - 1]
        BY <3>2, <4>1
      <4> QED BY <3>2, <4>2, <4>3
    <3>3. CASE i # 1 /\ i = m + 1
      <4>0. i - 1 \in 1..(m + 1) /\ i - 1 <= m /\ ~(i <= m)
        BY <3>3
      <4>1. g[i - 1] = f[i - 1] /\ g[i] = f[i - 1] \o seqs[i]
        BY <3>3, <4>0
      <4> QED BY <3>3, <4>1
    <3> QED BY <3>1, <3>2, <3>3
  <2>3. g = h
    BY <2>2
  <2>4. IsFlat(g, seqs, m + 1)
    <3> HIDE DEF g
    <3> QED BY <2>3 DEF IsFlat
  <2> QED BY <2>4
<1>3. T = Nat
  <2> HIDE DEF T
  <2>1. T \in SUBSET Nat
    BY DEF T
  <2> QED BY <1>1, <1>2, <2>1, SetInduction
<1> QED BY <1>3

\* FlattenSeq is its last value.
LEMMA FlattenDef ==
    ASSUME NEW seqs, Len(seqs) \in Nat \ {0}
    PROVE  \E f : IsFlat(f, seqs, Len(seqs)) /\ FlattenSeq(seqs) = f[Len(seqs)]
<1> DEFINE f == CHOOSE f : IsFlat(f, seqs, Len(seqs))
<1>1. IsFlat(f, seqs, Len(seqs))
  BY FlatExists
<1>2. FlattenSeq(seqs) = f[Len(seqs)]
  BY DEF FlattenSeq, IsFlat
<1> QED BY <1>1, <1>2

\* The elements of two sequences put together.
LEMMA RangeConcat ==
    ASSUME NEW S, NEW q \in Seq(S), NEW r \in Seq(S)
    PROVE  Range(q \o r) = Range(q) \cup Range(r)
<1>1. /\ DOMAIN (q \o r) = 1..(Len(q) + Len(r)) /\ DOMAIN q = 1..Len(q) /\ DOMAIN r = 1..Len(r)
      /\ Len(q) \in Nat /\ Len(r) \in Nat
  OBVIOUS
<1>2. \A k \in 1..(Len(q) + Len(r)) : (q \o r)[k] = IF k <= Len(q) THEN q[k] ELSE r[k - Len(q)]
  OBVIOUS
<1>3. ASSUME NEW k \in DOMAIN (q \o r) PROVE (q \o r)[k] \in Range(q) \cup Range(r)
  <2>1. CASE k <= Len(q)
    <3>1. k \in DOMAIN q
      BY <1>1, <2>1
    <3> QED BY <1>1, <1>2, <2>1, <3>1 DEF Range
  <2>2. CASE ~(k <= Len(q))
    <3>1. k - Len(q) \in DOMAIN r
      BY <1>1, <2>2
    <3> QED BY <1>1, <1>2, <2>2, <3>1 DEF Range
  <2> QED BY <2>1, <2>2
<1>4. ASSUME NEW k \in DOMAIN q PROVE q[k] \in Range(q \o r)
  <2>1. k \in DOMAIN (q \o r) /\ (q \o r)[k] = q[k]
    BY <1>1, <1>2
  <2> QED BY <2>1 DEF Range
<1>5. ASSUME NEW k \in DOMAIN r PROVE r[k] \in Range(q \o r)
  <2>1. Len(q) + k \in DOMAIN (q \o r) /\ (q \o r)[Len(q) + k] = r[k]
    BY <1>1, <1>2
  <2> QED BY <2>1 DEF Range
<1>6. Range(q \o r) \subseteq Range(q) \cup Range(r)
  BY <1>3 DEF Range
<1>7. Range(q) \subseteq Range(q \o r)
  BY <1>4 DEF Range
<1>8. Range(r) \subseteq Range(q \o r)
  BY <1>5 DEF Range
<1> QED BY <1>6, <1>7, <1>8

\* The elements of the first m sequences.
RangeOfFirst(seqs, m) == UNION {Range(seqs[i]) : i \in 1..m}

\* FlattenSeq has the elements of all the sequences.
LEMMA FlattenElements ==
    ASSUME NEW S, NEW seqs \in Seq(Seq(S))
    PROVE  /\ FlattenSeq(seqs) \in Seq(S)
           /\ Range(FlattenSeq(seqs)) = UNION {Range(seqs[i]) : i \in DOMAIN seqs}
<1> DEFINE n == Len(seqs)
<1>1. n \in Nat /\ DOMAIN seqs = 1..n /\ \A i \in 1..n : seqs[i] \in Seq(S)
  OBVIOUS
<1>2. CASE n = 0
  <2>1. FlattenSeq(seqs) = seqs /\ seqs = <<>>
    BY <1>2 DEF FlattenSeq
  <2> QED BY <2>1 DEF Range
<1>3. CASE n # 0
  <2>2. PICK f : IsFlat(f, seqs, n) /\ FlattenSeq(seqs) = f[n]
    BY <1>1, <1>3, FlattenDef
  <2> DEFINE Good(m) == f[m] \in Seq(S) /\ Range(f[m]) = RangeOfFirst(seqs, m)
             T == {m \in Nat : m \in 1..n => Good(m)}
  <2> HIDE DEF Good
  <2>3. 0 \in T
    OBVIOUS
  <2>4. ASSUME NEW m \in T, m + 1 \in 1..n PROVE Good(m + 1)
    <3>0. m \in Nat /\ seqs[m + 1] \in Seq(S)
      BY <1>1, <2>4
    <3>1. CASE m = 0
      <4>1. f[1] = seqs[1]
        BY <1>1, <2>2, <2>4, <3>1 DEF IsFlat
      <4>2. RangeOfFirst(seqs, 1) = Range(seqs[1])
        BY DEF RangeOfFirst
      <4>3. f[m + 1] = seqs[m + 1] /\ RangeOfFirst(seqs, m + 1) = Range(seqs[m + 1])
        BY <3>1, <4>1, <4>2
      <4> QED BY <3>0, <4>3 DEF Good
    <3>2. CASE m # 0
      <4>1. m \in 1..n /\ Good(m)
        BY <1>1, <2>4, <3>0, <3>2
      <4>2. f[m + 1] = f[m] \o seqs[m + 1]
        <5>1. m + 1 \in 1..n /\ m + 1 # 1 /\ (m + 1) - 1 = m
          BY <2>4, <3>0, <3>2
        <5> HIDE DEF T
        <5>2. \A i \in 1..n : f[i] = IF i = 1 THEN seqs[i] ELSE f[i - 1] \o seqs[i]
          BY <2>2 DEF IsFlat
        <5>3. f[m + 1] = IF m + 1 = 1 THEN seqs[m + 1] ELSE f[(m + 1) - 1] \o seqs[m + 1]
          BY <5>1, <5>2
        <5> QED BY <5>1, <5>3
      <4>3. RangeOfFirst(seqs, m + 1) = RangeOfFirst(seqs, m) \cup Range(seqs[m + 1])
        <5>1. \A i : i \in 1..(m + 1) <=> i \in 1..m \/ i = m + 1
          <6> HIDE DEF T
          <6> QED BY <3>0
        <5> QED BY <5>1 DEF RangeOfFirst
      <4>4. f[m] \in Seq(S) /\ Range(f[m]) = RangeOfFirst(seqs, m)
        BY <4>1 DEF Good
      <4>5. f[m] \o seqs[m + 1] \in Seq(S)
        BY <3>0, <4>4
      <4>6. Range(f[m] \o seqs[m + 1]) = Range(f[m]) \cup Range(seqs[m + 1])
        BY <3>0, <4>4, RangeConcat
      <4> QED BY <4>2, <4>3, <4>4, <4>5, <4>6 DEF Good
    <3> QED BY <3>1, <3>2
  <2>5. T = Nat
    <3>1. T \in SUBSET Nat /\ \A m \in T : m + 1 \in T
      BY <2>4
    <3> HIDE DEF T
    <3> QED BY <2>3, <3>1, SetInduction
  <2>6. Good(n)
    BY <1>1, <1>3, <2>5
  <2> QED BY <1>1, <2>2, <2>6 DEF Good, RangeOfFirst
<1> QED BY <1>2, <1>3

\* FlattenSeq of no sequence and of one more.
LEMMA FlattenEmpty == FlattenSeq(<<>>) = <<>>
BY DEF FlattenSeq

\* The first of the sequences make the same together, whatever follows.
LEMMA FlatPrefix ==
    ASSUME NEW n \in Nat, NEW seqs, NEW more, \A i \in 1..n : more[i] = seqs[i],
           NEW f, IsFlat(f, seqs, n), NEW k \in Nat, k >= n, NEW g, IsFlat(g, more, k)
    PROVE  \A i \in 1..n : g[i] = f[i]
<1> DEFINE T == {m \in Nat : m \in 1..n => g[m] = f[m]}
<1>1. 0 \in T
  OBVIOUS
<1>2. ASSUME NEW m \in T PROVE m + 1 \in T
  <2>0. SUFFICES ASSUME m + 1 \in 1..n PROVE g[m + 1] = f[m + 1]
    OBVIOUS
  <2>1. m + 1 \in 1..k /\ (m + 1) - 1 = m /\ m \in Nat /\ more[m + 1] = seqs[m + 1]
    BY <2>0
  <2>2. f[m + 1] = IF m + 1 = 1 THEN seqs[m + 1] ELSE f[(m + 1) - 1] \o seqs[m + 1]
    <3> HIDE DEF T
    <3> QED BY <2>0 DEF IsFlat
  <2>3. g[m + 1] = IF m + 1 = 1 THEN more[m + 1] ELSE g[(m + 1) - 1] \o more[m + 1]
    <3> HIDE DEF T
    <3> QED BY <2>1 DEF IsFlat
  <2>4. m # 0 => m \in 1..n /\ g[m] = f[m]
    BY <2>0, <2>1
  <2>5. m + 1 = 1 <=> m = 0
    BY <2>1
  <2> QED BY <2>1, <2>2, <2>3, <2>4, <2>5
<1>3. T = Nat
  <2>1. T \in SUBSET Nat
    OBVIOUS
  <2> HIDE DEF T
  <2> QED BY <1>1, <1>2, <2>1, SetInduction
<1> QED BY <1>3

\* One more sequence comes behind the others.
LEMMA FlattenAppend ==
    ASSUME NEW S, NEW seqs \in Seq(Seq(S)), NEW q \in Seq(S)
    PROVE  FlattenSeq(Append(seqs, q)) = FlattenSeq(seqs) \o q
<1> DEFINE n == Len(seqs)
           more == Append(seqs, q)
<1>1. /\ n \in Nat /\ Len(more) = n + 1 /\ more[n + 1] = q
      /\ \A i \in 1..n : more[i] = seqs[i]
  OBVIOUS
<1>2. PICK g : IsFlat(g, more, n + 1) /\ FlattenSeq(more) = g[n + 1]
  <2>1. Len(more) \in Nat \ {0}
    BY <1>1
  <2> QED BY <1>1, <2>1, FlattenDef
<1>3. g[n + 1] = IF n + 1 = 1 THEN more[n + 1] ELSE g[(n + 1) - 1] \o more[n + 1]
  <2>1. n + 1 \in 1..(n + 1)
    BY <1>1
  <2> HIDE DEF n, more
  <2> QED BY <1>2, <2>1 DEF IsFlat
<1>4. CASE n = 0
  <2>1. seqs = <<>> /\ g[n + 1] = q
    BY <1>1, <1>3, <1>4
  <2>2. FlattenSeq(seqs) = <<>>
    BY <2>1, FlattenEmpty
  <2>3. <<>> \o q = q
    OBVIOUS
  <2> QED BY <1>2, <2>1, <2>2, <2>3
<1>5. CASE n # 0
  <2>1. PICK f : IsFlat(f, seqs, n) /\ FlattenSeq(seqs) = f[n]
    <3>1. Len(seqs) \in Nat \ {0}
      BY <1>1, <1>5
    <3> QED BY <3>1, FlattenDef
  <2>2. n + 1 \in Nat /\ n + 1 >= n /\ n \in 1..n /\ (n + 1) - 1 = n /\ n + 1 # 1
    BY <1>1, <1>5
  <2>3. g[n] = f[n]
    <3> DEFINE k == n + 1
    <3>1. k \in Nat /\ k >= n /\ n \in Nat /\ IsFlat(g, more, k) /\ IsFlat(f, seqs, n)
      BY <1>1, <1>2, <2>1, <2>2
    <3>2. \A i \in 1..n : more[i] = seqs[i]
      BY <1>1
    <3> HIDE DEF n, more, k
    <3>3. \A i \in 1..n : g[i] = f[i]
      BY <3>1, <3>2, FlatPrefix
    <3> QED BY <2>2, <3>3
  <2> QED BY <1>1, <1>2, <1>3, <2>1, <2>2, <2>3
<1> QED BY <1>4, <1>5

\* A sequence of so many sequences of the same length.
LEMMA FlattenLength ==
    ASSUME NEW S, NEW seqs \in Seq(Seq(S)), NEW c \in Nat, \A i \in DOMAIN seqs : Len(seqs[i]) = c
    PROVE  FlattenSeq(seqs) \in Seq(S) /\ Len(FlattenSeq(seqs)) = Len(seqs) * c
<1> DEFINE n == Len(seqs)
           First(m) == SubSeq(seqs, 1, m)
           Good(m) == FlattenSeq(First(m)) \in Seq(S) /\ Len(FlattenSeq(First(m))) = m * c
           T == {m \in Nat : m <= n => Good(m)}
<1>0. n \in Nat /\ DOMAIN seqs = 1..n
  OBVIOUS
<1>1. 0 \in T
  <2>1. First(0) = <<>>
    OBVIOUS
  <2>2. FlattenSeq(First(0)) = <<>>
    BY <2>1, FlattenEmpty
  <2>3. <<>> \in Seq(S) /\ Len(<<>>) = 0 * c
    OBVIOUS
  <2>4. Good(0)
    BY <2>2, <2>3
  <2> HIDE DEF Good
  <2> QED BY <2>4
<1>2. ASSUME NEW m \in T PROVE m + 1 \in T
  <2>0. SUFFICES ASSUME m + 1 <= n PROVE Good(m + 1)
    OBVIOUS
  <2>1. m \in Nat /\ m + 1 \in 1..n /\ m <= n /\ Good(m)
    BY <1>0, <2>0
  <2> HIDE DEF T, Good
  <2>2. /\ First(m) \in Seq(Seq(S)) /\ seqs[m + 1] \in Seq(S) /\ Len(seqs[m + 1]) = c
        /\ First(m + 1) = Append(First(m), seqs[m + 1])
    BY <1>0, <2>1
  <2>3. FlattenSeq(First(m + 1)) = FlattenSeq(First(m)) \o seqs[m + 1]
    <3> HIDE DEF First
    <3> QED BY <2>2, FlattenAppend
  <2> HIDE DEF First
  <2>4. FlattenSeq(First(m)) \in Seq(S) /\ Len(FlattenSeq(First(m))) = m * c
    BY <2>1 DEF Good
  <2>5. /\ FlattenSeq(First(m + 1)) \in Seq(S)
        /\ Len(FlattenSeq(First(m + 1))) = m * c + c
    <3> DEFINE q == FlattenSeq(First(m))
               r == seqs[m + 1]
    <3>1. q \in Seq(S) /\ Len(q) = m * c /\ r \in Seq(S) /\ Len(r) = c /\ FlattenSeq(First(m + 1)) = q \o r
      BY <2>2, <2>3, <2>4
    <3> HIDE DEF q, r
    <3>2. q \o r \in Seq(S) /\ Len(q \o r) = Len(q) + Len(r)
      BY <3>1, ConcatProperties
    <3> QED BY <3>1, <3>2
  <2>6. m * c + c = (m + 1) * c
    BY <2>1
  <2> QED BY <2>5, <2>6 DEF Good
<1>3. T = Nat
  <2>1. T \in SUBSET Nat
    OBVIOUS
  <2> HIDE DEF T
  <2> QED BY <1>1, <1>2, <2>1, SetInduction
<1>4. First(n) = seqs
  BY <1>0
<1>5. Good(n)
  <2> HIDE DEF Good
  <2> QED BY <1>0, <1>3
<1> QED BY <1>4, <1>5

\* The pieces of n elements each, put together again.
LEMMA FlattenPieces ==
    ASSUME NEW S, NEW all \in Seq(S), NEW n \in Nat, NEW k \in Nat, k * n <= Len(all)
    PROVE  FlattenSeq([i \in 1..k |-> SubSeq(all, (i - 1) * n + 1, i * n)]) = SubSeq(all, 1, k * n)
<1> DEFINE Piece(i) == SubSeq(all, (i - 1) * n + 1, i * n)
           Pieces(m) == [i \in 1..m |-> Piece(i)]
           Good(m) == FlattenSeq(Pieces(m)) = SubSeq(all, 1, m * n)
           T == {m \in Nat : m <= k => Good(m)}
<1>1. 0 \in T
  <2>1. Pieces(0) = <<>> /\ 0 * n = 0
    OBVIOUS
  <2>2. SubSeq(all, 1, 0) = <<>>
    OBVIOUS
  <2>3. Good(0)
    <3> HIDE DEF Pieces
    <3> QED BY <2>1, <2>2, FlattenEmpty
  <2> HIDE DEF Good
  <2> QED BY <2>3
<1>2. ASSUME NEW m \in T PROVE m + 1 \in T
  <2> HIDE DEF Good
  <2>0. SUFFICES ASSUME m + 1 <= k PROVE Good(m + 1)
    OBVIOUS
  <2>1. m \in Nat /\ m <= k /\ Good(m)
    BY <2>0
  <2> HIDE DEF T
  <2>2. /\ m * n \in Nat /\ (m + 1) * n = m * n + n
        /\ ((m + 1) - 1) * n = m * n
    BY <2>1
  <2>3. (m + 1) * n <= Len(all)
    <3>1. (k - (m + 1)) * n \in Nat
      <4>1. k - (m + 1) \in Nat
        BY <2>0, <2>1
      <4> QED BY <4>1
    <3>2. (k - (m + 1)) * n = k * n - (m + 1) * n
      BY <2>1
    <3>3. k * n \in Int /\ (m + 1) * n \in Int /\ Len(all) \in Nat
      BY <2>1
    <3> QED BY <3>1, <3>2, <3>3
  <2>4. ASSUME NEW i \in 1..k PROVE Piece(i) \in Seq(S)
    <3>1. (i - 1) * n \in Nat /\ i * n \in Nat
      <4>1. i - 1 \in Nat /\ i \in Nat
        OBVIOUS
      <4> QED BY <4>1
    <3>2. i * n <= Len(all)
      <4>1. k - i \in Nat
        OBVIOUS
      <4>2. (k - i) * n \in Nat
        BY <4>1
      <4>3. (k - i) * n = k * n - i * n
        OBVIOUS
      <4>4. k * n \in Int /\ Len(all) \in Nat
        OBVIOUS
      <4> QED BY <3>1, <4>2, <4>3, <4>4
    <3> QED BY <3>1, <3>2
  <2>5. Pieces(m) \in Seq(Seq(S)) /\ Piece(m + 1) \in Seq(S)
    <3>1. \A i \in 1..m : i \in 1..k
      BY <2>1
    <3>2. m + 1 \in 1..k
      BY <2>0, <2>1
    <3> HIDE DEF Piece
    <3> QED BY <2>1, <2>4, <3>1, <3>2
  <2>6. Pieces(m + 1) = Append(Pieces(m), Piece(m + 1))
    <3> HIDE DEF Piece
    <3> QED BY <2>1
  <2>7. FlattenSeq(Pieces(m + 1)) = SubSeq(all, 1, m * n) \o Piece(m + 1)
    <3>1. FlattenSeq(Pieces(m)) = SubSeq(all, 1, m * n)
      BY <2>1 DEF Good
    <3> HIDE DEF Pieces, Piece
    <3> QED BY <2>5, <2>6, <3>1, FlattenAppend
  <2>8. Piece(m + 1) = SubSeq(all, m * n + 1, m * n + n)
    BY <2>2
  <2>9. ASSUME NEW a \in Nat, NEW b \in Nat, a <= b, b <= Len(all)
        PROVE  SubSeq(all, 1, a) \o SubSeq(all, a + 1, b) = SubSeq(all, 1, b)
    <3> DEFINE q == SubSeq(all, 1, a)
               r == SubSeq(all, a + 1, b)
               t == SubSeq(all, 1, b)
    <3>1. /\ q \in Seq(S) /\ Len(q) = a /\ \A i \in 1..a : q[i] = all[i]
          /\ t \in Seq(S) /\ Len(t) = b /\ \A i \in 1..b : t[i] = all[i]
      BY <2>9
    <3>2. r \in Seq(S) /\ Len(r) = b - a /\ \A i \in 1..(b - a) : r[i] = all[a + i]
      BY <2>9
    <3> HIDE DEF q, r, t
    <3>3. /\ q \o r \in Seq(S) /\ Len(q \o r) = b
          /\ \A i \in 1..b : (q \o r)[i] = IF i <= a THEN q[i] ELSE r[i - a]
      <4>1. q \in Seq(S) /\ r \in Seq(S) /\ Len(q) = a /\ Len(r) = b - a /\ a + (b - a) = b
        BY <2>9, <3>1, <3>2
      <4>2. /\ q \o r \in Seq(S) /\ Len(q \o r) = Len(q) + Len(r)
            /\ \A i \in 1..(Len(q) + Len(r)) : (q \o r)[i] = IF i <= Len(q) THEN q[i] ELSE r[i - Len(q)]
        BY <4>1, ConcatProperties
      <4> QED BY <4>1, <4>2
    <3>4. ASSUME NEW i \in 1..b PROVE (q \o r)[i] = t[i]
      <4>1. CASE i <= a
        <5>1. i \in 1..a
          BY <4>1
        <5>2. q[i] = all[i] /\ t[i] = all[i]
          BY <3>1, <5>1
        <5>3. (q \o r)[i] = q[i]
          BY <3>3, <4>1
        <5> QED BY <5>2, <5>3
      <4>2. CASE ~(i <= a)
        <5>1. i - a \in 1..(b - a) /\ a + (i - a) = i
          BY <2>9, <4>2
        <5>2. r[i - a] = all[i]
          BY <3>2, <5>1
        <5> QED BY <3>1, <3>3, <4>2, <5>2
      <4> QED BY <4>1, <4>2
    <3>5. q \o r = t
      BY <3>1, <3>3, <3>4, SeqEqual
    <3> QED BY <3>5 DEF q, r, t
  <2>10. SubSeq(all, 1, m * n) \o SubSeq(all, m * n + 1, m * n + n) = SubSeq(all, 1, m * n + n)
    <3> DEFINE a == m * n
               b == m * n + n
    <3>1. a \in Nat /\ b \in Nat /\ a <= b /\ b <= Len(all)
      BY <2>2, <2>3
    <3> HIDE DEF a, b
    <3>2. SubSeq(all, 1, a) \o SubSeq(all, a + 1, b) = SubSeq(all, 1, b)
      BY <2>9, <3>1
    <3> QED BY <3>2 DEF a, b
  <2> HIDE DEF Pieces, Piece
  <2> QED BY <2>2, <2>7, <2>8, <2>10 DEF Good
<1>3. T = Nat
  <2>1. T \in SUBSET Nat
    OBVIOUS
  <2> HIDE DEF T
  <2> QED BY <1>1, <1>2, <2>1, SetInduction
<1>4. Good(k)
  <2> HIDE DEF Good
  <2> QED BY <1>3
<1> QED BY <1>4
=============================================================================
