------------------------------- MODULE Lemmas -------------------------------
(***************************************************************************)
(* Facts about numbers, sequences and the operators of Removal that the    *)
(* proofs of several components rest on: induction over the natural        *)
(* numbers without an operator for a parameter, what Without returns, and  *)
(* that a sequence without repetitions is as long as its set is large.     *)
(***************************************************************************)
EXTENDS Removal, FiniteSetTheorems, SequenceTheorems, WellFoundedInduction, TLAPS

\* Induction, as the library has it for operators, from the well-foundedness of <: a
\* nonempty set of natural numbers has a least element.
LEMMA Least == ASSUME NEW T \in SUBSET Nat, T # {} PROVE \E x \in T : \A y \in T : x <= y
<1> DEFINE R == {ss \in Nat \X Nat : ss[1] < ss[2]}
<1>1. IsWellFoundedOn(R, Nat)
  BY NatLessThanWellFounded, Zenon DEF OpToRel
<1>2. PICK x \in T : \A y \in T : ~ (<<y, x>> \in R)
  <2> HIDE DEF R
  <2> QED
    BY <1>1, WFMin
<1>3. \A y \in T : ~(y < x)
  BY <1>2
<1> QED
  BY <1>3

\* And so a set that has 0, and n if it has n - 1, has every number.
LEMMA Induction == ASSUME NEW T \in SUBSET Nat, 0 \in T, \A n \in Nat \ {0} : n - 1 \in T => n \in T
                   PROVE  T = Nat
<1> SUFFICES ASSUME Nat \ T # {} PROVE FALSE
  OBVIOUS
<1>1. PICK m \in Nat \ T : \A k \in Nat \ T : m <= k
  BY Least
<1>2. m # 0 /\ m - 1 \in Nat /\ ~(m <= m - 1)
  BY <1>1
<1> QED
  BY <1>1, <1>2

\* f computes, for every i up to n, the first i elements of s without those of K.
Keeps(f, s, K, n) ==
    f = [i \in 0 .. n |-> IF i = 0 THEN <<>>
                          ELSE IF s[i] \in K THEN f[i - 1]
                          ELSE Append(f[i - 1], s[i])]

\* There is such an f.
LEMMA KeepsExists == ASSUME NEW s, NEW K PROVE \A n \in Nat : \E f : Keeps(f, s, K, n)
<1> DEFINE T == {n \in Nat : \E f : Keeps(f, s, K, n)}
<1>1. 0 \in T
  <2>1. Keeps([i \in 0 .. 0 |-> <<>>], s, K, 0)
    BY DEF Keeps
  <2> QED
    BY <2>1
<1>2. ASSUME NEW n \in Nat \ {0}, n - 1 \in T PROVE n \in T
  <2>1. PICK f : Keeps(f, s, K, n - 1)
    BY <1>2
  <2> DEFINE v == IF s[n] \in K THEN f[n - 1] ELSE Append(f[n - 1], s[n])
             g == [i \in 0 .. n |-> IF i = n THEN v ELSE f[i]]
  <2>2. \A i \in 0 .. (n - 1) : g[i] = f[i]
    OBVIOUS
  <2>3. g[n] = v /\ DOMAIN g = 0 .. n
    OBVIOUS
  <2>4. \A i \in 0 .. (n - 1) : f[i] = IF i = 0 THEN <<>>
                                       ELSE IF s[i] \in K THEN f[i - 1]
                                       ELSE Append(f[i - 1], s[i])
    <3> DEFINE h == [i \in 0 .. (n - 1) |-> IF i = 0 THEN <<>>
                                            ELSE IF s[i] \in K THEN f[i - 1]
                                            ELSE Append(f[i - 1], s[i])]
    <3>1. f = h
      BY <2>1 DEF Keeps
    <3>2. \A i \in 0 .. (n - 1) : h[i] = IF i = 0 THEN <<>>
                                         ELSE IF s[i] \in K THEN f[i - 1]
                                         ELSE Append(f[i - 1], s[i])
      OBVIOUS
    <3> HIDE DEF h
    <3> QED
      BY <3>1, <3>2
  <2>5. ASSUME NEW i \in 0 .. n
        PROVE  g[i] = IF i = 0 THEN <<>> ELSE IF s[i] \in K THEN g[i - 1] ELSE Append(g[i - 1], s[i])
    <3> HIDE DEF g
    <3>1. CASE i = n
      <4>1. g[n - 1] = f[n - 1]
        BY <2>2
      <4> QED
        BY <2>3, <3>1, <4>1
    <3>2. CASE i # n
      <4>1. i \in 0 .. (n - 1)
        BY <3>2
      <4>2. i # 0 => g[i - 1] = f[i - 1]
        BY <2>2, <4>1
      <4> QED
        BY <2>2, <2>4, <4>1, <4>2
    <3> QED
      BY <3>1, <3>2
  <2>6. g = [i \in 0 .. n |-> g[i]]
    OBVIOUS
  <2> HIDE DEF g
  <2>7. Keeps(g, s, K, n)
    BY <2>5, <2>6 DEF Keeps
  <2> QED
    BY <2>7
<1> HIDE DEF T
<1>3. T = Nat
  <2>1. T \in SUBSET Nat
    BY DEF T
  <2> QED
    BY <1>1, <1>2, <2>1, Induction
<1> QED
  BY <1>3 DEF T

ElementsOf(s) == {s[i] : i \in DOMAIN s}
Distinct(s) == \A i, j \in DOMAIN s : s[i] = s[j] => i = j

\* g is the first i elements of s without those of K, as far as it matters here.
IsWithout(g, s, K, i, S) ==
    /\ g \in Seq(S)
    /\ Len(g) <= i
    /\ \A k \in 1 .. Len(g) : g[k] \notin K /\ \E j \in 1 .. i : g[k] = s[j]
    /\ \A j \in 1 .. i : s[j] \notin K => \E k \in 1 .. Len(g) : g[k] = s[j]
    /\ (\E j \in 1 .. i : s[j] \in K) => Len(g) < i
    /\ (\A j \in 1 .. i : s[j] \notin K) => Len(g) = i /\ \A j \in 1 .. i : g[j] = s[j]
    /\ Distinct(s) => Distinct(g)
    /\ \A k, l \in 1 .. Len(g) : k < l => \E a, b \in 1 .. i : a < b /\ g[k] = s[a] /\ g[l] = s[b]

\* One element further.
LEMMA KeepsOne == ASSUME NEW S, NEW s \in Seq(S), NEW K, NEW i \in 1 .. Len(s), NEW g, NEW h,
                         IsWithout(g, s, K, i - 1, S),
                         h = IF s[i] \in K THEN g ELSE Append(g, s[i])
                  PROVE  IsWithout(h, s, K, i, S)
<1>1. /\ i \in Nat /\ i - 1 \in Nat /\ g \in Seq(S) /\ Len(g) \in Nat /\ Len(g) <= i - 1 /\ DOMAIN g = 1 .. Len(g)
      /\ DOMAIN s = 1 .. Len(s)
  BY DEF IsWithout
<1>2. CASE s[i] \in K
  <2>1. h = g
    BY <1>2
  <2>2. (1 .. i) = (1 .. (i - 1)) \cup {i} /\ Len(g) < i
    BY <1>1
  <2>3. \A k \in 1 .. Len(g) : g[k] \notin K /\ \E j \in 1 .. i : g[k] = s[j]
    BY <2>2 DEF IsWithout
  <2>4. \A j \in 1 .. i : s[j] \notin K => \E k \in 1 .. Len(g) : g[k] = s[j]
    BY <1>2, <2>2 DEF IsWithout
  <2>5. ~ \A j \in 1 .. i : s[j] \notin K
    BY <1>2, <2>2
  <2>6. Len(g) <= i
    BY <1>1
  <2>7. Distinct(s) => Distinct(g)
    BY DEF IsWithout
  <2>8. Len(g) < i
    BY <2>2
  <2>10. \A k, l \in 1 .. Len(g) : k < l => \E a, b \in 1 .. i : a < b /\ g[k] = s[a] /\ g[l] = s[b]
    BY <2>2 DEF IsWithout
  <2>9. IsWithout(g, s, K, i, S)
    <3>1. g \in Seq(S)
      BY <1>1
    <3> QED
      BY <2>3, <2>4, <2>5, <2>6, <2>7, <2>8, <2>10, <3>1, Zenon DEF IsWithout
  <2> QED
    BY <2>1, <2>9
<1>3. CASE s[i] \notin K
  <2>1. h = Append(g, s[i]) /\ s[i] \in S
    BY <1>3
  <2>2. /\ h \in Seq(S) /\ Len(h) = Len(g) + 1 /\ DOMAIN h = 1 .. (Len(g) + 1)
        /\ h[Len(g) + 1] = s[i] /\ \A k \in 1 .. Len(g) : h[k] = g[k]
    BY <1>1, <2>1
  <2>3. /\ (1 .. i) = (1 .. (i - 1)) \cup {i} /\ Len(h) <= i
        /\ 1 .. Len(h) = (1 .. Len(g)) \cup {Len(g) + 1} /\ Len(g) + 1 \notin 1 .. Len(g)
    BY <1>1, <2>2
  <2>4. \A k \in 1 .. Len(h) : h[k] \notin K /\ \E j \in 1 .. i : h[k] = s[j]
    BY <1>3, <2>2, <2>3 DEF IsWithout
  <2>5. \A j \in 1 .. i : s[j] \notin K => \E k \in 1 .. Len(h) : h[k] = s[j]
    BY <2>2, <2>3 DEF IsWithout
  <2>6. (\E j \in 1 .. i : s[j] \in K) => Len(h) < i
    BY <1>1, <1>3, <2>2, <2>3 DEF IsWithout
  <2>7. (\A j \in 1 .. i : s[j] \notin K) => Len(h) = i /\ \A j \in 1 .. i : h[j] = s[j]
    <3>1. SUFFICES ASSUME \A j \in 1 .. i : s[j] \notin K PROVE Len(h) = i /\ \A j \in 1 .. i : h[j] = s[j]
      OBVIOUS
    <3>2. Len(g) = i - 1 /\ \A j \in 1 .. (i - 1) : g[j] = s[j]
      BY <2>3, <3>1 DEF IsWithout
    <3> QED
      BY <1>1, <2>2, <2>3, <3>2
  <2>8. Distinct(s) => Distinct(h)
    <3>1. SUFFICES ASSUME Distinct(s), NEW a \in 1 .. Len(h), NEW b \in 1 .. Len(h), h[a] = h[b] PROVE a = b
      BY <2>2 DEF Distinct
    <3>2. ASSUME NEW k \in 1 .. Len(g) PROVE h[k] # s[i]
      <4>1. PICK j \in 1 .. (i - 1) : g[k] = s[j]
        BY DEF IsWithout
      <4>2. j \in 1 .. Len(s) /\ j # i
        BY <1>1
      <4> QED
        BY <1>1, <2>2, <3>1, <4>1, <4>2 DEF Distinct
    <3>3. Distinct(g)
      BY <3>1 DEF IsWithout
    <3> QED
      BY <1>1, <2>2, <2>3, <3>1, <3>2, <3>3 DEF Distinct
  <2>9. ASSUME NEW k \in 1 .. Len(h), NEW l \in 1 .. Len(h), k < l
        PROVE  \E a, b \in 1 .. i : a < b /\ h[k] = s[a] /\ h[l] = s[b]
    <3>1. k \in 1 .. Len(g)
      BY <1>1, <2>2, <2>9
    <3>2. CASE l \in 1 .. Len(g)
      <4>1. PICK a \in 1 .. (i - 1), b \in 1 .. (i - 1) : a < b /\ g[k] = s[a] /\ g[l] = s[b]
        BY <2>9, <3>1, <3>2 DEF IsWithout
      <4> QED
        BY <2>2, <2>3, <3>1, <3>2, <4>1
    <3>3. CASE l = Len(g) + 1
      <4>1. PICK a \in 1 .. (i - 1) : g[k] = s[a]
        BY <3>1 DEF IsWithout
      <4>2. a < i /\ a \in 1 .. i /\ i \in 1 .. i
        BY <1>1
      <4> QED
        BY <2>2, <3>1, <3>3, <4>1, <4>2
    <3> QED
      BY <2>3, <3>2, <3>3
  <2> QED
    BY <2>2, <2>3, <2>4, <2>5, <2>6, <2>7, <2>8, <2>9 DEF IsWithout
<1> QED
  BY <1>2, <1>3

\* What Without returns.
LEMMA WithoutIs == ASSUME NEW S, NEW s \in Seq(S), NEW K PROVE IsWithout(Without(s, K), s, K, Len(s), S)
<1> DEFINE f == CHOOSE f : Keeps(f, s, K, Len(s))
           T == {n \in Nat : n <= Len(s) => IsWithout(f[n], s, K, n, S)}
<1>1. Keeps(f, s, K, Len(s))
  BY KeepsExists
<1>2. Without(s, K) = f[Len(s)]
  BY Zenon DEF Without, Keeps
<1>3. \A i \in 0 .. Len(s) : f[i] = IF i = 0 THEN <<>> ELSE IF s[i] \in K THEN f[i - 1] ELSE Append(f[i - 1], s[i])
  <2> HIDE DEF f
  <2> DEFINE h == [i \in 0 .. Len(s) |-> IF i = 0 THEN <<>>
                                         ELSE IF s[i] \in K THEN f[i - 1]
                                         ELSE Append(f[i - 1], s[i])]
  <2>1. f = h
    BY <1>1 DEF Keeps
  <2>2. \A i \in 0 .. Len(s) : h[i] = IF i = 0 THEN <<>> ELSE IF s[i] \in K THEN f[i - 1] ELSE Append(f[i - 1], s[i])
    OBVIOUS
  <2> HIDE DEF h
  <2> QED
    BY <2>1, <2>2
<1> HIDE DEF f
<1>4. 0 \in T
  <2>1. f[0] = <<>>
    BY <1>3
  <2>2. IsWithout(<<>>, s, K, 0, S)
    BY DEF IsWithout, Distinct
  <2> QED
    BY <2>1, <2>2
<1>5. ASSUME NEW n \in Nat \ {0}, n - 1 \in T PROVE n \in T
  <2>1. SUFFICES ASSUME n <= Len(s) PROVE IsWithout(f[n], s, K, n, S)
    OBVIOUS
  <2>2. n \in 1 .. Len(s) /\ n \in 0 .. Len(s) /\ n - 1 <= Len(s) /\ n # 0
    BY <2>1
  <2>3. IsWithout(f[n - 1], s, K, n - 1, S)
    BY <1>5, <2>2
  <2>4. f[n] = IF s[n] \in K THEN f[n - 1] ELSE Append(f[n - 1], s[n])
    BY <1>3, <2>2
  <2> QED
    BY <2>2, <2>3, <2>4, KeepsOne
<1> HIDE DEF T
<1>6. T = Nat
  <2>1. T \in SUBSET Nat
    BY DEF T
  <2> QED
    BY <1>4, <1>5, <2>1, Induction
<1> QED
  BY <1>2, <1>6 DEF T

\* A sequence without repetition has as many elements as places.
LEMMA DistinctCounts == ASSUME NEW S, NEW s \in Seq(S), Distinct(s)
                        PROVE  IsFiniteSet(ElementsOf(s)) /\ Cardinality(ElementsOf(s)) = Len(s)
<1> DEFINE I == 1 .. Len(s)
<1>1. Len(s) \in Nat /\ DOMAIN s = I
  OBVIOUS
<1>2. IsFiniteSet(I) /\ Cardinality(I) = Len(s)
  <2>1. IsFiniteSet(1 .. Len(s)) /\ Cardinality(1 .. Len(s)) = IF 1 > Len(s) THEN 0 ELSE Len(s) - 1 + 1
    BY <1>1, FS_Interval
  <2> QED
    BY <1>1, <2>1
<1>3. s \in [I -> ElementsOf(s)]
  BY <1>1 DEF ElementsOf
<1>4. s \in Surjection(I, ElementsOf(s))
  BY <1>1, <1>3 DEF Surjection, ElementsOf
<1>5. s \in Injection(I, ElementsOf(s))
  BY <1>1, <1>3 DEF Injection, Distinct, IsInjective
<1> QED
  BY <1>2, <1>4, <1>5, FS_Surjection

\* What Without leaves, as a set.
LEMMA WithoutElements == ASSUME NEW S, NEW s \in Seq(S), NEW K, Distinct(s)
                         PROVE  /\ Without(s, K) \in Seq(S) /\ Distinct(Without(s, K))
                                /\ ElementsOf(Without(s, K)) = ElementsOf(s) \ K
                                /\ DOMAIN Without(s, K) = 1 .. Len(Without(s, K)) /\ Len(Without(s, K)) \in Nat
<1> DEFINE g == Without(s, K)
<1>1. IsWithout(g, s, K, Len(s), S)
  BY WithoutIs
<1>2. DOMAIN s = 1 .. Len(s)
  OBVIOUS
<1> HIDE DEF g
<1>3. g \in Seq(S) /\ Distinct(g)
  BY <1>1 DEF IsWithout
<1>4. DOMAIN g = 1 .. Len(g) /\ Len(g) \in Nat
  BY <1>3
<1>5. ElementsOf(g) = ElementsOf(s) \ K
  <2>1. \A k \in 1 .. Len(g) : g[k] \notin K /\ \E j \in 1 .. Len(s) : g[k] = s[j]
    BY <1>1 DEF IsWithout
  <2>2. \A j \in 1 .. Len(s) : s[j] \notin K => \E k \in 1 .. Len(g) : g[k] = s[j]
    BY <1>1 DEF IsWithout
  <2> QED
    BY <1>2, <1>4, <2>1, <2>2 DEF ElementsOf
<1> QED
  BY <1>3, <1>4, <1>5 DEF g
=============================================================================
