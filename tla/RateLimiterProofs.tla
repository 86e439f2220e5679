------------------------- MODULE RateLimiterProofs -------------------------
(***************************************************************************)
(* Proofs about RateLimiter, for any callers, requests, policies, responses *)
(* and table sizes                                                          *)
(***************************************************************************)
EXTENDS RateLimiter, FiniteSetTheorems, TLAPS

USE BoundsAssumption

-----------------------------------------------------------------------------
(* Induction, as a fact about sets                                          *)

\* A set of naturals that is not empty has a least element.
LEMMA LeastNatural ==
    ASSUME NEW T \in SUBSET Nat, T # {}
    PROVE  \E n \in T : \A m \in T : n <= m
<1>1. IsWellFoundedOn(OpToRel(<, Nat), Nat)
  BY NatLessThanWellFounded
<1>2. PICK n \in T : \A m \in T : ~ (<<m, n>> \in OpToRel(<, Nat))
  BY <1>1, WFMin
<1>3. \A m \in T : ~ (m < n)
  BY <1>2 DEF OpToRel
<1> QED BY <1>3

\* Among subsets of a finite set there is one that has none of the others in it.
LEMMA SmallestSet ==
    \A S : IsFiniteSet(S) =>
      \A Bad \in SUBSET (SUBSET S) :
        Bad # {} => \E T \in Bad : \A U \in Bad : U \subseteq T => U = T
<1> SUFFICES ASSUME NEW S, IsFiniteSet(S), NEW Bad \in SUBSET (SUBSET S), Bad # {}
             PROVE  \E T \in Bad : \A U \in Bad : U \subseteq T => U = T
  OBVIOUS
<1>1. FiniteSubsetsOf(S) = SUBSET S
  BY FS_FiniteSubsetsOfFinite
<1>2. IsWellFoundedOn(StrictSubsetOrdering(S), SUBSET S)
  BY <1>1, FS_StrictSubsetOrderingWellFounded
<1>3. PICK T \in Bad : \A U \in Bad : ~ (<<U, T>> \in StrictSubsetOrdering(S))
  BY <1>2, WFMin
<1>4. ASSUME NEW U \in Bad, U \subseteq T PROVE U = T
  BY <1>3, <1>4 DEF StrictSubsetOrdering
<1> QED BY <1>4

\* A finite set of naturals that is not empty has a greatest element.
LEMMA GreatestNatural ==
    ASSUME NEW S, IsFiniteSet(S)
    PROVE  S # {} /\ S \subseteq Nat => \E n \in S : \A m \in S : m <= n
<1> DEFINE Bad == {T \in SUBSET S : T # {} /\ T \subseteq Nat /\ ~ \E n \in T : \A m \in T : m <= n}
<1> SUFFICES ASSUME Bad # {} PROVE FALSE
  OBVIOUS
<1>1. PICK T \in Bad : \A U \in Bad : U \subseteq T => U = T
  <2> HIDE DEF Bad
  <2>1. Bad \subseteq SUBSET S
    BY DEF Bad
  <2> QED BY <2>1, SmallestSet
<1>2. PICK x \in T : TRUE
  OBVIOUS
<1>3. T \ {x} # {}
  <2> SUFFICES ASSUME T = {x} PROVE FALSE
    BY <1>2
  <2> QED BY <1>1
<1>4. T \ {x} \notin Bad
  BY <1>1, <1>2
<1>5. PICK n \in T \ {x} : \A m \in T \ {x} : m <= n
  BY <1>1, <1>3, <1>4
<1>6. x \in Nat /\ n \in Nat /\ T \subseteq Nat
  BY <1>1, <1>2, <1>5
<1>7. \E k \in T : \A m \in T : m <= k
  BY <1>2, <1>5, <1>6
<1> QED BY <1>1, <1>7

\* The values of a function on a finite set are finitely many.
LEMMA FiniteImage ==
    ASSUME NEW f, NEW S, IsFiniteSet(S)
    PROVE  /\ IsFiniteSet({f[x] : x \in S})
           /\ Cardinality({f[x] : x \in S}) <= Cardinality(S)
<1> DEFINE T == {f[x] : x \in S}
           g == [x \in S |-> f[x]]
<1>1. g \in Surjection(S, T)
  BY DEF Surjection
<1> QED BY <1>1, FS_Surjection

\* Max of the library, on a finite set of naturals
LEMMA MaxIsGreatest ==
    ASSUME NEW S \in SUBSET Nat, S # {}, IsFiniteSet(S)
    PROVE  Max(S) \in S /\ \A m \in S : m <= Max(S)
<1>1. PICK n \in S : \A m \in S : n >= m
  BY GreatestNatural
<1>2. Max(S) \in S /\ \A m \in S : Max(S) >= m
  BY <1>1 DEF Max
<1> QED BY <1>2
-----------------------------------------------------------------------------
(* Recursive functions of the library                                       *)

\* FlattenSeq puts sequences after one another: F[i] is what the first i come to.
LEMMA Flattening ==
    ASSUME NEW X, NEW seqs \in Seq(Seq(X))
    PROVE  FlattenSeq(seqs) \in Seq(X)
<1> DEFINE n == Len(seqs)
           Body(h, i) == IF i = 1 THEN seqs[i] ELSE h[i - 1] \o seqs[i]
           Solves(h, m) == h = [i \in 1 .. m |-> Body(h, i)]
           Bad == {m \in 0 .. n : ~ \E h \in [1 .. m -> Seq(X)] : Solves(h, m)}
<1>0. n \in Nat /\ \A i \in 1 .. n : seqs[i] \in Seq(X)
  OBVIOUS
<1> HIDE DEF n, Solves
<1>1. Bad = {}
  <2> SUFFICES ASSUME Bad # {} PROVE FALSE
    OBVIOUS
  <2>1. PICK m \in Bad : \A k \in Bad : m <= k
    <3>1. Bad \in SUBSET Nat
      BY <1>0
    <3> HIDE DEF Bad
    <3> QED BY <3>1, LeastNatural
  <2>2. m # 0
    <3> SUFFICES ASSUME m = 0 PROVE FALSE
      OBVIOUS
    <3> DEFINE h == [i \in 1 .. 0 |-> <<>>]
    <3>1. h \in [1 .. m -> Seq(X)] /\ h = [i \in 1 .. m |-> Body(h, i)]
      OBVIOUS
    <3>2. Solves(h, m)
      BY <3>1 DEF Solves
    <3> HIDE DEF h
    <3> QED BY <2>1, <3>1, <3>2
  <2>3. m - 1 \in 0 .. n /\ m - 1 \notin Bad /\ m \in Nat
    <3>1. m \in 0 .. n
      OBVIOUS
    <3> HIDE DEF Bad
    <3> QED BY <1>0, <2>1, <2>2, <3>1
  <2>4. PICK g \in [1 .. m - 1 -> Seq(X)] : Solves(g, m - 1)
    BY <2>3
  <2> DEFINE h == [i \in 1 .. m |-> IF i < m THEN g[i] ELSE Body(g, m)]
  <2>5. h \in [1 .. m -> Seq(X)]
    <3>1. Body(g, m) \in Seq(X)
      <4>1. seqs[m] \in Seq(X) 
        BY <1>0, <2>1, <2>2
      <4>2. CASE m = 1
        BY <4>1, <4>2
      <4>3. CASE m # 1
        <5>1. g[m - 1] \in Seq(X)
          BY <2>2, <2>3, <4>3
        <5> QED BY <4>1, <4>3, <5>1
      <4> QED BY <4>2, <4>3
    <3> HIDE DEF Body
    <3> QED BY <2>3, <3>1
  <2>6. \A i \in 1 .. m : h[i] = Body(h, i)
    <3> SUFFICES ASSUME NEW i \in 1 .. m PROVE h[i] = Body(h, i)
      OBVIOUS
    <3>1. CASE i < m
      <4>1. i \in 1 .. m - 1 /\ (i # 1 => i - 1 \in 1 .. m - 1)
        BY <2>3, <3>1
      <4>2. h[i] = g[i] /\ (i # 1 => h[i - 1] = g[i - 1])
        BY <2>3, <3>1, <4>1
      <4>3. g[i] = Body(g, i)
        BY <2>4, <4>1 DEF Solves
      <4> QED BY <4>2, <4>3
    <3>2. CASE i = m
      <4>1. i # 1 => i - 1 \in 1 .. m /\ i - 1 < m
        BY <2>3, <3>2
      <4>2. i # 1 => h[i - 1] = g[i - 1]
        BY <4>1
      <4> QED BY <2>3, <3>2, <4>2
    <3> QED BY <2>3, <3>1, <3>2
  <2>7. Solves(h, m)
    BY <2>6 DEF Solves
  <2> HIDE DEF h
  <2> QED BY <2>1, <2>5, <2>7
<1>2. CASE n = 0
  BY <1>2 DEF FlattenSeq, n
<1>3. CASE n # 0
  <2> DEFINE H == CHOOSE h : Solves(h, n)
  <2>1. PICK h \in [1 .. n -> Seq(X)] : Solves(h, n)
    <3>1. n \in 0 .. n
      BY <1>0
    <3> QED BY <1>1, <3>1
  <2>2. Solves(H, n)
    BY <2>1
  <2>3. FlattenSeq(seqs) = H[n]
    BY <1>3 DEF FlattenSeq, n, Solves
  <2>4. \A i \in 1 .. n : H[i] = Body(H, i)
    BY <2>2 DEF Solves
  <2> HIDE DEF H
  <2> DEFINE Off == {i \in 1 .. n : H[i] \notin Seq(X)}
  <2>5. Off = {}
    <3> SUFFICES ASSUME Off # {} PROVE FALSE
      OBVIOUS
    <3>1. PICK i \in Off : \A k \in Off : i <= k
      <4>1. Off \in SUBSET Nat
        BY <1>0
      <4> HIDE DEF Off
      <4> QED BY <4>1, LeastNatural
    <3>2. i # 1
      BY <1>0, <2>4, <3>1
    <3>3. i - 1 \in 1 .. n /\ i - 1 \notin Off
      BY <1>0, <3>1, <3>2
    <3>4. H[i - 1] \in Seq(X) /\ H[i] = H[i - 1] \o seqs[i] /\ seqs[i] \in Seq(X)
      BY <1>0, <2>4, <3>1, <3>2, <3>3
    <3>5. H[i] \in Seq(X)
      BY <3>4
    <3> QED BY <3>1, <3>5
  <2>6. n \in 1 .. n
    BY <1>0, <1>3
  <2> QED BY <2>3, <2>5, <2>6
<1> QED BY <1>2, <1>3

Pick(s) == CHOOSE x \in s : TRUE
SumBody(f, h, s) == IF s = {} THEN 0 ELSE f[Pick(s)] + h[s \ {Pick(s)}]
Sums(f, h, S) == h = [s \in SUBSET S |-> SumBody(f, h, s)]

\* Two functions that sum f up agree wherever both do.
LEMMA SumUnique ==
    ASSUME NEW f, NEW g, NEW h, NEW A, NEW B, Sums(f, g, A), Sums(f, h, B),
           NEW T \in SUBSET (A \cap B), IsFiniteSet(T)
    PROVE  g[T] = h[T]
<1> DEFINE Bad == {U \in SUBSET T : g[U] # h[U]}
<1> SUFFICES ASSUME Bad # {} PROVE FALSE
  OBVIOUS
<1>1. PICK U \in Bad : \A V \in Bad : V \subseteq U => V = U
  <2> HIDE DEF Bad
  <2>1. Bad \subseteq SUBSET T
    BY DEF Bad
  <2> QED BY <2>1, SmallestSet
<1>2. g[U] = SumBody(f, g, U) /\ h[U] = SumBody(f, h, U)
  BY <1>1 DEF Sums
<1>3. U # {}
  BY <1>1, <1>2 DEF SumBody
<1>4. Pick(U) \in U
  BY <1>3 DEF Pick
<1>5. U \ {Pick(U)} \notin Bad
  BY <1>1, <1>4
<1> QED BY <1>1, <1>2, <1>3, <1>5 DEF SumBody

\* There is a function that sums f up on a finite set.
LEMMA SumExists ==
    ASSUME NEW f, NEW S, IsFiniteSet(S)
    PROVE  \E h : Sums(f, h, S)
<1> DEFINE Bad == {T \in SUBSET S : ~ \E h : Sums(f, h, T)}
<1> SUFFICES ASSUME Bad # {} PROVE FALSE
  OBVIOUS
<1>1. PICK T \in Bad : \A V \in Bad : V \subseteq T => V = T
  <2> HIDE DEF Bad
  <2>1. Bad \subseteq SUBSET S
    BY DEF Bad
  <2> QED BY <2>1, SmallestSet
<1> DEFINE H(U) == CHOOSE h : Sums(f, h, U)
           h == [s \in SUBSET T |-> IF s = T THEN IF T = {} THEN 0 ELSE f[Pick(T)] + H(T \ {Pick(T)})[T \ {Pick(T)}]
                                    ELSE H(s)[s]]
<1>2. \A U \in SUBSET T : U # T => Sums(f, H(U), U)
  BY <1>1
<1> HIDE DEF H
<1>3. \A s \in SUBSET T : h[s] = SumBody(f, h, s)
  <2> SUFFICES ASSUME NEW s \in SUBSET T PROVE h[s] = SumBody(f, h, s)
    OBVIOUS
  <2>1. CASE s = {}
    <3>1. CASE T = {}
      BY <2>1, <3>1 DEF SumBody
    <3>2. CASE T # {}
      <4>1. h[s] = H({})[{}]
        BY <2>1, <3>2
      <4>2. H({})[{}] = SumBody(f, H({}), {})
        <5>1. Sums(f, H({}), {})
          BY <1>2, <3>2
        <5> DEFINE g == H({})
        <5> HIDE DEF g
        <5>2. g = [x \in SUBSET {} |-> SumBody(f, g, x)]
          BY <5>1 DEF Sums, g
        <5>3. {} \in SUBSET {}
          OBVIOUS
        <5>4. g[{}] = SumBody(f, g, {})
          BY <5>2, <5>3
        <5> QED BY <5>4 DEF g
      <4> QED BY <2>1, <4>1, <4>2 DEF SumBody
    <3> QED BY <3>1, <3>2
  <2>2. CASE s # {}
    <3> DEFINE u == s \ {Pick(s)}
    <3>1. Pick(s) \in s /\ u \in SUBSET T /\ u # T /\ u \subseteq s
      BY <2>2 DEF Pick
    <3>2. h[u] = H(u)[u]
      BY <3>1
    <3>3. CASE s = T
      BY <2>2, <3>2, <3>3 DEF SumBody
    <3>4. CASE s # T
      <4>1. h[s] = H(s)[s] /\ H(s)[s] = SumBody(f, H(s), s)
        BY <1>2, <3>4 DEF Sums
      <4>2. Sums(f, H(s), s) /\ Sums(f, H(u), u)
        BY <1>2, <3>1, <3>4
      <4>3. IsFiniteSet(u) /\ u \in SUBSET (s \cap u)
        BY <1>1, <3>1, FS_Subset
      <4>4. H(s)[u] = H(u)[u]
        BY <4>2, <4>3, SumUnique
      <4>5. SumBody(f, H(s), s) = f[Pick(s)] + H(s)[u] /\ SumBody(f, h, s) = f[Pick(s)] + h[u]
        BY <2>2 DEF SumBody
      <4> QED BY <3>2, <4>1, <4>4, <4>5
    <3> QED BY <3>3, <3>4
  <2> QED BY <2>1, <2>2
<1>4. Sums(f, h, T)
  BY <1>3 DEF Sums
<1> HIDE DEF h
<1> QED BY <1>1, <1>4

\* SumFunctionOnSet, one element at a time
LEMMA SumPick ==
    ASSUME NEW f, NEW S, IsFiniteSet(S)
    PROVE  SumFunctionOnSet(f, S) = IF S = {} THEN 0
                                    ELSE f[Pick(S)] + SumFunctionOnSet(f, S \ {Pick(S)})
<1> DEFINE H(T) == CHOOSE h : Sums(f, h, T)
<1>1. ASSUME NEW T, IsFiniteSet(T) PROVE SumFunctionOnSet(f, T) = H(T)[T] /\ Sums(f, H(T), T)
  <2>1. SumFunctionOnSet(f, T) = H(T)[T]
    BY DEF SumFunctionOnSet, FoldFunctionOnSet, MapThenFoldSet, Sums, SumBody, Pick
  <2>2. Sums(f, H(T), T)
    BY <1>1, SumExists
  <2> QED BY <2>1, <2>2
<1> HIDE DEF H
<1>2. SumFunctionOnSet(f, S) = H(S)[S] /\ Sums(f, H(S), S)
  BY <1>1
<1>3. H(S)[S] = SumBody(f, H(S), S)
  BY <1>2 DEF Sums
<1>4. CASE S = {}
  BY <1>2, <1>3, <1>4 DEF SumBody
<1>5. CASE S # {}
  <2> DEFINE u == S \ {Pick(S)}
  <2>1. IsFiniteSet(u) /\ u \in SUBSET (S \cap u)
    BY FS_Subset
  <2>2. SumFunctionOnSet(f, u) = H(u)[u] /\ Sums(f, H(u), u)
    BY <1>1, <2>1
  <2>3. H(S)[u] = H(u)[u]
    BY <1>2, <2>1, <2>2, SumUnique
  <2> QED BY <1>2, <1>3, <1>5, <2>2, <2>3 DEF SumBody
<1> QED BY <1>4, <1>5

\* A sum of naturals is a natural, in whatever order one takes the elements.
LEMMA SumSplit ==
    ASSUME NEW f, NEW S, IsFiniteSet(S), \A x \in S : f[x] \in Nat
    PROVE  /\ SumFunctionOnSet(f, S) \in Nat
           /\ \A x \in S : SumFunctionOnSet(f, S) = f[x] + SumFunctionOnSet(f, S \ {x})
<1> DEFINE Sum(T) == SumFunctionOnSet(f, T)
           Fine(T) == Sum(T) \in Nat /\ \A x \in T : Sum(T) = f[x] + Sum(T \ {x})
           Bad == {T \in SUBSET S : ~ Fine(T)}
<1> SUFFICES ASSUME Bad # {} PROVE FALSE
  OBVIOUS
<1>1. PICK T \in Bad : \A V \in Bad : V \subseteq T => V = T
  <2> HIDE DEF Bad
  <2>1. Bad \subseteq SUBSET S
    BY DEF Bad
  <2> QED BY <2>1, SmallestSet
<1>2. IsFiniteSet(T) /\ \A x \in T : f[x] \in Nat /\ Fine(T \ {x})
  <2>1. IsFiniteSet(T) /\ \A x \in T : f[x] \in Nat
    BY <1>1, FS_Subset
  <2>2. \A x \in T : T \ {x} \in SUBSET S /\ T \ {x} # T
    BY <1>1
  <2> HIDE DEF Fine
  <2> QED BY <1>1, <2>1, <2>2
<1>3. Sum(T) = IF T = {} THEN 0 ELSE f[Pick(T)] + Sum(T \ {Pick(T)})
  BY <1>2, SumPick
<1>4. ASSUME T = {} PROVE FALSE
  BY <1>1, <1>3, <1>4
<1> DEFINE y == Pick(T)
<1>5. y \in T /\ f[y] \in Nat /\ Fine(T \ {y}) /\ Sum(T) = f[y] + Sum(T \ {y})
  <2>1. y \in T
    BY <1>4 DEF Pick
  <2>2. Sum(T) = f[y] + Sum(T \ {y})
    BY <1>3, <1>4
  <2> HIDE DEF Fine, Sum, y
  <2> QED BY <1>2, <2>1, <2>2
<1> HIDE DEF Sum, y
<1>6. Sum(T) \in Nat
  BY <1>5
<1>7. ASSUME NEW x \in T PROVE Sum(T) = f[x] + Sum(T \ {x})
  <2>1. CASE x = y
    BY <1>5, <2>1
  <2>2. CASE x # y
    <3>1. Sum(T \ {y}) = f[x] + Sum((T \ {y}) \ {x})
      BY <1>5, <2>2
    <3>2. Fine(T \ {x}) /\ f[x] \in Nat
      BY <1>2
    <3>3. Sum(T \ {x}) = f[y] + Sum((T \ {x}) \ {y})
      BY <1>5, <2>2, <3>2
    <3>4. (T \ {y}) \ {x} = (T \ {x}) \ {y}
      OBVIOUS
    <3>5. Fine((T \ {x}) \ {y}) \/ Sum((T \ {x}) \ {y}) \in Nat
      <4>1. (T \ {x}) \ {y} \in SUBSET S /\ (T \ {x}) \ {y} # T /\ (T \ {x}) \ {y} \subseteq T
        BY <1>1, <1>5
      <4>2. (T \ {x}) \ {y} \notin Bad
        <5> HIDE DEF Bad
        <5> QED BY <1>1, <4>1
      <4> QED BY <4>1, <4>2
    <3>6. f[x] \in Nat /\ f[y] \in Nat /\ Sum((T \ {x}) \ {y}) \in Nat
      BY <1>5, <3>2, <3>5
    <3>7. Sum(T) = f[y] + (f[x] + Sum((T \ {x}) \ {y})) /\ Sum(T \ {x}) = f[y] + Sum((T \ {x}) \ {y})
      BY <1>5, <3>1, <3>3, <3>4
    <3> HIDE DEF Fine
    <3> QED BY <3>6, <3>7
  <2> QED BY <2>1, <2>2
<1> QED BY <1>1, <1>6, <1>7

\* A sum depends on the values in the set only.
LEMMA SumCongruence ==
    ASSUME NEW f, NEW g, NEW S, IsFiniteSet(S), \A x \in S : f[x] = g[x]
    PROVE  SumFunctionOnSet(f, S) = SumFunctionOnSet(g, S)
<1> DEFINE Bad == {T \in SUBSET S : SumFunctionOnSet(f, T) # SumFunctionOnSet(g, T)}
<1> SUFFICES ASSUME Bad # {} PROVE FALSE
  OBVIOUS
<1>1. PICK T \in Bad : \A V \in Bad : V \subseteq T => V = T
  <2> HIDE DEF Bad
  <2>1. Bad \subseteq SUBSET S
    BY DEF Bad
  <2> QED BY <2>1, SmallestSet
<1>2. IsFiniteSet(T)
  BY <1>1, FS_Subset
<1>3. T # {}
  BY <1>1, <1>2, SumPick
<1>4. Pick(T) \in T /\ f[Pick(T)] = g[Pick(T)]
  BY <1>1, <1>3 DEF Pick
<1>5. T \ {Pick(T)} \notin Bad
  BY <1>1, <1>4
<1>6. SumFunctionOnSet(f, T \ {Pick(T)}) = SumFunctionOnSet(g, T \ {Pick(T)})
  BY <1>1, <1>5
<1> QED BY <1>1, <1>2, <1>3, <1>4, <1>6, SumPick

\* What is added to one element is added to the sum.
LEMMA SumAdd ==
    ASSUME NEW f, NEW g, NEW S, IsFiniteSet(S), NEW x \in S, NEW k \in Nat,
           \A y \in S : f[y] \in Nat, g[x] = f[x] + k, \A y \in S : y # x => g[y] = f[y]
    PROVE  SumFunctionOnSet(g, S) = SumFunctionOnSet(f, S) + k
<1> DEFINE R == S \ {x}
<1>1. IsFiniteSet(R) /\ f[x] \in Nat /\ g[x] \in Nat /\ \A y \in S : g[y] \in Nat
  BY FS_Subset
<1>2. SumFunctionOnSet(g, S) = g[x] + SumFunctionOnSet(g, R)
  BY <1>1, SumSplit
<1>3. SumFunctionOnSet(f, S) = f[x] + SumFunctionOnSet(f, R) /\ SumFunctionOnSet(f, R) \in Nat
  BY <1>1, SumSplit
<1>4. SumFunctionOnSet(g, R) = SumFunctionOnSet(f, R)
  BY <1>1, SumCongruence
<1> QED BY <1>1, <1>2, <1>3, <1>4

\* A sum is no less than a part of it.
LEMMA SumMonotone ==
    ASSUME NEW f, NEW S, IsFiniteSet(S), \A x \in S : f[x] \in Nat, NEW R \in SUBSET S
    PROVE  SumFunctionOnSet(f, R) <= SumFunctionOnSet(f, S)
<1> DEFINE Bad == {T \in SUBSET S : R \subseteq T /\ ~ (SumFunctionOnSet(f, R) <= SumFunctionOnSet(f, T))}
<1> SUFFICES ASSUME Bad # {} PROVE FALSE
  OBVIOUS
<1>1. PICK T \in Bad : \A V \in Bad : V \subseteq T => V = T
  <2> HIDE DEF Bad
  <2>1. Bad \subseteq SUBSET S
    BY DEF Bad
  <2> QED BY <2>1, SmallestSet
<1>2. IsFiniteSet(T) /\ IsFiniteSet(R) /\ \A x \in T : f[x] \in Nat
  BY <1>1, FS_Subset
<1>3. SumFunctionOnSet(f, R) \in Nat /\ SumFunctionOnSet(f, T) \in Nat
  BY <1>2, SumSplit
<1>4. R # T
  BY <1>1, <1>3
<1>5. PICK x \in T : x \notin R
  BY <1>1, <1>4
<1> DEFINE U == T \ {x}
<1>6. SumFunctionOnSet(f, T) = f[x] + SumFunctionOnSet(f, U)
  BY <1>2, SumSplit
<1>7. U \notin Bad /\ U \in SUBSET S /\ R \subseteq U
  BY <1>1, <1>5
<1>8. SumFunctionOnSet(f, R) <= SumFunctionOnSet(f, U)
  BY <1>7
<1>9. SumFunctionOnSet(f, U) \in Nat
  BY <1>2, FS_Subset, SumSplit
<1> QED BY <1>1, <1>2, <1>3, <1>6, <1>8, <1>9

\* A sum of nothings is nothing.
LEMMA SumZero ==
    ASSUME NEW f, NEW S, IsFiniteSet(S), \A x \in S : f[x] = 0
    PROVE  SumFunctionOnSet(f, S) = 0
<1> DEFINE Bad == {T \in SUBSET S : SumFunctionOnSet(f, T) # 0}
<1> SUFFICES ASSUME Bad # {} PROVE FALSE
  OBVIOUS
<1>1. PICK T \in Bad : \A V \in Bad : V \subseteq T => V = T
  <2> HIDE DEF Bad
  <2>1. Bad \subseteq SUBSET S
    BY DEF Bad
  <2> QED BY <2>1, SmallestSet
<1>2. IsFiniteSet(T)
  BY <1>1, FS_Subset
<1>3. T # {}
  BY <1>1, <1>2, SumPick
<1>4. Pick(T) \in T /\ f[Pick(T)] = 0
  BY <1>1, <1>3 DEF Pick
<1>5. SumFunctionOnSet(f, T \ {Pick(T)}) = 0
  BY <1>1, <1>4
<1> QED BY <1>1, <1>2, <1>3, <1>4, <1>5, SumPick

\* Min of the library
LEMMA MinIsLeast ==
    ASSUME NEW S \in SUBSET Nat, S # {}
    PROVE  Min(S) \in S /\ \A m \in S : Min(S) <= m
<1>1. PICK n \in S : \A m \in S : n =< m
  BY LeastNatural
<1>2. Min(S) \in S /\ \A m \in S : Min(S) =< m
  BY <1>1 DEF Min
<1> QED BY <1>2
-----------------------------------------------------------------------------
(* Keys and targets                                                         *)

Decides(ctx, target) == ~ HasFallback(target) \/ Named(ctx, target) # {}

\* Of the alternatives of a target the first that decides is the effective one.
LEMMA EffectiveDecides ==
    ASSUME NEW ctx, NEW targets, IsTarget(targets)
    PROVE  Decides(ctx, Effective(ctx, targets))
<1> DEFINE D == {i \in 1 .. Len(targets) : Decides(ctx, targets[i])}
<1>1. D \in SUBSET Nat /\ Len(targets) \in D
  BY DEF IsTarget, Decides
<1>2. PICK i \in D : \A j \in D : i <= j
  BY <1>1, LeastNatural
<1>3. i \in DOMAIN targets /\ Decides(ctx, targets[i]) /\ \A j \in 1 .. i - 1 : ~ Decides(ctx, targets[j])
  BY <1>2 DEF IsTarget
<1> DEFINE First(k) == Decides(ctx, targets[k]) /\ \A j \in 1 .. k - 1 : ~ Decides(ctx, targets[j])
<1>4. Effective(ctx, targets) = targets[CHOOSE k \in DOMAIN targets : First(k)]
  BY DEF Effective, Decides
<1>5. First(CHOOSE k \in DOMAIN targets : First(k))
  BY <1>3
<1> QED BY <1>4, <1>5

\* The buckets that a request has are finitely many.
LEMMA FiniteBuckets ==
    ASSUME NEW ctx, IsContext(ctx)
    PROVE  IsFiniteSet(Buckets(ctx))
<1>1. DOMAIN ctx.plan = 1 .. Len(ctx.plan) /\ Len(ctx.plan) \in Nat
  BY DEF IsContext
<1>2. IsFiniteSet(DOMAIN ctx.plan)
  BY <1>1, FS_Interval
<1> QED BY <1>2, FiniteImage DEF Buckets

\* The keys that acquire looks up are finitely many, and so are the ones that a
\* response cools down.
LEMMA FiniteKeys ==
    ASSUME NEW ctx, IsContext(ctx)
    PROVE  /\ IsFiniteSet(cooldown_keys_for_acquire(ctx))
           /\ \A targets : IsFiniteSet(cooldown_keys_for_target(ctx, targets))
<1> DEFINE bs == Buckets(ctx)
           kinds == [b \in bs |-> bucket_kind_cooldown_key(ctx, b)]
           names == [b \in bs |-> bucket_cooldown_key(ctx, b)]
<1>1. \A S \in SUBSET bs : IsFiniteSet(S)
  BY FiniteBuckets, FS_Subset
<1>2. ASSUME NEW S \in SUBSET bs
      PROVE  /\ IsFiniteSet({bucket_kind_cooldown_key(ctx, b) : b \in S})
             /\ IsFiniteSet({bucket_cooldown_key(ctx, b) : b \in S})
  <2>1. IsFiniteSet({kinds[b] : b \in S}) /\ IsFiniteSet({names[b] : b \in S})
    BY <1>1, FiniteImage
  <2>2. /\ {kinds[b] : b \in S} = {bucket_kind_cooldown_key(ctx, b) : b \in S}
        /\ {names[b] : b \in S} = {bucket_cooldown_key(ctx, b) : b \in S}
    OBVIOUS
  <2> QED BY <2>1, <2>2
<1>3. IsFiniteSet(cooldown_keys_for_acquire(ctx))
  <2> DEFINE A == {client_cooldown_key, endpoint_cooldown_key(ctx), request_cooldown_key(ctx)}
             H == IF ctx.host = NoHost THEN {} ELSE {host_cooldown_key(ctx)}
             K == {bucket_kind_cooldown_key(ctx, b) : b \in Buckets(ctx)}
             N == {bucket_cooldown_key(ctx, b) : b \in Buckets(ctx)}
  <2>1. IsFiniteSet(A)
    <3>1. A = ({client_cooldown_key} \cup {endpoint_cooldown_key(ctx)}) \cup {request_cooldown_key(ctx)}
      OBVIOUS
    <3>2. IsFiniteSet({client_cooldown_key}) /\ IsFiniteSet({client_cooldown_key} \cup {endpoint_cooldown_key(ctx)})
      BY FS_Singleton, FS_AddElement
    <3>3. IsFiniteSet(({client_cooldown_key} \cup {endpoint_cooldown_key(ctx)}) \cup {request_cooldown_key(ctx)})
      BY <3>2, FS_AddElement
    <3> QED BY <3>1, <3>3
  <2>2. IsFiniteSet(H)
    BY FS_EmptySet, FS_Singleton
  <2>3. IsFiniteSet(K) /\ IsFiniteSet(N)
    BY <1>2
  <2>4. cooldown_keys_for_acquire(ctx) = ((A \cup H) \cup K) \cup N
    BY DEF cooldown_keys_for_acquire
  <2> HIDE DEF A, H, K, N
  <2> QED BY <2>1, <2>2, <2>3, <2>4, FS_Union
<1>4. ASSUME NEW targets PROVE IsFiniteSet(cooldown_keys_for_target(ctx, targets))
  <2> DEFINE e == Effective(ctx, targets)
  <2>1. Named(ctx, e) \in SUBSET bs
    BY DEF Named
  <2>2. /\ IsFiniteSet({bucket_kind_cooldown_key(ctx, b) : b \in Named(ctx, e)})
        /\ IsFiniteSet({bucket_cooldown_key(ctx, b) : b \in Named(ctx, e)})
    BY <1>2, <2>1
  <2>3. \/ cooldown_keys_for_target(ctx, targets) = {}
        \/ \E k : cooldown_keys_for_target(ctx, targets) = {k}
        \/ cooldown_keys_for_target(ctx, targets) = {bucket_kind_cooldown_key(ctx, b) : b \in Named(ctx, e)}
        \/ cooldown_keys_for_target(ctx, targets) = {bucket_cooldown_key(ctx, b) : b \in Named(ctx, e)}
    BY DEF cooldown_keys_for_target
  <2> DEFINE keys == cooldown_keys_for_target(ctx, targets)
             K == {bucket_kind_cooldown_key(ctx, b) : b \in Named(ctx, e)}
             N == {bucket_cooldown_key(ctx, b) : b \in Named(ctx, e)}
  <2>4. keys = {} \/ (\E k : keys = {k}) \/ keys = K \/ keys = N
    BY <2>3
  <2>5. IsFiniteSet(K) /\ IsFiniteSet(N)
    BY <2>2
  <2> HIDE DEF keys, K, N
  <2>6. ASSUME NEW k, keys = {k} PROVE IsFiniteSet(keys)
    BY <2>6, FS_Singleton
  <2>7. keys = {} => IsFiniteSet(keys)
    BY FS_EmptySet
  <2>8. IsFiniteSet(keys)
    BY <2>4, <2>5, <2>6, <2>7
  <2> QED BY <2>8 DEF keys
<1> QED BY <1>3, <1>4

\* cooldown_keys_for_target and cooldown_keys_for_acquire agree: whatever a response
\* to a request cools down, acquire looks up for the same request.
LEMMA TargetKeysAreAcquired ==
    ASSUME NEW ctx, NEW targets, ~ TargetFails(ctx, targets)
    PROVE  cooldown_keys_for_target(ctx, targets) \subseteq cooldown_keys_for_acquire(ctx)
<1> DEFINE e == Effective(ctx, targets)
           keys == cooldown_keys_for_target(ctx, targets)
<1>1. Named(ctx, e) \subseteq Buckets(ctx)
  BY DEF Named
<1>2. e.t = "Host" => ctx.host # NoHost
  BY DEF TargetFails
<1>3. \/ keys = {} \/ keys = {request_cooldown_key(ctx)} \/ keys = {endpoint_cooldown_key(ctx)}
      \/ (keys = {host_cooldown_key(ctx)} /\ e.t = "Host") \/ keys = {client_cooldown_key}
      \/ keys = {bucket_kind_cooldown_key(ctx, b) : b \in Named(ctx, e)}
      \/ keys = {bucket_cooldown_key(ctx, b) : b \in Named(ctx, e)}
  BY DEF cooldown_keys_for_target
<1> HIDE DEF keys, e
<1>4. keys \subseteq cooldown_keys_for_acquire(ctx)
  BY <1>1, <1>2, <1>3 DEF cooldown_keys_for_acquire
<1> QED BY <1>4 DEF keys

\* A target comes to no key only if it is, after its fallbacks, no target.
LEMMA TargetHasKeys ==
    ASSUME NEW ctx, NEW targets, IsTarget(targets), cooldown_keys_for_target(ctx, targets) = {}
    PROVE  Effective(ctx, targets).t \notin
             {"Request", "Endpoint", "Host", "Client", "CurrentPlan", "BucketKind", "Bucket"}
BY EffectiveDecides DEF cooldown_keys_for_target, Decides, HasFallback
-----------------------------------------------------------------------------
(* The scenario                                                             *)

Targets(x) == {observe(x.policy, r, 0).target : r \in Responses}

\* What the fields of a setup are.
LEMMA SetupFields ==
    ASSUME setup \in {Setup(x) : x \in Scenarios}
    PROVE  /\ Config \in Scenarios
           /\ setup.acquireKeys = [c \in Active |-> cooldown_keys_for_acquire(Request(c))]
           /\ setup.targetKeys =
                [c \in Active |-> [t \in Targets(Config) |-> cooldown_keys_for_target(Request(c), t)]]
           /\ Keys = UNION {cooldown_keys_for_acquire(Request(c))
                            \cup UNION {cooldown_keys_for_target(Request(c), t) : t \in Targets(Config)} :
                            c \in Active}
           /\ Specs = UNION {{w.spec : w \in ToSet(PlanWindows(Request(c)))} : c \in Active}
           /\ \A s \in Specs : Window(s) = s.window
           /\ setup.plan = [c \in Active |-> PlanWindows(Request(c))]
<1>1. PICK x \in Scenarios : setup = Setup(x)
  OBVIOUS
<1>2. Config = x
  BY <1>1 DEF Config, Setup
<1> QED BY <1>1, <1>2 DEF Setup, Config, Active, Request, Keys, Specs, Window, Targets

Delays == {<<>>} \cup {<<n>> : n \in Nat}
Observation(o, target) ==
    o \in [limited : BOOLEAN, delay : Delays, target : {target}]

\* Retry-After changes the delay of an observation and nothing else.
LEMMA RetryAfterShape ==
    ASSUME NEW o, NEW target, Observation(o, target), NEW r, IsRetryAfter(r.retryAfter), NEW t \in Nat
    PROVE  Observation(retry_after_header(o, r, t), target)
<1>1. parse_retry_after(r.retryAfter, t) \in Delays
  BY DEF parse_retry_after, IsRetryAfter, Delays
<1>2. CASE parse_retry_after(r.retryAfter, t) = <<>>
  BY <1>2 DEF retry_after_header
<1>3. CASE parse_retry_after(r.retryAfter, t) # <<>>
  <2>1. PICK n \in Nat : parse_retry_after(r.retryAfter, t) = <<n>>
    BY <1>1, <1>3 DEF Delays
  <2>2. retry_after_header(o, r, t) = [o EXCEPT !.delay = <<n>>]
    BY <1>3, <2>1 DEF retry_after_header, with_delay
  <2> QED BY <2>2 DEF Observation, Delays
<1> QED BY <1>2, <1>3

\* The target of an observation does not depend on when it is made, nor on the cap.
LEMMA ObserveShape ==
    ASSUME NEW p, IsPolicy(p), NEW r, IsRetryAfter(r.retryAfter)
    PROVE  \E target : \A t \in Nat : Observation(observe(p, r, t), target)
<1>1. /\ Observation(Limited, current_plan_or_endpoint)
      /\ Observation(Continue_, Target("None"))
  BY DEF Observation, Limited, Continue_, Delays
<1>2. CASE p.t = "Default"
  <2>1. CASE r.status # "429"
    BY <1>1, <1>2, <2>1 DEF observe
  <2>2. CASE r.status = "429"
    <3>1. \A t \in Nat : observe(p, r, t) = retry_after_header(Limited, r, t)
      BY <1>2, <2>2 DEF observe
    <3> QED BY <1>1, <1>2, <3>1, RetryAfterShape
  <2> QED BY <2>1, <2>2
<1>3. CASE p.t = "Scoped"
  <2>1. PICK target : Observation(scope_header(on_429(r), r), target)
    <3>1. PICK u : Observation(on_429(r), u)
      BY <1>1 DEF on_429
    <3>2. CASE r.scope = ""
      BY <3>1, <3>2 DEF scope_header
    <3>3. CASE r.scope # ""
      <4> DEFINE v == bucket_kind(r.scope, current_plan_or_endpoint)
      <4>1. scope_header(on_429(r), r) = [on_429(r) EXCEPT !.target = v]
        BY <3>3 DEF scope_header, with_target
      <4> HIDE DEF v
      <4>2. Observation(scope_header(on_429(r), r), v)
        BY <3>1, <4>1 DEF Observation
      <4> QED BY <4>2
    <3> QED BY <3>2, <3>3
  <2>2. \A t \in Nat : observe(p, r, t) = retry_after_header(scope_header(on_429(r), r), r, t)
    BY <1>3 DEF observe
  <2>3. \A t \in Nat : Observation(observe(p, r, t), target)
    BY <2>1, <2>2, RetryAfterShape
  <2> QED BY <1>3, <2>3
<1>4. CASE p.t = "Observer"
  <2>1. CASE r.status # "429"
    <3>1. \A t \in Nat : observe(p, r, t) = Continue_
      BY <1>4, <2>1 DEF observe
    <3> QED BY <1>1, <2>1, <3>1
  <2>2. CASE r.status = "429"
    <3>1. \A t \in Nat : observe(p, r, t) = [retry_after_header(Limited, r, t) EXCEPT !.target = p.target]
      BY <1>4, <2>2 DEF observe, with_target
    <3>2. \A t \in Nat : Observation(retry_after_header(Limited, r, t), current_plan_or_endpoint)
      BY <1>1, RetryAfterShape
    <3>3. \A t \in Nat : Observation(observe(p, r, t), p.target)
      BY <3>1, <3>2 DEF Observation
    <3> QED BY <3>3
  <2> QED BY <2>1, <2>2
<1> QED BY <1>2, <1>3, <1>4 DEF IsPolicy

\* What store_observation works with: the cap has its say on the delay only.
LEMMA ObservedShape ==
    ASSUME setup \in {Setup(x) : x \in Scenarios}, now \in Nat, NEW c \in Active, NEW r \in Responses
    PROVE  \E target \in Targets(Config) : Observation(Observed(c, r), target)
<1>1. Config \in Scenarios
  BY SetupFields
<1>2. IsPolicy(Config.policy) /\ MaxCooldown(c) \in Nat /\ IsRetryAfter(r.retryAfter)
  BY <1>1, ScenariosAssumption, ResponsesAssumption DEF MaxCooldown, Active
<1>3. PICK target : \A t \in Nat : Observation(observe(Config.policy, r, t), target)
  BY <1>2, ObserveShape
<1>4. target \in Targets(Config)
  BY <1>3 DEF Targets, Observation
<1> DEFINE o == observe(Config.policy, r, now)
<1>5. Observation(o, target)
  BY <1>3
<1>6. CASE o.delay = <<>>
  BY <1>4, <1>5, <1>6 DEF Observed
<1>7. CASE o.delay # <<>>
  <2>1. PICK n \in Nat : o.delay = <<n>>
    BY <1>5, <1>7 DEF Observation, Delays
  <2>2. Observed(c, r) = [o EXCEPT !.delay = <<Smaller(n, MaxCooldown(c))>>]
    BY <1>7, <2>1 DEF Observed, with_delay
  <2>3. Smaller(n, MaxCooldown(c)) \in Nat
    BY <1>2 DEF Smaller
  <2> HIDE DEF o
  <2>4. Observation(Observed(c, r), target)
    BY <1>5, <2>2, <2>3 DEF Observation, Delays
  <2> QED BY <1>4, <2>4
<1> QED BY <1>6, <1>7
-----------------------------------------------------------------------------
(* Cooldowns and the sizes of the tables                                    *)

Pcs == {"idle", "cooldown", "sleep", "window", "ready", "permitted"}

\* Where a caller still has to look the cooldowns of its keys up.
Outside == {"idle", "cooldown", "sleep"}

Types ==
    /\ setup \in {Setup(x) : x \in Scenarios}
    /\ now \in Nat
    /\ cooldown \in [Keys -> Nat]
    /\ pc \in [Callers -> Pcs]
    /\ seen \in [Callers -> Nat]
    /\ \A c \in Callers : pc[c] # "idle" => c \in Active

Entries(m) == {k \in Keys : m[k] > 0}

CooldownsBounded ==
    /\ IsFiniteSet(Entries(cooldown))
    /\ Cardinality(Entries(cooldown)) <= Config.cooldownEntries

\* A cooldown that a caller has to sit out and that is not over is in the table,
\* under a key that the caller looks up before it goes on.
Guarded(c) ==
    seen[c] > now =>
      /\ c \in Active /\ Config.governed /\ pc[c] \in Outside
      /\ \E k \in setup.acquireKeys[c] : cooldown[k] >= seen[c]

CooldownInv == Types /\ CooldownsBounded /\ \A c \in Callers : Guarded(c)

\* The constants of the scenario
LEMMA ConfigTypes ==
    ASSUME Types
    PROVE  /\ Config \in Scenarios /\ Active \subseteq Callers
           /\ Config.cooldownEntries \in Nat \ {0} /\ Config.windowEntries \in Nat \ {0}
           /\ IdleTtl \in Nat
           /\ \A c \in Active : IsContext(Request(c)) /\ MaxCooldown(c) \in Nat
           /\ \A c \in Active : /\ setup.acquireKeys[c] = cooldown_keys_for_acquire(Request(c))
                                /\ setup.acquireKeys[c] \subseteq Keys
                                /\ IsFiniteSet(setup.acquireKeys[c])
<1>1. Config \in Scenarios
  BY SetupFields DEF Types
<1>2. /\ Active \subseteq Callers
      /\ Config.cooldownEntries \in Nat \ {0} /\ Config.windowEntries \in Nat \ {0}
      /\ IdleTtl \in Nat
      /\ \A c \in Active : IsContext(Request(c)) /\ MaxCooldown(c) \in Nat
  BY <1>1, ScenariosAssumption DEF Active, IdleTtl, Request, MaxCooldown
<1>3. \A c \in Active : /\ setup.acquireKeys[c] = cooldown_keys_for_acquire(Request(c))
                        /\ setup.acquireKeys[c] \subseteq Keys
  BY SetupFields DEF Types
<1> QED BY <1>1, <1>2, <1>3, FiniteKeys

\* CooldownEnd is the greatest of the cooldowns on the keys of c.
LEMMA CooldownEndProperties ==
    ASSUME Types, NEW m \in [Keys -> Nat], NEW c \in Active
    PROVE  /\ CooldownEnd(c, m) \in Nat
           /\ \A k \in setup.acquireKeys[c] : m[k] <= CooldownEnd(c, m)
           /\ CooldownEnd(c, m) > 0 => \E k \in setup.acquireKeys[c] : m[k] = CooldownEnd(c, m)
<1> DEFINE K == setup.acquireKeys[c]
           V == {m[k] : k \in K}
           S == V \cup {0}
<1>1. K \subseteq Keys /\ IsFiniteSet(K)
  BY ConfigTypes
<1> HIDE DEF K
<1>2. V \subseteq Nat /\ IsFiniteSet(V)
  BY <1>1, FiniteImage
<1>3. S \in SUBSET Nat /\ S # {} /\ IsFiniteSet(S)
  BY <1>2, FS_AddElement
<1>4. CooldownEnd(c, m) = Max(S)
  BY DEF CooldownEnd, K
<1> HIDE DEF S
<1>5. CooldownEnd(c, m) \in S /\ \A v \in S : v <= CooldownEnd(c, m)
  BY <1>3, <1>4, MaxIsGreatest
<1> QED BY <1>3, <1>5 DEF S, K

\* Pruning keeps every cooldown that is not over.
LEMMA PruneProperties ==
    ASSUME Types
    PROVE  /\ PruneCooldowns(cooldown) \in [Keys -> Nat]
           /\ \A k \in Keys : cooldown[k] > now => PruneCooldowns(cooldown)[k] = cooldown[k]
           /\ Entries(PruneCooldowns(cooldown)) \subseteq Entries(cooldown)
BY DEF Types, PruneCooldowns, Entries

\* A step that prunes, or leaves the table, and is about caller c only.
LEMMA LocalStep ==
    ASSUME CooldownInv, NEW c \in Active, NEW l \in Pcs,
           UNCHANGED <<setup, now>>, cooldown' = cooldown \/ cooldown' = PruneCooldowns(cooldown),
           pc' = [pc EXCEPT ![c] = l],
           seen' = seen \/ seen' = [seen EXCEPT ![c] = Still(@)],
           l \in Outside \/ seen[c] <= now
    PROVE  CooldownInv'
<1> USE DEF CooldownInv
<1>0. c \in Callers /\ Config.cooldownEntries \in Nat
  BY ConfigTypes
<1>1. /\ cooldown' \in [Keys -> Nat]
      /\ \A k \in Keys : cooldown[k] > now => cooldown'[k] = cooldown[k]
      /\ Entries(cooldown') \subseteq Entries(cooldown)
  BY PruneProperties DEF Types
<1>2. seen' \in [Callers -> Nat] /\ \A b \in Callers : seen'[b] > now => seen'[b] = seen[b]
  BY <1>0 DEF Types, Still
<1>3. Types'
  BY <1>0, <1>1, <1>2 DEF Types, Keys, Active, Config
<1>4. CooldownsBounded'
  <2>1. /\ IsFiniteSet(Entries(cooldown'))
        /\ Cardinality(Entries(cooldown')) <= Cardinality(Entries(cooldown))
        /\ Cardinality(Entries(cooldown')) \in Nat /\ Cardinality(Entries(cooldown)) \in Nat
    BY <1>1, FS_Subset, FS_CardinalityType DEF CooldownsBounded
  <2>2. Cardinality(Entries(cooldown')) <= Config.cooldownEntries
    BY <1>0, <2>1 DEF CooldownsBounded
  <2> QED BY <2>1, <2>2 DEF CooldownsBounded, Entries, Keys, Config
<1>5. ASSUME NEW b \in Callers PROVE Guarded(b)'
  <2> SUFFICES ASSUME seen'[b] > now
               PROVE  /\ b \in Active /\ Config.governed /\ pc'[b] \in Outside
                      /\ \E k \in setup.acquireKeys[b] : cooldown'[k] >= seen'[b]
    BY DEF Guarded, Active, Config
  <2>1. seen'[b] = seen[b] /\ seen[b] > now
    BY <1>2
  <2>2. PICK k \in setup.acquireKeys[b] : b \in Active /\ Config.governed /\ pc[b] \in Outside /\ cooldown[k] >= seen[b]
    BY <2>1 DEF Guarded
  <2>3. k \in Keys
    BY <2>2, ConfigTypes
  <2>4. cooldown'[k] = cooldown[k]
    BY <1>1, <2>1, <2>2, <2>3 DEF Types
  <2>5. pc'[b] \in Outside
    BY <1>0, <2>1, <2>2 DEF Types
  <2> QED BY <2>1, <2>2, <2>4, <2>5
<1> QED BY <1>3, <1>4, <1>5

\* A limited response puts all its keys into the table or, at the cap, none, and
\* whoever is waiting on one of them, or comes back to it, is held up by it.
LEMMA StoreStep ==
    ASSUME CooldownInv, NEW c \in Active, NEW r \in Responses, StoreCooldown(c, r)
    PROVE  CooldownInv'
<1> USE DEF CooldownInv
<1> DEFINE o == Observed(c, r)
           keys == setup.targetKeys[c][o.target]
           live == PruneCooldowns(cooldown)
           stored == ~ CapExceeded(keys, live)
           until == now + o.delay[1]
<1>0. c \in Callers /\ Config.cooldownEntries \in Nat /\ now \in Nat
  BY ConfigTypes DEF Types
<1>1. /\ pc[c] = "permitted" /\ Config.governed /\ Storable(c, o)
      /\ cooldown' = IF stored THEN Extended(keys, o.delay[1], live) ELSE live
      /\ pc' = [pc EXCEPT ![c] = "idle"]
      /\ seen' = [b \in Callers |->
                    IF b = c THEN IF stored THEN Larger(seen[c], until) ELSE Still(seen[c])
                    ELSE IF pc[b] \in {"cooldown", "sleep"}
                         THEN Larger(seen[b], CooldownEnd(b, cooldown'))
                         ELSE seen[b]]
      /\ UNCHANGED <<setup, now>>
  BY DEF StoreCooldown, Leave, Goto
<1>2. PICK target \in Targets(Config) : Observation(o, target)
  BY ObservedShape DEF Types
<1>3. /\ o.target = target /\ o.delay \in Delays
      /\ ~ TargetFails(Request(c), target) /\ keys # {} /\ o.delay # <<>>
  BY <1>1, <1>2 DEF Observation, Storable
<1>4. o.delay[1] \in Nat /\ until \in Nat /\ until >= now
  BY <1>0, <1>3 DEF Delays
<1>5. /\ keys = cooldown_keys_for_target(Request(c), target)
      /\ keys \subseteq Keys
  BY <1>3, SetupFields DEF Types
<1>6. keys \subseteq setup.acquireKeys[c] /\ IsFiniteSet(keys)
  BY <1>3, <1>5, TargetKeysAreAcquired, ConfigTypes, FiniteKeys
<1>7. /\ live \in [Keys -> Nat]
      /\ \A k \in Keys : cooldown[k] > now => live[k] = cooldown[k]
      /\ Entries(live) \subseteq Entries(cooldown)
  BY PruneProperties
<1>s. seen[c] <= now /\ \A b \in Callers : seen[b] \in Nat
  BY <1>0, <1>1 DEF Guarded, Types, Outside
<1> HIDE DEF o, keys, live, stored
<1> HIDE DEF until
<1>8. /\ cooldown' \in [Keys -> Nat]
      /\ \A k \in Keys : cooldown'[k] >= live[k]
      /\ stored => \A k \in keys : cooldown'[k] >= until
      /\ stored => Entries(cooldown') \subseteq Entries(live) \cup keys
      /\ ~ stored => cooldown' = live
  <2>1. CASE stored
    <3>1. cooldown' = [k \in Keys |-> IF k \in keys THEN Larger(live[k], until) ELSE live[k]]
      BY <1>1, <2>1 DEF Extended, until
    <3> QED BY <1>4, <1>5, <1>7, <2>1, <3>1 DEF Larger, Entries
  <2>2. CASE ~ stored
    BY <1>1, <1>7, <2>2
  <2> QED BY <2>1, <2>2
<1>9. \A b \in Active : CooldownEnd(b, cooldown') \in Nat
  BY <1>8, CooldownEndProperties
<1>10. seen' \in [Callers -> Nat] /\ Types'
  <2>1. \A b \in Callers : seen'[b] \in Nat
    <3> SUFFICES ASSUME NEW b \in Callers PROVE seen'[b] \in Nat
      OBVIOUS
    <3>1. CASE b = c
      BY <1>0, <1>1, <1>4, <1>s, <3>1 DEF Larger, Still
    <3>2. CASE b # c /\ pc[b] \in {"cooldown", "sleep"}
      <4>1. CooldownEnd(b, cooldown') \in Nat
        BY <1>9, <3>2 DEF Types
      <4> QED BY <1>1, <1>s, <3>2, <4>1 DEF Larger
    <3>3. CASE b # c /\ pc[b] \notin {"cooldown", "sleep"}
      BY <1>1, <1>s, <3>3
    <3> QED BY <3>1, <3>2, <3>3
  <2>2. seen' \in [Callers -> Nat]
    BY <1>1, <2>1
  <2> QED BY <1>0, <1>1, <1>8, <2>2 DEF Types, Pcs, Keys, Active, Config
<1>11. CooldownsBounded'
  <2>1. IsFiniteSet(Entries(live)) /\ Cardinality(Entries(live)) <= Cardinality(Entries(cooldown))
    BY <1>7, FS_Subset DEF CooldownsBounded
  <2>2. IsFiniteSet(Entries(live) \cup keys)
    BY <1>6, <2>1, FS_Union
  <2>3. CASE stored
    <3>1. Cardinality(Entries(live) \cup keys) <= Config.cooldownEntries
      <4>1. Cardinality(Entries(live) \cup keys) \in Nat
        BY <2>2, FS_CardinalityType
      <4> QED BY <1>0, <2>3, <4>1 DEF stored, CapExceeded, Entries
    <3>2. /\ IsFiniteSet(Entries(cooldown'))
          /\ Cardinality(Entries(cooldown')) <= Cardinality(Entries(live) \cup keys)
      BY <1>8, <2>2, <2>3, FS_Subset
    <3>3. Cardinality(Entries(cooldown')) \in Nat /\ Cardinality(Entries(live) \cup keys) \in Nat
      BY <2>2, <3>2, FS_CardinalityType
    <3> QED BY <1>0, <1>1, <3>1, <3>2, <3>3 DEF CooldownsBounded, Entries, Keys, Config
  <2>4. CASE ~ stored
    <3>1. cooldown' = live
      BY <1>8, <2>4
    <3>2. Cardinality(Entries(live)) \in Nat /\ Cardinality(Entries(cooldown)) \in Nat
      BY <2>1, FS_CardinalityType DEF CooldownsBounded
    <3> QED BY <1>0, <1>1, <2>1, <3>1, <3>2 DEF CooldownsBounded, Entries, Keys, Config
  <2> QED BY <2>3, <2>4
<1>12. ASSUME NEW b \in Callers PROVE Guarded(b)'
  <2> SUFFICES ASSUME seen'[b] > now
               PROVE  /\ b \in Active /\ Config.governed /\ pc'[b] \in Outside
                      /\ \E k \in setup.acquireKeys[b] : cooldown'[k] >= seen'[b]
    BY <1>1 DEF Guarded, Active, Config
  <2>k. ASSUME seen'[b] = seen[b], b # c
        PROVE  /\ b \in Active /\ Config.governed /\ pc'[b] \in Outside
               /\ \E k \in setup.acquireKeys[b] : cooldown'[k] >= seen'[b]
    <3>1. PICK k \in setup.acquireKeys[b] : b \in Active /\ Config.governed /\ pc[b] \in Outside /\ cooldown[k] >= seen[b]
      BY <2>k DEF Guarded
    <3>2. k \in Keys
      BY <3>1, ConfigTypes
    <3>3. cooldown[k] \in Nat /\ cooldown'[k] \in Nat /\ live[k] \in Nat
      BY <1>7, <1>8, <3>2 DEF Types
    <3>4. cooldown'[k] >= seen[b]
      BY <1>0, <1>7, <1>8, <1>s, <2>k, <3>1, <3>2, <3>3
    <3>5. pc'[b] = pc[b]
      BY <1>1, <2>k DEF Types
    <3> QED BY <2>k, <3>1, <3>4, <3>5
  <2>1. CASE b = c
    <3>1. stored /\ seen'[b] = until
      BY <1>0, <1>1, <1>4, <1>s, <2>1 DEF Larger, Still
    <3>2. PICK k \in keys : TRUE
      BY <1>3
    <3>3. k \in setup.acquireKeys[c] /\ cooldown'[k] >= until
      BY <1>6, <1>8, <3>1
    <3> QED BY <1>0, <1>1, <2>1, <3>1, <3>3 DEF Types, Outside
  <2>2. CASE b # c /\ pc[b] \in {"cooldown", "sleep"}
    <3>1. b \in Active /\ seen'[b] = Larger(seen[b], CooldownEnd(b, cooldown'))
      BY <1>1, <2>2 DEF Types
    <3>2. CASE seen'[b] = seen[b]
      BY <2>2, <2>k, <3>2
    <3>3. CASE seen'[b] # seen[b]
      <4>1. seen'[b] = CooldownEnd(b, cooldown') /\ CooldownEnd(b, cooldown') > 0
        BY <1>0, <1>9, <1>s, <3>1, <3>3 DEF Larger
      <4>2. PICK k \in setup.acquireKeys[b] : cooldown'[k] = CooldownEnd(b, cooldown')
        BY <1>8, <3>1, <4>1, CooldownEndProperties
      <4>3. pc'[b] = pc[b]
        BY <1>1, <2>2 DEF Types
      <4> QED BY <1>1, <1>9, <2>2, <3>1, <4>1, <4>2, <4>3 DEF Outside
    <3> QED BY <3>2, <3>3
  <2>3. CASE b # c /\ pc[b] \notin {"cooldown", "sleep"}
    BY <1>1, <2>3, <2>k
  <2> QED BY <2>1, <2>2, <2>3
<1> QED BY <1>10, <1>11, <1>12

\* The cooldowns, through every step of every caller and of the clock.
LEMMA CooldownInductive == Spec => []CooldownInv
<1>1. Init => CooldownInv
  <2> SUFFICES ASSUME Init PROVE CooldownInv
    OBVIOUS
  <2>1. Types
    BY DEF Init, Types, Pcs
  <2>2. Entries(cooldown) = {}
    BY DEF Init, Entries
  <2>3. CooldownsBounded
    BY <2>1, <2>2, ConfigTypes, FS_EmptySet DEF CooldownsBounded
  <2>4. \A c \in Callers : Guarded(c)
    BY DEF Init, Guarded
  <2> QED BY <2>1, <2>3, <2>4 DEF CooldownInv
<1>2. CooldownInv /\ [Next]_vars => CooldownInv'
  <2> SUFFICES ASSUME CooldownInv, [Next]_vars PROVE CooldownInv'
    OBVIOUS
  <2> USE DEF tableVars, callerVars
  <2>0. /\ now \in Nat /\ pc \in [Callers -> Pcs] /\ Active \subseteq Callers
        /\ \A c \in Callers : seen[c] \in Nat
        /\ \A c \in Active : pc[c] \notin Outside => seen[c] <= now
    BY ConfigTypes DEF CooldownInv, Types, Guarded
  <2>u. ASSUME UNCHANGED <<setup, now, cooldown, pc, seen>> PROVE CooldownInv'
    BY <2>u DEF CooldownInv, Types, CooldownsBounded, Entries, Guarded, Keys, Active, Config
  <2>1. ASSUME NEW c \in Active, Acquire(c) PROVE CooldownInv'
    <3>1. CASE MissingHost(Request(c))
      BY <2>1, <2>u, <3>1 DEF Acquire
    <3>2. CASE ~ MissingHost(Request(c))
      <4>1. /\ pc[c] = "idle" /\ Config.governed /\ pc' = [pc EXCEPT ![c] = "cooldown"]
            /\ seen' = [seen EXCEPT ![c] = Larger(@, CooldownEnd(c, cooldown))]
            /\ UNCHANGED <<setup, now, cooldown>>
        BY <2>1, <3>2 DEF Acquire, Goto
      <4>2. /\ CooldownEnd(c, cooldown) \in Nat
            /\ CooldownEnd(c, cooldown) > 0 =>
                 \E k \in setup.acquireKeys[c] : cooldown[k] = CooldownEnd(c, cooldown)
        BY CooldownEndProperties DEF CooldownInv, Types
      <4>3. c \in Callers /\ seen[c] \in Nat
        BY <2>0
      <4>4. seen'[c] = Larger(seen[c], CooldownEnd(c, cooldown)) /\ seen' \in [Callers -> Nat]
        BY <4>1, <4>2, <4>3 DEF CooldownInv, Types, Larger
      <4>5. Types'
        BY <4>1, <4>4 DEF CooldownInv, Types, Pcs, Keys, Active, Config
      <4>6. CooldownsBounded'
        BY <4>1 DEF CooldownInv, CooldownsBounded, Entries, Keys, Config
      <4>7. ASSUME NEW b \in Callers PROVE Guarded(b)'
        <5>1. CASE b # c
          <6>1. seen'[b] = seen[b] /\ pc'[b] = pc[b]
            BY <4>1, <5>1 DEF CooldownInv, Types
          <6> QED BY <4>1, <6>1 DEF CooldownInv, Guarded, Active, Config
        <5>2. CASE b = c
          <6> SUFFICES ASSUME seen'[c] > now
                       PROVE  /\ c \in Active /\ Config.governed /\ pc'[c] \in Outside
                              /\ \E k \in setup.acquireKeys[c] : cooldown[k] >= seen'[c]
            BY <4>1, <5>2 DEF Guarded, Active, Config
          <6>1. Config.governed /\ pc'[c] \in Outside
            BY <4>1, <4>3 DEF CooldownInv, Types, Outside
          <6>2. CASE seen'[c] = seen[c]
            BY <4>3, <6>1, <6>2 DEF CooldownInv, Guarded
          <6>3. CASE seen'[c] # seen[c]
            <7>1. seen'[c] = CooldownEnd(c, cooldown) /\ CooldownEnd(c, cooldown) > 0
              BY <2>0, <4>2, <4>3, <4>4, <6>3 DEF Larger
            <7> QED BY <4>2, <6>1, <7>1
          <6> QED BY <6>2, <6>3
        <5> QED BY <5>1, <5>2
      <4> QED BY <4>5, <4>6, <4>7 DEF CooldownInv
    <3> QED BY <3>1, <3>2
  <2>2. ASSUME NEW c \in Active, AcquireDisabled(c) PROVE CooldownInv'
    <3>1. PICK l \in {"idle", "permitted"} : pc' = [pc EXCEPT ![c] = l]
      BY <2>2 DEF AcquireDisabled, Goto
    <3>2. seen[c] <= now
      BY <2>0, <2>2 DEF AcquireDisabled, CooldownInv, Guarded
    <3> QED BY <2>2, <3>1, <3>2, LocalStep DEF AcquireDisabled, Pcs
  <2>3. ASSUME NEW c \in Active, CooldownOver(c) PROVE CooldownInv'
    <3> DEFINE live == PruneCooldowns(cooldown)
    <3>1. /\ live \in [Keys -> Nat]
          /\ \A k \in Keys : cooldown[k] > now => live[k] = cooldown[k]
      BY PruneProperties DEF CooldownInv
    <3>2. CooldownEnd(c, live) = 0 /\ \A k \in setup.acquireKeys[c] : live[k] <= CooldownEnd(c, live)
      BY <2>3, <3>1, CooldownEndProperties DEF CooldownInv, CooldownOver
    <3>3. seen[c] <= now
      <4> SUFFICES ASSUME seen[c] > now PROVE FALSE
        BY <2>0
      <4>1. PICK k \in setup.acquireKeys[c] : cooldown[k] >= seen[c]
        BY <2>0 DEF CooldownInv, Guarded
      <4>2. k \in Keys /\ cooldown[k] \in Nat
        BY <4>1, ConfigTypes DEF CooldownInv, Types
      <4> HIDE DEF live
      <4> QED BY <2>0, <3>1, <3>2, <4>1, <4>2
    <3> QED BY <2>3, <3>3, LocalStep DEF CooldownOver, Goto, Pcs
  <2>4. ASSUME NEW c \in Active, WaitCooldown(c) PROVE CooldownInv'
    <3>1. PICK l \in {"idle", "sleep"} : pc' = [pc EXCEPT ![c] = l]
      BY <2>4 DEF WaitCooldown, Leave, Goto
    <3>2. /\ UNCHANGED <<setup, now>> /\ cooldown' = PruneCooldowns(cooldown)
          /\ seen' = seen \/ seen' = [seen EXCEPT ![c] = Still(@)]
      BY <2>4 DEF WaitCooldown
    <3> QED BY <3>1, <3>2, LocalStep DEF Pcs, Outside
  <2>5. ASSUME NEW c \in Active, SleepEnds(c) PROVE CooldownInv'
    BY <2>5, LocalStep DEF SleepEnds, Goto, Pcs, Outside
  <2>6. ASSUME NEW c \in Active, LimiterFor(c) PROVE CooldownInv'
    <3>1. PICK l \in {"idle", "ready"} : pc' = [pc EXCEPT ![c] = l]
      BY <2>6 DEF LimiterFor, UseCached, InsertNew, QuotaRefused, Leave, Goto
    <3>2. /\ UNCHANGED <<setup, now, cooldown>> /\ pc[c] = "window"
          /\ seen' = seen \/ seen' = [seen EXCEPT ![c] = Still(@)]
      BY <2>6 DEF LimiterFor, UseCached, InsertNew, QuotaRefused
    <3>3. seen[c] <= now
      BY <2>0, <3>2 DEF Outside
    <3> QED BY <3>1, <3>2, <3>3, LocalStep DEF Pcs
  <2>7. ASSUME NEW c \in Active, Admit(c) PROVE CooldownInv'
    <3>1. seen[c] <= now
      BY <2>0, <2>7 DEF Admit, Outside
    <3> QED BY <2>7, <3>1, LocalStep DEF Admit, Goto, Pcs
  <2>8. ASSUME NEW c \in Active, CostTooHigh(c) PROVE CooldownInv'
    BY <2>8, LocalStep DEF CostTooHigh, Leave, Goto, Pcs, Outside
  <2>9. ASSUME NEW c \in Active, Permit(c) PROVE CooldownInv'
    <3>1. seen[c] <= now
      BY <2>0, <2>9 DEF Permit, Outside
    <3> QED BY <2>9, <3>1, LocalStep DEF Permit, Goto, Pcs
  <2>10. ASSUME NEW c \in Active, ObserveUnlimited(c) PROVE CooldownInv'
    BY <2>10, LocalStep DEF ObserveUnlimited, Leave, Goto, Pcs, Outside
  <2>11. ASSUME NEW c \in Active, ObserveDisabled(c) PROVE CooldownInv'
    BY <2>11, LocalStep DEF ObserveDisabled, Leave, Goto, Pcs, Outside
  <2>12. ASSUME NEW c \in Active, NEW r \in Responses, StoreCooldown(c, r) PROVE CooldownInv'
    BY <2>12, StoreStep
  <2>13. ASSUME NEW c \in Active, Cancel(c) PROVE CooldownInv'
    BY <2>13, LocalStep DEF Cancel, Leave, Goto, Pcs, Outside
  <2>14. CASE Tick
    <3>1. now' = now + 1 /\ UNCHANGED <<setup, cooldown, pc, seen>>
      BY <2>14 DEF Tick
    <3>2. Types' /\ CooldownsBounded'
      BY <3>1 DEF CooldownInv, Types, CooldownsBounded, Entries, Keys, Active, Config
    <3>3. ASSUME NEW c \in Callers PROVE Guarded(c)'
      BY <2>0, <3>1 DEF CooldownInv, Guarded, Active, Config
    <3> QED BY <3>2, <3>3 DEF CooldownInv
  <2>15. CASE UNCHANGED vars
    BY <2>15, <2>u DEF vars
  <2> QED
    BY <2>1, <2>2, <2>3, <2>4, <2>5, <2>6, <2>7, <2>8, <2>9, <2>10, <2>11, <2>12, <2>13, <2>14, <2>15
    DEF Next
<1> QED BY <1>1, <1>2, PTL DEF Spec

\* governor_runtime.rs wait_cooldown: a caller gets past its wait only when every
\* cooldown put on its keys meanwhile, or asked for by a response to itself, is over.
THEOREM CooldownsAreHonoured == Spec => []StoredCooldownHonoured
<1>1. CooldownInv => StoredCooldownHonoured
  BY DEF CooldownInv, Types, Guarded, StoredCooldownHonoured, Outside
<1> QED BY <1>1, CooldownInductive, PTL
-----------------------------------------------------------------------------
(* Windows                                                                  *)

PlanItem == [spec : Specs, cost : Nat \ {0}]

\* A plan is a sequence of windows, each with a size, and there are finitely many.
LEMMA PlanTypes ==
    ASSUME Types
    PROVE  /\ IsFiniteSet(Specs)
           /\ \A s \in Specs : Window(s) \in [max : Nat \ {0}, per : Nat] /\ Cell(s) \in Nat
           /\ \A c \in Active : Plan(c) \in Seq(PlanItem)
<1> DEFINE Item(ctx, i, j) == [spec |-> [kind |-> ctx.plan[i].kind, name |-> ctx.plan[i].name,
                                         key |-> resolve_key(ctx, ctx.plan[i].key),
                                         window |-> ctx.plan[i].windows[j]],
                               cost |-> ctx.plan[i].cost]
           Items(ctx) == UNION {{Item(ctx, i, j) : j \in DOMAIN ctx.plan[i].windows} : i \in DOMAIN ctx.plan}
<1>1. ASSUME NEW ctx, IsContext(ctx)
      PROVE  /\ PlanWindows(ctx) \in Seq(Items(ctx))
             /\ \A w \in Items(ctx) : /\ w = [spec |-> w.spec, cost |-> w.cost] /\ w.cost \in Nat \ {0}
                                      /\ w.spec.window \in [max : Nat \ {0}, per : Nat]
  <2> DEFINE seqs == [i \in DOMAIN ctx.plan |-> [j \in DOMAIN ctx.plan[i].windows |-> Item(ctx, i, j)]]
  <2>1. \A i \in DOMAIN ctx.plan : /\ ctx.plan[i].cost \in Nat \ {0}
                                   /\ ctx.plan[i].windows \in Seq([max : Nat \ {0}, per : Nat])
    BY <1>1 DEF IsContext, Buckets
  <2>2. DOMAIN ctx.plan = 1 .. Len(ctx.plan) /\ Len(ctx.plan) \in Nat
    BY <1>1 DEF IsContext
  <2>3. ASSUME NEW i \in DOMAIN ctx.plan PROVE seqs[i] \in Seq(Items(ctx))
    <3>1. /\ DOMAIN ctx.plan[i].windows = 1 .. Len(ctx.plan[i].windows)
          /\ Len(ctx.plan[i].windows) \in Nat
      BY <2>1
    <3>2. \A j \in DOMAIN ctx.plan[i].windows : Item(ctx, i, j) \in Items(ctx)
      OBVIOUS
    <3> HIDE DEF Item, Items
    <3> QED BY <3>1, <3>2
  <2>4. seqs \in Seq(Seq(Items(ctx)))
    <3> HIDE DEF Items
    <3>1. seqs \in [1 .. Len(ctx.plan) -> Seq(Items(ctx))]
      BY <2>2, <2>3
    <3> HIDE DEF seqs
    <3> QED BY <2>2, <3>1
  <2>5. PlanWindows(ctx) = FlattenSeq(seqs)
    BY DEF PlanWindows
  <2>6. PlanWindows(ctx) \in Seq(Items(ctx))
    <3> HIDE DEF seqs, Items
    <3> QED BY <2>4, <2>5, Flattening
  <2>7. ASSUME NEW w \in Items(ctx)
        PROVE  /\ w = [spec |-> w.spec, cost |-> w.cost] /\ w.cost \in Nat \ {0}
               /\ w.spec.window \in [max : Nat \ {0}, per : Nat]
    <3>1. PICK i \in DOMAIN ctx.plan : \E j \in DOMAIN ctx.plan[i].windows : w = Item(ctx, i, j)
      OBVIOUS
    <3>2. PICK j \in DOMAIN ctx.plan[i].windows : w = Item(ctx, i, j)
      BY <3>1
    <3>3. ctx.plan[i].windows[j] \in [max : Nat \ {0}, per : Nat]
      <4> DEFINE R == [max : Nat \ {0}, per : Nat]
      <4>1. ctx.plan[i].windows \in Seq(R) /\ j \in DOMAIN ctx.plan[i].windows
        BY <2>1
      <4> HIDE DEF R
      <4>2. ctx.plan[i].windows[j] \in R
        BY <4>1
      <4> QED BY <4>2 DEF R
    <3> QED BY <2>1, <3>2, <3>3
  <2> QED BY <2>6, <2>7
<1>2. \A c \in Active : IsContext(Request(c))
  BY ConfigTypes
<1>3. /\ Specs = UNION {{w.spec : w \in ToSet(PlanWindows(Request(c)))} : c \in Active}
      /\ \A s \in Specs : Window(s) = s.window
      /\ \A c \in Active : Plan(c) = PlanWindows(Request(c))
  BY SetupFields DEF Types, Plan
<1> HIDE DEF Items
<1>4. ASSUME NEW c \in Active
      PROVE  /\ Plan(c) \in Seq(Items(Request(c)))
             /\ \A w \in Items(Request(c)) : /\ w = [spec |-> w.spec, cost |-> w.cost] /\ w.cost \in Nat \ {0}
                                             /\ w.spec.window \in [max : Nat \ {0}, per : Nat]
  BY <1>1, <1>2, <1>3
<1>5. ASSUME NEW s \in Specs PROVE Window(s) \in [max : Nat \ {0}, per : Nat] /\ Cell(s) \in Nat
  <2>0. PICK c \in Active : \E w \in ToSet(Plan(c)) : s = w.spec
    BY <1>3
  <2>1. PICK w \in ToSet(Plan(c)) : s = w.spec
    BY <2>0
  <2>2. w \in Items(Request(c))
    BY <1>4, <2>1 DEF ToSet
  <2>3. Window(s) \in [max : Nat \ {0}, per : Nat]
    BY <1>3, <1>4, <2>1, <2>2
  <2>4. Window(s).max \in Nat \ {0} /\ Window(s).per \in Nat
    BY <2>3
  <2> QED BY <2>3, <2>4 DEF Cell
<1>6. ASSUME NEW c \in Active PROVE Plan(c) \in Seq(PlanItem)
  <2>1. Len(Plan(c)) \in Nat /\ Plan(c) \in [1 .. Len(Plan(c)) -> Items(Request(c))]
    BY <1>4
  <2>2. ASSUME NEW i \in 1 .. Len(Plan(c)) PROVE Plan(c)[i] \in PlanItem
    <3>1. Plan(c)[i] \in Items(Request(c)) /\ i \in DOMAIN Plan(c)
      BY <2>1
    <3>2. Plan(c)[i].spec \in Specs
      BY <1>3, <3>1 DEF ToSet
    <3> QED BY <1>4, <3>1, <3>2 DEF PlanItem
  <2>3. Plan(c) \in [1 .. Len(Plan(c)) -> PlanItem]
    BY <2>1, <2>2
  <2> QED BY <2>1, <2>3
<1>7. IsFiniteSet(Specs)
  <2> DEFINE of == [c \in Active |-> {w.spec : w \in ToSet(Plan(c))}]
             spec == [c \in Active |-> [i \in DOMAIN Plan(c) |-> Plan(c)[i].spec]]
  <2>1. ASSUME NEW c \in Active PROVE IsFiniteSet(of[c])
    <3>1. Len(Plan(c)) \in Nat /\ DOMAIN Plan(c) = 1 .. Len(Plan(c))
      BY <1>4
    <3>2. IsFiniteSet(DOMAIN Plan(c))
      BY <3>1, FS_Interval
    <3>3. IsFiniteSet({spec[c][i] : i \in DOMAIN Plan(c)})
      BY <3>2, FiniteImage
    <3>4. {spec[c][i] : i \in DOMAIN Plan(c)} = of[c]
      BY DEF ToSet
    <3> QED BY <3>3, <3>4
  <2>2. IsFiniteSet(Active)
    BY ConfigTypes, FS_Subset
  <2>3. IsFiniteSet({of[c] : c \in Active})
    BY <2>2, FiniteImage
  <2>4. Specs = UNION {of[c] : c \in Active}
    BY <1>3
  <2> HIDE DEF of
  <2> QED BY <2>1, <2>3, <2>4, FS_UNION
<1> QED BY <1>5, <1>6, <1>7

\* The window that caller c is at
Wanted(c) == Plan(c)[step[c]].spec

WindowTypes ==
    /\ now \in Times
    /\ windows \in [Specs -> {NoEntry} \cup [governor : Governors, lastUsed : Nat]]
    /\ arrival \in [Governors -> Nat]
    /\ step \in [Callers -> Nat \ {0}]
    /\ governor \in [Callers -> {0} \cup Governors]
    /\ admitted \in [Specs -> [Times -> Nat]]
    /\ \A c \in Callers : pc[c] = "ready" => step[c] <= Len(Plan(c)) /\ governor[c] \in Governors

WindowsBounded == Cardinality(Cached(windows)) <= Config.windowEntries

\* A governor belongs to one window: two entries never share one, and a caller that
\* waits for a governor finds it in no entry but that of its own window.
Exclusive ==
    /\ \A s, u \in Cached(windows) : windows[s].governor = windows[u].governor => s = u
    /\ \A c \in Callers : \A s \in Cached(windows) :
         pc[c] = "ready" /\ windows[s].governor = governor[c] => s = Wanted(c)

\* As long as the entry of a window was never dropped, whoever waits for the window
\* waits for the governor of its entry.
Held ==
    \A c \in Callers : pc[c] = "ready" /\ Wanted(c) \notin dropped =>
      Wanted(c) \in Cached(windows) /\ windows[Wanted(c)].governor = governor[c]

\* The theoretical arrival time of a window's governor accounts for every cell
\* admitted since any admission.
Paced ==
    \A s \in Specs \ dropped : \A a \in Times : admitted[s][a] > 0 =>
      /\ a <= now /\ s \in Cached(windows)
      /\ arrival[windows[s].governor] >= a + Cell(s) * SumFunctionOnSet(admitted[s], a .. MaxTime)

WindowInv == WindowTypes /\ WindowsBounded /\ Exclusive /\ Held /\ Paced /\ QuotaRespected

Slot == {NoEntry} \cup [governor : Governors, lastUsed : Nat]

\* prune_windows_if_needed drops entries and changes none.
LEMMA KeptEntries ==
    ASSUME WindowTypes
    PROVE  Kept \in [Specs -> Slot] /\ \A s \in Specs : Kept[s] = windows[s] \/ Kept[s] = NoEntry
BY DEF WindowTypes, Kept, PruneWindows, Slot

\* The entries of a table are finitely many, and fewer when entries are dropped.
LEMMA CachedFinite ==
    ASSUME Types, NEW w, NEW v, \A s \in Specs : v[s] = w[s] \/ v[s] = NoEntry
    PROVE  /\ IsFiniteSet(Cached(w)) /\ IsFiniteSet(Cached(v))
           /\ Cardinality(Cached(w)) \in Nat /\ Cardinality(Cached(v)) \in Nat
           /\ Cardinality(Cached(v)) <= Cardinality(Cached(w))
<1>1. Cached(w) \subseteq Specs /\ Cached(v) \subseteq Cached(w)
  BY DEF Cached
<1> QED BY <1>1, PlanTypes, FS_Subset, FS_CardinalityType

\* evict_oldest_windows leaves room for one more entry.
LEMMA RoomIsMade ==
    ASSUME Types, WindowTypes, WindowsBounded, NEW w \in WithRoom(Kept)
    PROVE  /\ w \in [Specs -> Slot] /\ \A s \in Specs : w[s] = Kept[s] \/ w[s] = NoEntry
           /\ Cardinality(Cached(w)) < Config.windowEntries
<1>0. Config.windowEntries \in Nat
  BY ConfigTypes
<1>1. Kept \in [Specs -> Slot] /\ \A s \in Specs : Kept[s] = windows[s] \/ Kept[s] = NoEntry
  BY KeptEntries
<1>2. /\ IsFiniteSet(Cached(Kept)) /\ Cardinality(Cached(Kept)) \in Nat /\ Cardinality(Cached(windows)) \in Nat
      /\ Cardinality(Cached(Kept)) <= Cardinality(Cached(windows))
  BY <1>1, CachedFinite
<1>3. CASE ~ MustEvict(Kept)
  BY <1>0, <1>1, <1>2, <1>3 DEF WithRoom, MustEvict
<1>4. CASE MustEvict(Kept)
  <2>1. PICK v \in OldestIn(Kept) : w = [Kept EXCEPT ![v] = NoEntry]
    BY <1>4 DEF WithRoom
  <2>2. v \in Cached(Kept) /\ v \in Specs
    BY DEF OldestIn, Cached
  <2>3. w \in [Specs -> Slot] /\ \A s \in Specs : w[s] = Kept[s] \/ w[s] = NoEntry
    BY <1>1, <2>1 DEF Slot
  <2>4. Cached(w) = Cached(Kept) \ {v}
    BY <1>1, <2>1, <2>2 DEF Cached
  <2>5. Cardinality(Cached(w)) = Cardinality(Cached(Kept)) - 1
    BY <1>2, <2>2, <2>4, FS_RemoveElement
  <2> QED BY <1>0, <1>2, <2>3, <2>5 DEF WindowsBounded
<1> QED BY <1>3, <1>4

\* There is always a governor that neither the table nor a caller refers to.
LEMMA FreshGovernor ==
    ASSUME Types, WindowTypes, NEW s \in Specs, Kept[s] = NoEntry
    PROVE  /\ FreeGovernor(Kept) \in Governors
           /\ \A u \in Specs : Kept[u].governor # FreeGovernor(Kept)
           /\ \A c \in Callers : governor[c] # FreeGovernor(Kept)
<1> DEFINE g == [u \in Specs |-> Kept[u].governor]
           A == {g[u] : u \in Specs}
           B == {governor[c] : c \in Callers}
           F == Governors \ (A \cup B)
<1>1. A = {Kept[u].governor : u \in Specs}
  OBVIOUS
<1>2. /\ IsFiniteSet(A) /\ Cardinality(A) <= Cardinality(Specs)
      /\ IsFiniteSet(B) /\ Cardinality(B) <= Cardinality(Callers)
  <2>1. IsFiniteSet(Specs) /\ IsFiniteSet(Callers)
    BY PlanTypes
  <2> HIDE DEF g
  <2> QED BY <2>1, FiniteImage
<1>3. 0 \in A
  BY DEF NoEntry
<1> HIDE DEF A, B
<1>4. /\ Cardinality(A) \in Nat /\ Cardinality(B) \in Nat /\ Cardinality(A \cap B) \in Nat
      /\ Cardinality(Specs) \in Nat /\ Cardinality(Callers) \in Nat
      /\ IsFiniteSet(A \cup B)
      /\ Cardinality(A \cup B) = Cardinality(A) + Cardinality(B) - Cardinality(A \cap B)
  BY <1>2, PlanTypes, FS_CardinalityType, FS_Union, FS_Intersection
<1>5. F # {}
  <2> SUFFICES ASSUME Governors \subseteq A \cup B PROVE FALSE
    OBVIOUS
  <2>1. Governors \subseteq (A \cup B) \ {0}
    BY DEF Governors
  <2>2. /\ IsFiniteSet((A \cup B) \ {0})
        /\ Cardinality((A \cup B) \ {0}) = Cardinality(A \cup B) - 1
    BY <1>3, <1>4, FS_RemoveElement
  <2>3. Cardinality(Governors) <= Cardinality((A \cup B) \ {0})
    BY <2>1, <2>2, FS_Subset
  <2>4. Cardinality(Governors) = Cardinality(Specs) + Cardinality(Callers)
    BY <1>4, FS_Interval DEF Governors
  <2> QED BY <1>2, <1>4, <2>2, <2>3, <2>4
<1>6. F \in SUBSET Nat
  BY <1>4 DEF Governors
<1>7. FreeGovernor(Kept) = Min(F)
  BY <1>1 DEF FreeGovernor, B
<1> HIDE DEF F
<1>8. FreeGovernor(Kept) \in F
  BY <1>5, <1>6, <1>7, MinIsLeast
<1> QED BY <1>1, <1>8 DEF F, B

\* A step that is about caller c only, and that does not make it wait for a window.
LEMMA CallerStep ==
    ASSUME Types, WindowInv, NEW c \in Active, NEW l \in Pcs, l # "ready",
           pc' = [pc EXCEPT ![c] = l],
           step' = step \/ step' = [step EXCEPT ![c] = 1],
           governor' = governor \/ governor' = [governor EXCEPT ![c] = 0],
           UNCHANGED <<setup, now, windows, arrival, admitted, dropped>>
    PROVE  WindowInv'
<1> USE DEF WindowInv
<1>0. c \in Callers
  BY ConfigTypes
<1>1. step' \in [Callers -> Nat \ {0}] /\ governor' \in [Callers -> {0} \cup Governors]
  <2>1. step \in [Callers -> Nat \ {0}] /\ governor \in [Callers -> {0} \cup Governors]
    BY DEF WindowTypes
  <2>2. step' \in [Callers -> Nat \ {0}]
    BY <1>0, <2>1
  <2>3. governor' \in [Callers -> {0} \cup Governors]
    BY <1>0, <2>1
  <2> QED BY <2>2, <2>3
<1>2. \A b \in Callers : pc'[b] = "ready" => b # c /\ pc[b] = "ready"
  BY <1>0 DEF Types
<1>3. \A b \in Callers : b # c => step'[b] = step[b] /\ governor'[b] = governor[b]
  BY DEF WindowTypes
<1>4. /\ Governors' = Governors /\ Specs' = Specs /\ Config' = Config
      /\ Cached(windows)' = Cached(windows)
      /\ \A b : Plan(b)' = Plan(b)
      /\ \A s : Window(s)' = Window(s) /\ Cell(s)' = Cell(s)
  BY DEF Governors, Specs, Config, Plan, Cached, Window, Cell
<1>5. \A b \in Callers : b # c => Wanted(b)' = Wanted(b)
  BY <1>3, <1>4 DEF Wanted
<1>6. WindowTypes'
  BY <1>1, <1>2, <1>3, <1>4 DEF WindowTypes
<1>7. WindowsBounded'
  BY <1>4 DEF WindowsBounded
<1>8. Exclusive'
  BY <1>2, <1>3, <1>4, <1>5 DEF Exclusive
<1>9. Held'
  BY <1>2, <1>3, <1>4, <1>5 DEF Held
<1>10. Paced'
  BY <1>4 DEF Paced
<1>11. QuotaRespected'
  BY <1>4 DEF QuotaRespected
<1> QED BY <1>6, <1>7, <1>8, <1>9, <1>10, <1>11

\* until_n_ready's arithmetic: what a governor with this arrival time has admitted
LEMMA BurstAndRefill ==
    ASSUME NEW cell \in Nat \ {0}, NEW max \in Nat, NEW sum \in Nat, NEW d \in Nat,
           cell * sum <= max * cell + d
    PROVE  sum <= max + (d \div cell)
<1> DEFINE q == d \div cell
<1>1. q \in Nat /\ d < cell * (q + 1)
  OBVIOUS
<1> HIDE DEF q
<1>2. cell * sum < cell * (max + q + 1)
  BY <1>1
<1>3. sum < max + q + 1
  <2> SUFFICES ASSUME sum >= max + q + 1 PROVE FALSE
    BY <1>1
  <2>1. cell * sum >= cell * (max + q + 1)
    BY <1>1
  <2> QED BY <1>1, <1>2, <2>1
<1> QED BY <1>1, <1>3 DEF q

\* A window admits cells of its governor.
LEMMA AdmitStep ==
    ASSUME Types, WindowInv, NEW c \in Active, Admit(c)
    PROVE  WindowInv'
<1> USE DEF WindowInv
<1> DEFINE s == Wanted(c)
           cost == Plan(c)[step[c]].cost
           n == governor[c]
           after == Larger(arrival[n], now) + cost * Cell(s)
<1>0. c \in Callers /\ now \in Nat /\ now \in Times /\ Times \subseteq Nat
  BY ConfigTypes DEF WindowTypes, Times
<1>1. /\ pc[c] = "ready" /\ n \in Governors
      /\ after <= now + Window(s).max * Cell(s)
      /\ arrival' = [arrival EXCEPT ![n] = after]
      /\ admitted' = [admitted EXCEPT ![s][now] = @ + cost]
      /\ step' = [step EXCEPT ![c] = @ + 1]
      /\ governor' = [governor EXCEPT ![c] = 0]
      /\ pc' = [pc EXCEPT ![c] = "window"]
      /\ UNCHANGED <<setup, now, windows, dropped>>
  BY <1>0 DEF Admit, Ready, Goto, Wanted, WindowTypes
<1>2. s \in Specs /\ cost \in Nat \ {0} /\ Cell(s) \in Nat /\ Window(s).max \in Nat
  <2>1. Plan(c) \in Seq(PlanItem) /\ step[c] \in 1 .. Len(Plan(c))
    BY <1>0, <1>1, PlanTypes DEF WindowTypes
  <2>2. Plan(c)[step[c]] \in PlanItem
    BY <2>1
  <2>3. s \in Specs /\ cost \in Nat \ {0}
    BY <2>2 DEF PlanItem, Wanted
  <2> QED BY <2>3, PlanTypes
<1>3. /\ after \in Nat /\ after >= arrival[n] + Cell(s) * cost /\ after >= now + Cell(s) * cost
      /\ arrival[n] \in Nat
  <2>1. arrival[n] \in Nat
    BY <1>1 DEF WindowTypes
  <2>2. cost * Cell(s) \in Nat /\ cost * Cell(s) = Cell(s) * cost
    BY <1>2
  <2> HIDE DEF n, cost, s
  <2>3. /\ Larger(arrival[n], now) \in Nat
        /\ Larger(arrival[n], now) >= arrival[n] /\ Larger(arrival[n], now) >= now
    BY <1>0, <2>1 DEF Larger
  <2> QED BY <1>0, <2>1, <2>2, <2>3
<1> HIDE DEF s, cost, n, after
<1>4. /\ Governors' = Governors /\ Specs' = Specs /\ Config' = Config
      /\ Cached(windows)' = Cached(windows)
      /\ \A b : Plan(b)' = Plan(b)
      /\ \A u : Window(u)' = Window(u) /\ Cell(u)' = Cell(u)
  BY <1>1 DEF Governors, Specs, Config, Plan, Cached, Window, Cell
<1>5. \A b \in Callers : pc'[b] = "ready" => b # c /\ pc[b] = "ready"
  BY <1>0, <1>1 DEF Types
<1>6. \A b \in Callers : b # c => step'[b] = step[b] /\ governor'[b] = governor[b] /\ Wanted(b)' = Wanted(b)
  BY <1>1, <1>4 DEF WindowTypes, Wanted
<1>7. /\ admitted' \in [Specs -> [Times -> Nat]]
      /\ \A u \in Specs : u # s => admitted'[u] = admitted[u]
      /\ admitted'[s] = [admitted[s] EXCEPT ![now] = @ + cost]
      /\ admitted[s] \in [Times -> Nat] /\ admitted'[s] \in [Times -> Nat]
  <2>1. admitted[s] \in [Times -> Nat]
    BY <1>2 DEF WindowTypes
  <2>2. /\ admitted'[s] = [admitted[s] EXCEPT ![now] = @ + cost]
        /\ \A u \in Specs : u # s => admitted'[u] = admitted[u]
    BY <1>1, <1>2 DEF WindowTypes
  <2>3. admitted'[s] \in [Times -> Nat]
    BY <1>0, <1>2, <2>1, <2>2
  <2> QED BY <1>1, <1>2, <2>1, <2>2, <2>3 DEF WindowTypes
<1>8. WindowTypes'
  <2>1. arrival' \in [Governors -> Nat]
    BY <1>1, <1>3 DEF WindowTypes
  <2>2. step' \in [Callers -> Nat \ {0}] 
    BY <1>0, <1>1 DEF WindowTypes
  <2>3. governor' \in [Callers -> {0} \cup Governors]
    BY <1>0, <1>1 DEF WindowTypes
  <2> QED BY <1>1, <1>4, <1>5, <1>6, <1>7, <2>1, <2>2, <2>3 DEF WindowTypes, Times
<1>9. WindowsBounded'
  BY <1>4 DEF WindowsBounded
<1>10. Exclusive'
  BY <1>1, <1>4, <1>5, <1>6 DEF Exclusive
<1>11. Held'
  BY <1>1, <1>4, <1>5, <1>6 DEF Held
<1>12. /\ \A a \in Times : IsFiniteSet(a .. MaxTime) /\ a .. MaxTime \subseteq Times
       /\ \A a, b \in Times : IsFiniteSet(a .. b) /\ a .. b \subseteq a .. MaxTime
  BY FS_Interval DEF Times
<1>13. ASSUME s \notin dropped, NEW a \in Times, admitted'[s][a] > 0
       PROVE  /\ a <= now /\ s \in Cached(windows) /\ windows[s].governor = n
              /\ after >= a + Cell(s) * SumFunctionOnSet(admitted'[s], a .. MaxTime)
  <2>1. s \in Cached(windows) /\ windows[s].governor = n
    BY <1>0, <1>1, <1>13 DEF Held, s, n
  <2>2. a <= now
    BY <1>0, <1>2, <1>7, <1>13 DEF Paced
  <2> DEFINE sum == SumFunctionOnSet(admitted[s], a .. MaxTime)
             sum2 == SumFunctionOnSet(admitted'[s], a .. MaxTime)
  <2>3. sum \in Nat
    BY <1>7, <1>12, SumSplit
  <2>4. sum2 = sum + cost
    <3>1. now \in a .. MaxTime
      BY <1>0, <2>2 DEF Times
    <3> DEFINE f == admitted[s]
               g == admitted'[s]
               S == a .. MaxTime
    <3>2. /\ IsFiniteSet(S) /\ now \in S /\ cost \in Nat /\ \A t \in S : f[t] \in Nat
          /\ g[now] = f[now] + cost /\ \A t \in S : t # now => g[t] = f[t]
      BY <1>0, <1>2, <1>7, <1>12, <3>1
    <3> HIDE DEF f, g, S
    <3>3. SumFunctionOnSet(g, S) = SumFunctionOnSet(f, S) + cost
      BY <3>2, SumAdd
    <3> QED BY <3>3 DEF f, g, S
  <2>5. Cell(s) * sum2 = Cell(s) * sum + Cell(s) * cost /\ Cell(s) * sum \in Nat /\ Cell(s) * cost \in Nat
    <3> HIDE DEF sum, sum2
    <3> QED BY <1>2, <2>3, <2>4
  <2>6. CASE admitted[s][a] > 0
    <3>1. arrival[n] >= a + Cell(s) * sum
      BY <1>2, <1>13, <2>1, <2>6 DEF Paced
    <3> HIDE DEF sum, sum2
    <3>2. after >= a + Cell(s) * sum2
      BY <1>0, <1>3, <2>5, <3>1
    <3> QED BY <2>1, <2>2, <3>2 DEF sum2
  <2>7. CASE ~ (admitted[s][a] > 0)
    <3>1. a = now
      BY <1>0, <1>7, <1>13, <2>7
    <3>2. \A t \in a .. MaxTime : admitted[s][t] = 0
      <4> SUFFICES ASSUME NEW t \in a .. MaxTime, admitted[s][t] # 0 PROVE FALSE
        OBVIOUS
      <4>1. t \in Times /\ admitted[s][t] \in Nat
        BY <1>7, <1>12
      <4>2. t <= now
        BY <1>2, <1>13, <4>1 DEF Paced
      <4>3. t = a
        BY <1>0, <3>1, <4>2
      <4> QED BY <2>7, <4>1, <4>3
    <3>3. sum = 0
      BY <1>12, <3>2, SumZero
    <3> HIDE DEF sum, sum2
    <3>4. after >= a + Cell(s) * sum2
      BY <1>0, <1>2, <1>3, <2>5, <3>1, <3>3
    <3> QED BY <2>1, <2>2, <3>4 DEF sum2
  <2> QED BY <2>6, <2>7
<1>14. Paced'
  <2> SUFFICES ASSUME NEW u \in Specs, u \notin dropped, NEW a \in Times, admitted'[u][a] > 0
               PROVE  /\ a <= now /\ u \in Cached(windows)
                      /\ arrival'[windows[u].governor] >= a + Cell(u) * SumFunctionOnSet(admitted'[u], a .. MaxTime)
    BY <1>1, <1>4 DEF Paced, Times
  <2>1. CASE u = s
    <3>1. arrival'[n] = after
      BY <1>1 DEF WindowTypes
    <3> QED BY <1>13, <2>1, <3>1
  <2>2. CASE u # s
    <3>1. admitted'[u] = admitted[u]
      BY <1>7, <2>2
    <3>2. /\ a <= now /\ u \in Cached(windows)
          /\ arrival[windows[u].governor] >= a + Cell(u) * SumFunctionOnSet(admitted[u], a .. MaxTime)
      BY <3>1 DEF Paced
    <3>3. windows[u].governor # n
      BY <1>0, <1>1, <2>2, <3>2 DEF Exclusive, s, n
    <3>4. arrival'[windows[u].governor] = arrival[windows[u].governor]
      BY <1>1, <3>3 DEF WindowTypes
    <3> QED BY <3>1, <3>2, <3>4
  <2> QED BY <2>1, <2>2
<1>15. QuotaRespected'
  <2> SUFFICES ASSUME NEW u \in Specs, u \notin dropped, UsableWindow(Window(u)),
                      NEW a \in Times, NEW b \in Times, admitted'[u][a] > 0, admitted'[u][b] > 0, a <= b
               PROVE  SumFunctionOnSet(admitted'[u], a .. b) <= Window(u).max + (b - a) \div Cell(u)
    BY <1>1, <1>4 DEF QuotaRespected, Times
  <2>0. a \in Nat /\ b \in Nat
    BY <1>0
  <2>1. CASE u # s
    BY <1>7, <2>1 DEF QuotaRespected
  <2>2. CASE u = s /\ b # now
    <3>1. a <= now /\ b <= now /\ a # now
      BY <1>0, <1>13, <2>0, <2>2
    <3>2. admitted[s][a] > 0 /\ admitted[s][b] > 0
      BY <1>0, <1>7, <2>2, <3>1
    <3>3. \A t \in a .. b : admitted'[s][t] = admitted[s][t]
      BY <1>0, <1>7, <1>12, <2>0, <2>2, <3>1
    <3>4. SumFunctionOnSet(admitted'[s], a .. b) = SumFunctionOnSet(admitted[s], a .. b)
      BY <1>12, <3>3, SumCongruence
    <3> QED BY <2>2, <3>2, <3>4 DEF QuotaRespected
  <2>3. CASE u = s /\ b = now
    <3> DEFINE part == SumFunctionOnSet(admitted'[s], a .. b)
               sum == SumFunctionOnSet(admitted'[s], a .. MaxTime)
    <3>1. after >= a + Cell(s) * sum
      BY <1>13, <2>3
    <3>2. part \in Nat /\ sum \in Nat /\ part <= sum
      <4>1. \A t \in a .. MaxTime : admitted'[s][t] \in Nat
        BY <1>7, <1>12
      <4>2. \A t \in a .. b : admitted'[s][t] \in Nat
        BY <1>12, <4>1
      <4> QED BY <1>12, <4>1, <4>2, SumSplit, SumMonotone
    <3>3. Cell(s) \in Nat \ {0}
      BY <1>2, <2>3 DEF UsableWindow, Cell
    <3> HIDE DEF part, sum
    <3>4. Cell(s) * part <= Cell(s) * sum /\ Cell(s) * part \in Nat /\ Cell(s) * sum \in Nat
      BY <3>2, <3>3
    <3>5. b - a \in Nat /\ Window(s).max * Cell(s) \in Nat
      BY <1>2, <2>0
    <3>6. Cell(s) * part <= Window(s).max * Cell(s) + (b - a)
      BY <1>0, <1>1, <1>3, <2>0, <2>3, <3>1, <3>4, <3>5
    <3>7. part <= Window(s).max + ((b - a) \div Cell(s))
      BY <1>2, <3>2, <3>3, <3>5, <3>6, BurstAndRefill
    <3> QED BY <2>3, <3>7 DEF part
  <2> QED BY <2>1, <2>2, <2>3
<1> QED BY <1>8, <1>9, <1>10, <1>11, <1>14, <1>15

\* g is the governor of no entry that limiter_for kept, and no caller waits for it.
Unused(g) ==
    /\ \A u \in Cached(Kept) : windows[u].governor # g
    /\ \A b \in Callers : governor[b] # g

\* limiter_for: entries are dropped, at most one is added, with a governor of its own
\* and a full burst, and the caller waits for the one it is after, or is refused.
LEMMA LimiterStep ==
    ASSUME Types, WindowInv, NEW c \in Active, LimiterFor(c)
    PROVE  WindowInv'
<1> USE DEF WindowInv
<1> DEFINE s == Wanted(c)
           g == governor'[c]
<1>0. /\ c \in Callers /\ now \in Nat /\ Config.windowEntries \in Nat \ {0}
      /\ 0 \notin Governors
  BY ConfigTypes DEF WindowTypes, Times, Governors
<1>1. /\ pc[c] = "window" /\ step[c] <= Len(Plan(c))
      /\ UseCached(c, s) \/ InsertNew(c, s) \/ QuotaRefused(c, s)
      /\ dropped' = dropped \cup (Cached(windows) \ (Cached(Kept) \cap Cached(windows')))
      /\ UNCHANGED <<setup, now, admitted>>
  BY DEF LimiterFor, Wanted
<1>2. s \in Specs
  <2>1. Plan(c) \in Seq(PlanItem) /\ step[c] \in 1 .. Len(Plan(c))
    BY <1>0, <1>1, PlanTypes DEF WindowTypes
  <2>2. Plan(c)[step[c]] \in PlanItem
    BY <2>1
  <2> QED BY <2>2 DEF PlanItem, Wanted
<1>3. Kept \in [Specs -> Slot] /\ \A u \in Specs : Kept[u] = windows[u] \/ Kept[u] = NoEntry
  BY KeptEntries
<1>4. /\ \A u \in Specs : u \in Cached(Kept) => u \in Cached(windows) /\ Kept[u] = windows[u]
      /\ \A u \in Specs : u \in Cached(Kept) <=> Kept[u] # NoEntry
      /\ \A u \in Cached(windows) : windows[u].governor \in Governors
  BY <1>3 DEF Cached, WindowTypes
<1>5. /\ Governors' = Governors /\ Specs' = Specs /\ Config' = Config
      /\ Cached(windows)' = Cached(windows')
      /\ \A b : Plan(b)' = Plan(b)
      /\ \A u : Window(u)' = Window(u) /\ Cell(u)' = Cell(u)
  BY <1>1 DEF Governors, Specs, Config, Plan, Cached, Window, Cell
<1> DEFINE Table ==
             /\ windows' \in [Specs -> Slot]
             /\ Cardinality(Cached(windows')) <= Config.windowEntries
             /\ \A u \in Cached(windows') :
                  \/ u \in Cached(Kept) /\ windows'[u].governor = windows[u].governor
                  \/ u = s /\ u \notin Cached(Kept) /\ windows'[u].governor = g /\ Unused(g) /\ g \in Governors
             /\ arrival' \in [Governors -> Nat]
             /\ \A m \in Governors : arrival'[m] # arrival[m] => m = g /\ Unused(g)
           Waits ==
             /\ s \in Cached(windows') /\ windows'[s].governor = g /\ g \in Governors
             /\ pc' = [pc EXCEPT ![c] = "ready"]
             /\ step' = step
           Refused ==
             /\ pc' = [pc EXCEPT ![c] = "idle"]
             /\ step' = [step EXCEPT ![c] = 1]
             /\ governor' = [governor EXCEPT ![c] = 0]
<1>6. Table /\ (Waits \/ Refused) /\ governor' \in [Callers -> {0} \cup Governors]
            /\ \A b \in Callers : b # c => governor'[b] = governor[b]
  <2>g. governor \in [Callers -> {0} \cup Governors] /\ arrival \in [Governors -> Nat]
    BY DEF WindowTypes
  <2>1. CASE UseCached(c, s)
    <3>1. /\ Kept[s] # NoEntry
          /\ windows' = [Kept EXCEPT ![s].lastUsed = now]
          /\ governor' = [governor EXCEPT ![c] = Kept[s].governor]
          /\ pc' = [pc EXCEPT ![c] = "ready"]
          /\ UNCHANGED <<arrival, step>>
      BY <2>1 DEF UseCached, Goto
    <3>2. /\ Kept[s] \in [governor : Governors, lastUsed : Nat]
          /\ g = Kept[s].governor /\ g \in Governors /\ Kept[s] = windows[s]
      BY <1>0, <1>2, <1>3, <2>g, <3>1 DEF Slot
    <3>3. /\ windows' \in [Specs -> Slot]
          /\ windows'[s] \in [governor : Governors, lastUsed : Nat] /\ windows'[s].governor = g
          /\ \A u \in Specs : u # s => windows'[u] = Kept[u]
      BY <1>0, <1>2, <1>3, <3>1, <3>2 DEF Slot
    <3>4. windows'[s] # NoEntry
      BY <1>0, <3>2, <3>3 DEF NoEntry
    <3>5. Cached(windows') = Cached(Kept)
      BY <3>1, <3>3, <3>4 DEF Cached
    <3>6. Cardinality(Cached(windows')) <= Config.windowEntries
      <4>1. /\ Cardinality(Cached(Kept)) <= Cardinality(Cached(windows))
            /\ Cardinality(Cached(Kept)) \in Nat /\ Cardinality(Cached(windows)) \in Nat
        BY <1>3, CachedFinite
      <4> QED BY <1>0, <3>5, <4>1 DEF WindowsBounded
    <3>7. s \in Cached(windows') /\ s \in Cached(Kept)
      BY <1>2, <1>4, <3>1, <3>5
    <3>8. \A u \in Cached(windows') : u \in Cached(Kept) /\ windows'[u].governor = windows[u].governor
      BY <1>4, <3>2, <3>3, <3>5 DEF Cached
    <3>9. governor' \in [Callers -> {0} \cup Governors] /\ \A b \in Callers : b # c => governor'[b] = governor[b]
      BY <1>0, <2>g, <3>1, <3>2
    <3> HIDE DEF s, g
    <3> QED BY <2>g, <3>1, <3>2, <3>3, <3>6, <3>7, <3>8, <3>9
  <2>2. CASE InsertNew(c, s)
    <3> DEFINE n == FreeGovernor(Kept)
    <3>1. PICK w \in WithRoom(Kept) : windows' = [w EXCEPT ![s] = [governor |-> n, lastUsed |-> now]]
      BY <2>2 DEF InsertNew
    <3>2. /\ Kept[s] = NoEntry
          /\ arrival' = [arrival EXCEPT ![n] = 0]
          /\ governor' = [governor EXCEPT ![c] = n]
          /\ pc' = [pc EXCEPT ![c] = "ready"]
          /\ UNCHANGED step
      BY <2>2 DEF InsertNew, Goto
    <3>3. n \in Governors /\ (\A u \in Specs : Kept[u].governor # n) /\ \A b \in Callers : governor[b] # n
      BY <1>2, <3>2, FreshGovernor
    <3>4. /\ w \in [Specs -> Slot] /\ \A u \in Specs : w[u] = Kept[u] \/ w[u] = NoEntry
          /\ Cardinality(Cached(w)) < Config.windowEntries
      BY RoomIsMade
    <3> HIDE DEF n
    <3>5. g = n /\ Unused(g)
      <4>1. g = n
        BY <1>0, <2>g, <3>2
      <4>2. \A u \in Cached(Kept) : u \in Specs /\ windows[u].governor # n
        BY <1>4, <3>3 DEF Cached
      <4> HIDE DEF g
      <4> QED BY <3>3, <4>1, <4>2 DEF Unused
    <3>6. [governor |-> n, lastUsed |-> now] \in Slot /\ [governor |-> n, lastUsed |-> now] # NoEntry
      BY <1>0, <3>3 DEF Slot, NoEntry
    <3>7. /\ windows' \in [Specs -> Slot]
          /\ windows'[s].governor = n /\ windows'[s] # NoEntry
          /\ \A u \in Specs : u # s => windows'[u] = w[u]
      BY <1>2, <3>1, <3>4, <3>6
    <3>8. Cached(windows') \subseteq Cached(w) \cup {s} /\ s \in Cached(windows')
      BY <1>2, <3>7 DEF Cached
    <3>9. Cardinality(Cached(windows')) <= Config.windowEntries
      <4>1. IsFiniteSet(Cached(w)) /\ Cardinality(Cached(w)) \in Nat
        BY <3>4, CachedFinite
      <4>2. /\ IsFiniteSet(Cached(w) \cup {s})
            /\ Cardinality(Cached(w) \cup {s}) <= Cardinality(Cached(w)) + 1
            /\ Cardinality(Cached(w) \cup {s}) \in Nat
        <5> DEFINE C == Cached(w)
        <5>1. IsFiniteSet(C) /\ Cardinality(C) \in Nat
          BY <4>1
        <5> HIDE DEF C
        <5>2. /\ IsFiniteSet(C \cup {s})
              /\ Cardinality(C \cup {s}) = IF s \in C THEN Cardinality(C) ELSE Cardinality(C) + 1
          BY <5>1, FS_AddElement
        <5> QED BY <5>1, <5>2 DEF C
      <4>3. Cardinality(Cached(windows')) <= Cardinality(Cached(w) \cup {s}) /\ Cardinality(Cached(windows')) \in Nat
        BY <3>8, <4>2, FS_Subset, FS_CardinalityType
      <4> QED BY <1>0, <3>4, <4>1, <4>2, <4>3
    <3>10. ASSUME NEW u \in Cached(windows'), u # s
           PROVE  u \in Cached(Kept) /\ windows'[u].governor = windows[u].governor
      <4>1. u \in Specs /\ windows'[u] # NoEntry /\ windows'[u] = w[u]
        BY <3>7, <3>10 DEF Cached
      <4> QED BY <1>4, <3>4, <4>1
    <3>11. s \notin Cached(Kept)
      BY <1>4, <3>2, <1>2
    <3>12. governor' \in [Callers -> {0} \cup Governors] /\ \A b \in Callers : b # c => governor'[b] = governor[b]
      BY <1>0, <2>g, <3>2, <3>3
    <3>13. arrival' \in [Governors -> Nat] /\ \A m \in Governors : arrival'[m] # arrival[m] => m = g
      BY <2>g, <3>2, <3>3, <3>5
    <3> HIDE DEF s, g
    <3>14. Table
      BY <3>3, <3>5, <3>7, <3>9, <3>10, <3>11, <3>13
    <3>15. Waits
      BY <3>2, <3>3, <3>5, <3>7, <3>8
    <3> QED BY <3>12, <3>14, <3>15
  <2>3. CASE QuotaRefused(c, s)
    <3>1. /\ windows' \in WithRoom(Kept) /\ UNCHANGED arrival
          /\ pc' = [pc EXCEPT ![c] = "idle"]
          /\ step' = [step EXCEPT ![c] = 1]
          /\ governor' = [governor EXCEPT ![c] = 0]
      BY <2>3 DEF QuotaRefused, Leave, Goto
    <3>2. /\ windows' \in [Specs -> Slot] /\ \A u \in Specs : windows'[u] = Kept[u] \/ windows'[u] = NoEntry
          /\ Cardinality(Cached(windows')) < Config.windowEntries
      BY <3>1, RoomIsMade
    <3>3. \A u \in Cached(windows') : u \in Cached(Kept) /\ windows'[u].governor = windows[u].governor
      BY <1>4, <3>2 DEF Cached
    <3>4. Cardinality(Cached(windows')) <= Config.windowEntries
      <4>1. Cardinality(Cached(windows')) \in Nat
        BY <3>2, CachedFinite
      <4> QED BY <1>0, <3>2, <4>1
    <3>5. governor' \in [Callers -> {0} \cup Governors] /\ \A b \in Callers : b # c => governor'[b] = governor[b]
      BY <1>0, <2>g, <3>1
    <3> HIDE DEF s, g
    <3> QED BY <2>g, <3>1, <3>2, <3>3, <3>4, <3>5
  <2> QED BY <1>1, <2>1, <2>2, <2>3
<1> HIDE DEF s, g
<1>7. /\ \A b \in Callers : b # c => pc'[b] = pc[b] /\ step'[b] = step[b] /\ Wanted(b)' = Wanted(b)
      /\ pc'[c] = "ready" => Waits /\ Wanted(c)' = s /\ step'[c] = step[c]
  <2>1. \A b \in Callers : b # c => pc'[b] = pc[b] /\ step'[b] = step[b]
    BY <1>6 DEF Types, WindowTypes
  <2>2. pc'[c] = "ready" => Waits
    BY <1>0, <1>6 DEF Types
  <2> QED BY <1>5, <2>1, <2>2 DEF Wanted, s
<1>8. \A u \in Cached(windows) : u \notin dropped' => u \in Cached(Kept) /\ u \in Cached(windows')
  BY <1>1
<1>9. /\ \A u \in Cached(windows') \cap Cached(Kept) : windows'[u].governor = windows[u].governor /\ u \in Cached(windows)
      /\ \A u \in Cached(windows') : u \in Specs /\ windows'[u].governor \in Governors
  BY <1>4, <1>6 DEF Cached, Slot
<1>10. WindowTypes'
  <2>1. step' \in [Callers -> Nat \ {0}]
    <3>1. step \in [Callers -> Nat \ {0}] /\ (step' = step \/ step' = [step EXCEPT ![c] = 1])
      BY <1>6 DEF WindowTypes
    <3> QED BY <1>0, <3>1
  <2>2. ASSUME NEW b \in Callers, pc'[b] = "ready"
        PROVE  step'[b] <= Len(Plan(b)) /\ governor'[b] \in Governors
    <3>1. CASE b = c
      BY <1>1, <1>7, <2>2, <3>1 DEF g
    <3>2. CASE b # c
      BY <1>6, <1>7, <2>2, <3>2 DEF WindowTypes
    <3> QED BY <3>1, <3>2
  <2> QED BY <1>1, <1>5, <1>6, <2>1, <2>2 DEF WindowTypes, Slot, Times, NoEntry
<1>11. WindowsBounded'
  BY <1>5, <1>6 DEF WindowsBounded
<1>12. Exclusive'
  <2>1. ASSUME NEW u \in Cached(windows'), NEW v \in Cached(windows'), windows'[u].governor = windows'[v].governor
        PROVE  u = v
    <3>1. CASE u \in Cached(Kept) /\ v \in Cached(Kept)
      BY <1>9, <2>1, <3>1 DEF Exclusive
    <3>2. CASE u \notin Cached(Kept) \/ v \notin Cached(Kept)
      BY <1>6, <1>9, <2>1, <3>2 DEF Unused
    <3> QED BY <3>1, <3>2
  <2>2. ASSUME NEW b \in Callers, NEW u \in Cached(windows'), pc'[b] = "ready", windows'[u].governor = governor'[b]
        PROVE  u = Wanted(b)'
    <3>1. CASE b = c
      <4>1. s \in Cached(windows') /\ windows'[s].governor = g /\ Wanted(c)' = s
        BY <1>7, <2>2, <3>1
      <4> QED BY <2>1, <2>2, <3>1, <4>1 DEF g
    <3>2. CASE b # c
      <4>1. pc[b] = "ready" /\ governor'[b] = governor[b] /\ Wanted(b)' = Wanted(b)
        BY <1>6, <1>7, <2>2, <3>2
      <4>2. CASE u \in Cached(Kept)
        BY <1>9, <2>2, <4>1, <4>2 DEF Exclusive
      <4>3. CASE u \notin Cached(Kept)
        BY <1>6, <2>2, <4>1, <4>3 DEF Unused
      <4> QED BY <4>2, <4>3
    <3> QED BY <3>1, <3>2
  <2> QED BY <1>5, <2>1, <2>2 DEF Exclusive
<1>13. Held'
  <2> SUFFICES ASSUME NEW b \in Callers, pc'[b] = "ready", Wanted(b)' \notin dropped'
               PROVE  Wanted(b)' \in Cached(windows') /\ windows'[Wanted(b)'].governor = governor'[b]
    BY <1>5 DEF Held
  <2>1. CASE b = c
    BY <1>7, <2>1 DEF g
  <2>2. CASE b # c
    <3>1. pc[b] = "ready" /\ governor'[b] = governor[b] /\ Wanted(b)' = Wanted(b) /\ Wanted(b) \notin dropped
      BY <1>1, <1>6, <1>7, <2>2
    <3>2. Wanted(b) \in Cached(windows) /\ windows[Wanted(b)].governor = governor[b]
      BY <3>1 DEF Held
    <3> QED BY <1>8, <1>9, <3>1, <3>2
  <2> QED BY <2>1, <2>2
<1>14. Paced'
  <2> SUFFICES ASSUME NEW u \in Specs, u \notin dropped', NEW a \in Times, admitted[u][a] > 0
               PROVE  /\ a <= now /\ u \in Cached(windows')
                      /\ arrival'[windows'[u].governor] >= a + Cell(u) * SumFunctionOnSet(admitted[u], a .. MaxTime)
    BY <1>1, <1>5 DEF Paced, Times
  <2>1. /\ a <= now /\ u \in Cached(windows)
        /\ arrival[windows[u].governor] >= a + Cell(u) * SumFunctionOnSet(admitted[u], a .. MaxTime)
    BY <1>1 DEF Paced
  <2>2. u \in Cached(Kept) /\ u \in Cached(windows') /\ windows'[u].governor = windows[u].governor
    BY <1>8, <1>9, <2>1
  <2>3. arrival'[windows[u].governor] = arrival[windows[u].governor]
    BY <1>4, <1>6, <2>1, <2>2 DEF Unused
  <2> QED BY <2>1, <2>2, <2>3
<1>15. QuotaRespected'
  <2> SUFFICES ASSUME NEW u \in Specs, u \notin dropped', UsableWindow(Window(u)),
                      NEW a \in Times, NEW b \in Times, admitted[u][a] > 0, admitted[u][b] > 0, a <= b
               PROVE  SumFunctionOnSet(admitted[u], a .. b) <= Window(u).max + (b - a) \div Cell(u)
    BY <1>1, <1>5 DEF QuotaRespected, Times
  <2> QED BY <1>1 DEF QuotaRespected
<1> QED BY <1>10, <1>11, <1>12, <1>13, <1>14, <1>15

\* The windows, through every step of every caller and of the clock.
LEMMA WindowInductive == Spec => []WindowInv
<1>1. Init => WindowInv
  <2> SUFFICES ASSUME Init PROVE WindowInv
    OBVIOUS
  <2>0. Types
    BY DEF Init, Types, Pcs
  <2>1. Cached(windows) = {}
    BY DEF Init, Cached
  <2>2. WindowTypes
    BY DEF Init, WindowTypes, Times
  <2>3. WindowsBounded
    BY <2>0, <2>1, ConfigTypes, FS_EmptySet DEF WindowsBounded
  <2>4. Exclusive /\ Held
    BY <2>1 DEF Init, Exclusive, Held
  <2>5. \A s \in Specs : \A t \in Times : admitted[s][t] = 0
    BY DEF Init
  <2>6. Paced /\ QuotaRespected
    BY <2>5 DEF Paced, QuotaRespected
  <2> QED BY <2>2, <2>3, <2>4, <2>6 DEF WindowInv
<1>2. Types /\ WindowInv /\ [Next]_vars => WindowInv'
  <2> SUFFICES ASSUME Types, WindowInv, [Next]_vars PROVE WindowInv'
    OBVIOUS
  <2> USE DEF tableVars, callerVars
  <2>u. ASSUME UNCHANGED <<setup, windows, arrival, pc, step, governor, admitted, dropped>>,
               now' \in Times, now' >= now
        PROVE  WindowInv'
    <3>1. /\ Governors' = Governors /\ Specs' = Specs /\ Config' = Config
          /\ Cached(windows)' = Cached(windows)
          /\ \A b : Plan(b)' = Plan(b) /\ Wanted(b)' = Wanted(b)
          /\ \A s : Window(s)' = Window(s) /\ Cell(s)' = Cell(s)
      BY <2>u DEF Governors, Specs, Config, Plan, Cached, Window, Cell, Wanted
    <3>2. WindowTypes' /\ WindowsBounded' /\ Exclusive' /\ Held'
      BY <2>u, <3>1 DEF WindowInv, WindowTypes, WindowsBounded, Exclusive, Held
    <3>3. \A a \in Times : a <= now => a <= now'
      BY <2>u DEF WindowInv, WindowTypes, Times
    <3>4. Paced'
      BY <2>u, <3>1, <3>3 DEF WindowInv, Paced
    <3>5. QuotaRespected'
      BY <2>u, <3>1 DEF WindowInv, QuotaRespected
    <3> QED BY <3>2, <3>4, <3>5 DEF WindowInv
  <2>0. now \in Times /\ now \in Nat
    BY DEF WindowInv, WindowTypes, Times
  <2>1. ASSUME NEW c \in Active, Acquire(c) PROVE WindowInv'
    <3>1. CASE MissingHost(Request(c))
      BY <2>0, <2>1, <2>u, <3>1 DEF Acquire
    <3>2. CASE ~ MissingHost(Request(c))
      BY <2>1, <3>2, CallerStep DEF Acquire, Goto, Pcs
    <3> QED BY <3>1, <3>2
  <2>2. ASSUME NEW c \in Active, AcquireDisabled(c) PROVE WindowInv'
    <3>1. PICK l \in {"idle", "permitted"} : pc' = [pc EXCEPT ![c] = l]
      BY <2>2 DEF AcquireDisabled, Goto
    <3> QED BY <2>2, <3>1, CallerStep DEF AcquireDisabled, Pcs
  <2>3. ASSUME NEW c \in Active, CooldownOver(c) PROVE WindowInv'
    BY <2>3, CallerStep DEF CooldownOver, Goto, Pcs
  <2>4. ASSUME NEW c \in Active, WaitCooldown(c) PROVE WindowInv'
    <3>1. PICK l \in {"idle", "sleep"} : pc' = [pc EXCEPT ![c] = l]
      BY <2>4 DEF WaitCooldown, Leave, Goto
    <3>2. /\ step' = step \/ step' = [step EXCEPT ![c] = 1]
          /\ governor' = governor \/ governor' = [governor EXCEPT ![c] = 0]
          /\ UNCHANGED <<setup, now, windows, arrival, admitted, dropped>>
      BY <2>4 DEF WaitCooldown, Leave
    <3> QED BY <3>1, <3>2, CallerStep DEF Pcs
  <2>5. ASSUME NEW c \in Active, SleepEnds(c) PROVE WindowInv'
    BY <2>5, CallerStep DEF SleepEnds, Goto, Pcs
  <2>6. ASSUME NEW c \in Active, LimiterFor(c) PROVE WindowInv'
    BY <2>6, LimiterStep
  <2>7. ASSUME NEW c \in Active, Admit(c) PROVE WindowInv'
    BY <2>7, AdmitStep
  <2>8. ASSUME NEW c \in Active, CostTooHigh(c) PROVE WindowInv'
    BY <2>8, CallerStep DEF CostTooHigh, Leave, Goto, Pcs
  <2>9. ASSUME NEW c \in Active, Permit(c) PROVE WindowInv'
    BY <2>9, CallerStep DEF Permit, Goto, Pcs
  <2>10. ASSUME NEW c \in Active, ObserveUnlimited(c) PROVE WindowInv'
    BY <2>10, CallerStep DEF ObserveUnlimited, Leave, Goto, Pcs
  <2>11. ASSUME NEW c \in Active, ObserveDisabled(c) PROVE WindowInv'
    BY <2>11, CallerStep DEF ObserveDisabled, Leave, Goto, Pcs
  <2>12. ASSUME NEW c \in Active, NEW r \in Responses, StoreCooldown(c, r) PROVE WindowInv'
    BY <2>12, CallerStep DEF StoreCooldown, Leave, Goto, Pcs
  <2>13. ASSUME NEW c \in Active, Cancel(c) PROVE WindowInv'
    BY <2>13, CallerStep DEF Cancel, Leave, Goto, Pcs
  <2>14. CASE Tick
    BY <2>0, <2>14, <2>u DEF Tick, Times
  <2>15. CASE UNCHANGED vars
    BY <2>0, <2>15, <2>u DEF vars
  <2> QED
    BY <2>1, <2>2, <2>3, <2>4, <2>5, <2>6, <2>7, <2>8, <2>9, <2>10, <2>11, <2>12, <2>13, <2>14, <2>15
    DEF Next
<1>3. CooldownInv => Types
  BY DEF CooldownInv
<1> QED BY <1>1, <1>2, <1>3, CooldownInductive, PTL DEF Spec

\* governor_runtime.rs limiter_for and until_n_ready: however the callers of a window
\* interleave, in no interval does it admit more than its burst and its refill, as long
\* as the table has not forgotten its governor.
THEOREM QuotaIsRespected == Spec => []QuotaRespected
<1>1. WindowInv => QuotaRespected
  BY DEF WindowInv
<1> QED BY <1>1, WindowInductive, PTL

\* governor_runtime.rs store_cooldown and limiter_for: neither table outgrows its cap,
\* through pruning, eviction, refused windows and responses with several keys.
THEOREM TablesStayBounded == Spec => []TablesBounded
<1>1. CooldownInv /\ WindowInv => TablesBounded
  BY DEF CooldownInv, CooldownsBounded, Entries, WindowInv, WindowsBounded, TablesBounded
<1> QED BY <1>1, CooldownInductive, WindowInductive, PTL
=============================================================================
