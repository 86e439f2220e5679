----------------------------- MODULE LeftFolds -----------------------------
(***************************************************************************)
(* What FoldLeft computes, for one step operator.  The compiler of an `api!` *)
(* program, the client that it generates and the runtime below it fold one  *)
(* operator or another over the clauses of a block, the layers of a policy  *)
(* or the credentials of a request (CompileApi); each proof about such a    *)
(* fold instantiates this module with the step and with what the step       *)
(* keeps.                                                                   *)
(***************************************************************************)
EXTENDS Naturals, Sequences, SequencesExt, WellFoundedInduction, NaturalsInduction, TLAPS

CONSTANTS
    Op(_, _, _, _),     \* the step, of a context c, d, the result so far and an element
    Inv(_, _, _, _)     \* what holds in the context c, d after i elements

Fold(c, d, base, seq) == FoldLeft(LAMBDA acc, x : Op(c, d, acc, x), base, seq)

\* h is the list of the n + 1 results of a fold over n elements.
FoldRun(h, c, d, base, seq, n) ==
    /\ h = [i \in 0 .. n |-> h[i]] /\ h[0] = base
    /\ \A i \in 1 .. n : h[i] = Op(c, d, h[i - 1], seq[i])

\* Induction up to n, as a fact about sets
LEMMA Climb ==
    ASSUME NEW n \in Nat, NEW T, 0 \in T, \A i \in 1 .. n : i - 1 \in T => i \in T
    PROVE  0 .. n \subseteq T
<1> DEFINE Off == {i \in 0 .. n : i \notin T}
<1> SUFFICES ASSUME Off # {} PROVE FALSE
  OBVIOUS
<1>1. Off \subseteq Nat
  OBVIOUS
<1>2. PICK k \in Off : \A m \in Off : ~ (<<m, k>> \in OpToRel(<, Nat))
  <2> HIDE DEF Off
  <2> QED BY <1>1, NatLessThanWellFounded, WFMin
<1>3. k \in 0 .. n /\ k \notin T /\ k # 0
  OBVIOUS
<1>4. k - 1 \in 0 .. n /\ k \in 1 .. n /\ k - 1 < k /\ k \in Nat /\ k - 1 \in Nat
  BY <1>3
<1>5. k - 1 \notin Off
  BY <1>2, <1>4 DEF OpToRel
<1> QED BY <1>3, <1>4, <1>5

IsMax(x, s) == x \in s /\ \A y \in s : x >= y

\* The largest number of a nonempty set that n bounds
LEMMA MaxInside ==
    ASSUME NEW n \in Nat, NEW s \in SUBSET (1 .. n), s # {}
    PROVE  IsMax(Max(s), s)
<1> DEFINE T == {m \in 0 .. n : (\E x \in s : x <= m) => \E x \in s : IsMax(x, s \cap (1 .. m))}
<1>1. 0 \in T
  OBVIOUS
<1>2. ASSUME NEW m \in 1 .. n, m - 1 \in T PROVE m \in T
  <2>1. CASE m \in s
    <3>1. IsMax(m, s \cap (1 .. m))
      BY <2>1 DEF IsMax
    <3> QED BY <2>1, <3>1
  <2>2. CASE m \notin s
    <3>1. s \cap (1 .. m) = s \cap (1 .. m - 1)
      BY <2>2
    <3>2. ASSUME \E x \in s : x <= m PROVE \E x \in s : x <= m - 1
      <4>1. PICK x \in s : x <= m
        BY <3>2
      <4>2. x <= m - 1
        BY <2>2, <4>1
      <4> QED BY <4>2
    <3> QED BY <1>2, <3>1, <3>2
  <2> QED BY <2>1, <2>2
<1>3. n \in T
  <2> HIDE DEF T
  <2> QED BY <1>1, <1>2, Climb
<1>4. s \cap (1 .. n) = s
  OBVIOUS
<1>6. \E x \in s : x <= n
  <2>1. PICK x \in s : TRUE
    OBVIOUS
  <2> QED BY <2>1
<1>5. \E x \in s : IsMax(x, s)
  BY <1>3, <1>4, <1>6
<1> QED BY <1>5 DEF Max, IsMax

\* FoldLeft is defined by a function on the sets of indices that are still to be
\* folded; FoldSolves says that f is that function.
FoldBody(f, c, d, base, seq, s) ==
    IF s = {} THEN base ELSE Op(c, d, f[s \ {Max(s)}], seq[Max(s)])
FoldSolves(f, c, d, base, seq, S) == f = [s \in SUBSET S |-> FoldBody(f, c, d, base, seq, s)]

\* There is such a function, for sequences of every length
LEMMA FoldExists ==
    ASSUME NEW c, NEW d, NEW base, NEW seq, NEW n \in Nat
    PROVE  \E f : FoldSolves(f, c, d, base, seq, 1 .. n)
<1> DEFINE T == {m \in 0 .. n : \E f : FoldSolves(f, c, d, base, seq, 1 .. m)}
<1>1. 0 \in T
  <2> DEFINE f == [s \in SUBSET (1 .. 0) |-> base]
  <2>1. \A s \in SUBSET (1 .. 0) : s = {}
    OBVIOUS
  <2>2. FoldSolves(f, c, d, base, seq, 1 .. 0)
    BY <2>1 DEF FoldSolves, FoldBody
  <2> HIDE DEF f
  <2> QED BY <2>2
<1>2. ASSUME NEW m \in 1 .. n, m - 1 \in T PROVE m \in T
  <2>1. PICK f : FoldSolves(f, c, d, base, seq, 1 .. m - 1)
    BY <1>2
  <2> DEFINE g == [s \in SUBSET (1 .. m) |->
                     IF m \in s THEN Op(c, d, f[s \ {m}], seq[m]) ELSE f[s]]
  <2>2. ASSUME NEW s \in SUBSET (1 .. m) PROVE g[s] = FoldBody(g, c, d, base, seq, s)
    <3>1. CASE m \in s
      <4>1. IsMax(Max(s), s)
        <5>1. m \in Nat /\ s # {}
          BY <3>1
        <5> QED BY <5>1, MaxInside
      <4>2. Max(s) = m
        <5>1. Max(s) \in 1 .. m /\ Max(s) >= m
          BY <3>1, <4>1 DEF IsMax
        <5> QED BY <5>1
      <4>3. s \ {m} \in SUBSET (1 .. m) /\ m \notin s \ {m}
        OBVIOUS
      <4>4. g[s \ {m}] = f[s \ {m}]
        BY <4>3
      <4>5. g[s] = Op(c, d, f[s \ {m}], seq[m])
        BY <3>1
      <4> HIDE DEF g
      <4> QED BY <3>1, <4>2, <4>4, <4>5 DEF FoldBody
    <3>2. CASE m \notin s
      <4>1. s \in SUBSET (1 .. m - 1)
        BY <3>2
      <4>2. f[s] = FoldBody(f, c, d, base, seq, s)
        BY <2>1, <4>1 DEF FoldSolves
      <4>3. g[s] = f[s]
        BY <3>2
      <4>4. CASE s = {}
        BY <4>2, <4>3, <4>4 DEF FoldBody
      <4>5. CASE s # {}
        <5>1. Max(s) \in s
          BY <4>5, MaxInside DEF IsMax
        <5>2. s \ {Max(s)} \in SUBSET (1 .. m) /\ m \notin s \ {Max(s)}
          BY <3>2
        <5>3. g[s \ {Max(s)}] = f[s \ {Max(s)}]
          BY <5>2
        <5> HIDE DEF g
        <5> QED BY <4>2, <4>3, <4>5, <5>3 DEF FoldBody
      <4> QED BY <4>4, <4>5
    <3> QED BY <3>1, <3>2
  <2>3. g = [s \in SUBSET (1 .. m) |-> g[s]]
    OBVIOUS
  <2> HIDE DEF g
  <2>4. FoldSolves(g, c, d, base, seq, 1 .. m)
    BY <2>2, <2>3 DEF FoldSolves
  <2> QED BY <2>4
<1>3. n \in T
  <2> HIDE DEF T
  <2> QED BY <1>1, <1>2, Climb
<1> QED BY <1>3

\* A fold over n elements is the last of n + 1 results, each made of the one before
\* it and of the next element.
LEMMA FoldRuns ==
    ASSUME NEW c, NEW d, NEW base, NEW seq, NEW n \in Nat, DOMAIN seq = 1 .. n
    PROVE  \E h : FoldRun(h, c, d, base, seq, n) /\ Fold(c, d, base, seq) = h[n]
<1> DEFINE iter == CHOOSE f : FoldSolves(f, c, d, base, seq, 1 .. n)
<1>1. FoldSolves(iter, c, d, base, seq, 1 .. n)
  BY FoldExists
<1>2. Fold(c, d, base, seq) = iter[1 .. n]
  BY DEF Fold, FoldLeft, MapThenFoldSet, FoldSolves, FoldBody
<1> HIDE DEF iter
<1> DEFINE h == [i \in 0 .. n |-> iter[1 .. i]]
<1>3. \A s \in SUBSET (1 .. n) : iter[s] = FoldBody(iter, c, d, base, seq, s)
  BY <1>1 DEF FoldSolves
<1>4. h[0] = base
  <2>1. 1 .. 0 = {} /\ {} \in SUBSET (1 .. n)
    OBVIOUS
  <2>2. h[0] = iter[{}]
    BY <2>1
  <2> QED BY <1>3, <2>1, <2>2 DEF FoldBody
<1>5. ASSUME NEW i \in 1 .. n PROVE h[i] = Op(c, d, h[i - 1], seq[i])
  <2>1. 1 .. i \in SUBSET (1 .. n) /\ 1 .. i # {} /\ 1 .. i \in SUBSET (1 .. i) /\ i \in 1 .. i
    OBVIOUS
  <2>2. Max(1 .. i) = i
    <3>1. IsMax(Max(1 .. i), 1 .. i)
      BY <2>1, MaxInside
    <3> QED BY <2>1, <3>1 DEF IsMax
  <2>3. (1 .. i) \ {i} = 1 .. (i - 1)
    OBVIOUS
  <2>4. h[i] = iter[1 .. i] /\ h[i - 1] = iter[1 .. (i - 1)]
    OBVIOUS
  <2> HIDE DEF h
  <2>5. iter[1 .. i] = FoldBody(iter, c, d, base, seq, 1 .. i)
    BY <1>3, <2>1
  <2>6. FoldBody(iter, c, d, base, seq, 1 .. i) = Op(c, d, iter[1 .. (i - 1)], seq[i])
    BY <2>1, <2>2, <2>3 DEF FoldBody
  <2> QED BY <2>4, <2>5, <2>6
<1>6. h = [i \in 0 .. n |-> h[i]] /\ h[n] = iter[1 .. n]
  OBVIOUS
<1> HIDE DEF h
<1>7. FoldRun(h, c, d, base, seq, n)
  BY <1>4, <1>5, <1>6 DEF FoldRun
<1> QED BY <1>2, <1>6, <1>7

\* What the base has and the step keeps, the result of the fold has.
LEMMA FoldKeeps ==
    ASSUME NEW c, NEW d, NEW base, NEW seq, NEW n \in Nat, DOMAIN seq = 1 .. n,
           Inv(c, d, 0, base),
           \A i \in 1 .. n : \A acc :
             Inv(c, d, i - 1, acc) => Inv(c, d, i, Op(c, d, acc, seq[i]))
    PROVE  Inv(c, d, n, Fold(c, d, base, seq))
<1>1. PICK h : FoldRun(h, c, d, base, seq, n) /\ Fold(c, d, base, seq) = h[n]
  BY FoldRuns
<1> DEFINE T == {i \in 0 .. n : Inv(c, d, i, h[i])}
<1>2. 0 \in T
  BY <1>1 DEF FoldRun
<1>3. ASSUME NEW i \in 1 .. n, i - 1 \in T PROVE i \in T
  <2>1. Inv(c, d, i - 1, h[i - 1])
    BY <1>3
  <2>2. Inv(c, d, i, Op(c, d, h[i - 1], seq[i]))
    BY <2>1
  <2>3. h[i] = Op(c, d, h[i - 1], seq[i])
    BY <1>1 DEF FoldRun
  <2> QED BY <2>2, <2>3
<1>4. n \in T
  <2> HIDE DEF T
  <2> QED BY <1>2, <1>3, Climb
<1> QED BY <1>1, <1>4

=============================================================================
