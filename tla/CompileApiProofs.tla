-------------------------- MODULE CompileApiProofs --------------------------
(***************************************************************************)
(* Proofs about CompileApi, for any program that the grammar can read: what *)
(* the parser and sema guarantee to the code generator.                     *)
(*                                                                          *)
(* The inductive invariant CompileInv says, pass by pass, what is known of  *)
(* the program: the clauses that were read are well-formed; each layer that *)
(* walk_items has open mentions only what the layers around it declare; the *)
(* fields of a resolved endpoint agree with those declarations.             *)
(***************************************************************************)
EXTENDS CompileApi, FiniteSetTheorems, TLAPS

(* ------------------------------- sequences ------------------------------- *)

FirstOnly(c, d, acc, x) == acc
Whatever(c, d, i, acc) == TRUE
Steps == INSTANCE LeftFolds WITH Op <- FirstOnly, Inv <- Whatever

\* A Vec is a sequence, and its members are its elements.
LEMMA VecSeq ==
    ASSUME NEW s, IsVec(s)
    PROVE  /\ s \in Seq(ToSet(s)) /\ Len(s) \in Nat /\ DOMAIN s = 1 .. Len(s)
           /\ \A i \in 1 .. Len(s) : s[i] \in ToSet(s)
           /\ \A x \in ToSet(s) : \E i \in 1 .. Len(s) : s[i] = x
           /\ s = [i \in 1 .. Len(s) |-> s[i]]
<1>1. s \in Seq(ToSet(s))
  BY DEF IsVec
<1> HIDE DEF ToSet
<1>2. Len(s) \in Nat /\ DOMAIN s = 1 .. Len(s) /\ s = [i \in 1 .. Len(s) |-> s[i]]
  BY <1>1
<1> QED BY <1>1, <1>2 DEF ToSet

\* Every sequence is a Vec.
LEMMA SeqVec ==
    ASSUME NEW X, NEW s \in Seq(X)
    PROVE  IsVec(s) /\ ToSet(s) \subseteq X
<1>1. DOMAIN s = 1 .. Len(s) /\ Len(s) \in Nat /\ \A i \in 1 .. Len(s) : s[i] \in X
  OBVIOUS
<1>2. \A i \in 1 .. Len(s) : s[i] \in ToSet(s)
  BY <1>1 DEF ToSet
<1>3. s \in Seq(ToSet(s))
  <2>1. s = [i \in 1 .. Len(s) |-> s[i]]
    OBVIOUS
  <2> HIDE DEF ToSet
  <2> QED BY <1>1, <1>2, <2>1
<1> QED BY <1>1, <1>3 DEF IsVec, ToSet

\* The empty Vec
LEMMA EmptyVec == IsVec(<<>>) /\ ToSet(<<>>) = {}
  BY DEF IsVec, ToSet

\* A Vec of one member
LEMMA OneVec ==
    ASSUME NEW x PROVE IsVec(<<x>>) /\ ToSet(<<x>>) = {x}
<1>1. <<x>> \in Seq({x}) /\ DOMAIN <<x>> = {1}
  OBVIOUS
<1>2. ToSet(<<x>>) = {x}
  BY <1>1 DEF ToSet
<1> QED BY <1>1, <1>2 DEF IsVec

\* [i \in 1..n |-> f[i]], in whatever way it is given
LEMMA MapVec ==
    ASSUME NEW n \in Nat, NEW f, f = [i \in 1 .. n |-> f[i]]
    PROVE  IsVec(f) /\ Len(f) = n /\ DOMAIN f = 1 .. n /\ ToSet(f) = {f[i] : i \in 1 .. n}
<1>1. f \in Seq({f[i] : i \in 1 .. n}) /\ Len(f) = n /\ DOMAIN f = 1 .. n
  OBVIOUS
<1> QED BY <1>1 DEF IsVec, ToSet

\* push: one more member at the end
LEMMA AppendVec ==
    ASSUME NEW s, IsVec(s), NEW x
    PROVE  /\ IsVec(Append(s, x)) /\ ToSet(Append(s, x)) = ToSet(s) \cup {x}
           /\ Len(Append(s, x)) = Len(s) + 1
           /\ Append(s, x)[Len(s) + 1] = x
           /\ \A i \in 1 .. Len(s) : Append(s, x)[i] = s[i]
<1> DEFINE X == ToSet(s) \cup {x}  t == Append(s, x)
<1>1. s \in Seq(X) /\ x \in X
  BY VecSeq
<1>2. /\ t \in Seq(X) /\ Len(t) = Len(s) + 1 /\ t[Len(s) + 1] = x
      /\ \A i \in 1 .. Len(s) : t[i] = s[i]
  <2> HIDE DEF X
  <2> QED BY <1>1
<1>3. ToSet(t) = X
  <2>1. Len(s) \in Nat /\ DOMAIN t = 1 .. Len(s) + 1
    BY <1>1, <1>2
  <2>2. ASSUME NEW y \in X PROVE y \in ToSet(t)
    <3>1. CASE y = x
      BY <1>2, <2>1, <3>1 DEF ToSet
    <3>2. CASE y \in ToSet(s)
      <4>1. PICK i \in 1 .. Len(s) : s[i] = y
        BY <3>2, VecSeq
      <4> QED BY <1>2, <2>1, <4>1 DEF ToSet
    <3> QED BY <3>1, <3>2
  <2> QED BY <1>2, <2>2, SeqVec
<1> QED BY <1>2, <1>3, SeqVec

\* extend: the members of the one, then those of the other
LEMMA JoinVec ==
    ASSUME NEW s, NEW t, IsVec(s), IsVec(t)
    PROVE  /\ IsVec(s \o t) /\ ToSet(s \o t) = ToSet(s) \cup ToSet(t)
           /\ Len(s \o t) = Len(s) + Len(t)
           /\ \A i \in 1 .. Len(s) : (s \o t)[i] = s[i]
           /\ \A i \in 1 .. Len(t) : (s \o t)[Len(s) + i] = t[i]
<1> DEFINE X == ToSet(s) \cup ToSet(t)  u == s \o t
<1>1. s \in Seq(X) /\ t \in Seq(X)
  BY VecSeq
<1>2. /\ u \in Seq(X) /\ Len(u) = Len(s) + Len(t)
      /\ \A i \in 1 .. Len(s) : u[i] = s[i]
      /\ \A i \in 1 .. Len(t) : u[Len(s) + i] = t[i]
  <2> HIDE DEF X
  <2> QED BY <1>1
<1>3. ToSet(u) = X
  <2>1. Len(s) \in Nat /\ Len(t) \in Nat /\ DOMAIN u = 1 .. Len(s) + Len(t)
    BY <1>1, <1>2
  <2>2. ASSUME NEW y \in X PROVE y \in ToSet(u)
    <3>1. CASE y \in ToSet(s)
      <4>1. PICK i \in 1 .. Len(s) : s[i] = y
        BY <3>1, VecSeq
      <4> QED BY <1>2, <2>1, <4>1 DEF ToSet
    <3>2. CASE y \in ToSet(t)
      <4>1. PICK i \in 1 .. Len(t) : t[i] = y
        BY <3>2, VecSeq
      <4>2. Len(s) + i \in DOMAIN u /\ u[Len(s) + i] = y
        BY <1>2, <2>1, <4>1
      <4> QED BY <4>2 DEF ToSet
    <3> QED BY <3>1, <3>2
  <2> QED BY <1>2, <2>2, SeqVec
<1> QED BY <1>2, <1>3, SeqVec

FlattenRun(h, parts, n) ==
    /\ h = [i \in 1 .. n |-> h[i]] /\ h[1] = parts[1]
    /\ \A i \in 2 .. n : h[i] = h[i - 1] \o parts[i]

FlattenSolves(h, parts, n) ==
    h = [i \in 1 .. n |-> IF i = 1 THEN parts[i] ELSE h[i - 1] \o parts[i]]

\* FlattenSeq joins the parts one after the other.
LEMMA FlattenRuns ==
    ASSUME NEW parts, IsVec(parts), Len(parts) # 0
    PROVE  \E h : FlattenRun(h, parts, Len(parts)) /\ FlattenSeq(parts) = h[Len(parts)]
<1> DEFINE n == Len(parts)
           T == {m \in 0 .. n : \E h : FlattenSolves(h, parts, m)}
           iter == CHOOSE h : FlattenSolves(h, parts, n)
<1>0. n \in Nat
  BY VecSeq
<1>1. 0 \in T
  <2>1. FlattenSolves([i \in 1 .. 0 |-> 0], parts, 0)
    BY DEF FlattenSolves
  <2> QED BY <1>0, <2>1
<1>2. ASSUME NEW m \in 1 .. n, m - 1 \in T PROVE m \in T
  <2>1. PICK h : FlattenSolves(h, parts, m - 1)
    BY <1>2
  <2> DEFINE g == [i \in 1 .. m |-> IF i < m THEN h[i]
                                    ELSE IF i = 1 THEN parts[i] ELSE h[i - 1] \o parts[i]]
  <2>2. ASSUME NEW i \in 1 .. m
        PROVE  g[i] = IF i = 1 THEN parts[i] ELSE g[i - 1] \o parts[i]
    <3>1. i # 1 => i - 1 \in 1 .. m /\ i - 1 < m
      OBVIOUS
    <3>2. i # 1 => g[i - 1] = h[i - 1]
      BY <3>1
    <3>3. i < m => h[i] = IF i = 1 THEN parts[i] ELSE h[i - 1] \o parts[i]
      <4> HIDE DEF g
      <4> SUFFICES ASSUME i < m PROVE h[i] = IF i = 1 THEN parts[i] ELSE h[i - 1] \o parts[i]
        OBVIOUS
      <4>1. i \in 1 .. (m - 1)
        OBVIOUS
      <4> QED BY <2>1, <4>1 DEF FlattenSolves
    <3>4. g[i] = IF i < m THEN h[i] ELSE IF i = 1 THEN parts[i] ELSE h[i - 1] \o parts[i]
      OBVIOUS
    <3> HIDE DEF g
    <3> QED BY <3>2, <3>3, <3>4
  <2>3. g = [i \in 1 .. m |-> g[i]]
    OBVIOUS
  <2> HIDE DEF g
  <2>4. FlattenSolves(g, parts, m)
    BY <2>2, <2>3 DEF FlattenSolves
  <2> QED BY <1>0, <2>4
<1>3. \E h : FlattenSolves(h, parts, n)
  <2>1. n \in T
    <3> HIDE DEF T, n
    <3> QED BY <1>0, <1>1, <1>2, Steps!Climb
  <2> QED BY <2>1
<1>4. FlattenSolves(iter, parts, n)
  BY <1>3
<1>5. FlattenSeq(parts) = iter[n]
  BY DEF FlattenSeq, FlattenSolves
<1> HIDE DEF iter
<1>6. FlattenRun(iter, parts, n)
  <2>1. iter = [i \in 1 .. n |-> iter[i]]
    BY <1>4 DEF FlattenSolves
  <2>2. \A i \in 1 .. n : iter[i] = IF i = 1 THEN parts[i] ELSE iter[i - 1] \o parts[i]
    BY <1>4 DEF FlattenSolves
  <2>3. 1 \in 1 .. n
    BY <1>0
  <2>4. iter[1] = parts[1]
    BY <2>2, <2>3
  <2>5. ASSUME NEW i \in 2 .. n PROVE iter[i] = iter[i - 1] \o parts[i]
    <3>1. i \in 1 .. n /\ i # 1
      OBVIOUS
    <3> QED BY <2>2, <3>1
  <2> QED BY <2>1, <2>4, <2>5 DEF FlattenRun
<1> QED BY <1>5, <1>6

\* The members of parts that are joined
LEMMA FlattenVec ==
    ASSUME NEW parts, IsVec(parts), \A i \in 1 .. Len(parts) : IsVec(parts[i])
    PROVE  IsVec(FlattenSeq(parts))
           /\ ToSet(FlattenSeq(parts)) = UNION {ToSet(parts[i]) : i \in 1 .. Len(parts)}
<1> DEFINE n == Len(parts)
<1>0. n \in Nat
  BY VecSeq
<1>1. CASE n = 0
  <2>1. parts = <<>> /\ FlattenSeq(parts) = parts
    BY <1>1, VecSeq DEF FlattenSeq
  <2> QED BY <1>1, <2>1, EmptyVec
<1>2. CASE n # 0
  <2>1. PICK h : FlattenRun(h, parts, n) /\ FlattenSeq(parts) = h[n]
    BY <1>2, FlattenRuns
  <2> DEFINE Upto(i) == UNION {ToSet(parts[j]) : j \in 1 .. i}
             T == {i \in 0 .. n : i # 0 => IsVec(h[i]) /\ ToSet(h[i]) = Upto(i)}
  <2>2. 0 \in T
    BY <1>0
  <2>3. ASSUME NEW i \in 1 .. n, i - 1 \in T PROVE i \in T
    <3>1. CASE i = 1
      <4>1. h[i] = parts[1] /\ IsVec(parts[1])
        BY <2>1, <3>1, <1>0 DEF FlattenRun
      <4>2. Upto(i) = ToSet(parts[1])
        BY <3>1
      <4> HIDE DEF Upto
      <4> QED BY <4>1, <4>2
    <3>2. CASE i # 1
      <4>1. i \in 2 .. n /\ i - 1 # 0 /\ i \in 0 .. n
        BY <3>2
      <4>2. h[i] = h[i - 1] \o parts[i] /\ IsVec(parts[i])
        BY <2>1, <4>1 DEF FlattenRun
      <4>3. IsVec(h[i - 1]) /\ ToSet(h[i - 1]) = Upto(i - 1)
        BY <2>3, <4>1
      <4>4. Upto(i) = Upto(i - 1) \cup ToSet(parts[i])
        <5>1. 1 .. i = (1 .. i - 1) \cup {i}
          BY <4>1
        <5> QED BY <5>1
      <4>5. IsVec(h[i]) /\ ToSet(h[i]) = Upto(i - 1) \cup ToSet(parts[i])
        <5> HIDE DEF Upto
        <5> QED BY <4>2, <4>3, JoinVec
      <4> HIDE DEF Upto
      <4> QED BY <4>1, <4>4, <4>5
    <3> QED BY <3>1, <3>2
  <2>4. n \in T
    <3> HIDE DEF T, n
    <3> QED BY <1>0, <2>2, <2>3, Steps!Climb
  <2> QED BY <1>2, <2>1, <2>4
<1> QED BY <1>1, <1>2

\* Joining a Vec of one member is appending it.
LEMMA JoinOne ==
    ASSUME NEW s, IsVec(s), NEW x PROVE s \o <<x>> = Append(s, x)
<1> DEFINE X == ToSet(s) \cup {x}
<1>1. s \in Seq(X) /\ x \in X
  BY VecSeq
<1> HIDE DEF X
<1> QED BY <1>1

\* One more value of a function, as a sequence
LEMMA OneMore ==
    ASSUME NEW k \in Nat, NEW f
    PROVE  [j \in 1 .. k |-> f[j]] \o <<f[k + 1]>> = [j \in 1 .. (k + 1) |-> f[j]]
<1> DEFINE a == [j \in 1 .. k |-> f[j]]  b == Append(a, f[k + 1])
<1>1. IsVec(a) /\ Len(a) = k
  <2>1. a = [j \in 1 .. k |-> a[j]]
    OBVIOUS
  <2> HIDE DEF a
  <2> QED BY <2>1, MapVec
<1>2. \A i \in 1 .. k : a[i] = f[i]
  OBVIOUS
<1> HIDE DEF a
<1>3. /\ IsVec(b) /\ Len(b) = Len(a) + 1 /\ b[Len(a) + 1] = f[k + 1]
      /\ \A i \in 1 .. Len(a) : b[i] = a[i]
  BY <1>1, AppendVec
<1>4. a \o <<f[k + 1]>> = b
  BY <1>1, JoinOne
<1> HIDE DEF b
<1>5. b = [j \in 1 .. (k + 1) |-> b[j]]
  BY <1>1, <1>3, VecSeq
<1>6. ASSUME NEW j \in 1 .. (k + 1) PROVE b[j] = f[j]
  <2>1. CASE j \in 1 .. k
    BY <1>1, <1>2, <1>3, <2>1
  <2>2. CASE j = k + 1
    BY <1>1, <1>3, <2>2
  <2> QED BY <1>6, <2>1, <2>2
<1> QED BY <1>4, <1>5, <1>6 DEF a

\* Parts of one element each
LEMMA FlattenOnes ==
    ASSUME NEW n \in Nat, NEW f, f = [i \in 1 .. n |-> f[i]],
           NEW parts, parts = [i \in 1 .. n |-> <<f[i]>>]
    PROVE  FlattenSeq(parts) = f
<1>0. IsVec(parts) /\ Len(parts) = n /\ DOMAIN parts = 1 .. n /\ \A i \in 1 .. n : parts[i] = <<f[i]>>
  <2>1. \A i \in 1 .. n : parts[i] = <<f[i]>>
    OBVIOUS
  <2>2. parts = [i \in 1 .. n |-> parts[i]]
    OBVIOUS
  <2> QED BY <2>1, <2>2, MapVec
<1>1. CASE n = 0
  <2>1. FlattenSeq(parts) = parts /\ parts = <<>> /\ f = <<>>
    BY <1>0, <1>1, VecSeq DEF FlattenSeq
  <2> QED BY <2>1
<1>2. CASE n # 0
  <2>1. PICK h : FlattenRun(h, parts, n) /\ FlattenSeq(parts) = h[n]
    BY <1>0, <1>2, FlattenRuns
  <2> DEFINE Upto(i) == [j \in 1 .. i |-> f[j]]
             T == {i \in 0 .. n : i # 0 => h[i] = Upto(i)}
  <2>2. 0 \in T
    OBVIOUS
  <2>3. ASSUME NEW i \in 1 .. n, i - 1 \in T PROVE i \in T
    <3>1. CASE i = 1
      <4>1. h[1] = <<f[1]>>
        BY <1>0, <2>1, <3>1 DEF FlattenRun
      <4>2. Upto(1) = <<f[1]>>
        OBVIOUS
      <4> QED BY <3>1, <4>1, <4>2
    <3>2. CASE i # 1
      <4>1. i \in 2 .. n /\ i - 1 # 0 /\ i \in 0 .. n /\ i - 1 \in Nat
        BY <3>2
      <4>2. h[i] = h[i - 1] \o <<f[i]>>
        BY <1>0, <2>1, <4>1 DEF FlattenRun
      <4>3. h[i - 1] = Upto(i - 1)
        BY <2>3, <4>1
      <4>4. Upto(i - 1) \o <<f[i]>> = Upto(i)
        <5>1. (i - 1) + 1 = i
          BY <4>1
        <5> QED BY <4>1, <5>1, OneMore
      <4> HIDE DEF Upto
      <4> QED BY <4>1, <4>2, <4>3, <4>4
    <3> QED BY <3>1, <3>2
  <2>4. n \in T
    <3> HIDE DEF T
    <3> QED BY <2>2, <2>3, Steps!Climb
  <2>5. Upto(n) = f
    OBVIOUS
  <2> HIDE DEF Upto
  <2> QED BY <1>2, <2>1, <2>4, <2>5
<1> QED BY <1>1, <1>2

\* The members of s that are in K, in their order
LEMMA KeptVec ==
    ASSUME NEW s, IsVec(s), NEW K, NEW parts,
           parts = [i \in DOMAIN s |-> IF s[i] \in K THEN <<s[i]>> ELSE <<>>]
    PROVE  IsVec(FlattenSeq(parts)) /\ ToSet(FlattenSeq(parts)) = ToSet(s) \cap K
<1>1. DOMAIN s = 1 .. Len(s) /\ Len(s) \in Nat
  BY VecSeq
<1>2. IsVec(parts) /\ Len(parts) = Len(s)
  <2>1. parts = [i \in 1 .. Len(s) |-> parts[i]]
    BY <1>1
  <2> QED BY <1>1, <2>1, MapVec
<1>3. ASSUME NEW i \in 1 .. Len(s)
      PROVE  /\ parts[i] = IF s[i] \in K THEN <<s[i]>> ELSE <<>>
             /\ IsVec(parts[i]) /\ ToSet(parts[i]) = {s[i]} \cap K
  <2>1. parts[i] = IF s[i] \in K THEN <<s[i]>> ELSE <<>>
    BY <1>1
  <2>2. CASE s[i] \in K
    BY <2>1, <2>2, OneVec
  <2>3. CASE s[i] \notin K
    BY <2>1, <2>3, EmptyVec
  <2> QED BY <2>1, <2>2, <2>3
<1>4. /\ IsVec(FlattenSeq(parts))
      /\ ToSet(FlattenSeq(parts)) = UNION {ToSet(parts[i]) : i \in 1 .. Len(s)}
  <2>1. \A i \in 1 .. Len(parts) : IsVec(parts[i])
    BY <1>2, <1>3
  <2>2. /\ IsVec(FlattenSeq(parts))
        /\ ToSet(FlattenSeq(parts)) = UNION {ToSet(parts[i]) : i \in 1 .. Len(parts)}
    BY <1>2, <2>1, FlattenVec
  <2> QED BY <1>2, <2>2
<1>5. UNION {ToSet(parts[i]) : i \in 1 .. Len(s)} = ToSet(s) \cap K
  <2>1. ASSUME NEW x \in UNION {ToSet(parts[i]) : i \in 1 .. Len(s)} PROVE x \in ToSet(s) \cap K
    <3>1. PICK i \in 1 .. Len(s) : x \in ToSet(parts[i])
      BY <2>1
    <3>2. x = s[i] /\ x \in K
      BY <1>3, <3>1
    <3> QED BY <3>2, VecSeq
  <2>2. ASSUME NEW x \in ToSet(s) \cap K
        PROVE  x \in UNION {ToSet(parts[i]) : i \in 1 .. Len(s)}
    <3>1. PICK i \in 1 .. Len(s) : s[i] = x
      BY VecSeq
    <3>2. x \in ToSet(parts[i])
      BY <1>3, <3>1
    <3> QED BY <3>2
  <2> QED BY <2>1, <2>2
<1> QED BY <1>4, <1>5

(* -------------------------------- parsing -------------------------------- *)

Types == DOMAIN Values

RawPolicyOK(p) == /\ DOMAIN p = {"headers", "query", "timeout"}
                  /\ VecOf(IsPolicyStmt, p.headers) /\ VecOf(IsPolicyStmt, p.query)

UseOK(u) == u.kind \in {"Bearer", "Header", "Query", "Basic"}

RateSpecOK(spec) == spec = None \/ IsRateLimitSpec(spec)
RouteOK(route) == route = None \/ VecOf(IsRouteAtom, route)
DeclsOK(decls) == VecOf(LAMBDA d : IsVarDecl(Types, d), decls)

\* What client, scope and endpoint have in common
RawSiteOK(raw) == RawPolicyOK(raw.policy) /\ VecOf(UseOK, raw.auth) /\ IsVec(raw.profiles)

RawScopeOK(raw) ==
    /\ DOMAIN raw = {"err", "name", "params", "host", "path", "policy", "profiles", "auth",
                     "rate", "keys"}
    /\ RawSiteOK(raw) /\ DeclsOK(raw.params) /\ RouteOK(raw.host) /\ RouteOK(raw.path)
    /\ RateSpecOK(raw.rate) /\ IsVec(raw.keys)

RawPartsOK(raw) ==
    /\ DOMAIN raw = {"err", "route", "policy", "profiles", "auth", "rate", "keys", "paginate"}
    /\ RawSiteOK(raw) /\ VecOf(IsRouteAtom, raw.route) /\ RateSpecOK(raw.rate) /\ IsVec(raw.keys)

RawEndpointOK(e) ==
    /\ RawSiteOK(e) /\ DeclsOK(e.params) /\ VecOf(IsRouteAtom, e.route) /\ RateSpecOK(e.rate)
    /\ IsVec(e.keys)

BundleOK(def) == VecOf(UseOK, def.auth) /\ VecOf(IsRateLimitSpec, def.rate)
RateProfileOK(def) == VecOf(IsRateLimitBucket, def.plan)

RawClientOK(raw) ==
    /\ DOMAIN raw = {"err", "base", "vars", "secrets", "creds", "auth", "profiles",
                     "rateProfiles", "defaultRate", "observe", "bundles", "policy",
                     "seenDefault"}
    /\ RawSiteOK(raw) /\ DeclsOK(raw.vars) /\ VecOf(RateProfileOK, raw.rateProfiles)
    /\ IsVec(raw.defaultRate) /\ VecOf(BundleOK, raw.bundles)

\* r is raw, but for the fields of S
Same(r, raw, S) == DOMAIN r = DOMAIN raw /\ \A f \in DOMAIN raw \ S : r[f] = raw[f]

\* A refused clause changes nothing but the error.
LEMMA RefuseSame ==
    ASSUME NEW raw, NEW S, "err" \in S PROVE Same(Refuse(raw), raw, S)
  BY DEF Same, Refuse

\* A header, query or timeout clause changes only the policy, and leaves it well-formed.
LEMMA PolicyClauseKeeps ==
    ASSUME NEW raw, {"err", "policy"} \subseteq DOMAIN raw, RawPolicyOK(raw.policy),
           NEW types, NEW cl, IsClause(types, cl), cl.c \in PolicyClauses
    PROVE  /\ Same(PolicyClause(raw, cl), raw, {"err", "policy"})
           /\ RawPolicyOK(PolicyClause(raw, cl).policy)
<1> DEFINE r == PolicyClause(raw, cl)
           p == raw.policy
           Put(q) == r = [raw EXCEPT !.policy = q]
<1>1. CASE r = Refuse(raw)
  <2>1. Same(r, raw, {"err"}) /\ Same(r, raw, {"err", "policy"})
    BY <1>1, RefuseSame
  <2>2. r.policy = p
    BY <2>1 DEF Same
  <2> QED BY <2>1, <2>2
<1>2. ASSUME NEW q, r = [raw EXCEPT !.policy = q], RawPolicyOK(q)
      PROVE  Same(r, raw, {"err", "policy"}) /\ RawPolicyOK(r.policy)
  <2>1. r.policy = q /\ Same(r, raw, {"err", "policy"})
    BY <1>2 DEF Same
  <2> QED BY <1>2, <2>1
<1>3. ASSUME NEW stmts, VecOf(IsPolicyStmt, stmts)
      PROVE  /\ RawPolicyOK([p EXCEPT !.headers = @ \o stmts])
             /\ RawPolicyOK([p EXCEPT !.query = @ \o stmts])
  <2>1. VecOf(IsPolicyStmt, p.headers \o stmts) /\ VecOf(IsPolicyStmt, p.query \o stmts)
    BY <1>3, JoinVec DEF VecOf, RawPolicyOK
  <2> QED BY <2>1 DEF RawPolicyOK
<1>4. ASSUME NEW stmt, IsPolicyStmt(stmt)
      PROVE  /\ RawPolicyOK([p EXCEPT !.headers = Append(@, stmt)])
             /\ RawPolicyOK([p EXCEPT !.query = Append(@, stmt)])
  <2>1. VecOf(IsPolicyStmt, Append(p.headers, stmt)) /\ VecOf(IsPolicyStmt, Append(p.query, stmt))
    BY <1>4, AppendVec DEF VecOf, RawPolicyOK
  <2> QED BY <2>1 DEF RawPolicyOK
<1>5. CASE cl.c \in {"headers", "queries"}
  <2>1. VecOf(IsPolicyStmt, cl.stmts)
    BY <1>5 DEF IsClause
  <2>2. \/ r = Refuse(raw)
        \/ r = [raw EXCEPT !.policy = [p EXCEPT !.headers = @ \o cl.stmts]]
        \/ r = [raw EXCEPT !.policy = [p EXCEPT !.query = @ \o cl.stmts]]
    BY <1>5 DEF PolicyClause, parse_policy_block
  <2> HIDE DEF p
  <2> QED BY <1>1, <1>2, <1>3, <2>1, <2>2
<1>6. CASE cl.c \in {"header", "query"}
  <2>1. IsPolicyStmt(cl.stmt)
    BY <1>6 DEF IsClause
  <2>2. \/ r = Refuse(raw)
        \/ r = [raw EXCEPT !.policy = [p EXCEPT !.headers = Append(@, cl.stmt)]]
        \/ r = [raw EXCEPT !.policy = [p EXCEPT !.query = Append(@, cl.stmt)]]
    BY <1>6 DEF PolicyClause
  <2> HIDE DEF p
  <2> QED BY <1>1, <1>2, <1>4, <2>1, <2>2
<1>7. CASE cl.c = "timeout"
  <2>1. r = [raw EXCEPT !.policy = [p EXCEPT !.timeout = cl.value]]
    BY <1>7 DEF PolicyClause
  <2>2. RawPolicyOK([p EXCEPT !.timeout = cl.value])
    BY DEF RawPolicyOK
  <2> HIDE DEF p
  <2> QED BY <1>2, <2>1, <2>2
<1> QED BY <1>5, <1>6, <1>7 DEF PolicyClauses

\* An auth clause changes only the credentials used.
LEMMA AuthClauseKeeps ==
    ASSUME NEW raw, {"err", "auth"} \subseteq DOMAIN raw, VecOf(UseOK, raw.auth), NEW cl
    PROVE  /\ Same(AuthClause(raw, cl), raw, {"err", "auth"})
           /\ VecOf(UseOK, AuthClause(raw, cl).auth)
<1> DEFINE r == AuthClause(raw, cl)
<1>1. CASE ~ parse_auth_use_kind(cl.use)
  <2>1. r = Refuse(raw)
    BY <1>1 DEF AuthClause
  <2>2. Same(r, raw, {"err"}) /\ Same(r, raw, {"err", "auth"})
    BY <2>1, RefuseSame
  <2>3. r.auth = raw.auth
    BY <2>2 DEF Same
  <2> QED BY <2>2, <2>3
<1>2. CASE parse_auth_use_kind(cl.use)
  <2>1. r = [raw EXCEPT !.auth = Append(@, cl.use)]
    BY <1>2 DEF AuthClause
  <2>2. VecOf(UseOK, Append(raw.auth, cl.use))
    BY <1>2, AppendVec DEF VecOf, UseOK, parse_auth_use_kind
  <2>3. r.auth = Append(raw.auth, cl.use) /\ Same(r, raw, {"err", "auth"})
    BY <2>1 DEF Same
  <2> QED BY <2>2, <2>3
<1> QED BY <1>1, <1>2

\* A profile clause changes only the profiles used.
LEMMA ProfileClauseKeeps ==
    ASSUME NEW raw, {"err", "profiles"} \subseteq DOMAIN raw, IsVec(raw.profiles),
           NEW cl, IsVec(cl.names)
    PROVE  /\ Same(ProfileClause(raw, cl), raw, {"err", "profiles"})
           /\ IsVec(ProfileClause(raw, cl).profiles)
<1> DEFINE r == ProfileClause(raw, cl)
<1>1. CASE ~ parse_profile_use_spec(cl.names)
  <2>1. r = Refuse(raw)
    BY <1>1 DEF ProfileClause
  <2>2. Same(r, raw, {"err"}) /\ Same(r, raw, {"err", "profiles"})
    BY <2>1, RefuseSame
  <2>3. r.profiles = raw.profiles
    BY <2>2 DEF Same
  <2> QED BY <2>2, <2>3
<1>2. CASE parse_profile_use_spec(cl.names)
  <2>1. r = [raw EXCEPT !.profiles = @ \o cl.names]
    BY <1>2 DEF ProfileClause
  <2>2. IsVec(raw.profiles \o cl.names)
    BY JoinVec
  <2>3. r.profiles = raw.profiles \o cl.names /\ Same(r, raw, {"err", "profiles"})
    BY <2>1 DEF Same
  <2> QED BY <2>2, <2>3
<1> QED BY <1>1, <1>2

\* A rate_key or rate_limit clause changes only the keys and the rate limit.
LEMMA RateLimitClauseKeeps ==
    ASSUME NEW raw, {"err", "rate", "keys"} \subseteq DOMAIN raw, RateSpecOK(raw.rate),
           IsVec(raw.keys), NEW types, NEW cl, IsClause(types, cl),
           cl.c \in {"rate_key", "rate_limit"}
    PROVE  /\ Same(RateLimitClause(raw, cl), raw, {"err", "rate", "keys"})
           /\ RateSpecOK(RateLimitClause(raw, cl).rate) /\ IsVec(RateLimitClause(raw, cl).keys)
<1> DEFINE r == RateLimitClause(raw, cl)
<1>1. CASE cl.c = "rate_key"
  <2>1. r = [raw EXCEPT !.keys = Append(@, cl.binding)]
    BY <1>1 DEF RateLimitClause
  <2>2. IsVec(Append(raw.keys, cl.binding))
    BY AppendVec
  <2>3. /\ r.keys = Append(raw.keys, cl.binding) /\ r.rate = raw.rate
        /\ Same(r, raw, {"err", "rate", "keys"})
    BY <2>1 DEF Same
  <2> QED BY <2>2, <2>3
<1>2. CASE cl.c = "rate_limit"
  <2>1. r = Refuse(raw) \/ r = [raw EXCEPT !.rate = cl.spec]
    BY <1>2 DEF RateLimitClause
  <2>2. IsRateLimitSpec(cl.spec)
    BY <1>2 DEF IsClause
  <2>3. /\ r.keys = raw.keys /\ (r.rate = raw.rate \/ r.rate = cl.spec)
        /\ Same(r, raw, {"err", "rate", "keys"})
    BY <2>1 DEF Same, Refuse
  <2> QED BY <2>2, <2>3 DEF RateSpecOK
<1> QED BY <1>1, <1>2

\* Each clause of a scope leaves the scope as the grammar promises it.
LEMMA ScopeClauseKeeps ==
    ASSUME NEW raw, RawScopeOK(raw), NEW types, NEW cl, IsClause(types, cl)
    PROVE  RawScopeOK(ScopeClause(raw, cl))
<1> DEFINE r == ScopeClause(raw, cl)
<1>1. CASE r = Refuse(raw)
  <2>1. Same(r, raw, {"err"})
    BY <1>1, RefuseSame
  <2> HIDE DEF r
  <2> QED BY <2>1 DEF Same, RawScopeOK, RawSiteOK, r
<1>2. CASE cl.c \in {"host", "path"} /\ r # Refuse(raw)
  <2>1. RouteOK(cl.route)
    BY <1>2 DEF IsClause, RouteOK
  <2>2. r = [raw EXCEPT !.host = cl.route] \/ r = [raw EXCEPT !.path = cl.route]
    BY <1>2 DEF ScopeClause, PolicyClauses
  <2>3. /\ Same(r, raw, {"host", "path"}) /\ r.host \in {raw.host, cl.route}
        /\ r.path \in {raw.path, cl.route}
    BY <2>2 DEF Same, RawScopeOK
  <2> HIDE DEF r
  <2> QED BY <2>1, <2>3 DEF Same, RawScopeOK, RawSiteOK, r
<1>3. CASE cl.c \in PolicyClauses
  <2>1. r = PolicyClause(raw, cl)
    BY <1>3 DEF ScopeClause, PolicyClauses
  <2>2. Same(r, raw, {"err", "policy"}) /\ RawPolicyOK(r.policy)
    BY <1>3, <2>1, PolicyClauseKeeps DEF RawScopeOK, RawSiteOK
  <2> HIDE DEF r
  <2> QED BY <2>2 DEF Same, RawScopeOK, RawSiteOK, r
<1>4. CASE cl.c = "profile"
  <2>1. r = ProfileClause(raw, cl) /\ IsVec(cl.names)
    BY <1>4 DEF ScopeClause, PolicyClauses, IsClause
  <2>2. Same(r, raw, {"err", "profiles"}) /\ IsVec(r.profiles)
    BY <2>1, ProfileClauseKeeps DEF RawScopeOK, RawSiteOK
  <2> HIDE DEF r
  <2> QED BY <2>2 DEF Same, RawScopeOK, RawSiteOK, r
<1>5. CASE cl.c = "auth"
  <2>1. r = AuthClause(raw, cl)
    BY <1>5 DEF ScopeClause, PolicyClauses
  <2>2. Same(r, raw, {"err", "auth"}) /\ VecOf(UseOK, r.auth)
    BY <2>1, AuthClauseKeeps DEF RawScopeOK, RawSiteOK
  <2> HIDE DEF r
  <2> QED BY <2>2 DEF Same, RawScopeOK, RawSiteOK, r
<1>6. CASE cl.c \in {"rate_key", "rate_limit"}
  <2>1. r = RateLimitClause(raw, cl)
    BY <1>6 DEF ScopeClause, PolicyClauses
  <2>2. Same(r, raw, {"err", "rate", "keys"}) /\ RateSpecOK(r.rate) /\ IsVec(r.keys)
    BY <1>6, <2>1, RateLimitClauseKeeps DEF RawScopeOK
  <2> HIDE DEF r
  <2> QED BY <2>2 DEF Same, RawScopeOK, RawSiteOK, r
<1>7. CASE cl.c \notin {"host", "path", "profile", "auth", "rate_key", "rate_limit"} \cup PolicyClauses
  <2>1. r = Refuse(raw)
    BY <1>7 DEF ScopeClause, PolicyClauses
  <2> QED BY <1>1, <2>1
<1> QED BY <1>1, <1>2, <1>3, <1>4, <1>5, <1>6, <1>7

ScopeStep(c, d, raw, cl) == IF raw.err THEN raw ELSE ScopeClause(raw, cl)
ScopeInv(c, d, i, raw) == RawScopeOK(raw)
ScopeFold == INSTANCE LeftFolds WITH Op <- ScopeStep, Inv <- ScopeInv

\* The policy before its first clause
LEMMA EmptyPolicyOK == RawPolicyOK(NoPolicy)
  BY EmptyVec DEF RawPolicyOK, NoPolicy, VecOf

\* parse_scope: what it accepts is well-formed.
LEMMA ParsedScope ==
    ASSUME NEW text, IsScopeText(Types, text)
    PROVE  RawScopeOK(parse_scope(text))
<1> DEFINE base == RawScope(text.name, text.params)
<1>1. parse_scope(text) = ScopeFold!Fold(0, 0, base, text.body)
  BY DEF parse_scope, ParseBlock, ScopeFold!Fold, ScopeStep, FoldLeft, MapThenFoldSet, Max,
         ScopeFold!FoldLeft, ScopeFold!MapThenFoldSet, ScopeFold!Max
<1>2. ScopeInv(0, 0, 0, base)
  <2>1. DeclsOK(text.params)
    BY DEF IsScopeText, DeclsOK
  <2> QED BY <2>1, EmptyVec, EmptyPolicyOK
          DEF ScopeInv, RawScope, RawScopeOK, RawSiteOK, VecOf, RouteOK, RateSpecOK
<1>3. IsVec(text.body) /\ \A cl \in ToSet(text.body) : IsClause(Types, cl)
  BY DEF IsScopeText, IsBlock, VecOf
<1>4. Len(text.body) \in Nat /\ DOMAIN text.body = 1 .. Len(text.body)
  BY <1>3, VecSeq
<1>5. ASSUME NEW i \in 1 .. Len(text.body), NEW raw, ScopeInv(0, 0, i - 1, raw)
      PROVE  ScopeInv(0, 0, i, ScopeStep(0, 0, raw, text.body[i]))
  <2>1. IsClause(Types, text.body[i])
    BY <1>3, VecSeq
  <2> QED BY <1>5, <2>1, ScopeClauseKeeps DEF ScopeInv, ScopeStep
<1> HIDE DEF base
<1>6. ScopeInv(0, 0, Len(text.body), ScopeFold!Fold(0, 0, base, text.body))
  BY <1>2, <1>4, <1>5, ScopeFold!FoldKeeps
<1> QED BY <1>1, <1>6 DEF ScopeInv

\* Each clause of an endpoint's body leaves its parts well-formed.
LEMMA EndpointClauseKeeps ==
    ASSUME NEW raw, RawPartsOK(raw), NEW types, NEW cl, IsClause(types, cl)
    PROVE  RawPartsOK(EndpointClause(raw, cl))
<1> DEFINE r == EndpointClause(raw, cl)
<1>1. CASE r = Refuse(raw)
  <2>1. Same(r, raw, {"err"})
    BY <1>1, RefuseSame
  <2> HIDE DEF r
  <2> QED BY <2>1 DEF Same, RawPartsOK, RawSiteOK, r
<1>2. CASE cl.c = "path" /\ r # Refuse(raw)
  <2>1. VecOf(IsRouteAtom, cl.route)
    BY <1>2 DEF IsClause
  <2>2. r = [raw EXCEPT !.route = cl.route]
    BY <1>2 DEF EndpointClause, PolicyClauses
  <2>3. Same(r, raw, {"route"}) /\ r.route = cl.route
    BY <2>2 DEF Same, RawPartsOK
  <2> HIDE DEF r
  <2> QED BY <2>1, <2>3 DEF Same, RawPartsOK, RawSiteOK, r
<1>3. CASE cl.c \in PolicyClauses
  <2>1. r = PolicyClause(raw, cl)
    BY <1>3 DEF EndpointClause, PolicyClauses
  <2>2. Same(r, raw, {"err", "policy"}) /\ RawPolicyOK(r.policy)
    BY <1>3, <2>1, PolicyClauseKeeps DEF RawPartsOK, RawSiteOK
  <2> HIDE DEF r
  <2> QED BY <2>2 DEF Same, RawPartsOK, RawSiteOK, r
<1>4. CASE cl.c = "profile"
  <2>1. r = ProfileClause(raw, cl) /\ IsVec(cl.names)
    BY <1>4 DEF EndpointClause, PolicyClauses, IsClause
  <2>2. Same(r, raw, {"err", "profiles"}) /\ IsVec(r.profiles)
    BY <2>1, ProfileClauseKeeps DEF RawPartsOK, RawSiteOK
  <2> HIDE DEF r
  <2> QED BY <2>2 DEF Same, RawPartsOK, RawSiteOK, r
<1>5. CASE cl.c = "auth"
  <2>1. r = AuthClause(raw, cl)
    BY <1>5 DEF EndpointClause, PolicyClauses
  <2>2. Same(r, raw, {"err", "auth"}) /\ VecOf(UseOK, r.auth)
    BY <2>1, AuthClauseKeeps DEF RawPartsOK, RawSiteOK
  <2> HIDE DEF r
  <2> QED BY <2>2 DEF Same, RawPartsOK, RawSiteOK, r
<1>6. CASE cl.c \in {"rate_key", "rate_limit"}
  <2>1. r = RateLimitClause(raw, cl)
    BY <1>6 DEF EndpointClause, PolicyClauses
  <2>2. Same(r, raw, {"err", "rate", "keys"}) /\ RateSpecOK(r.rate) /\ IsVec(r.keys)
    BY <1>6, <2>1, RateLimitClauseKeeps DEF RawPartsOK
  <2> HIDE DEF r
  <2> QED BY <2>2 DEF Same, RawPartsOK, RawSiteOK, r
<1>7. CASE cl.c = "paginate" /\ r # Refuse(raw)
  <2>1. r = [raw EXCEPT !.paginate = cl.assigns]
    BY <1>7 DEF EndpointClause, PolicyClauses
  <2>2. Same(r, raw, {"paginate"})
    BY <2>1 DEF Same
  <2> HIDE DEF r
  <2> QED BY <2>2 DEF Same, RawPartsOK, RawSiteOK, r
<1>8. CASE cl.c \notin {"path", "profile", "auth", "rate_key", "rate_limit", "paginate"} \cup PolicyClauses
  <2>1. r = Refuse(raw)
    BY <1>8 DEF EndpointClause, PolicyClauses
  <2> QED BY <1>1, <2>1
<1> QED BY <1>1, <1>2, <1>3, <1>4, <1>5, <1>6, <1>7, <1>8

PartsStep(c, d, raw, cl) == IF raw.err THEN raw ELSE EndpointClause(raw, cl)
PartsInv(c, d, i, raw) == RawPartsOK(raw)
PartsFold == INSTANCE LeftFolds WITH Op <- PartsStep, Inv <- PartsInv

\* The clauses before or after the response of an endpoint
LEMMA PartsRead ==
    ASSUME NEW text, IsVec(text), \A cl \in ToSet(text) : IsClause(Types, cl), NEW base, RawPartsOK(base)
    PROVE  RawPartsOK(ParseBlock(EndpointClause, base, text))
<1>1. ParseBlock(EndpointClause, base, text) = PartsFold!Fold(0, 0, base, text)
  BY DEF ParseBlock, PartsFold!Fold, PartsStep, FoldLeft, MapThenFoldSet, Max,
         PartsFold!FoldLeft, PartsFold!MapThenFoldSet, PartsFold!Max
<1>2. PartsInv(0, 0, 0, base)
  BY DEF PartsInv
<1>3. Len(text) \in Nat /\ DOMAIN text = 1 .. Len(text)
  BY VecSeq
<1>4. ASSUME NEW i \in 1 .. Len(text), NEW raw, PartsInv(0, 0, i - 1, raw)
      PROVE  PartsInv(0, 0, i, PartsStep(0, 0, raw, text[i]))
  <2>1. text[i] \in ToSet(text)
    BY VecSeq
  <2> QED BY <1>4, <2>1, EndpointClauseKeeps DEF PartsInv, PartsStep
<1>5. PartsInv(0, 0, Len(text), PartsFold!Fold(0, 0, base, text))
  BY <1>2, <1>3, <1>4, PartsFold!FoldKeeps
<1> QED BY <1>1, <1>5 DEF PartsInv

RawSignatureOK(raw) == DOMAIN raw = {"err", "params", "body"} /\ DeclsOK(raw.params)

\* Each argument of an endpoint's signature is a parameter or the body.
LEMMA SignatureArgKeeps ==
    ASSUME NEW raw, RawSignatureOK(raw), NEW arg, IsClause(Types, arg)
    PROVE  RawSignatureOK(SignatureArg(raw, arg)) \/ arg.c \notin {"param", "body"}
<1> DEFINE r == SignatureArg(raw, arg)
<1>1. CASE arg.c = "param"
  <2>1. DeclsOK(Append(raw.params, arg.decl))
    BY <1>1, AppendVec DEF DeclsOK, VecOf, RawSignatureOK, IsClause
  <2>2. r = [raw EXCEPT !.params = Append(@, arg.decl)]
    BY <1>1 DEF SignatureArg
  <2> QED BY <2>1, <2>2 DEF RawSignatureOK
<1>2. CASE arg.c = "body"
  <2>1. r = Refuse(raw) \/ r = [raw EXCEPT !.body = arg.io]
    BY <1>2 DEF SignatureArg
  <2>2. DOMAIN r = DOMAIN raw /\ r.params = raw.params
    BY <2>1 DEF RawSignatureOK, Refuse
  <2> QED BY <2>2 DEF RawSignatureOK
<1> QED BY <1>1, <1>2

SignatureStep(c, d, raw, cl) == IF raw.err THEN raw ELSE SignatureArg(raw, cl)
SignatureInv(c, d, i, raw) == RawSignatureOK(raw)
SignatureFold == INSTANCE LeftFolds WITH Op <- SignatureStep, Inv <- SignatureInv

\* The arguments of the signature
LEMMA SignatureRead ==
    ASSUME NEW text, IsVec(text), \A cl \in ToSet(text) : IsClause(Types, cl) /\ cl.c \in {"param", "body"}, NEW base, RawSignatureOK(base)
    PROVE  RawSignatureOK(ParseBlock(SignatureArg, base, text))
<1>1. ParseBlock(SignatureArg, base, text) = SignatureFold!Fold(0, 0, base, text)
  BY DEF ParseBlock, SignatureFold!Fold, SignatureStep, FoldLeft, MapThenFoldSet, Max,
         SignatureFold!FoldLeft, SignatureFold!MapThenFoldSet, SignatureFold!Max
<1>2. SignatureInv(0, 0, 0, base)
  BY DEF SignatureInv
<1>3. Len(text) \in Nat /\ DOMAIN text = 1 .. Len(text)
  BY VecSeq
<1>4. ASSUME NEW i \in 1 .. Len(text), NEW raw, SignatureInv(0, 0, i - 1, raw)
      PROVE  SignatureInv(0, 0, i, SignatureStep(0, 0, raw, text[i]))
  <2>1. text[i] \in ToSet(text)
    BY VecSeq
  <2> QED BY <1>4, <2>1, SignatureArgKeeps DEF SignatureInv, SignatureStep
<1>5. SignatureInv(0, 0, Len(text), SignatureFold!Fold(0, 0, base, text))
  BY <1>2, <1>3, <1>4, SignatureFold!FoldKeeps
<1> QED BY <1>1, <1>5 DEF SignatureInv

\* parse_endpoint: what it accepts is well-formed.
LEMMA ParsedEndpoint ==
    ASSUME NEW text, IsEndpointText(Types, text)
    PROVE  RawEndpointOK(parse_endpoint(text))
<1> DEFINE sig == parse_endpoint_signature_args(text.args)
           a == parse_endpoint_inline_parts(text.leading)
           b == parse_endpoint_inline_parts(text.trailing)
<1>1. ASSUME NEW part, part \in {text.args, text.leading, text.trailing}
      PROVE  IsVec(part) /\ \A cl \in ToSet(part) : IsClause(Types, cl)
  BY <1>1 DEF IsEndpointText, IsBlock, VecOf
<1>2. RawSignatureOK(sig)
  <2>1. RawSignatureOK([err |-> FALSE, params |-> <<>>, body |-> None])
    BY EmptyVec DEF RawSignatureOK, DeclsOK, VecOf
  <2>2. \A cl \in ToSet(text.args) : cl.c \in {"param", "body"}
    BY DEF IsEndpointText
  <2> QED BY <1>1, <2>1, <2>2, SignatureRead DEF parse_endpoint_signature_args
<1>3. RawPartsOK(EndpointParts)
  BY EmptyVec, EmptyPolicyOK DEF EndpointParts, RawPartsOK, RawSiteOK, VecOf, RateSpecOK
<1>4. RawPartsOK(a) /\ RawPartsOK(b)
  BY <1>1, <1>3, PartsRead DEF parse_endpoint_inline_parts
<1> HIDE DEF a, b
<1> DEFINE m == MergeParts(a, b)
<1>5. RawSiteOK(m) /\ VecOf(IsRouteAtom, m.route) /\ RateSpecOK(m.rate) /\ IsVec(m.keys)
  <2>1. /\ VecOf(IsPolicyStmt, a.policy.headers \o b.policy.headers)
        /\ VecOf(IsPolicyStmt, a.policy.query \o b.policy.query)
        /\ VecOf(UseOK, a.auth \o b.auth)
    BY <1>4, JoinVec DEF RawPartsOK, RawSiteOK, RawPolicyOK, VecOf
  <2>2. IsVec(a.profiles \o b.profiles) /\ IsVec(a.keys \o b.keys)
    BY <1>4, JoinVec DEF RawPartsOK, RawSiteOK
  <2>3. RawPolicyOK(m.policy)
    BY <2>1 DEF RawPolicyOK, MergeParts
  <2>4. m.auth = a.auth \o b.auth /\ m.profiles = a.profiles \o b.profiles /\ m.keys = a.keys \o b.keys
    BY DEF MergeParts
  <2>5. m.route \in {a.route, b.route} /\ m.rate \in {a.rate, b.rate}
    BY DEF MergeParts, Either
  <2> HIDE DEF m
  <2> QED BY <1>4, <2>1, <2>2, <2>3, <2>4, <2>5 DEF RawPartsOK, RawSiteOK
<1> HIDE DEF sig
<1>6. /\ parse_endpoint(text).params = sig.params /\ parse_endpoint(text).route = m.route
      /\ parse_endpoint(text).policy = m.policy /\ parse_endpoint(text).profiles = m.profiles
      /\ parse_endpoint(text).auth = m.auth /\ parse_endpoint(text).rate = m.rate
      /\ parse_endpoint(text).keys = m.keys
  BY DEF parse_endpoint, sig, a, b
<1> HIDE DEF m
<1> QED BY <1>2, <1>5, <1>6 DEF RawEndpointOK, RawSiteOK, RawSignatureOK

\* A refused clause leaves the client well-formed.
LEMMA ClientRefuses ==
    ASSUME NEW raw, RawClientOK(raw) PROVE RawClientOK(Refuse(raw))
<1> DEFINE r == Refuse(raw)
<1>1. Same(r, raw, {"err"})
  BY RefuseSame
<1> HIDE DEF r
<1> QED BY <1>1 DEF Same, RawClientOK, RawSiteOK, r

\* r differs from raw in one of the fields that no property is about
LEMMA ClientSame ==
    ASSUME NEW raw, RawClientOK(raw), NEW r,
           Same(r, raw, {"err", "base", "secrets", "creds", "observe", "seenDefault"})
    PROVE  RawClientOK(r)
  BY DEF Same, RawClientOK, RawSiteOK

\* A clause of the client's auth group keeps the client well-formed.
LEMMA AuthGroupClauseKeeps ==
    ASSUME NEW raw, RawClientOK(raw), NEW cl
    PROVE  RawClientOK(AuthGroupClause(raw, cl)) /\ RawClientOK(SecretClause(raw, cl))
           /\ RawClientOK(CredentialClause(raw, cl))
<1>1. Same(SecretClause(raw, cl), raw, {"err", "base", "secrets", "creds", "observe", "seenDefault"})
  BY DEF SecretClause, Same
<1>2. CredentialClause(raw, cl) = Refuse(raw)
      \/ CredentialClause(raw, cl) = [raw EXCEPT !.creds = Append(@, cl.decl)]
  BY DEF CredentialClause
<1>3. Same(CredentialClause(raw, cl), raw, {"err", "base", "secrets", "creds", "observe", "seenDefault"})
  BY <1>2 DEF Same, Refuse
<1>4. AuthGroupClause(raw, cl) \in {SecretClause(raw, cl), CredentialClause(raw, cl), Refuse(raw)}
  BY DEF AuthGroupClause
<1> QED BY <1>1, <1>3, <1>4, ClientRefuses, ClientSame

\* A rate-limit profile keeps the client well-formed.
LEMMA RateProfileClauseKeeps ==
    ASSUME NEW raw, RawClientOK(raw), NEW cl, IsClause(Types, cl), cl.c = "rate_profile"
    PROVE  RawClientOK(RateProfileClause(raw, cl))
<1>1. RateProfileOK(cl.def)
  BY DEF IsClause, RateProfileOK
<1>2. VecOf(RateProfileOK, Append(raw.rateProfiles, cl.def))
  BY <1>1, AppendVec DEF RawClientOK, VecOf
<1> DEFINE r == [raw EXCEPT !.rateProfiles = Append(@, cl.def)]
<1>3. RateProfileClause(raw, cl) \in {Refuse(raw), r}
  BY DEF RateProfileClause
<1>4. Same(r, raw, {"rateProfiles"}) /\ r.rateProfiles = Append(raw.rateProfiles, cl.def)
  BY DEF Same, RawClientOK
<1>5. RawClientOK(r)
  <2> HIDE DEF r
  <2> QED BY <1>2, <1>4 DEF Same, RawClientOK, RawSiteOK
<1> QED BY <1>3, <1>5, ClientRefuses

\* An observe clause keeps the client well-formed.
LEMMA ObserveClauseKeeps ==
    ASSUME NEW raw, RawClientOK(raw), NEW cl
    PROVE  RawClientOK(ObserveClause(raw, cl))
<1>1. Same(ObserveClause(raw, cl), raw, {"err", "base", "secrets", "creds", "observe", "seenDefault"})
  BY DEF ObserveClause, Same, Refuse
<1> QED BY <1>1, ClientSame

\* A clause of the policies group keeps the client well-formed.
LEMMA PoliciesGroupClauseKeeps ==
    ASSUME NEW raw, RawClientOK(raw), NEW cl, IsClause(Types, cl)
    PROVE  RawClientOK(PoliciesGroupClause(raw, cl))
  BY RateProfileClauseKeeps, ObserveClauseKeeps, ClientRefuses DEF PoliciesGroupClause

\* A clause of a policy bundle keeps the bundle well-formed.
LEMMA BundleClauseKeeps ==
    ASSUME NEW raw, RawClientOK(raw), NEW cl, IsClause(Types, cl)
    PROVE  RawClientOK(BundleClause(raw, cl))
<1> DEFINE r == [raw EXCEPT !.bundles = Append(@, cl.def)]
<1>1. CASE cl.c = "bundle" /\ parse_profile_patch_body(cl.def)
  <2>1. BundleOK(cl.def)
    BY <1>1 DEF IsClause, IsProfileDef, BundleOK, VecOf, UseOK, parse_profile_patch_body, parse_auth_use_kind
  <2>2. VecOf(BundleOK, Append(raw.bundles, cl.def))
    BY <2>1, AppendVec DEF RawClientOK, VecOf
  <2>3. Same(r, raw, {"bundles"}) /\ r.bundles = Append(raw.bundles, cl.def)
    BY DEF Same, RawClientOK
  <2>4. BundleClause(raw, cl) = r
    BY <1>1 DEF BundleClause
  <2> HIDE DEF r
  <2> QED BY <2>2, <2>3, <2>4 DEF Same, RawClientOK, RawSiteOK
<1>2. CASE ~ (cl.c = "bundle" /\ parse_profile_patch_body(cl.def))
  BY <1>2, ClientRefuses DEF BundleClause
<1> QED BY <1>1, <1>2

\* The clauses that client and default block share
LEMMA ClientSiteClauses ==
    ASSUME NEW raw, RawClientOK(raw), NEW cl, IsClause(Types, cl)
    PROVE  /\ cl.c \in PolicyClauses => RawClientOK(PolicyClause(raw, cl))
           /\ cl.c = "profile" => RawClientOK(ProfileClause(raw, cl))
           /\ RawClientOK(AuthClause(raw, cl))
<1>1. ASSUME cl.c \in PolicyClauses PROVE RawClientOK(PolicyClause(raw, cl))
  <2> DEFINE r == PolicyClause(raw, cl)
  <2>1. Same(r, raw, {"err", "policy"}) /\ RawPolicyOK(r.policy)
    BY <1>1, PolicyClauseKeeps DEF RawClientOK, RawSiteOK
  <2> HIDE DEF r
  <2> QED BY <2>1 DEF Same, RawClientOK, RawSiteOK, r
<1>2. ASSUME cl.c = "profile" PROVE RawClientOK(ProfileClause(raw, cl))
  <2> DEFINE r == ProfileClause(raw, cl)
  <2>1. Same(r, raw, {"err", "profiles"}) /\ IsVec(r.profiles)
    BY <1>2, ProfileClauseKeeps DEF RawClientOK, RawSiteOK, IsClause
  <2> HIDE DEF r
  <2> QED BY <2>1 DEF Same, RawClientOK, RawSiteOK, r
<1>3. RawClientOK(AuthClause(raw, cl))
  <2> DEFINE r == AuthClause(raw, cl)
  <2>1. Same(r, raw, {"err", "auth"}) /\ VecOf(UseOK, r.auth)
    BY AuthClauseKeeps DEF RawClientOK, RawSiteOK
  <2> HIDE DEF r
  <2> QED BY <2>1 DEF Same, RawClientOK, RawSiteOK, r
<1> QED BY <1>1, <1>2, <1>3

\* A clause of the client's default block keeps the client well-formed.
LEMMA DefaultClauseKeeps ==
    ASSUME NEW raw, RawClientOK(raw), NEW cl, IsClause(Types, cl)
    PROVE  RawClientOK(DefaultClause(raw, cl))
<1>1. CASE cl.c = "rate_limit" /\ DefaultClause(raw, cl) # Refuse(raw)
  <2> DEFINE r == [raw EXCEPT !.defaultRate = cl.spec.names]
  <2>1. DefaultClause(raw, cl) = r /\ cl.spec.t = "Profiles"
    BY <1>1 DEF DefaultClause, PolicyClauses
  <2>2. IsVec(cl.spec.names)
    BY <1>1, <2>1 DEF IsClause, IsRateLimitSpec
  <2>3. Same(r, raw, {"defaultRate"}) /\ r.defaultRate = cl.spec.names
    BY DEF Same, RawClientOK
  <2> HIDE DEF r
  <2> QED BY <2>1, <2>2, <2>3 DEF Same, RawClientOK, RawSiteOK
<1>2. CASE DefaultClause(raw, cl) = Refuse(raw)
  BY <1>2, ClientRefuses
<1>3. CASE cl.c # "rate_limit" /\ DefaultClause(raw, cl) # Refuse(raw)
  <2>1. \/ cl.c \in PolicyClauses /\ DefaultClause(raw, cl) = PolicyClause(raw, cl)
        \/ DefaultClause(raw, cl) = AuthClause(raw, cl)
        \/ cl.c = "profile" /\ DefaultClause(raw, cl) = ProfileClause(raw, cl)
    BY <1>3 DEF DefaultClause, PolicyClauses
  <2> QED BY <2>1, ClientSiteClauses
<1> QED BY <1>1, <1>2, <1>3

AuthGroupStep(c, d, raw, cl) == IF raw.err THEN raw ELSE AuthGroupClause(raw, cl)
AuthGroupInv(c, d, i, raw) == RawClientOK(raw)
AuthGroupFold == INSTANCE LeftFolds WITH Op <- AuthGroupStep, Inv <- AuthGroupInv

\* auth { .. }
LEMMA AuthGroupRead ==
    ASSUME NEW text, IsVec(text), \A cl \in ToSet(text) : IsClause(Types, cl), NEW base, RawClientOK(base)
    PROVE  RawClientOK(ParseBlock(AuthGroupClause, base, text))
<1>1. ParseBlock(AuthGroupClause, base, text) = AuthGroupFold!Fold(0, 0, base, text)
  BY DEF ParseBlock, AuthGroupFold!Fold, AuthGroupStep, FoldLeft, MapThenFoldSet, Max,
         AuthGroupFold!FoldLeft, AuthGroupFold!MapThenFoldSet, AuthGroupFold!Max
<1>2. AuthGroupInv(0, 0, 0, base)
  BY DEF AuthGroupInv
<1>3. Len(text) \in Nat /\ DOMAIN text = 1 .. Len(text)
  BY VecSeq
<1>4. ASSUME NEW i \in 1 .. Len(text), NEW raw, AuthGroupInv(0, 0, i - 1, raw)
      PROVE  AuthGroupInv(0, 0, i, AuthGroupStep(0, 0, raw, text[i]))
  <2>1. text[i] \in ToSet(text)
    BY VecSeq
  <2> QED BY <1>4, <2>1, AuthGroupClauseKeeps DEF AuthGroupInv, AuthGroupStep
<1>5. AuthGroupInv(0, 0, Len(text), AuthGroupFold!Fold(0, 0, base, text))
  BY <1>2, <1>3, <1>4, AuthGroupFold!FoldKeeps
<1> QED BY <1>1, <1>5 DEF AuthGroupInv

PoliciesStep(c, d, raw, cl) == IF raw.err THEN raw ELSE PoliciesGroupClause(raw, cl)
PoliciesInv(c, d, i, raw) == RawClientOK(raw)
PoliciesFold == INSTANCE LeftFolds WITH Op <- PoliciesStep, Inv <- PoliciesInv

\* policies { .. }
LEMMA PoliciesRead ==
    ASSUME NEW text, IsVec(text), \A cl \in ToSet(text) : IsClause(Types, cl), NEW base, RawClientOK(base)
    PROVE  RawClientOK(ParseBlock(PoliciesGroupClause, base, text))
<1>1. ParseBlock(PoliciesGroupClause, base, text) = PoliciesFold!Fold(0, 0, base, text)
  BY DEF ParseBlock, PoliciesFold!Fold, PoliciesStep, FoldLeft, MapThenFoldSet, Max,
         PoliciesFold!FoldLeft, PoliciesFold!MapThenFoldSet, PoliciesFold!Max
<1>2. PoliciesInv(0, 0, 0, base)
  BY DEF PoliciesInv
<1>3. Len(text) \in Nat /\ DOMAIN text = 1 .. Len(text)
  BY VecSeq
<1>4. ASSUME NEW i \in 1 .. Len(text), NEW raw, PoliciesInv(0, 0, i - 1, raw)
      PROVE  PoliciesInv(0, 0, i, PoliciesStep(0, 0, raw, text[i]))
  <2>1. text[i] \in ToSet(text)
    BY VecSeq
  <2> QED BY <1>4, <2>1, PoliciesGroupClauseKeeps DEF PoliciesInv, PoliciesStep
<1>5. PoliciesInv(0, 0, Len(text), PoliciesFold!Fold(0, 0, base, text))
  BY <1>2, <1>3, <1>4, PoliciesFold!FoldKeeps
<1> QED BY <1>1, <1>5 DEF PoliciesInv

BundleStep(c, d, raw, cl) == IF raw.err THEN raw ELSE BundleClause(raw, cl)
BundleInv(c, d, i, raw) == RawClientOK(raw)
BundleFold == INSTANCE LeftFolds WITH Op <- BundleStep, Inv <- BundleInv

\* profiles { .. }
LEMMA BundlesRead ==
    ASSUME NEW text, IsVec(text), \A cl \in ToSet(text) : IsClause(Types, cl), NEW base, RawClientOK(base)
    PROVE  RawClientOK(ParseBlock(BundleClause, base, text))
<1>1. ParseBlock(BundleClause, base, text) = BundleFold!Fold(0, 0, base, text)
  BY DEF ParseBlock, BundleFold!Fold, BundleStep, FoldLeft, MapThenFoldSet, Max,
         BundleFold!FoldLeft, BundleFold!MapThenFoldSet, BundleFold!Max
<1>2. BundleInv(0, 0, 0, base)
  BY DEF BundleInv
<1>3. Len(text) \in Nat /\ DOMAIN text = 1 .. Len(text)
  BY VecSeq
<1>4. ASSUME NEW i \in 1 .. Len(text), NEW raw, BundleInv(0, 0, i - 1, raw)
      PROVE  BundleInv(0, 0, i, BundleStep(0, 0, raw, text[i]))
  <2>1. text[i] \in ToSet(text)
    BY VecSeq
  <2> QED BY <1>4, <2>1, BundleClauseKeeps DEF BundleInv, BundleStep
<1>5. BundleInv(0, 0, Len(text), BundleFold!Fold(0, 0, base, text))
  BY <1>2, <1>3, <1>4, BundleFold!FoldKeeps
<1> QED BY <1>1, <1>5 DEF BundleInv

DefaultStep(c, d, raw, cl) == IF raw.err THEN raw ELSE DefaultClause(raw, cl)
DefaultInv(c, d, i, raw) == RawClientOK(raw)
DefaultFold == INSTANCE LeftFolds WITH Op <- DefaultStep, Inv <- DefaultInv

\* default { .. }
LEMMA DefaultRead ==
    ASSUME NEW text, IsVec(text), \A cl \in ToSet(text) : IsClause(Types, cl), NEW base, RawClientOK(base)
    PROVE  RawClientOK(ParseBlock(DefaultClause, base, text))
<1>1. ParseBlock(DefaultClause, base, text) = DefaultFold!Fold(0, 0, base, text)
  BY DEF ParseBlock, DefaultFold!Fold, DefaultStep, FoldLeft, MapThenFoldSet, Max,
         DefaultFold!FoldLeft, DefaultFold!MapThenFoldSet, DefaultFold!Max
<1>2. DefaultInv(0, 0, 0, base)
  BY DEF DefaultInv
<1>3. Len(text) \in Nat /\ DOMAIN text = 1 .. Len(text)
  BY VecSeq
<1>4. ASSUME NEW i \in 1 .. Len(text), NEW raw, DefaultInv(0, 0, i - 1, raw)
      PROVE  DefaultInv(0, 0, i, DefaultStep(0, 0, raw, text[i]))
  <2>1. text[i] \in ToSet(text)
    BY VecSeq
  <2> QED BY <1>4, <2>1, DefaultClauseKeeps DEF DefaultInv, DefaultStep
<1>5. DefaultInv(0, 0, Len(text), DefaultFold!Fold(0, 0, base, text))
  BY <1>2, <1>3, <1>4, DefaultFold!FoldKeeps
<1> QED BY <1>1, <1>5 DEF DefaultInv

ClientClauseOK(cl) ==
    /\ IsClause(Types, cl)
    /\ cl.c \in {"auth_group", "policies", "profiles", "default"} => IsBlock(Types, cl.body)

\* Each clause of the client keeps it well-formed.
LEMMA ClientClauseKeeps ==
    ASSUME NEW raw, RawClientOK(raw), NEW cl, ClientClauseOK(cl)
    PROVE  RawClientOK(ClientClause(raw, cl))
<1> DEFINE r == ClientClause(raw, cl)
<1>0. IsClause(Types, cl)
  BY DEF ClientClauseOK
<1>1. CASE r = Refuse(raw)
  BY <1>1, ClientRefuses
<1>2. CASE cl.c = "base" /\ r # Refuse(raw)
  <2>1. Same(r, raw, {"err", "base", "secrets", "creds", "observe", "seenDefault"})
    BY <1>2 DEF ClientClause, PolicyClauses, Same
  <2> QED BY <2>1, ClientSame
<1>3. CASE cl.c = "var"
  <2>1. DeclsOK(Append(raw.vars, cl.decl))
    BY <1>0, <1>3, AppendVec DEF IsClause, DeclsOK, VecOf, RawClientOK
  <2>2. r = [raw EXCEPT !.vars = Append(@, cl.decl)]
    BY <1>3 DEF ClientClause, PolicyClauses
  <2>3. Same(r, raw, {"vars"}) /\ r.vars = Append(raw.vars, cl.decl)
    BY <2>2 DEF Same, RawClientOK
  <2> HIDE DEF r
  <2> QED BY <2>1, <2>3 DEF Same, RawClientOK, RawSiteOK, r
<1>4. CASE cl.c \in {"secret", "credential"}
  <2>1. r \in {SecretClause(raw, cl), CredentialClause(raw, cl)}
    BY <1>4 DEF ClientClause, PolicyClauses
  <2> QED BY <2>1, AuthGroupClauseKeeps
<1>5. CASE cl.c \in {"auth_group", "policies", "profiles"}
  <2>1. IsVec(cl.body) /\ \A x \in ToSet(cl.body) : IsClause(Types, x)
    BY <1>5 DEF ClientClauseOK, IsBlock, VecOf
  <2>2. \/ r = ParseBlock(AuthGroupClause, raw, cl.body)
        \/ r = ParseBlock(PoliciesGroupClause, raw, cl.body)
        \/ r = ParseBlock(BundleClause, raw, cl.body)
    BY <1>5 DEF ClientClause, PolicyClauses, parse_client_auth_group, parse_client_policies_group
  <2>3. /\ RawClientOK(ParseBlock(AuthGroupClause, raw, cl.body))
        /\ RawClientOK(ParseBlock(PoliciesGroupClause, raw, cl.body))
        /\ RawClientOK(ParseBlock(BundleClause, raw, cl.body))
    BY <2>1, AuthGroupRead, PoliciesRead, BundlesRead
  <2> QED BY <2>2, <2>3
<1>6. CASE cl.c \in {"auth", "rate_profile", "bundle", "observe"} \cup PolicyClauses
  <2>1. \/ r = AuthClause(raw, cl)
        \/ cl.c = "rate_profile" /\ r = RateProfileClause(raw, cl)
        \/ r = BundleClause(raw, cl) \/ r = ObserveClause(raw, cl)
        \/ cl.c \in PolicyClauses /\ r = PolicyClause(raw, cl)
    BY <1>6 DEF ClientClause, PolicyClauses
  <2> QED BY <1>0, <2>1, ClientSiteClauses, RateProfileClauseKeeps, BundleClauseKeeps, ObserveClauseKeeps
<1>7. CASE cl.c = "default" /\ r # Refuse(raw)
  <2> DEFINE open == [raw EXCEPT !.seenDefault = TRUE]
  <2>1. IsVec(cl.body) /\ \A x \in ToSet(cl.body) : IsClause(Types, x)
    BY <1>7 DEF ClientClauseOK, IsBlock, VecOf
  <2>2. r = ParseBlock(DefaultClause, open, cl.body)
    BY <1>7 DEF ClientClause, PolicyClauses, parse_client_default_block
  <2>3. Same(open, raw, {"err", "base", "secrets", "creds", "observe", "seenDefault"})
    BY DEF Same
  <2>4. RawClientOK(open)
    BY <2>3, ClientSame
  <2> QED BY <2>1, <2>2, <2>4, DefaultRead
<1>8. CASE cl.c \notin {"base", "var", "secret", "credential", "auth_group", "policies", "profiles",
                     "auth", "rate_profile", "bundle", "observe", "default"} \cup PolicyClauses
  BY <1>8, ClientRefuses DEF ClientClause, PolicyClauses
<1> QED BY <1>1, <1>2, <1>3, <1>4, <1>5, <1>6, <1>7, <1>8

ClientStep(c, d, raw, cl) == IF raw.err THEN raw ELSE ClientClause(raw, cl)
ClientInv(c, d, i, raw) == RawClientOK(raw)
ClientFold == INSTANCE LeftFolds WITH Op <- ClientStep, Inv <- ClientInv

\* The client block
LEMMA ClientRead ==
    ASSUME NEW text, IsVec(text), \A cl \in ToSet(text) : ClientClauseOK(cl), NEW base, RawClientOK(base)
    PROVE  RawClientOK(ParseBlock(ClientClause, base, text))
<1>1. ParseBlock(ClientClause, base, text) = ClientFold!Fold(0, 0, base, text)
  BY DEF ParseBlock, ClientFold!Fold, ClientStep, FoldLeft, MapThenFoldSet, Max,
         ClientFold!FoldLeft, ClientFold!MapThenFoldSet, ClientFold!Max
<1>2. ClientInv(0, 0, 0, base)
  BY DEF ClientInv
<1>3. Len(text) \in Nat /\ DOMAIN text = 1 .. Len(text)
  BY VecSeq
<1>4. ASSUME NEW i \in 1 .. Len(text), NEW raw, ClientInv(0, 0, i - 1, raw)
      PROVE  ClientInv(0, 0, i, ClientStep(0, 0, raw, text[i]))
  <2>1. text[i] \in ToSet(text)
    BY VecSeq
  <2> QED BY <1>4, <2>1, ClientClauseKeeps DEF ClientInv, ClientStep
<1>5. ClientInv(0, 0, Len(text), ClientFold!Fold(0, 0, base, text))
  BY <1>2, <1>3, <1>4, ClientFold!FoldKeeps
<1> QED BY <1>1, <1>5 DEF ClientInv

\* RawClient, before its first clause
LEMMA EmptyClientOK == RawClientOK(RawClient)
  BY EmptyVec, EmptyPolicyOK DEF RawClient, RawClientOK, RawSiteOK, DeclsOK, VecOf

\* parse_client: what it accepts is well-formed.
LEMMA ParsedClient ==
    ASSUME NEW text, IsClientText(Types, text)
    PROVE  RawClientOK(parse_client(text))
<1>1. IsVec(text) /\ \A cl \in ToSet(text) : ClientClauseOK(cl)
  BY DEF IsClientText, VecOf, ClientClauseOK
<1>2. RawClientOK(ParseBlock(ClientClause, RawClient, text))
  BY <1>1, EmptyClientOK, ClientRead
<1> QED BY <1>2, ClientRefuses DEF parse_client

(* ------------------------------ normalizing ------------------------------ *)

LayerTextOK(s) == RawEndpointOK(s) /\ s.kind \in {"Path", "Prefix"}

ItemRead(it) ==
    /\ it.k \in {"open", "endpoint", "close"}
    /\ it.k = "open" => RawScopeOK(it.scope)
    /\ it.k = "endpoint" => RawEndpointOK(it.endpoint)

ItemNormal(it) ==
    /\ it.k \in {"open", "endpoint", "close"}
    /\ it.k = "open" => LayerTextOK(it.scope)
    /\ it.k = "endpoint" => RawEndpointOK(it.endpoint)

\* level[i] scopes are open after i items
Nested(its, level) ==
    /\ level[0] = 0
    /\ \A i \in 1 .. Len(its) :
         /\ level[i] \in Nat
         /\ level[i] = CASE its[i].k = "open" -> level[i - 1] + 1
                         [] its[i].k = "close" -> level[i - 1] - 1
                         [] OTHER -> level[i - 1]

\* The layers that a scope is split into (normalize/): a host layer and a path layer.
LEMMA NormalScope ==
    ASSUME NEW s, RawScopeOK(s)
    PROVE  VecOf(LayerTextOK, normalize_scope(s)) /\ Len(normalize_scope(s)) \in {1, 2}
<1> DEFINE layer(kind, route) ==
              [name |-> s.name, kind |-> kind, route |-> route, params |-> s.params,
               policy |-> s.policy, profiles |-> s.profiles, auth |-> s.auth, rate |-> s.rate,
               keys |-> s.keys]
           bare(route) == [name |-> None, kind |-> "Path", route |-> route, params |-> <<>>,
                           policy |-> NoPolicy, profiles |-> <<>>, auth |-> <<>>, rate |-> None,
                           keys |-> <<>>]
<1>1. ASSUME NEW kind, kind \in {"Path", "Prefix"}, NEW route, VecOf(IsRouteAtom, route)
      PROVE  LayerTextOK(layer(kind, route))
  BY <1>1 DEF LayerTextOK, RawEndpointOK, RawScopeOK, RawSiteOK
<1>2. ASSUME NEW route, VecOf(IsRouteAtom, route) PROVE LayerTextOK(bare(route))
  BY <1>2, EmptyVec, EmptyPolicyOK DEF LayerTextOK, RawEndpointOK, RawSiteOK, VecOf, DeclsOK, RateSpecOK
<1>3. VecOf(IsRouteAtom, <<>>)
  BY EmptyVec DEF VecOf
<1>4. CASE s.host = None
  <2> DEFINE route == IF s.path = None THEN <<>> ELSE s.path
             one == layer("Path", route)
  <2>1. VecOf(IsRouteAtom, route)
    BY <1>3 DEF RawScopeOK, RouteOK
  <2>2. LayerTextOK(one)
    <3> HIDE DEF route
    <3> QED BY <1>1, <2>1
  <2>3. normalize_scope(s) = <<one>>
    BY <1>4 DEF normalize_scope
  <2> HIDE DEF one
  <2> QED BY <2>2, <2>3, OneVec DEF VecOf
<1>5. CASE s.host # None /\ s.path = None
  <2> DEFINE one == layer("Prefix", s.host)
  <2>1. VecOf(IsRouteAtom, s.host)
    BY <1>5 DEF RawScopeOK, RouteOK
  <2>2. LayerTextOK(one)
    BY <1>1, <2>1
  <2>3. normalize_scope(s) = <<one>> \o <<>>
    BY <1>5 DEF normalize_scope
  <2> HIDE DEF one
  <2>4. <<one>> \o <<>> = <<one>>
    OBVIOUS
  <2> QED BY <2>2, <2>3, <2>4, OneVec DEF VecOf
<1>6. CASE s.host # None /\ s.path # None
  <2> DEFINE one == layer("Prefix", s.host)  two == bare(s.path)
  <2>1. VecOf(IsRouteAtom, s.host) /\ VecOf(IsRouteAtom, s.path)
    BY <1>6 DEF RawScopeOK, RouteOK
  <2>2. LayerTextOK(one) /\ LayerTextOK(two)
    BY <1>1, <1>2, <2>1
  <2>3. normalize_scope(s) = <<one>> \o <<two>>
    BY <1>6 DEF normalize_scope
  <2> HIDE DEF one, two
  <2> DEFINE p == <<one>>  q == <<two>>
  <2>4. IsVec(p) /\ ToSet(p) = {one} /\ Len(p) = 1 /\ IsVec(q) /\ ToSet(q) = {two} /\ Len(q) = 1
    BY OneVec
  <2>5. normalize_scope(s) = p \o q
    BY <2>3
  <2> HIDE DEF p, q
  <2>6. IsVec(p \o q) /\ ToSet(p \o q) = {one, two} /\ Len(p \o q) = Len(p) + Len(q)
    <3>1. IsVec(p) /\ IsVec(q)
      BY <2>4
    <3>2. IsVec(p \o q) /\ ToSet(p \o q) = ToSet(p) \cup ToSet(q) /\ Len(p \o q) = Len(p) + Len(q)
      BY <3>1, JoinVec
    <3> QED BY <2>4, <3>2
  <2>7. Len(normalize_scope(s)) = 2
    BY <2>4, <2>5, <2>6
  <2> QED BY <2>2, <2>5, <2>6, <2>7 DEF VecOf
<1> QED BY <1>4, <1>5, <1>6

NormalStep(c, d, acc, it) ==
    CASE it.k = "endpoint" -> [acc EXCEPT !.out = Append(@, it)]
      [] it.k = "open" ->
           LET ls == normalize_scope(it.scope)
           IN  [out |-> acc.out \o [i \in DOMAIN ls |-> [k |-> "open", scope |-> ls[i]]],
                open |-> <<Len(ls)>> \o acc.open]
      [] it.k = "close" -> [out |-> acc.out \o [i \in 1..Head(acc.open) |-> it],
                            open |-> Tail(acc.open)]
NormalInv(level, d, i, acc) ==
    /\ DOMAIN acc = {"out", "open"} /\ VecOf(ItemNormal, acc.out)
    /\ acc.open \in Seq({1, 2}) /\ Len(acc.open) = level[i]
NormalFold == INSTANCE LeftFolds WITH Op <- NormalStep, Inv <- NormalInv

\* Each item is normalized to items.
LEMMA NormalStepKeeps ==
    ASSUME NEW level, NEW i \in Nat \ {0}, NEW acc, NormalInv(level, 0, i - 1, acc),
           NEW it, ItemRead(it), level[i] \in Nat,
           level[i] = CASE it.k = "open" -> level[i - 1] + 1
                        [] it.k = "close" -> level[i - 1] - 1
                        [] OTHER -> level[i - 1]
    PROVE  NormalInv(level, 0, i, NormalStep(level, 0, acc, it))
<1> DEFINE r == NormalStep(level, 0, acc, it)
<1>1. CASE it.k = "endpoint"
  <2>1. ItemNormal(it)
    BY <1>1 DEF ItemRead, ItemNormal
  <2>2. VecOf(ItemNormal, Append(acc.out, it))
    BY <2>1, AppendVec DEF VecOf, NormalInv
  <2>3. r = [acc EXCEPT !.out = Append(@, it)]
    BY <1>1 DEF NormalStep
  <2>4. DOMAIN r = DOMAIN acc /\ r.out = Append(acc.out, it) /\ r.open = acc.open
    BY <2>3 DEF NormalInv
  <2>5. level[i] = level[i - 1]
    BY <1>1
  <2> QED BY <2>2, <2>4, <2>5 DEF NormalInv
<1>2. CASE it.k = "open"
  <2> DEFINE ls == normalize_scope(it.scope)
             new == [j \in DOMAIN ls |-> [k |-> "open", scope |-> ls[j]]]
  <2>1. /\ IsVec(ls) /\ Len(ls) \in {1, 2}
        /\ \A j \in 1 .. Len(ls) : LayerTextOK(ls[j])
    BY <1>2, NormalScope, VecSeq DEF ItemRead, VecOf
  <2>2. DOMAIN ls = 1 .. Len(ls) /\ Len(ls) \in Nat
    BY <2>1, VecSeq
  <2>3. r = [out |-> acc.out \o new, open |-> <<Len(ls)>> \o acc.open]
    BY <1>2 DEF NormalStep
  <2> HIDE DEF ls
  <2>4. new = [j \in 1 .. Len(ls) |-> new[j]]
    BY <2>2
  <2>5. \A j \in 1 .. Len(ls) : new[j] = [k |-> "open", scope |-> ls[j]]
    BY <2>2
  <2> HIDE DEF new
  <2>6. IsVec(new) /\ ToSet(new) = {new[j] : j \in 1 .. Len(ls)}
    BY <2>2, <2>4, MapVec
  <2>7. ASSUME NEW x \in ToSet(new) PROVE ItemNormal(x)
    <3>1. PICK j \in 1 .. Len(ls) : x = new[j]
      BY <2>6
    <3>2. x = [k |-> "open", scope |-> ls[j]]
      BY <2>5, <3>1
    <3> QED BY <2>1, <3>2 DEF ItemNormal
  <2>8. VecOf(ItemNormal, acc.out \o new)
    BY <2>6, <2>7, JoinVec DEF VecOf, NormalInv
  <2> DEFINE o == acc.open  n == Len(ls)
  <2>9. o \in Seq({1, 2}) /\ n \in {1, 2} /\ Len(o) = level[i - 1]
    BY <2>1 DEF NormalInv
  <2>10. <<n>> \o o \in Seq({1, 2}) /\ Len(<<n>> \o o) = Len(o) + 1
    <3> HIDE DEF o, n
    <3> QED BY <2>9
  <2>11. level[i] = level[i - 1] + 1
    BY <1>2
  <2>12. DOMAIN r = {"out", "open"} /\ r.out = acc.out \o new /\ r.open = <<n>> \o o
    BY <2>3
  <2> HIDE DEF r, o, n
  <2> QED BY <2>8, <2>9, <2>10, <2>11, <2>12 DEF NormalInv, r
<1>3. CASE it.k = "close"
  <2> DEFINE o == acc.open  new == [j \in 1 .. Head(acc.open) |-> it]
  <2>1. o \in Seq({1, 2}) /\ Len(o) = level[i - 1] /\ level[i] = level[i - 1] - 1 /\ level[i] \in Nat
    BY <1>3 DEF NormalInv
  <2>2. Head(o) \in {1, 2} /\ Tail(o) \in Seq({1, 2}) /\ Len(Tail(o)) = level[i]
    <3> HIDE DEF o
    <3>1. Len(o) \in Nat /\ Len(o) = level[i] + 1
      BY <2>1
    <3>2. o # <<>>
      BY <2>1, <3>1
    <3> QED BY <2>1, <3>1, <3>2
  <2>3. IsVec(new) /\ ToSet(new) \subseteq {it}
    <3>1. new = [j \in 1 .. Head(o) |-> new[j]]
      OBVIOUS
    <3>4. \A j \in 1 .. Head(o) : new[j] = it
      OBVIOUS
    <3>2. Head(o) \in Nat
      BY <2>2
    <3> HIDE DEF new, o
    <3>3. IsVec(new) /\ ToSet(new) = {new[j] : j \in 1 .. Head(o)}
      BY <3>1, <3>2, MapVec
    <3> QED BY <3>4, <3>3
  <2>4. r = [out |-> acc.out \o new, open |-> Tail(o)]
    BY <1>3 DEF NormalStep
  <2> HIDE DEF new, o
  <2>5. ItemNormal(it)
    BY <1>3 DEF ItemNormal
  <2>6. VecOf(ItemNormal, acc.out \o new)
    BY <2>3, <2>5, JoinVec DEF VecOf, NormalInv
  <2>7. DOMAIN r = {"out", "open"} /\ r.out = acc.out \o new /\ r.open = Tail(o)
    BY <2>4
  <2> HIDE DEF r
  <2> QED BY <2>2, <2>6, <2>7 DEF NormalInv, r
<1> QED BY <1>1, <1>2, <1>3 DEF ItemRead

\* normalize_api: the tree of layers is well-formed.
LEMMA NormalItems ==
    ASSUME NEW its, VecOf(ItemRead, its), NEW level, Nested(its, level)
    PROVE  VecOf(ItemNormal, normalize_items(its))
<1> DEFINE base == [out |-> <<>>, open |-> <<>>]
<1>1. normalize_items(its) = NormalFold!Fold(level, 0, base, its).out
  BY DEF normalize_items, NormalFold!Fold, NormalStep, FoldLeft, MapThenFoldSet, Max,
         NormalFold!FoldLeft, NormalFold!MapThenFoldSet, NormalFold!Max
<1>2. NormalInv(level, 0, 0, base)
  BY EmptyVec DEF NormalInv, VecOf, Nested
<1>3. IsVec(its) /\ Len(its) \in Nat /\ DOMAIN its = 1 .. Len(its)
  BY VecSeq DEF VecOf
<1> HIDE DEF base
<1>4. ASSUME NEW i \in 1 .. Len(its), NEW acc, NormalInv(level, 0, i - 1, acc)
      PROVE  NormalInv(level, 0, i, NormalStep(level, 0, acc, its[i]))
  <2>1. ItemRead(its[i])
    BY <1>3, VecSeq DEF VecOf
  <2>2. i \in Nat \ {0}
    OBVIOUS
  <2> QED BY <1>4, <2>1, <2>2, NormalStepKeeps DEF Nested
<1>5. NormalInv(level, 0, Len(its), NormalFold!Fold(level, 0, base, its))
  BY <1>2, <1>3, <1>4, NormalFold!FoldKeeps
<1> QED BY <1>1, <1>5 DEF NormalInv

\* One more item of a tree that is nested so far
LEMMA NestedMore ==
    ASSUME NEW its, IsVec(its), NEW level, Nested(its, level), NEW n \in Nat,
           n = IF Len(its) = 0 THEN 0 ELSE level[Len(its)], NEW it,
           it.k = "close" => n > 0
    PROVE  \E l : Nested(Append(its, it), l)
                  /\ l[Len(its) + 1] = CASE it.k = "open" -> n + 1 [] it.k = "close" -> n - 1
                                         [] OTHER -> n
<1> DEFINE m == Len(its)
           new == CASE it.k = "open" -> n + 1 [] it.k = "close" -> n - 1 [] OTHER -> n
           l == [i \in 0 .. (m + 1) |-> IF i = m + 1 THEN new ELSE level[i]]
           more == Append(its, it)
<1>1. m \in Nat /\ new \in Nat
  BY VecSeq
<1>2. /\ Len(more) = m + 1 /\ more[m + 1] = it /\ \A i \in 1 .. m : more[i] = its[i]
  BY AppendVec
<1>3. level[m] = n
  BY <1>1 DEF Nested
<1>4. l[m + 1] = new /\ \A i \in 0 .. m : l[i] = level[i]
  BY <1>1
<1> HIDE DEF l, more
<1>5. ASSUME NEW i \in 1 .. Len(more)
      PROVE  /\ l[i] \in Nat
             /\ l[i] = CASE more[i].k = "open" -> l[i - 1] + 1
                         [] more[i].k = "close" -> l[i - 1] - 1
                         [] OTHER -> l[i - 1]
  <2>1. CASE i \in 1 .. m
    <3>1. l[i] = level[i] /\ l[i - 1] = level[i - 1] /\ more[i] = its[i]
      BY <1>1, <1>2, <1>4, <2>1
    <3> QED BY <2>1, <3>1 DEF Nested
  <2>2. CASE i = m + 1
    <3>1. l[i] = new /\ l[i - 1] = n /\ more[i] = it
      <4>1. i - 1 = m /\ m \in 0 .. m
        BY <1>1, <2>2
      <4> QED BY <1>2, <1>3, <1>4, <2>2, <4>1
    <3> QED BY <1>1, <3>1
  <2> QED BY <1>1, <1>2, <2>1, <2>2
<1>6. l[0] = 0
  BY <1>1, <1>4 DEF Nested
<1>7. Nested(more, l)
  BY <1>5, <1>6 DEF Nested
<1> QED BY <1>4, <1>7 DEF more

(* ------------------------- declarations and names ------------------------- *)

Distinct(vs) == \A i, j \in DOMAIN vs : vs[i].rust = vs[j].rust => i = j

\* The set of the declarations' names, and the declaration that VarNamed finds
LEMMA NamesOf ==
    ASSUME NEW vs, IsVec(vs)
    PROVE  VarNames(vs) = {d.rust : d \in ToSet(vs)}
  BY VecSeq DEF VarNames, ToSet

\* VarNamed finds a declaration of that name.
LEMMA FoundVar ==
    ASSUME NEW vs, IsVec(vs), NEW n \in VarNames(vs)
    PROVE  VarNamed(vs, n) \in ToSet(vs) /\ VarNamed(vs, n).rust = n
<1> DEFINE Has(i) == vs[i].rust = n
           m == Len(vs)
           Least(i) == Has(i) /\ \A j \in 1 .. m : Has(j) => i <= j
           T == {i \in 0 .. m : \A j \in 1 .. i : ~ Has(j)}
<1>1. m \in Nat /\ DOMAIN vs = 1 .. m
  BY VecSeq
<1>2. \E i \in 1 .. m : Has(i)
  BY <1>1 DEF VarNames
<1>3. \E i \in 1 .. m : Least(i)
  <2> SUFFICES ASSUME ~ \E i \in 1 .. m : Least(i) PROVE FALSE
    OBVIOUS
  <2>1. 0 \in T
    BY <1>1
  <2>2. ASSUME NEW i \in 1 .. m, i - 1 \in T PROVE i \in T
    <3>1. \A j \in 1 .. i - 1 : ~ Has(j)
      BY <2>2
    <3>2. ~ Has(i)
      <4> SUFFICES ASSUME Has(i) PROVE FALSE
        OBVIOUS
      <4>1. \A j \in 1 .. m : Has(j) => i <= j
        <5> HIDE DEF Has
        <5> QED BY <1>1, <3>1
      <4> QED BY <4>1
    <3> HIDE DEF Has
    <3> QED BY <1>1, <3>1, <3>2
  <2>3. m \in T
    <3>1. m \in Nat /\ 0 \in T /\ \A i \in 1 .. m : i - 1 \in T => i \in T
      BY <1>1, <2>1, <2>2
    <3>2. m \in 0 .. m
      BY <1>1
    <3> HIDE DEF T, m
    <3>3. 0 .. m \subseteq T
      BY <3>1, Steps!Climb
    <3> QED BY <3>2, <3>3
  <2> HIDE DEF Has
  <2> QED BY <1>2, <2>3
<1> DEFINE k == CHOOSE i \in DOMAIN vs : Has(i) /\ \A j \in DOMAIN vs : Has(j) => i <= j
<1>4. k \in DOMAIN vs /\ Has(k)
  BY <1>1, <1>3
<1>5. VarNamed(vs, n) = vs[k]
  BY DEF VarNamed
<1> HIDE DEF k
<1> QED BY <1>1, <1>4, <1>5, VecSeq

\* With distinct names there is only one.
LEMMA OneVar ==
    ASSUME NEW vs, IsVec(vs), Distinct(vs), NEW d \in ToSet(vs)
    PROVE  d.rust \in VarNames(vs) /\ VarNamed(vs, d.rust) = d
<1>1. d.rust \in VarNames(vs)
  BY NamesOf
<1>2. VarNamed(vs, d.rust) \in ToSet(vs) /\ VarNamed(vs, d.rust).rust = d.rust
  BY <1>1, FoundVar
<1>3. PICK i \in DOMAIN vs : vs[i] = d
  BY DEF ToSet
<1>4. PICK j \in DOMAIN vs : vs[j] = VarNamed(vs, d.rust)
  BY <1>2 DEF ToSet
<1> QED BY <1>1, <1>2, <1>3, <1>4 DEF Distinct

UpsertStep(c, d, vs, x) == upsert_var(vs, x)
UpsertInv(decls, d, i, vs) ==
    /\ IsVec(vs) /\ ToSet(vs) \subseteq ToSet(decls) /\ Distinct(vs)
    /\ VarNames(vs) = {decls[j].rust : j \in 1 .. i}
UpsertFold == INSTANCE LeftFolds WITH Op <- UpsertStep, Inv <- UpsertInv

\* UpsertAll keeps one declaration of every name.
LEMMA Upserted ==
    ASSUME NEW decls, IsVec(decls)
    PROVE  LET u == UpsertAll(decls)
           IN  /\ IsVec(u) /\ ToSet(u) \subseteq ToSet(decls) /\ Distinct(u)
               /\ VarNames(u) = VarNames(decls)
<1>1. UpsertAll(decls) = UpsertFold!Fold(decls, 0, <<>>, decls)
  BY DEF UpsertAll, UpsertFold!Fold, UpsertStep, FoldLeft, MapThenFoldSet, Max,
         UpsertFold!FoldLeft, UpsertFold!MapThenFoldSet, UpsertFold!Max
<1>2. UpsertInv(decls, 0, 0, <<>>)
  <2>1. VarNames(<<>>) = {} /\ {decls[j].rust : j \in 1 .. 0} = {} /\ Distinct(<<>>)
    BY DEF VarNames, Distinct
  <2> QED BY <2>1, EmptyVec DEF UpsertInv
<1>3. Len(decls) \in Nat /\ DOMAIN decls = 1 .. Len(decls)
  BY VecSeq
<1>4. ASSUME NEW i \in 1 .. Len(decls), NEW vs, UpsertInv(decls, 0, i - 1, vs)
      PROVE  UpsertInv(decls, 0, i, UpsertStep(decls, 0, vs, decls[i]))
  <2> DEFINE x == decls[i]  r == UpsertStep(decls, 0, vs, x)
             Names(k) == {decls[j].rust : j \in 1 .. k}
  <2>1. Names(i) = Names(i - 1) \cup {x.rust}
    <3>1. 1 .. i = (1 .. i - 1) \cup {i}
      BY <1>3
    <3> QED BY <3>1
  <2>2. x \in ToSet(decls)
    BY VecSeq
  <2>3. IsVec(vs) /\ ToSet(vs) \subseteq ToSet(decls) /\ Distinct(vs) /\ VarNames(vs) = Names(i - 1)
    BY <1>4 DEF UpsertInv
  <2> HIDE DEF Names, x
  <2>4. CASE x.rust \in VarNames(vs)
    <3>1. r = vs
      BY <2>4 DEF UpsertStep, upsert_var
    <3>2. Names(i) = VarNames(vs)
      BY <2>1, <2>3, <2>4
    <3> QED BY <2>3, <3>1, <3>2 DEF UpsertInv, Names, x
  <2>5. CASE x.rust \notin VarNames(vs)
    <3>1. r = Append(vs, x)
      BY <2>5 DEF UpsertStep, upsert_var
    <3>2. /\ IsVec(r) /\ ToSet(r) = ToSet(vs) \cup {x} /\ Len(r) = Len(vs) + 1
          /\ r[Len(vs) + 1] = x /\ \A j \in 1 .. Len(vs) : r[j] = vs[j]
      <4> HIDE DEF r
      <4>1. IsVec(vs)
        BY <2>3
      <4>2. /\ IsVec(Append(vs, x)) /\ ToSet(Append(vs, x)) = ToSet(vs) \cup {x}
            /\ Len(Append(vs, x)) = Len(vs) + 1
            /\ Append(vs, x)[Len(vs) + 1] = x
            /\ \A j \in 1 .. Len(vs) : Append(vs, x)[j] = vs[j]
        BY <4>1, AppendVec
      <4> QED BY <3>1, <4>2
    <3>3. VarNames(r) = VarNames(vs) \cup {x.rust}
      <4>1. VarNames(r) = {d.rust : d \in ToSet(r)} /\ VarNames(vs) = {d.rust : d \in ToSet(vs)}
        BY <2>3, <3>2, NamesOf
      <4> HIDE DEF r
      <4> QED BY <3>2, <4>1
    <3>4. Distinct(r)
      <4> HIDE DEF r
      <4>1. Len(vs) \in Nat /\ DOMAIN vs = 1 .. Len(vs) /\ DOMAIN r = 1 .. Len(vs) + 1
        BY <2>3, <3>2, VecSeq
      <4>2. ASSUME NEW j \in 1 .. Len(vs) PROVE r[j].rust # x.rust
        BY <2>5, <3>2, <4>1 DEF VarNames
      <4>3. ASSUME NEW j \in DOMAIN r, NEW k \in DOMAIN r, r[j].rust = r[k].rust PROVE j = k
        <5>1. CASE j \in 1 .. Len(vs) /\ k \in 1 .. Len(vs)
          BY <2>3, <3>2, <4>1, <4>3, <5>1 DEF Distinct
        <5>2. CASE j = Len(vs) + 1 \/ k = Len(vs) + 1
          <6>1. j \in 1 .. Len(vs) \/ j = Len(vs) + 1
            BY <4>1
          <6>2. k \in 1 .. Len(vs) \/ k = Len(vs) + 1
            BY <4>1
          <6> QED BY <3>2, <4>2, <4>3, <5>2, <6>1, <6>2
        <5> QED BY <4>1, <5>1, <5>2
      <4> QED BY <4>3 DEF Distinct
    <3>5. VarNames(r) = Names(i) /\ ToSet(r) \subseteq ToSet(decls)
      BY <2>1, <2>2, <2>3, <3>2, <3>3
    <3> QED BY <3>2, <3>4, <3>5 DEF UpsertInv, Names, x
  <2> QED BY <2>4, <2>5
<1>5. UpsertInv(decls, 0, Len(decls), UpsertFold!Fold(decls, 0, <<>>, decls))
  BY <1>2, <1>3, <1>4, UpsertFold!FoldKeeps
<1> QED BY <1>1, <1>3, <1>5 DEF UpsertInv, VarNames

\* Declarations without a fault agree with the one that is kept.
LEMMA Agreeing ==
    ASSUME NEW decls, IsVec(decls), DeclFaults(decls) = {}, NEW d \in ToSet(decls)
    PROVE  \E v \in ToSet(UpsertAll(decls)) :
             v.rust = d.rust /\ v.optional = d.optional /\ v.ty = d.ty
<1> DEFINE u == UpsertAll(decls)
<1>1. IsVec(u) /\ d.rust \in VarNames(u)
  BY Upserted, NamesOf
<1>2. VarNamed(u, d.rust) \in ToSet(u) /\ VarNamed(u, d.rust).rust = d.rust
  BY <1>1, FoundVar
<1>3. ~ VarConflict(u, d)
  BY DEF DeclFaults
<1>4. VarNamed(u, d.rust).optional = d.optional /\ VarNamed(u, d.rust).ty = d.ty
  BY <1>1, <1>3 DEF VarConflict
<1> HIDE DEF u
<1> QED BY <1>2, <1>4 DEF u

\* Reversing a Vec keeps its members.
LEMMA ReverseVec ==
    ASSUME NEW s, IsVec(s) PROVE IsVec(Reverse(s)) /\ ToSet(Reverse(s)) = ToSet(s)
<1> DEFINE r == Reverse(s)  n == Len(s)
<1>1. n \in Nat /\ DOMAIN s = 1 .. n
  BY VecSeq
<1>2. r = [i \in 1 .. n |-> s[(n - i) + 1]]
  BY DEF Reverse
<1>3. r = [i \in 1 .. n |-> r[i]] /\ \A i \in 1 .. n : r[i] = s[(n - i) + 1]
  BY <1>2
<1> HIDE DEF r, n
<1>4. IsVec(r) /\ DOMAIN r = 1 .. n
  <2>1. r = [i \in 1 .. n |-> r[i]]
    BY <1>3
  <2> QED BY <1>1, <2>1, MapVec
<1>5. \A i \in 1 .. n : (n - i) + 1 \in 1 .. n /\ (n - ((n - i) + 1)) + 1 = i
  BY <1>1
<1>6. ASSUME NEW x \in ToSet(s) PROVE x \in ToSet(r)
  <2>1. PICK i \in 1 .. n : s[i] = x
    BY <1>1 DEF ToSet
  <2>2. (n - i) + 1 \in 1 .. n /\ r[(n - i) + 1] = x
    BY <1>3, <1>5, <2>1
  <2> QED BY <1>4, <2>2 DEF ToSet
<1>7. ASSUME NEW x \in ToSet(r) PROVE x \in ToSet(s)
  <2>1. PICK i \in 1 .. n : r[i] = x
    BY <1>4 DEF ToSet
  <2>2. (n - i) + 1 \in 1 .. n /\ s[(n - i) + 1] = x
    BY <1>3, <1>5, <2>1
  <2> QED BY <1>1, <2>2 DEF ToSet
<1> QED BY <1>4, <1>6, <1>7 DEF r

\* What a scope resolves against
LEMMA LayerVarsFacts ==
    ASSUME NEW decls, IsVec(decls)
    PROVE  /\ IsVec(LayerVars(decls)) /\ ToSet(LayerVars(decls)) \subseteq ToSet(decls)
           /\ VarNames(LayerVars(decls)) = VarNames(decls)
<1>1. IsVec(Reverse(decls)) /\ ToSet(Reverse(decls)) = ToSet(decls)
  BY ReverseVec
<1>2. VarNames(Reverse(decls)) = VarNames(decls)
  BY <1>1, NamesOf
<1> QED BY <1>1, <1>2, Upserted DEF LayerVars

(* ------------------------------- profiles ------------------------------- *)

\* Concat over a Vec, its parts given one by one
LEMMA Joined ==
    ASSUME NEW seq, IsVec(seq), NEW parts, parts = [i \in DOMAIN seq |-> parts[i]],
           \A i \in 1 .. Len(seq) : IsVec(parts[i])
    PROVE  /\ IsVec(FlattenSeq(parts))
           /\ \A x \in ToSet(FlattenSeq(parts)) : \E i \in 1 .. Len(seq) : x \in ToSet(parts[i])
           /\ \A i \in 1 .. Len(seq) : ToSet(parts[i]) \subseteq ToSet(FlattenSeq(parts))
<1>1. Len(seq) \in Nat /\ DOMAIN seq = 1 .. Len(seq)
  BY VecSeq
<1>2. parts = [i \in 1 .. Len(seq) |-> parts[i]]
  BY <1>1
<1>3. IsVec(parts) /\ Len(parts) = Len(seq)
  BY <1>1, <1>2, MapVec
<1>4. \A i \in 1 .. Len(parts) : IsVec(parts[i])
  BY <1>3
<1>5. IsVec(FlattenSeq(parts))
      /\ ToSet(FlattenSeq(parts)) = UNION {ToSet(parts[i]) : i \in 1 .. Len(parts)}
  BY <1>3, <1>4, FlattenVec
<1> QED BY <1>3, <1>5

\* DefNamed finds the definition of that name.
LEMMA DefFound ==
    ASSUME NEW defs, NEW n \in DefNames(defs)
    PROVE  DefNamed(defs, n) \in ToSet(defs) /\ DefNamed(defs, n).name = n
<1>1. \E i \in DOMAIN defs : defs[i].name = n
  BY DEF DefNames
<1> QED BY <1>1 DEF DefNamed, ToSet

LineageBody(defs, l, k) ==
    [n \in DefNames(defs) |->
       LET parent == DefNamed(defs, n).extends
       IN  IF k = 0 \/ parent \notin DefNames(defs) THEN <<n>>
           ELSE Append(l[k - 1][parent], n)]
LineageSolves(l, defs, m) == l = [k \in 0 .. m |-> LineageBody(defs, l, k)]

\* A lineage lists definitions.
LEMMA LineageVec ==
    ASSUME NEW defs, IsVec(defs), NEW n \in DefNames(defs)
    PROVE  IsVec(Lineage(defs)[n]) /\ ToSet(Lineage(defs)[n]) \subseteq DefNames(defs)
<1> DEFINE N == Len(defs)
           T == {m \in 0 .. N : \E l : LineageSolves(l, defs, m)}
           line == CHOOSE l : LineageSolves(l, defs, N)
<1>0. N \in Nat
  BY VecSeq
<1>1. 0 \in T
  <2> DEFINE g == [k \in 0 .. 0 |-> LineageBody(defs, 0, 0)]
  <2>1. LineageBody(defs, g, 0) = LineageBody(defs, 0, 0)
    BY DEF LineageBody
  <2>2. g = [k \in 0 .. 0 |-> LineageBody(defs, g, k)]
    BY <2>1
  <2>3. LineageSolves(g, defs, 0)
    BY <2>2 DEF LineageSolves
  <2> QED BY <1>0, <2>3
<1>2. ASSUME NEW m \in 1 .. N, m - 1 \in T PROVE m \in T
  <2>1. PICK h : LineageSolves(h, defs, m - 1)
    BY <1>2
  <2> DEFINE g == [k \in 0 .. m |-> IF k < m THEN h[k] ELSE LineageBody(defs, h, k)]
  <2>2. ASSUME NEW k \in 0 .. m PROVE g[k] = LineageBody(defs, g, k)
    <3>1. k # 0 => k - 1 \in 0 .. m /\ k - 1 < m
      OBVIOUS
    <3>2. k # 0 => g[k - 1] = h[k - 1]
      BY <3>1
    <3>3. LineageBody(defs, g, k) = LineageBody(defs, h, k)
      <4> HIDE DEF g
      <4> QED BY <3>2 DEF LineageBody
    <3>4. k < m => h[k] = LineageBody(defs, h, k)
      <4> HIDE DEF g
      <4> SUFFICES ASSUME k < m PROVE h[k] = LineageBody(defs, h, k)
        OBVIOUS
      <4>1. k \in 0 .. (m - 1)
        OBVIOUS
      <4> QED BY <2>1, <4>1 DEF LineageSolves
    <3>5. g[k] = IF k < m THEN h[k] ELSE LineageBody(defs, h, k)
      OBVIOUS
    <3> HIDE DEF g
    <3> QED BY <3>3, <3>4, <3>5
  <2>3. g = [k \in 0 .. m |-> g[k]]
    OBVIOUS
  <2> HIDE DEF g
  <2>4. LineageSolves(g, defs, m)
    BY <2>2, <2>3 DEF LineageSolves
  <2> QED BY <1>0, <2>4
<1>3. \E l : LineageSolves(l, defs, N)
  <2>1. N \in T
    <3> HIDE DEF T, N
    <3> QED BY <1>0, <1>1, <1>2, Steps!Climb
  <2> QED BY <2>1
<1>4. LineageSolves(line, defs, N)
  BY <1>3
<1>5. Lineage(defs) = line[N]
  BY DEF Lineage, LineageSolves, LineageBody
<1> HIDE DEF line
<1> DEFINE Good(s) == IsVec(s) /\ ToSet(s) \subseteq DefNames(defs)
           U == {k \in 0 .. N : \A p \in DefNames(defs) : Good(line[k][p])}
<1>6. ASSUME NEW p \in DefNames(defs) PROVE Good(<<p>>)
  BY <1>6, OneVec
<1>7. ASSUME NEW s, Good(s), NEW p \in DefNames(defs) PROVE Good(Append(s, p))
  BY <1>7, AppendVec
<1> HIDE DEF Good
<1>8. ASSUME NEW k \in 0 .. N, NEW p \in DefNames(defs)
      PROVE  line[k][p] = LET parent == DefNamed(defs, p).extends
                          IN  IF k = 0 \/ parent \notin DefNames(defs) THEN <<p>>
                              ELSE Append(line[k - 1][parent], p)
  <2>1. line[k] = LineageBody(defs, line, k)
    BY <1>4 DEF LineageSolves
  <2> QED BY <2>1 DEF LineageBody
<1>9. 0 \in U
  <2>1. 0 \in 0 .. N
    BY <1>0
  <2>2. ASSUME NEW p \in DefNames(defs) PROVE Good(line[0][p])
    <3>1. line[0][p] = <<p>>
      BY <1>8, <2>1
    <3> QED BY <1>6, <3>1
  <2> QED BY <2>1, <2>2
<1>10. ASSUME NEW k \in 1 .. N, k - 1 \in U PROVE k \in U
  <2>1. k \in 0 .. N /\ k # 0
    BY <1>0
  <2>2. ASSUME NEW p \in DefNames(defs) PROVE Good(line[k][p])
    <3>1. CASE DefNamed(defs, p).extends \notin DefNames(defs)
      BY <1>6, <1>8, <2>1, <3>1
    <3>2. CASE DefNamed(defs, p).extends \in DefNames(defs)
      <4>1. line[k][p] = Append(line[k - 1][DefNamed(defs, p).extends], p)
        BY <1>8, <2>1, <3>2
      <4>2. Good(line[k - 1][DefNamed(defs, p).extends])
        BY <1>10, <3>2
      <4> QED BY <1>7, <4>1, <4>2
    <3> QED BY <3>1, <3>2
  <2> QED BY <2>1, <2>2
<1>11. N \in U
  <2>1. N \in Nat /\ 0 \in U /\ \A k \in 1 .. N : k - 1 \in U => k \in U
    BY <1>0, <1>9, <1>10
  <2>2. N \in 0 .. N
    BY <1>0
  <2> HIDE DEF U, N
  <2>3. 0 .. N \subseteq U
    BY <2>1, Steps!Climb
  <2> QED BY <2>2, <2>3
<1> QED BY <1>5, <1>11 DEF Good

\* A bundle and what it extends
LEMMA ProfileResolved ==
    ASSUME NEW defs, VecOf(BundleOK, defs), NEW n \in DefNames(defs)
    PROVE  VecOf(UseOK, resolve_profile(defs, n).auth)
           /\ VecOf(IsRateLimitSpec, resolve_profile(defs, n).rate)
<1> DEFINE chain == Lineage(defs)[n]
           auths == [i \in DOMAIN chain |-> DefNamed(defs, chain[i]).auth]
           rates == [i \in DOMAIN chain |-> DefNamed(defs, chain[i]).rate]
<1>1. resolve_profile(defs, n) = [auth |-> FlattenSeq(auths), rate |-> FlattenSeq(rates)]
  BY DEF resolve_profile, Concat
<1>2. IsVec(chain) /\ ToSet(chain) \subseteq DefNames(defs)
  BY LineageVec DEF VecOf
<1> HIDE DEF chain
<1>3. ASSUME NEW i \in 1 .. Len(chain) PROVE BundleOK(DefNamed(defs, chain[i])) /\ i \in DOMAIN chain
  <2>1. chain[i] \in DefNames(defs) /\ i \in DOMAIN chain
    BY <1>2, VecSeq
  <2> QED BY <2>1, DefFound DEF VecOf
<1>4. /\ auths = [i \in DOMAIN chain |-> auths[i]]
      /\ rates = [i \in DOMAIN chain |-> rates[i]]
      /\ \A i \in DOMAIN chain : auths[i] = DefNamed(defs, chain[i]).auth
                                 /\ rates[i] = DefNamed(defs, chain[i]).rate
  OBVIOUS
<1> HIDE DEF auths, rates
<1>5. ASSUME NEW i \in 1 .. Len(chain) PROVE VecOf(UseOK, auths[i]) /\ VecOf(IsRateLimitSpec, rates[i])
  BY <1>3, <1>4 DEF BundleOK
<1>6. VecOf(UseOK, FlattenSeq(auths))
  <2>1. auths = [i \in DOMAIN chain |-> auths[i]] /\ \A i \in 1 .. Len(chain) : IsVec(auths[i])
    BY <1>4, <1>5 DEF VecOf
  <2>2. IsVec(FlattenSeq(auths))
        /\ \A x \in ToSet(FlattenSeq(auths)) : \E i \in 1 .. Len(chain) : x \in ToSet(auths[i])
    BY <1>2, <2>1, Joined
  <2> QED BY <1>5, <2>2 DEF VecOf
<1>7. VecOf(IsRateLimitSpec, FlattenSeq(rates))
  <2>1. rates = [i \in DOMAIN chain |-> rates[i]] /\ \A i \in 1 .. Len(chain) : IsVec(rates[i])
    BY <1>4, <1>5 DEF VecOf
  <2>2. IsVec(FlattenSeq(rates))
        /\ \A x \in ToSet(FlattenSeq(rates)) : \E i \in 1 .. Len(chain) : x \in ToSet(rates[i])
    BY <1>2, <2>1, Joined
  <2> QED BY <1>5, <2>2 DEF VecOf
<1> QED BY <1>1, <1>6, <1>7

\* The bundles that a site uses
LEMMA UsesResolved ==
    ASSUME NEW defs, VecOf(BundleOK, defs), NEW uses, IsVec(uses),
           ProfileUseFaults(uses, defs) = {}
    PROVE  VecOf(UseOK, resolve_profile_uses(uses, defs).auth)
           /\ VecOf(IsRateLimitSpec, resolve_profile_uses(uses, defs).rate)
<1> DEFINE auths == [i \in DOMAIN uses |-> resolve_profile(defs, uses[i]).auth]
           rates == [i \in DOMAIN uses |-> resolve_profile(defs, uses[i]).rate]
<1>1. resolve_profile_uses(uses, defs) = [auth |-> FlattenSeq(auths), rate |-> FlattenSeq(rates)]
  BY DEF resolve_profile_uses, Concat
<1>3. ASSUME NEW i \in 1 .. Len(uses) PROVE uses[i] \in DefNames(defs) /\ i \in DOMAIN uses
  BY VecSeq DEF ProfileUseFaults
<1>4. /\ auths = [i \in DOMAIN uses |-> auths[i]]
      /\ rates = [i \in DOMAIN uses |-> rates[i]]
      /\ \A i \in DOMAIN uses : auths[i] = resolve_profile(defs, uses[i]).auth
                                /\ rates[i] = resolve_profile(defs, uses[i]).rate
  OBVIOUS
<1> HIDE DEF auths, rates
<1>5. ASSUME NEW i \in 1 .. Len(uses) PROVE VecOf(UseOK, auths[i]) /\ VecOf(IsRateLimitSpec, rates[i])
  BY <1>3, <1>4, ProfileResolved
<1>6. VecOf(UseOK, FlattenSeq(auths))
  <2>1. auths = [i \in DOMAIN uses |-> auths[i]] /\ \A i \in 1 .. Len(uses) : IsVec(auths[i])
    BY <1>4, <1>5 DEF VecOf
  <2>2. IsVec(FlattenSeq(auths))
        /\ \A x \in ToSet(FlattenSeq(auths)) : \E i \in 1 .. Len(uses) : x \in ToSet(auths[i])
    BY <2>1, Joined
  <2> QED BY <1>5, <2>2 DEF VecOf
<1>7. VecOf(IsRateLimitSpec, FlattenSeq(rates))
  <2>1. rates = [i \in DOMAIN uses |-> rates[i]] /\ \A i \in 1 .. Len(uses) : IsVec(rates[i])
    BY <1>4, <1>5 DEF VecOf
  <2>2. IsVec(FlattenSeq(rates))
        /\ \A x \in ToSet(FlattenSeq(rates)) : \E i \in 1 .. Len(uses) : x \in ToSet(rates[i])
    BY <2>1, Joined
  <2> QED BY <1>5, <2>2 DEF VecOf
<1> QED BY <1>1, <1>6, <1>7

(* ------------------------------ rate limits ----------------------------- *)

Kinds == {"Host", "Method", "Endpoint", "Static", "Named"}
PlainBucket(b) == DOMAIN b = {"kind", "name", "key", "cost", "windows"} /\ IsVec(b.key)
                  /\ \A k \in ToSet(b.key) : k.t \in Kinds

\* resolve_rate_limit_plan_spec: each bucket has a key of the kinds that are known.
LEMMA PlanResolved ==
    ASSUME NEW plan, VecOf(IsRateLimitBucket, plan), NEW owner
    PROVE  VecOf(PlainBucket, resolve_rate_limit_plan_spec(plan, owner))
<1> DEFINE r == resolve_rate_limit_plan_spec(plan, owner)
<1>1. Len(plan) \in Nat /\ DOMAIN plan = 1 .. Len(plan)
  BY VecSeq DEF VecOf
<1>2. /\ r = [i \in 1 .. Len(plan) |-> r[i]]
      /\ \A i \in 1 .. Len(plan) : r[i] = [kind |-> plan[i].kind, name |-> <<owner, i>>,
                                           key |-> plan[i].key, cost |-> plan[i].cost, windows |-> plan[i].windows]
  BY <1>1 DEF resolve_rate_limit_plan_spec
<1> HIDE DEF r
<1>3. IsVec(r) /\ ToSet(r) = {r[i] : i \in 1 .. Len(plan)}
  <2>1. r = [i \in 1 .. Len(plan) |-> r[i]]
    BY <1>2
  <2> QED BY <1>1, <2>1, MapVec
<1>4. ASSUME NEW i \in 1 .. Len(plan) PROVE PlainBucket(r[i])
  <2>1. IsRateLimitBucket(plan[i])
    BY <1>1, VecSeq DEF VecOf
  <2>2. IsVec(plan[i].key) /\ \A k \in ToSet(plan[i].key) : k.t \in Kinds
    BY <2>1 DEF IsRateLimitBucket, VecOf, Kinds
  <2>3. r[i].key = plan[i].key /\ DOMAIN r[i] = {"kind", "name", "key", "cost", "windows"}
    BY <1>2
  <2> QED BY <2>2, <2>3 DEF PlainBucket
<1> QED BY <1>3, <1>4 DEF VecOf, r

\* The buckets of a named rate-limit profile
LEMMA TemplateResolved ==
    ASSUME NEW defs, VecOf(RateProfileOK, defs), NEW n \in DefNames(defs)
    PROVE  VecOf(PlainBucket, RateLimitTemplate(defs, n))
<1> DEFINE chain == Lineage(defs)[n]
           plans == [i \in DOMAIN chain |->
                       resolve_rate_limit_plan_spec(DefNamed(defs, chain[i]).plan, chain[i])]
<1>1. RateLimitTemplate(defs, n) = FlattenSeq(plans)
  BY DEF RateLimitTemplate, Concat
<1>2. IsVec(chain) /\ ToSet(chain) \subseteq DefNames(defs)
  BY LineageVec DEF VecOf
<1> HIDE DEF chain
<1>3. ASSUME NEW i \in 1 .. Len(chain)
      PROVE  VecOf(IsRateLimitBucket, DefNamed(defs, chain[i]).plan) /\ i \in DOMAIN chain
  <2>1. chain[i] \in DefNames(defs) /\ i \in DOMAIN chain
    BY <1>2, VecSeq
  <2> QED BY <2>1, DefFound DEF VecOf, RateProfileOK
<1>4. /\ plans = [i \in DOMAIN chain |-> plans[i]]
      /\ \A i \in DOMAIN chain :
           plans[i] = resolve_rate_limit_plan_spec(DefNamed(defs, chain[i]).plan, chain[i])
  OBVIOUS
<1> HIDE DEF plans
<1>5. ASSUME NEW i \in 1 .. Len(chain) PROVE VecOf(PlainBucket, plans[i])
  BY <1>3, <1>4, PlanResolved
<1>6. plans = [i \in DOMAIN chain |-> plans[i]] /\ \A i \in 1 .. Len(chain) : IsVec(plans[i])
  BY <1>4, <1>5 DEF VecOf
<1>7. IsVec(FlattenSeq(plans))
      /\ \A x \in ToSet(FlattenSeq(plans)) : \E i \in 1 .. Len(chain) : x \in ToSet(plans[i])
  BY <1>2, <1>6, Joined
<1> QED BY <1>1, <1>5, <1>7 DEF VecOf

\* The buckets that a rate-limit clause stands for
LEMMA SpecResolved ==
    ASSUME NEW defs, VecOf(RateProfileOK, defs), NEW spec, IsRateLimitSpec(spec),
           spec.t # "Off", spec.t = "Profiles" => ToSet(spec.names) \subseteq DefNames(defs)
    PROVE  VecOf(PlainBucket, SpecTemplate(spec, defs))
<1>1. CASE spec.t = "Inline"
  BY <1>1, PlanResolved DEF IsRateLimitSpec, SpecTemplate
<1>2. CASE spec.t = "Profiles"
  <2> DEFINE names == spec.names
             plans == [i \in DOMAIN names |-> RateLimitTemplate(defs, names[i])]
  <2>1. IsVec(names) /\ ToSet(names) \subseteq DefNames(defs)
    BY <1>2 DEF IsRateLimitSpec
  <2>2. SpecTemplate(spec, defs) = FlattenSeq(plans)
    BY <1>2 DEF SpecTemplate, combine_rate_limit_profiles, Concat
  <2> HIDE DEF names
  <2>3. ASSUME NEW i \in 1 .. Len(names) PROVE names[i] \in DefNames(defs) /\ i \in DOMAIN names
    BY <2>1, VecSeq
  <2>4. /\ plans = [i \in DOMAIN names |-> plans[i]]
        /\ \A i \in DOMAIN names : plans[i] = RateLimitTemplate(defs, names[i])
    OBVIOUS
  <2> HIDE DEF plans
  <2>5. ASSUME NEW i \in 1 .. Len(names) PROVE VecOf(PlainBucket, plans[i])
    BY <2>3, <2>4, TemplateResolved
  <2>6. plans = [i \in DOMAIN names |-> plans[i]] /\ \A i \in 1 .. Len(names) : IsVec(plans[i])
    BY <2>4, <2>5 DEF VecOf
  <2>7. IsVec(FlattenSeq(plans))
        /\ \A x \in ToSet(FlattenSeq(plans)) : \E i \in 1 .. Len(names) : x \in ToSet(plans[i])
    BY <2>1, <2>6, Joined
  <2> QED BY <2>2, <2>5, <2>7 DEF VecOf
<1> QED BY <1>1, <1>2 DEF IsRateLimitSpec

\* D declares the name f, and declares it as required.
Declared(D, f) == \E d \in D : d.rust = f
Demanded(D, f) == \E d \in D : d.rust = f /\ ~ d.optional

BucketIn(D, b) == DOMAIN b = {"kind", "name", "key", "cost", "windows"} /\ IsVec(b.key)
                  /\ \A k \in ToSet(b.key) : k.t = "EpField" => Demanded(D, k.name)
RateIn(D, rate) ==
    /\ DOMAIN rate = {"op", "buckets"} /\ rate.op \in {"None", "Clear", "Add", "Replace"}
    /\ IsVec(rate.buckets) /\ \A b \in ToSet(rate.buckets) : BucketIn(D, b)
    /\ rate.op \in {"None", "Clear"} => rate.buckets = <<>>
VisibleIn(D, vis) == \A n \in DOMAIN vis : Demanded(D, vis[n])

\* No rate limit mentions no parameter.
LEMMA NothingIn == ASSUME NEW D PROVE RateIn(D, NoRateLimit)
<1>1. DOMAIN NoRateLimit = {"op", "buckets"} /\ NoRateLimit.op = "None" /\ NoRateLimit.buckets = <<>>
  BY DEF NoRateLimit
<1> QED BY <1>1, EmptyVec DEF RateIn

\* A key of a bucket, filled in
LEMMA KeyIn ==
    ASSUME NEW D, NEW vis, VisibleIn(D, vis), NEW vs, IsVec(vs), ToSet(vs) \subseteq D,
           NEW key, key.t \in Kinds, ~ KeyFault(key, vis, vs)
    PROVE  LET k == materialize_rate_limit_key(key, vis) IN k.t = "EpField" => Demanded(D, k.name)
<1> DEFINE k == materialize_rate_limit_key(key, vis)
<1>1. CASE key.t # "Named"
  BY <1>1 DEF materialize_rate_limit_key, Kinds
<1>2. CASE key.t = "Named" /\ key.name \in DOMAIN vis
  <2>1. k.name = vis[key.name]
    BY <1>2 DEF materialize_rate_limit_key
  <2> QED BY <1>2, <2>1 DEF VisibleIn
<1>3. CASE key.t = "Named" /\ key.name \notin DOMAIN vis
  <2>1. k.name = key.name
    BY <1>3 DEF materialize_rate_limit_key
  <2>2. key.name \in VarNames(vs) /\ ~ VarNamed(vs, key.name).optional
    BY <1>3 DEF KeyFault
  <2>3. VarNamed(vs, key.name) \in ToSet(vs) /\ VarNamed(vs, key.name).rust = key.name
    BY <2>2, FoundVar
  <2> QED BY <2>1, <2>2, <2>3 DEF Demanded
<1> QED BY <1>1, <1>2, <1>3

\* A bucket whose named keys are bound mentions parameters that must be given.
LEMMA BucketFilled ==
    ASSUME NEW D, NEW vis, VisibleIn(D, vis), NEW vs, IsVec(vs), ToSet(vs) \subseteq D,
           NEW b, PlainBucket(b), \A key \in ToSet(b.key) : ~ KeyFault(key, vis, vs)
    PROVE  BucketIn(D, [b EXCEPT !.key = [k \in DOMAIN @ |-> materialize_rate_limit_key(@[k], vis)]])
<1> DEFINE r == [b EXCEPT !.key = [k \in DOMAIN @ |-> materialize_rate_limit_key(@[k], vis)]]
           ks == [k \in DOMAIN b.key |-> materialize_rate_limit_key(b.key[k], vis)]
<1>1. r.key = ks /\ DOMAIN r = {"kind", "name", "key", "cost", "windows"}
  BY DEF PlainBucket
<1>2. Len(b.key) \in Nat /\ DOMAIN b.key = 1 .. Len(b.key)
  BY VecSeq DEF PlainBucket
<1>3. ks = [i \in 1 .. Len(b.key) |-> ks[i]]
  BY <1>2
<1>4. \A i \in 1 .. Len(b.key) : ks[i] = materialize_rate_limit_key(b.key[i], vis)
  BY <1>2
<1> HIDE DEF ks, r
<1>5. IsVec(ks) /\ ToSet(ks) = {ks[i] : i \in 1 .. Len(b.key)}
  BY <1>2, <1>3, MapVec
<1>6. ASSUME NEW i \in 1 .. Len(b.key) PROVE ks[i].t = "EpField" => Demanded(D, ks[i].name)
  <2>1. b.key[i] \in ToSet(b.key)
    BY <1>2, VecSeq DEF PlainBucket
  <2>2. b.key[i].t \in Kinds /\ ~ KeyFault(b.key[i], vis, vs)
    BY <2>1 DEF PlainBucket
  <2> QED BY <1>4, <2>2, KeyIn
<1> QED BY <1>1, <1>5, <1>6 DEF BucketIn, r

\* What a rate-limit clause resolves to names required parameters of D only.
LEMMA RateSpecIn ==
    ASSUME NEW D, NEW vis, VisibleIn(D, vis), NEW vs, IsVec(vs), ToSet(vs) \subseteq D,
           NEW defs, VecOf(RateProfileOK, defs), NEW spec, RateSpecOK(spec),
           RateSpecFaults(spec, defs, vis, vs) = {}
    PROVE  RateIn(D, resolve_rate_limit_spec(spec, defs, vis))
<1> DEFINE r == resolve_rate_limit_spec(spec, defs, vis)
<1>1. CASE spec = None
  BY <1>1, NothingIn DEF resolve_rate_limit_spec
<1>2. CASE spec # None /\ spec.t = "Off"
  <2>1. r = [op |-> "Clear", buckets |-> <<>>]
    BY <1>2 DEF resolve_rate_limit_spec
  <2>2. DOMAIN r = {"op", "buckets"} /\ r.op = "Clear" /\ r.buckets = <<>>
    BY <2>1
  <2> HIDE DEF r
  <2> QED BY <2>2, EmptyVec DEF RateIn, r
<1>3. CASE spec # None /\ spec.t # "Off"
  <2> DEFINE plan == SpecTemplate(spec, defs)
             bs == [i \in DOMAIN plan |-> [plan[i] EXCEPT !.key = [k \in DOMAIN @ |->
                      materialize_rate_limit_key(@[k], vis)]]]
  <2>1. IsRateLimitSpec(spec)
    BY <1>3 DEF RateSpecOK
  <2>2. /\ spec.t = "Profiles" => ToSet(spec.names) \subseteq DefNames(defs)
        /\ \A b \in ToSet(plan) : \A key \in ToSet(b.key) : ~ KeyFault(key, vis, vs)
    <3> HIDE DEF plan
    <3>1. spec.t = "Profiles" => ToSet(spec.names) \subseteq DefNames(defs)
      BY <1>3 DEF RateSpecFaults
    <3>2. ~ (spec.t = "Inline" /\ BucketFaults(spec.plan) # {})
      BY <1>3, <3>1 DEF RateSpecFaults
    <3>3. RateSpecFaults(spec, defs, vis, vs)
            = {k \in UNION {ToSet(b.key) : b \in ToSet(plan)} : KeyFault(k, vis, vs)}
      BY <1>3, <3>1, <3>2 DEF RateSpecFaults, plan
    <3> QED BY <3>1, <3>3
  <2>3. VecOf(PlainBucket, plan)
    BY <1>3, <2>1, <2>2, SpecResolved
  <2>4. r = [op |-> IF spec.only THEN "Replace" ELSE "Add", buckets |-> bs]
    BY <1>3 DEF resolve_rate_limit_spec
  <2> HIDE DEF plan
  <2>5. Len(plan) \in Nat /\ DOMAIN plan = 1 .. Len(plan)
    BY <2>3, VecSeq DEF VecOf
  <2>6. bs = [i \in 1 .. Len(plan) |-> bs[i]]
    BY <2>5
  <2>7. ASSUME NEW i \in 1 .. Len(plan) PROVE BucketIn(D, bs[i])
    <3>1. plan[i] \in ToSet(plan)
      BY <2>3, VecSeq DEF VecOf
    <3>2. PlainBucket(plan[i]) /\ \A key \in ToSet(plan[i].key) : ~ KeyFault(key, vis, vs)
      BY <2>2, <2>3, <3>1 DEF VecOf
    <3>3. bs[i] = [plan[i] EXCEPT !.key = [k \in DOMAIN @ |-> materialize_rate_limit_key(@[k], vis)]]
      BY <2>5
    <3> HIDE DEF bs
    <3> QED BY <3>2, <3>3, BucketFilled
  <2>8. r.op \in {"Add", "Replace"} /\ r.buckets = bs /\ DOMAIN r = {"op", "buckets"}
    BY <2>4
  <2> HIDE DEF bs, r
  <2>9. IsVec(bs) /\ ToSet(bs) = {bs[i] : i \in 1 .. Len(plan)}
    BY <2>5, <2>6, MapVec
  <2> QED BY <2>7, <2>8, <2>9 DEF RateIn, r
<1> QED BY <1>1, <1>2, <1>3

\* Two rate limits, merged
LEMMA MergedIn ==
    ASSUME NEW D, NEW a, RateIn(D, a), NEW b, RateIn(D, b)
    PROVE  RateIn(D, merge_rate_limit_resolved(a, b))
<1> DEFINE r == merge_rate_limit_resolved(a, b)
<1>1. CASE b.op # "Add" \/ a.op \in {"None", "Clear"}
  <2>1. r = a \/ r = b
    BY <1>1 DEF merge_rate_limit_resolved
  <2> QED BY <2>1
<1>2. CASE ~ (b.op # "Add" \/ a.op \in {"None", "Clear"})
  <2>1. r = [a EXCEPT !.buckets = @ \o b.buckets]
    BY <1>2 DEF merge_rate_limit_resolved
  <2>2. IsVec(a.buckets) /\ IsVec(b.buckets)
    BY <1>2 DEF RateIn
  <2>3. IsVec(a.buckets \o b.buckets) /\ ToSet(a.buckets \o b.buckets) = ToSet(a.buckets) \cup ToSet(b.buckets)
    BY <2>2, JoinVec
  <2>4. DOMAIN r = {"op", "buckets"} /\ r.op = a.op /\ r.buckets = a.buckets \o b.buckets
    BY <1>2, <2>1 DEF RateIn
  <2>5. a.op \in {"Add", "Replace"}
    BY <1>2 DEF RateIn
  <2>6. \A x \in ToSet(a.buckets) \cup ToSet(b.buckets) : BucketIn(D, x)
    BY <1>2 DEF RateIn
  <2> HIDE DEF r
  <2> QED BY <2>3, <2>4, <2>5, <2>6 DEF RateIn, r
<1> QED BY <1>1, <1>2

SiteRateStep(c, D, acc, s) == merge_rate_limit_resolved(acc, resolve_rate_limit_spec(s, c.defs, c.vis))
SiteRateInv(c, D, i, acc) == RateIn(D, acc)
SiteRateFold == INSTANCE LeftFolds WITH Op <- SiteRateStep, Inv <- SiteRateInv


\* The rate limits of a site, those of its profiles included
LEMMA SiteRateIn ==
    ASSUME NEW D, NEW vis, VisibleIn(D, vis), NEW vs, IsVec(vs), ToSet(vs) \subseteq D,
           NEW defs, VecOf(RateProfileOK, defs), NEW specs, VecOf(IsRateLimitSpec, specs),
           NEW spec, RateSpecOK(spec),
           \A s \in ToSet(specs) \cup {spec} : RateSpecFaults(s, defs, vis, vs) = {}
    PROVE  RateIn(D, SiteRateLimit(specs, spec, defs, vis))
<1> DEFINE c == [defs |-> defs, vis |-> vis]
           acc == SiteRateFold!Fold(c, D, NoRateLimit, specs)
<1>1. SiteRateLimit(specs, spec, defs, vis)
        = merge_rate_limit_resolved(acc, resolve_rate_limit_spec(spec, defs, vis))
  BY DEF SiteRateLimit, SiteRateFold!Fold, SiteRateStep, FoldLeft, MapThenFoldSet, Max,
         SiteRateFold!FoldLeft, SiteRateFold!MapThenFoldSet, SiteRateFold!Max
<1>2. c.defs = defs /\ c.vis = vis
  OBVIOUS
<1> HIDE DEF c
<1>3. SiteRateInv(c, D, 0, NoRateLimit)
  BY NothingIn DEF SiteRateInv
<1>4. Len(specs) \in Nat /\ DOMAIN specs = 1 .. Len(specs)
  BY VecSeq DEF VecOf
<1>5. ASSUME NEW i \in 1 .. Len(specs), NEW a, SiteRateInv(c, D, i - 1, a)
      PROVE  SiteRateInv(c, D, i, SiteRateStep(c, D, a, specs[i]))
  <2>1. specs[i] \in ToSet(specs)
    BY VecSeq DEF VecOf
  <2>2. RateSpecOK(specs[i]) /\ RateSpecFaults(specs[i], defs, vis, vs) = {}
    BY <2>1 DEF VecOf, RateSpecOK
  <2>3. RateIn(D, resolve_rate_limit_spec(specs[i], defs, vis))
    BY <2>2, RateSpecIn
  <2> QED BY <1>2, <1>5, <2>3, MergedIn DEF SiteRateInv, SiteRateStep
<1>6. RateIn(D, acc)
  <2>1. SiteRateInv(c, D, Len(specs), acc)
    BY <1>3, <1>4, <1>5, SiteRateFold!FoldKeeps
  <2> QED BY <2>1 DEF SiteRateInv
<1> HIDE DEF acc
<1>7. RateSpecFaults(spec, defs, vis, vs) = {}
  OBVIOUS
<1>8. RateIn(D, resolve_rate_limit_spec(spec, defs, vis))
  BY <1>7, RateSpecIn
<1> QED BY <1>1, <1>6, <1>8, MergedIn

\* The keys that are visible below a site
BindStep(c, d, acc, b) == With(acc, b.name, b.value)
BindInv(D, d, i, acc) == VisibleIn(D, acc)
BindFold == INSTANCE LeftFolds WITH Op <- BindStep, Inv <- BindInv

\* BindKeys: every visible key is bound to a parameter that must be given.
LEMMA BoundIn ==
    ASSUME NEW D, NEW vis, VisibleIn(D, vis), NEW keys, IsVec(keys),
           \A b \in ToSet(keys) : Demanded(D, b.value)
    PROVE  VisibleIn(D, BindKeys(vis, keys))
<1>1. BindKeys(vis, keys) = BindFold!Fold(D, 0, vis, keys)
  BY DEF BindKeys, BindFold!Fold, BindStep, FoldLeft, MapThenFoldSet, Max,
         BindFold!FoldLeft, BindFold!MapThenFoldSet, BindFold!Max
<1>2. BindInv(D, 0, 0, vis)
  BY DEF BindInv
<1>3. Len(keys) \in Nat /\ DOMAIN keys = 1 .. Len(keys)
  BY VecSeq
<1>4. ASSUME NEW i \in 1 .. Len(keys), NEW acc, BindInv(D, 0, i - 1, acc)
      PROVE  BindInv(D, 0, i, BindStep(D, 0, acc, keys[i]))
  <2> DEFINE b == keys[i]  r == BindStep(D, 0, acc, b)
  <2>1. Demanded(D, b.value)
    BY <1>3, VecSeq
  <2>2. DOMAIN r = {b.name} \cup DOMAIN acc
        /\ \A n \in DOMAIN r : r[n] = IF n = b.name THEN b.value ELSE acc[n]
    BY DEF BindStep, With
  <2> HIDE DEF r, b
  <2>3. VisibleIn(D, r)
    BY <1>4, <2>1, <2>2 DEF BindInv, VisibleIn
  <2> QED BY <2>3 DEF BindInv, r, b
<1>5. BindInv(D, 0, Len(keys), BindFold!Fold(D, 0, vis, keys))
  BY <1>2, <1>3, <1>4, BindFold!FoldKeeps
<1> QED BY <1>1, <1>5 DEF BindInv

(* ---------------------------- policy operations -------------------------- *)

RefIn(D, C, r) == (r.t = "Ep" => Declared(D, r.field)) /\ (r.t = "Cx" => Declared(C, r.field))
RefsIn(D, C, v) == RefIn(D, C, v) /\ (v.t = "Fmt" => \A r \in ToSet(v.pieces) : RefIn(D, C, r))

OpIn(D, C, op) ==
    /\ op.op \in {"Set", "Remove"}
    /\ op.op = "Set" =>
         /\ IsFmtSpec(op.value) /\ RefsIn(D, C, op.value)
         /\ op.value.t = "Ep" => \E d \in D : /\ d.rust = op.value.field /\ d.optional = op.optional
                                              /\ op.cardinality = "Vector" => d.ty = "Vec"

BlockIn(D, C, b) ==
    /\ IsVec(b.headers) /\ IsVec(b.query) /\ RateIn(D, b.rate)
    /\ \A op \in ToSet(b.headers) \cup ToSet(b.query) : OpIn(D, C, op)

\* A reference without a fault names a declaration.
LEMMA RefFound ==
    ASSUME NEW D, NEW C, NEW vs, IsVec(vs), ToSet(vs) \subseteq D, NEW cv, IsVec(cv),
           ToSet(cv) \subseteq C, NEW r, ~ RefFault(r, cv, vs)
    PROVE  RefIn(D, C, r)
  BY NamesOf DEF RefFault, RefIn, Declared

\* A value without a fault names declarations only.
LEMMA ValueFound ==
    ASSUME NEW D, NEW C, NEW vs, IsVec(vs), ToSet(vs) \subseteq D, NEW cv, IsVec(cv),
           ToSet(cv) \subseteq C, NEW v, ~ ValueFault(v, cv, vs)
    PROVE  RefsIn(D, C, v)
<1>1. CASE v.t = "Expr"
  BY <1>1 DEF RefsIn, RefIn
<1>2. CASE v.t = "Fmt"
  <2>1. \A r \in ToSet(v.pieces) : ~ RefFault(r, cv, vs)
    BY <1>2 DEF ValueFault, FmtFault
  <2>2. \A r \in ToSet(v.pieces) : RefIn(D, C, r)
    BY <2>1, RefFound
  <2> QED BY <1>2, <2>2 DEF RefsIn, RefIn
<1>3. CASE v.t \notin {"Expr", "Fmt"}
  <2>1. ~ RefFault(v, cv, vs)
    BY <1>3 DEF ValueFault
  <2> QED BY <1>3, <2>1, RefFound DEF RefsIn
<1> QED BY <1>1, <1>2, <1>3

\* A statement of an accepted block, resolved
LEMMA StmtsIn ==
    ASSUME NEW D, NEW C, NEW vs, IsVec(vs), ToSet(vs) \subseteq D, NEW cv, IsVec(cv),
           ToSet(cv) \subseteq C, NEW stmts, VecOf(IsPolicyStmt, stmts), NEW kind,
           PolicyFaults(stmts, kind, cv, vs) = {}
    PROVE  LET ops == resolve_policy_block(stmts, kind, cv, vs)
           IN  IsVec(ops) /\ \A op \in ToSet(ops) : OpIn(D, C, op)
<1> DEFINE ops == resolve_policy_block(stmts, kind, cv, vs)
<1>1. Len(stmts) \in Nat /\ DOMAIN stmts = 1 .. Len(stmts)
  BY VecSeq DEF VecOf
<1>2. /\ ops = [i \in 1 .. Len(stmts) |-> ops[i]]
      /\ \A i \in 1 .. Len(stmts) : ops[i] =
           IF stmts[i].op = "Remove" THEN [op |-> "Remove", key |-> OpKey(stmts[i], kind)]
           ELSE [op |-> "Set", key |-> OpKey(stmts[i], kind), value |-> stmts[i].value,
                 optional |-> RefOptional(stmts[i].value, cv, vs),
                 cardinality |-> query_cardinality(stmts[i].value, kind, cv, vs)]
  BY <1>1 DEF resolve_policy_block
<1> HIDE DEF ops
<1>3. IsVec(ops) /\ ToSet(ops) = {ops[i] : i \in 1 .. Len(stmts)}
  <2>1. ops = [i \in 1 .. Len(stmts) |-> ops[i]]
    BY <1>2
  <2> QED BY <1>1, <2>1, MapVec
<1>4. ASSUME NEW i \in 1 .. Len(stmts) PROVE OpIn(D, C, ops[i])
  <2> DEFINE st == stmts[i]  op == ops[i]
  <2>1. IsPolicyStmt(st)
    BY <1>1, VecSeq DEF VecOf
  <2>2. CASE st.op = "Remove"
    <3>1. op.op = "Remove"
      BY <1>2, <2>2
    <3> QED BY <3>1 DEF OpIn
  <2>3. CASE st.op = "Set"
    <3>1. /\ op.op = "Set" /\ op.value = st.value
          /\ op.optional = RefOptional(st.value, cv, vs)
          /\ op.cardinality = query_cardinality(st.value, kind, cv, vs)
      BY <1>2, <2>3
    <3>2. ~ ValueFault(st.value, cv, vs)
      BY <1>1, <2>3 DEF PolicyFaults
    <3>3. IsFmtSpec(st.value) /\ RefsIn(D, C, st.value)
      BY <2>1, <2>3, <3>2, ValueFound DEF IsPolicyStmt
    <3> HIDE DEF st, op
    <3>4. ASSUME op.value.t = "Ep"
          PROVE  \E d \in D : /\ d.rust = op.value.field /\ d.optional = op.optional
                              /\ op.cardinality = "Vector" => d.ty = "Vec"
      <4> DEFINE f == st.value.field  d == VarNamed(vs, f)
      <4>1. st.value.t = "Ep" /\ f \in VarNames(vs)
        BY <3>1, <3>2, <3>4 DEF ValueFault, RefFault
      <4>2. d \in ToSet(vs) /\ d.rust = f
        BY <4>1, FoundVar
      <4>3. op.optional = d.optional /\ (op.cardinality = "Vector" => d.ty = "Vec")
        BY <3>1, <4>1 DEF RefOptional, query_cardinality
      <4> HIDE DEF d
      <4> QED BY <3>1, <4>2, <4>3
    <3> QED BY <3>1, <3>3, <3>4 DEF OpIn, op
  <2> QED BY <2>1, <2>2, <2>3 DEF IsPolicyStmt
<1> QED BY <1>3, <1>4 DEF ops

(* -------------------------- routes and sites ----------------------------- *)

OneLabel(p) == p.t = "Static" => p.labels = <<p.labels[1]>>
PieceIn(D, C, p) == IsFmtSpec(p) /\ RefsIn(D, C, p) /\ (p.t = "Static" => IsVec(p.labels))

\* A piece of a route without a fault names declarations only.
LEMMA AtomIn ==
    ASSUME NEW D, NEW C, NEW vs, IsVec(vs), ToSet(vs) \subseteq D, NEW cv, IsVec(cv),
           ToSet(cv) \subseteq C, NEW a, IsRouteAtom(a), NEW kind, NEW isLayer,
           ~ RouteFault(a, kind, isLayer, cv, vs)
    PROVE  PieceIn(D, C, a)
<1>1. CASE a.t = "Static"
  BY <1>1 DEF IsRouteAtom, IsFmtSpec, PieceIn, RefsIn, RefIn
<1>2. CASE a.t = "Fmt"
  <2>1. \A r \in ToSet(a.pieces) : ~ RefFault(r, cv, vs)
    BY <1>2 DEF RouteFault
  <2>2. \A r \in ToSet(a.pieces) : RefIn(D, C, r)
    BY <2>1, RefFound
  <2> QED BY <1>2, <2>2 DEF IsRouteAtom, PieceIn, RefsIn, RefIn
<1>3. CASE a.t \notin {"Static", "Fmt"}
  <2>1. ~ RefFault(a, cv, vs)
    BY <1>3 DEF RouteFault
  <2>2. RefIn(D, C, a)
    BY <2>1, RefFound
  <2> QED BY <1>3, <2>2 DEF IsRouteAtom, PieceIn, RefsIn
<1> QED BY <1>1, <1>2, <1>3

\* A literal of a host is split into its labels.
LEMMA LabelsSplit ==
    ASSUME NEW D, NEW C, NEW a, IsRouteAtom(a), a.t = "Static"
    PROVE  LET ps == [i \in DOMAIN a.labels |-> [a EXCEPT !.labels = <<a.labels[i]>>]]
           IN  IsVec(ps) /\ \A p \in ToSet(ps) : PieceIn(D, C, p) /\ OneLabel(p)
<1> DEFINE n == Len(a.labels)
           ps == [i \in DOMAIN a.labels |-> [a EXCEPT !.labels = <<a.labels[i]>>]]
<1>1. n \in Nat /\ DOMAIN a.labels = 1 .. n
  BY VecSeq DEF IsRouteAtom
<1>2. ps = [i \in 1 .. n |-> ps[i]]
  BY <1>1
<1>3. ASSUME NEW i \in 1 .. n PROVE PieceIn(D, C, ps[i]) /\ OneLabel(ps[i])
  <2> DEFINE p == ps[i]  l == a.labels[i]
  <2>1. p = [a EXCEPT !.labels = <<l>>]
    BY <1>1
  <2>2. p.t = "Static" /\ p.labels = <<l>>
    BY <2>1 DEF IsRouteAtom
  <2> HIDE DEF p, l
  <2>3. p.labels[1] = l /\ IsVec(<<l>>)
    BY <2>2, OneVec
  <2> QED BY <2>2, <2>3 DEF PieceIn, OneLabel, RefsIn, RefIn, IsFmtSpec, p
<1> HIDE DEF ps, n
<1>4. IsVec(ps) /\ ToSet(ps) = {ps[i] : i \in 1 .. n}
  BY <1>1, <1>2, MapVec
<1> QED BY <1>3, <1>4 DEF ps

\* The pieces of an accepted route mention declared names; each literal of a host is
\* one label.
LEMMA PiecesIn ==
    ASSUME NEW D, NEW C, NEW vs, IsVec(vs), ToSet(vs) \subseteq D, NEW cv, IsVec(cv),
           ToSet(cv) \subseteq C, NEW route, VecOf(IsRouteAtom, route), NEW kind, NEW isLayer,
           \A a \in ToSet(route) : ~ RouteFault(a, kind, isLayer, cv, vs)
    PROVE  /\ IsVec(RoutePieces(route, kind))
           /\ \A p \in ToSet(RoutePieces(route, kind)) :
                PieceIn(D, C, p) /\ (kind = "Prefix" => OneLabel(p))
<1> DEFINE split(a) == [i \in DOMAIN a.labels |-> [a EXCEPT !.labels = <<a.labels[i]>>]]
           part(a) == IF a.t = "Static" /\ kind = "Prefix" THEN split(a) ELSE <<a>>
           parts == [i \in DOMAIN route |-> part(route[i])]
           Good(ps) == IsVec(ps) /\ \A p \in ToSet(ps) : PieceIn(D, C, p)
                                                        /\ (kind = "Prefix" => OneLabel(p))
<1>1. RoutePieces(route, kind) = FlattenSeq(parts)
  BY DEF RoutePieces, Concat
<1>2. ASSUME NEW a \in ToSet(route) PROVE Good(part(a))
  <2>1. IsRouteAtom(a) /\ PieceIn(D, C, a)
    BY AtomIn DEF VecOf
  <2>2. CASE a.t = "Static" /\ kind = "Prefix"
    <3>1. part(a) = split(a)
      BY <2>2
    <3>2. IsVec(split(a)) /\ \A p \in ToSet(split(a)) : PieceIn(D, C, p) /\ OneLabel(p)
      BY <2>1, <2>2, LabelsSplit
    <3> HIDE DEF part, split
    <3> QED BY <3>1, <3>2
  <2>3. CASE a.t # "Static" \/ kind # "Prefix"
    <3>1. part(a) = <<a>>
      BY <2>3
    <3>2. kind = "Prefix" => OneLabel(a)
      BY <2>3 DEF OneLabel
    <3> HIDE DEF part
    <3> QED BY <2>1, <3>1, <3>2, OneVec
  <2> QED BY <2>2, <2>3
<1> HIDE DEF part
<1>3. Len(route) \in Nat /\ DOMAIN route = 1 .. Len(route) /\ IsVec(route)
  BY VecSeq DEF VecOf
<1>4. parts = [i \in DOMAIN route |-> parts[i]]
  OBVIOUS
<1>5. ASSUME NEW i \in 1 .. Len(route) PROVE Good(parts[i])
  <2>1. route[i] \in ToSet(route) /\ parts[i] = part(route[i])
    BY <1>3, VecSeq
  <2> HIDE DEF Good
  <2> QED BY <1>2, <2>1
<1> HIDE DEF parts
<1>6. \A i \in 1 .. Len(route) : IsVec(parts[i])
  BY <1>5
<1>7. IsVec(FlattenSeq(parts))
      /\ \A x \in ToSet(FlattenSeq(parts)) : \E i \in 1 .. Len(route) : x \in ToSet(parts[i])
  BY <1>3, <1>4, <1>6, Joined
<1> QED BY <1>1, <1>5, <1>7

\* What the passes after parsing know of the client
ClientOK == /\ VecOf(BundleOK, client.bundles) /\ VecOf(RateProfileOK, client.rateProfiles)
            /\ IsVec(client.vars)

AuthOK(auth) == IsVec(auth) /\ \A r \in ToSet(auth) : UseOK(r)

\* The policy of a site without faults mentions what is declared there.
LEMMA SiteIn ==
    ASSUME ClientOK, NEW D, NEW vs, IsVec(vs), ToSet(vs) \subseteq D, NEW rv, IsVec(rv),
           ToSet(rv) \subseteq D, NEW vis, VisibleIn(D, vis), NEW site, RawSiteOK(site),
           ProfileUseFaults(site.profiles, client.bundles) = {}, NEW spec, RateSpecOK(spec),
           ~ SiteFaults(site, spec, vis, rv, vs)
    PROVE  BlockIn(D, ToSet(client.vars), SitePolicy(site, spec, vis, vs))
<1> DEFINE used == resolve_profile_uses(site.profiles, client.bundles)
           C == ToSet(client.vars)
           b == SitePolicy(site, spec, vis, vs)
<1>1. VecOf(IsRateLimitSpec, used.rate)
  BY UsesResolved DEF ClientOK, RawSiteOK
<1>2. /\ PolicyFaults(site.policy.headers, "Header", client.vars, vs) = {}
      /\ PolicyFaults(site.policy.query, "Query", client.vars, vs) = {}
      /\ \A s \in ToSet(used.rate) \cup {spec} : RateSpecFaults(s, client.rateProfiles, vis, rv) = {}
  BY DEF SiteFaults, BlockFaults
<1>3. /\ b.headers = resolve_policy_block(site.policy.headers, "Header", client.vars, vs)
      /\ b.query = resolve_policy_block(site.policy.query, "Query", client.vars, vs)
      /\ b.rate = SiteRateLimit(used.rate, spec, client.rateProfiles, vis)
  BY DEF SitePolicy, resolve_policy_blocks
<1> HIDE DEF b, used
<1>4. /\ VecOf(IsPolicyStmt, site.policy.headers) /\ VecOf(IsPolicyStmt, site.policy.query)
      /\ IsVec(client.vars) /\ ToSet(client.vars) \subseteq C
  BY DEF ClientOK, RawSiteOK, RawPolicyOK
<1> HIDE DEF C
<1>5. \A op \in ToSet(b.headers) \cup ToSet(b.query) : OpIn(D, C, op)
  BY <1>2, <1>3, <1>4, StmtsIn
<1>7. IsVec(b.headers) /\ IsVec(b.query)
  BY <1>2, <1>3, <1>4, StmtsIn
<1>6. RateIn(D, b.rate)
  BY <1>1, <1>2, <1>3, SiteRateIn DEF ClientOK
<1> QED BY <1>5, <1>6, <1>7 DEF BlockIn, b, C

\* The credentials that a site uses, those of its profiles included
LEMMA SiteAuthOK ==
    ASSUME ClientOK, NEW site, RawSiteOK(site),
           ProfileUseFaults(site.profiles, client.bundles) = {}, NEW provenance
    PROVE  AuthOK(SiteAuth(site, provenance))
<1> DEFINE used == resolve_profile_uses(site.profiles, client.bundles)
           uses == used.auth \o site.auth
           r == resolve_auth_requirements(uses, provenance)
<1>1. VecOf(UseOK, used.auth)
  BY UsesResolved DEF ClientOK, RawSiteOK
<1>2. SiteAuth(site, provenance) = r
  BY DEF SiteAuth
<1>3. IsVec(uses) /\ ToSet(uses) = ToSet(used.auth) \cup ToSet(site.auth)
  <2>1. IsVec(used.auth) /\ IsVec(site.auth)
    BY <1>1 DEF VecOf, RawSiteOK
  <2> HIDE DEF used
  <2> QED BY <2>1, JoinVec
<1>4. \A u \in ToSet(uses) : UseOK(u)
  BY <1>1, <1>3 DEF VecOf, RawSiteOK
<1> HIDE DEF uses
<1>5. Len(uses) \in Nat /\ DOMAIN uses = 1 .. Len(uses)
  BY <1>3, VecSeq
<1>6. r = [i \in 1 .. Len(uses) |-> r[i]] /\ \A i \in 1 .. Len(uses) : r[i].kind = uses[i].kind
  BY <1>5 DEF resolve_auth_requirements
<1> HIDE DEF r
<1>7. IsVec(r) /\ ToSet(r) = {r[i] : i \in 1 .. Len(uses)}
  <2>1. r = [i \in 1 .. Len(uses) |-> r[i]]
    BY <1>6
  <2> QED BY <1>5, <2>1, MapVec
<1>8. ASSUME NEW i \in 1 .. Len(uses) PROVE UseOK(r[i])
  <2>1. UseOK(uses[i])
    BY <1>3, <1>4, VecSeq
  <2> QED BY <1>6, <2>1 DEF UseOK
<1> QED BY <1>2, <1>7, <1>8 DEF AuthOK

(* ------------------------------- walk_items ------------------------------ *)

LayerRead(x) ==
    /\ IsVec(x.decls) /\ IsVec(x.pieces) /\ IsVec(x.keys) /\ AuthOK(x.auth) /\ DeclsOK(x.decls)
    /\ \A b \in ToSet(x.keys) : Demanded(ToSet(x.decls), b.value)

\* A layer mentions what D, its own declarations and the outer ones, declares.
LayerIn(D, C, x) ==
    /\ BlockIn(D, C, x.policy)
    /\ \A p \in ToSet(x.pieces) : PieceIn(D, C, p) /\ (x.kind = "Prefix" => OneLabel(p))

\* The declarations of the outermost j layers that are open
DeclsTo(ls, an, j) == UNION {ToSet(ls[an[i]].decls) : i \in 1 .. j}

LayersOpen(ls, an, C) ==
    /\ IsVec(ls) /\ \A x \in ToSet(ls) : LayerRead(x)
    /\ IsVec(an) /\ ToSet(an) \subseteq DOMAIN ls
    /\ \A j \in 1 .. Len(an) : LayerIn(DeclsTo(ls, an, j), C, ls[an[j]])

\* E declares what D declares, alike.
Agree(D, E) == \A d \in D : \E v \in E : v.rust = d.rust /\ v.optional = d.optional /\ v.ty = d.ty

\* A reference is still declared when the declarations agree.
LEMMA RefInMore ==
    ASSUME NEW D, NEW E, Agree(D, E), NEW C, NEW v
    PROVE  (RefIn(D, C, v) => RefIn(E, C, v)) /\ (RefsIn(D, C, v) => RefsIn(E, C, v))
<1>1. ASSUME NEW f, Declared(D, f) PROVE Declared(E, f)
  BY <1>1 DEF Declared, Agree
<1> QED BY <1>1 DEF RefsIn, RefIn

\* So are the parameters that a rate limit is keyed by.
LEMMA RateInMore ==
    ASSUME NEW D, NEW E, Agree(D, E), NEW rate, RateIn(D, rate) PROVE RateIn(E, rate)
<1>1. ASSUME NEW f, Demanded(D, f) PROVE Demanded(E, f)
  BY <1>1 DEF Demanded, Agree
<1>2. ASSUME NEW b, BucketIn(D, b) PROVE BucketIn(E, b)
  BY <1>1, <1>2 DEF BucketIn
<1> QED BY <1>2 DEF RateIn

\* So is what a header or query statement mentions, with its optionality and type.
LEMMA OpInMore ==
    ASSUME NEW D, NEW E, Agree(D, E), NEW C, NEW op, OpIn(D, C, op) PROVE OpIn(E, C, op)
<1>1. op.op = "Set" => RefsIn(E, C, op.value)
  BY RefInMore DEF OpIn
<1>2. ASSUME op.op = "Set", op.value.t = "Ep"
      PROVE  \E d \in E : /\ d.rust = op.value.field /\ d.optional = op.optional
                          /\ op.cardinality = "Vector" => d.ty = "Vec"
  BY <1>2 DEF OpIn, Agree
<1> QED BY <1>1, <1>2 DEF OpIn

\* So is what a policy block or a piece of a route mentions.
LEMMA LayerInMore ==
    ASSUME NEW D, NEW E, Agree(D, E), NEW C
    PROVE  /\ \A b : BlockIn(D, C, b) => BlockIn(E, C, b)
           /\ \A p : PieceIn(D, C, p) => PieceIn(E, C, p)
<1>1. ASSUME NEW b, BlockIn(D, C, b) PROVE BlockIn(E, C, b)
  BY <1>1, OpInMore, RateInMore DEF BlockIn
<1>2. ASSUME NEW p, PieceIn(D, C, p) PROVE PieceIn(E, C, p)
  BY <1>2, RefInMore DEF PieceIn
<1> QED BY <1>1, <1>2

\* Opening a layer that is declared below the open ones
LEMMA LayerPushed ==
    ASSUME NEW ls, NEW an, NEW C, LayersOpen(ls, an, C), NEW x, LayerRead(x),
           LayerIn(DeclsTo(ls, an, Len(an)) \cup ToSet(x.decls), C, x)
    PROVE  LayersOpen(Append(ls, x), Append(an, Len(ls) + 1), C)
<1> DEFINE m == Append(ls, x)  n == Len(ls) + 1  bn == Append(an, n)  k == Len(an)
<1>1. IsVec(ls) /\ IsVec(an) /\ Len(ls) \in Nat /\ DOMAIN ls = 1 .. Len(ls)
      /\ k \in Nat /\ DOMAIN an = 1 .. k /\ \A i \in 1 .. k : an[i] \in ToSet(an)
  BY VecSeq DEF LayersOpen
<1>2. /\ IsVec(m) /\ ToSet(m) = ToSet(ls) \cup {x} /\ Len(m) = n /\ m[n] = x
      /\ \A i \in 1 .. Len(ls) : m[i] = ls[i]
  BY <1>1, AppendVec
<1>3. /\ IsVec(bn) /\ ToSet(bn) = ToSet(an) \cup {n} /\ Len(bn) = k + 1 /\ bn[k + 1] = n
      /\ \A i \in 1 .. k : bn[i] = an[i]
  <2> HIDE DEF n
  <2> QED BY <1>1, AppendVec
<1>4. DOMAIN m = 1 .. n
  BY <1>2, VecSeq
<1> HIDE DEF m, bn, k
<1>5. ToSet(bn) \subseteq DOMAIN m
  BY <1>1, <1>3, <1>4 DEF LayersOpen
<1>6. \A i \in 1 .. k : m[bn[i]] = ls[an[i]]
  BY <1>1, <1>2, <1>3 DEF LayersOpen
<1>7. ASSUME NEW j \in 0 .. k PROVE DeclsTo(m, bn, j) = DeclsTo(ls, an, j)
  <2>1. \A i \in 1 .. j : i \in 1 .. k
    BY <1>1
  <2> QED BY <1>6, <2>1 DEF DeclsTo
<1>8. DeclsTo(m, bn, k + 1) = DeclsTo(ls, an, k) \cup ToSet(x.decls)
  <2>1. 1 .. (k + 1) = (1 .. k) \cup {k + 1}
    BY <1>1
  <2>2. m[bn[k + 1]] = x
    BY <1>2, <1>3
  <2>3. DeclsTo(m, bn, k + 1) = DeclsTo(m, bn, k) \cup ToSet(m[bn[k + 1]].decls)
    BY <2>1 DEF DeclsTo
  <2> QED BY <1>1, <1>7, <2>2, <2>3
<1>9. ASSUME NEW j \in 1 .. Len(bn) PROVE LayerIn(DeclsTo(m, bn, j), C, m[bn[j]])
  <2>1. CASE j \in 1 .. k
    BY <1>6, <1>7, <2>1 DEF LayersOpen, k
  <2>2. CASE j = k + 1
    <3>1. m[bn[j]] = x
      BY <1>2, <1>3, <2>2
    <3> QED BY <1>8, <2>2, <3>1 DEF k
  <2> QED BY <1>1, <1>3, <2>1, <2>2
<1> QED BY <1>2, <1>3, <1>5, <1>9 DEF LayersOpen, m, bn

\* All members of a Vec but the last
LEMMA FrontVec ==
    ASSUME NEW s, IsVec(s)
    PROVE  /\ IsVec(Front(s)) /\ ToSet(Front(s)) \subseteq ToSet(s) /\ Len(Front(s)) <= Len(s)
           /\ \A i \in 1 .. Len(Front(s)) : Front(s)[i] = s[i]
<1> DEFINE n == Len(s)  r == Front(s)  k == IF n = 0 THEN 0 ELSE n - 1
<1>1. n \in Nat /\ DOMAIN s = 1 .. n /\ k \in Nat /\ k <= n
  BY VecSeq
<1>2. r = [i \in 1 .. k |-> s[i]]
  <2>1. s \in Seq(ToSet(s))
    BY DEF IsVec
  <2>2. CASE n = 0
    <3>1. s = <<>>
      BY <2>1, <2>2
    <3>2. r = <<>>
      BY <3>1 DEF Front
    <3> QED BY <2>2, <3>2
  <2>3. CASE n # 0
    BY <1>1, <2>1, <2>3 DEF Front
  <2> QED BY <2>2, <2>3
<1>3. r = [i \in 1 .. k |-> r[i]] /\ \A i \in 1 .. k : r[i] = s[i]
  BY <1>2
<1> HIDE DEF r, k
<1>4. IsVec(r) /\ Len(r) = k /\ ToSet(r) = {r[i] : i \in 1 .. k}
  <2>1. r = [i \in 1 .. k |-> r[i]]
    BY <1>3
  <2> QED BY <1>1, <2>1, MapVec
<1>5. \A i \in 1 .. k : r[i] \in ToSet(s)
  BY <1>1, <1>3, VecSeq
<1> QED BY <1>1, <1>3, <1>4, <1>5 DEF r

\* Closing the innermost layer
LEMMA LayerPopped ==
    ASSUME NEW ls, NEW an, NEW C, LayersOpen(ls, an, C)
    PROVE  LayersOpen(ls, Front(an), C)
<1> DEFINE bn == Front(an)
<1>1. IsVec(an) /\ Len(an) \in Nat
  BY VecSeq DEF LayersOpen
<1>2. /\ IsVec(bn) /\ ToSet(bn) \subseteq ToSet(an) /\ Len(bn) <= Len(an)
      /\ \A i \in 1 .. Len(bn) : bn[i] = an[i]
  BY <1>1, FrontVec
<1> HIDE DEF bn
<1>3. Len(bn) \in Nat
  BY <1>2, VecSeq
<1>4. ASSUME NEW j \in 1 .. Len(bn) PROVE LayerIn(DeclsTo(ls, bn, j), C, ls[bn[j]])
  <2>1. \A i \in 1 .. j : i \in 1 .. Len(bn)
    BY <1>3
  <2>2. DeclsTo(ls, bn, j) = DeclsTo(ls, an, j)
    BY <1>2, <2>1 DEF DeclsTo
  <2>3. bn[j] = an[j] /\ j \in 1 .. Len(an)
    BY <1>1, <1>2, <1>3
  <2> QED BY <2>2, <2>3 DEF LayersOpen
<1> QED BY <1>2, <1>4 DEF LayersOpen, bn

\* What the open layers declare, and the keys that they bind
LEMMA OpenDeclsFacts ==
    ASSUME NEW C, LayersOpen(layers, ancestry, C)
    PROVE  IsVec(OpenDecls) /\ ToSet(OpenDecls) = DeclsTo(layers, ancestry, Len(ancestry))
           /\ DeclsOK(OpenDecls)
<1> DEFINE parts == [i \in DOMAIN ancestry |-> layers[ancestry[i]].decls]
<1>1. OpenDecls = FlattenSeq(parts)
  BY DEF OpenDecls, Concat
<1>2. IsVec(ancestry) /\ DOMAIN ancestry = 1 .. Len(ancestry) /\ IsVec(layers)
  BY VecSeq DEF LayersOpen
<1>3. parts = [i \in DOMAIN ancestry |-> parts[i]]
  OBVIOUS
<1>4. ASSUME NEW i \in 1 .. Len(ancestry)
      PROVE  IsVec(parts[i]) /\ DeclsOK(parts[i]) /\ parts[i] = layers[ancestry[i]].decls
  <2>1. ancestry[i] \in DOMAIN layers
    BY <1>2, VecSeq DEF LayersOpen
  <2>2. layers[ancestry[i]] \in ToSet(layers)
    BY <2>1 DEF ToSet
  <2> QED BY <1>2, <2>2 DEF LayersOpen, LayerRead
<1> HIDE DEF parts
<1>5. \A i \in 1 .. Len(ancestry) : IsVec(parts[i])
  BY <1>4
<1>6. /\ IsVec(FlattenSeq(parts))
      /\ \A x \in ToSet(FlattenSeq(parts)) : \E i \in 1 .. Len(ancestry) : x \in ToSet(parts[i])
      /\ \A i \in 1 .. Len(ancestry) : ToSet(parts[i]) \subseteq ToSet(FlattenSeq(parts))
  BY <1>2, <1>3, <1>5, Joined
<1>7. ToSet(FlattenSeq(parts)) = DeclsTo(layers, ancestry, Len(ancestry))
  BY <1>4, <1>6 DEF DeclsTo
<1>8. DeclsOK(FlattenSeq(parts))
  BY <1>4, <1>6 DEF DeclsOK, VecOf
<1> QED BY <1>1, <1>6, <1>7, <1>8

OpenKeysStep(ls, d, vis, id) == BindKeys(vis, ls[id].keys)
OpenKeysInv(ls, D, i, vis) == VisibleIn(D, vis)
OpenKeysFold == INSTANCE LeftFolds WITH Op <- OpenKeysStep, Inv <- OpenKeysInv

\* The rate-limit keys that the open layers bind
LEMMA OpenKeysIn ==
    ASSUME NEW C, LayersOpen(layers, ancestry, C)
    PROVE  VisibleIn(DeclsTo(layers, ancestry, Len(ancestry)), OpenKeys)
<1> DEFINE D == DeclsTo(layers, ancestry, Len(ancestry))
           fold == OpenKeysFold!Fold(layers, D, <<>>, ancestry)
<1>1. OpenKeys = fold
  BY DEF OpenKeys, OpenKeysFold!Fold, OpenKeysStep, FoldLeft, MapThenFoldSet, Max,
         OpenKeysFold!FoldLeft, OpenKeysFold!MapThenFoldSet, OpenKeysFold!Max
<1>2. OpenKeysInv(layers, D, 0, <<>>)
  BY DEF OpenKeysInv, VisibleIn
<1>3. IsVec(ancestry) /\ Len(ancestry) \in Nat /\ DOMAIN ancestry = 1 .. Len(ancestry)
  BY VecSeq DEF LayersOpen
<1>4. ASSUME NEW i \in 1 .. Len(ancestry), NEW vis, OpenKeysInv(layers, D, i - 1, vis)
      PROVE  OpenKeysInv(layers, D, i, OpenKeysStep(layers, D, vis, ancestry[i]))
  <2> DEFINE x == layers[ancestry[i]]
  <2>1. ancestry[i] \in DOMAIN layers
    BY <1>3, VecSeq DEF LayersOpen
  <2>2. LayerRead(x)
    BY <2>1 DEF LayersOpen, ToSet
  <2>3. ToSet(x.decls) \subseteq D
    BY DEF DeclsTo
  <2> HIDE DEF x, D
  <2>4. IsVec(x.keys) /\ \A b \in ToSet(x.keys) : Demanded(D, b.value)
    BY <2>2, <2>3 DEF LayerRead, Demanded
  <2>5. VisibleIn(D, vis)
    BY <1>4 DEF OpenKeysInv
  <2>6. VisibleIn(D, BindKeys(vis, x.keys))
    BY <2>4, <2>5, BoundIn
  <2> QED BY <2>6 DEF OpenKeysInv, OpenKeysStep, x
<1> HIDE DEF D
<1>5. OpenKeysInv(layers, D, Len(ancestry), fold)
  BY <1>2, <1>3, <1>4, OpenKeysFold!FoldKeeps
<1> QED BY <1>1, <1>5 DEF OpenKeysInv, D

\* rate_limit key bindings of a site are required parameters of decls.
LEMMA BindingsIn ==
    ASSUME NEW keys, NEW decls, IsVec(decls), KeyBindingFaults(keys, decls) = {}
    PROVE  \A b \in ToSet(keys) : Demanded(ToSet(decls), b.value)
<1>1. ASSUME NEW i \in DOMAIN keys PROVE Demanded(ToSet(decls), keys[i].value)
  <2> DEFINE f == keys[i].value
  <2>1. f \in VarNames(decls) /\ ~ VarNamed(decls, f).optional
    BY DEF KeyBindingFaults
  <2> HIDE DEF f
  <2>2. VarNamed(decls, f) \in ToSet(decls) /\ VarNamed(decls, f).rust = f
    BY <2>1, FoundVar
  <2> QED BY <2>1, <2>2 DEF Demanded, f
<1> QED BY <1>1 DEF ToSet

\* Bound keys stay bound when more is declared.
LEMMA VisibleMore ==
    ASSUME NEW D, NEW E, D \subseteq E, NEW vis, VisibleIn(D, vis) PROVE VisibleIn(E, vis)
  BY DEF VisibleIn, Demanded

\* An accepted layer joins the open ones.
LEMMA LayerWalked ==
    ASSUME ClientOK, LayersOpen(layers, ancestry, ToSet(client.vars)), NEW s, LayerTextOK(s),
           ~ LayerFaults(s, LayerVars(OpenDecls \o s.params), BindKeys(OpenKeys, s.keys)),
           NEW provenance
    PROVE  LET vs  == LayerVars(OpenDecls \o s.params)
               vis == BindKeys(OpenKeys, s.keys)
               x   == [name |-> s.name, kind |-> s.kind, pieces |-> RoutePieces(s.route, s.kind),
                       policy |-> SitePolicy(s, s.rate, vis, vs),
                       auth |-> SiteAuth(s, provenance), keys |-> s.keys, decls |-> s.params]
           IN  LayersOpen(Append(layers, x), Append(ancestry, Len(layers) + 1), ToSet(client.vars))
<1> DEFINE C   == ToSet(client.vars)
           O   == DeclsTo(layers, ancestry, Len(ancestry))
           D   == O \cup ToSet(s.params)
           vs  == LayerVars(OpenDecls \o s.params)
           vis == BindKeys(OpenKeys, s.keys)
           x   == [name |-> s.name, kind |-> s.kind, pieces |-> RoutePieces(s.route, s.kind),
                   policy |-> SitePolicy(s, s.rate, vis, vs),
                   auth |-> SiteAuth(s, provenance), keys |-> s.keys, decls |-> s.params]
<1>1. /\ RawSiteOK(s) /\ DeclsOK(s.params) /\ IsVec(s.params) /\ VecOf(IsRouteAtom, s.route)
      /\ RateSpecOK(s.rate) /\ IsVec(s.keys)
  BY DEF LayerTextOK, RawEndpointOK, DeclsOK, VecOf
<1>2. IsVec(vs) /\ ToSet(vs) \subseteq D
  <2>1. IsVec(OpenDecls) /\ ToSet(OpenDecls) = O
    BY OpenDeclsFacts
  <2>2. IsVec(OpenDecls \o s.params) /\ ToSet(OpenDecls \o s.params) = D
    <3> HIDE DEF O
    <3> QED BY <1>1, <2>1, JoinVec
  <2> QED BY <2>2, LayerVarsFacts
<1>3. /\ \A a \in ToSet(s.route) : ~ RouteFault(a, s.kind, TRUE, client.vars, vs)
      /\ KeyBindingFaults(s.keys, s.params) = {}
      /\ ProfileUseFaults(s.profiles, client.bundles) = {}
      /\ ~ SiteFaults(s, s.rate, vis, <<>>, vs)
  BY DEF LayerFaults
<1>4. \A b \in ToSet(s.keys) : Demanded(ToSet(s.params), b.value)
  BY <1>1, <1>3, BindingsIn
<1>5. VisibleIn(D, vis)
  <2>1. VisibleIn(O, OpenKeys)
    BY OpenKeysIn
  <2>2. VisibleIn(D, OpenKeys)
    <3> HIDE DEF O
    <3> QED BY <2>1, VisibleMore
  <2>3. \A b \in ToSet(s.keys) : Demanded(D, b.value)
    BY <1>4 DEF Demanded
  <2> HIDE DEF D
  <2> QED BY <1>1, <2>2, <2>3, BoundIn
<1> HIDE DEF vs, vis, D
<1>6. BlockIn(D, C, SitePolicy(s, s.rate, vis, vs))
  BY <1>1, <1>2, <1>3, <1>5, EmptyVec, SiteIn
<1>7. AuthOK(SiteAuth(s, provenance))
  BY <1>1, <1>3, SiteAuthOK
<1>8. /\ IsVec(RoutePieces(s.route, s.kind))
      /\ \A p \in ToSet(RoutePieces(s.route, s.kind)) :
           PieceIn(D, C, p) /\ (s.kind = "Prefix" => OneLabel(p))
  BY <1>1, <1>2, <1>3, PiecesIn DEF ClientOK
<1>9. /\ x.kind = s.kind /\ x.pieces = RoutePieces(s.route, s.kind)
      /\ x.policy = SitePolicy(s, s.rate, vis, vs) /\ x.auth = SiteAuth(s, provenance)
      /\ x.keys = s.keys /\ x.decls = s.params
  OBVIOUS
<1> HIDE DEF x
<1>10. LayerRead(x)
  BY <1>1, <1>4, <1>7, <1>8, <1>9 DEF LayerRead
<1>11. LayerIn(D, C, x)
  BY <1>6, <1>8, <1>9 DEF LayerIn
<1>12. LayerIn(O \cup ToSet(x.decls), C, x)
  BY <1>9, <1>11 DEF D
<1>13. LayersOpen(Append(layers, x), Append(ancestry, Len(layers) + 1), C)
  BY <1>10, <1>12, LayerPushed
<1> QED BY <1>13 DEF x, vs, vis

(* ------------------------------- endpoints ------------------------------- *)

BlocksOf(e) == ToSet(e.policy.scopes) \cup {e.policy.endpoint}
PiecesIn3(e) == ToSet(e.prefix) \cup ToSet(e.scopePath) \cup ToSet(e.route)

\* An endpoint that walk_items resolved: what its policies and its route mention are
\* its fields, in the shape that was assumed.
EndpointOK(base, C, e) ==
    /\ IsVec(e.vars) /\ Distinct(e.vars) /\ DeclsOK(e.vars)
    /\ IsVec(e.prefix) /\ IsVec(e.scopePath) /\ IsVec(e.route)
    /\ \A p \in PiecesIn3(e) : PieceIn(ToSet(e.vars), C, p)
    /\ \A p \in ToSet(e.prefix) : OneLabel(p)
    /\ IsVec(e.policy.scopes) /\ \A b \in BlocksOf(e) : BlockIn(ToSet(e.vars), C, b)
    /\ AuthOK(e.auth)
    /\ IsVec(e.scopes) /\ IsVec(e.groups) /\ Len(e.groups) = Len(e.scopes)
    /\ \A g \in ToSet(e.groups) : DeclsOK(g) /\ Agree(ToSet(g), ToSet(e.vars))
    /\ e.descriptor.origin = classify_endpoint_origin(base, e.prefix)

\* The open layers that pass a test, and the pieces of those of one kind
LEMMA SomeLayers ==
    ASSUME NEW C, LayersOpen(layers, ancestry, C), NEW K, NEW some,
           some = FlattenSeq([i \in DOMAIN ancestry |->
                                IF ancestry[i] \in K THEN <<ancestry[i]>> ELSE <<>>])
    PROVE  /\ IsVec(some) /\ Len(some) \in Nat /\ DOMAIN some = 1 .. Len(some)
           /\ \A i \in 1 .. Len(some) : \E j \in 1 .. Len(ancestry) :
                some[i] = ancestry[j] /\ some[i] \in K /\ LayerRead(layers[some[i]])
<1> DEFINE parts == [i \in DOMAIN ancestry |-> IF ancestry[i] \in K THEN <<ancestry[i]>> ELSE <<>>]
<1>1. IsVec(ancestry)
  BY DEF LayersOpen
<1>2. IsVec(some) /\ ToSet(some) = ToSet(ancestry) \cap K
  <2>1. parts = [i \in DOMAIN ancestry |-> IF ancestry[i] \in K THEN <<ancestry[i]>> ELSE <<>>]
    OBVIOUS
  <2>2. some = FlattenSeq(parts)
    OBVIOUS
  <2> HIDE DEF parts
  <2> QED BY <1>1, <2>1, <2>2, KeptVec
<1>3. Len(some) \in Nat /\ DOMAIN some = 1 .. Len(some)
  BY <1>2, VecSeq
<1>4. ASSUME NEW i \in 1 .. Len(some)
      PROVE  \E j \in 1 .. Len(ancestry) :
                some[i] = ancestry[j] /\ some[i] \in K /\ LayerRead(layers[some[i]])
  <2>1. some[i] \in ToSet(ancestry) /\ some[i] \in K
    BY <1>2, VecSeq
  <2>2. PICK j \in 1 .. Len(ancestry) : ancestry[j] = some[i]
    BY <1>1, <2>1, VecSeq
  <2>3. layers[some[i]] \in ToSet(layers)
    BY <2>1 DEF LayersOpen, ToSet
  <2> QED BY <2>1, <2>2, <2>3 DEF LayersOpen
<1> QED BY <1>2, <1>3, <1>4

\* The route pieces of the open layers of one kind
LEMMA PiecesOfIn ==
    ASSUME NEW C, LayersOpen(layers, ancestry, C), NEW kind
    PROVE  /\ IsVec(PiecesOf(kind))
           /\ \A p \in ToSet(PiecesOf(kind)) :
                /\ PieceIn(DeclsTo(layers, ancestry, Len(ancestry)), C, p)
                /\ kind = "Prefix" => OneLabel(p)
<1> DEFINE K == {id \in DOMAIN layers : layers[id].kind = kind}
           some == FlattenSeq([i \in DOMAIN ancestry |->
                                 IF ancestry[i] \in K THEN <<ancestry[i]>> ELSE <<>>])
           parts == [i \in DOMAIN some |-> layers[some[i]].pieces]
<1>1. \A i \in DOMAIN ancestry : layers[ancestry[i]].kind = kind <=> ancestry[i] \in K
  BY DEF LayersOpen, ToSet
<1>2. PiecesOf(kind) = FlattenSeq(parts)
  <2>1. [i \in DOMAIN ancestry |-> IF layers[ancestry[i]].kind = kind THEN <<ancestry[i]>> ELSE <<>>]
          = [i \in DOMAIN ancestry |-> IF ancestry[i] \in K THEN <<ancestry[i]>> ELSE <<>>]
    <3> HIDE DEF K
    <3> QED BY <1>1
  <2> HIDE DEF K
  <2> QED BY <2>1 DEF PiecesOf, Concat, Kept
<1>3. /\ IsVec(some) /\ DOMAIN some = 1 .. Len(some)
      /\ \A i \in 1 .. Len(some) : \E j \in 1 .. Len(ancestry) :
           some[i] = ancestry[j] /\ some[i] \in K /\ LayerRead(layers[some[i]])
  <2> HIDE DEF K
  <2> QED BY SomeLayers
<1> HIDE DEF some
<1>4. parts = [i \in DOMAIN some |-> parts[i]] /\ \A i \in DOMAIN some : parts[i] = layers[some[i]].pieces
  OBVIOUS
<1> HIDE DEF parts
<1>5. \A i \in 1 .. Len(some) : IsVec(parts[i])
  BY <1>3, <1>4 DEF LayerRead
<1>6. IsVec(FlattenSeq(parts))
      /\ \A x \in ToSet(FlattenSeq(parts)) : \E i \in 1 .. Len(some) : x \in ToSet(parts[i])
  <2>1. parts = [i \in DOMAIN some |-> parts[i]] /\ IsVec(some)
    BY <1>3, <1>4
  <2> QED BY <1>5, <2>1, Joined
<1>7. ASSUME NEW p \in ToSet(FlattenSeq(parts))
      PROVE  /\ PieceIn(DeclsTo(layers, ancestry, Len(ancestry)), C, p)
             /\ kind = "Prefix" => OneLabel(p)
  <2>1. PICK i \in 1 .. Len(some) : p \in ToSet(parts[i])
    BY <1>6
  <2>2. PICK j \in 1 .. Len(ancestry) : some[i] = ancestry[j] /\ some[i] \in K
    BY <1>3
  <2> DEFINE x == layers[ancestry[j]]
             D == DeclsTo(layers, ancestry, j)  E == DeclsTo(layers, ancestry, Len(ancestry))
  <2>3. x.kind = kind /\ p \in ToSet(x.pieces)
    BY <1>3, <1>4, <2>1, <2>2
  <2>4. LayerIn(D, C, x)
    BY DEF LayersOpen
  <2>5. Agree(D, E)
    <3>1. Len(ancestry) \in Nat
      BY VecSeq DEF LayersOpen
    <3>2. \A i_1 \in 1 .. j : i_1 \in 1 .. Len(ancestry)
      BY <3>1
    <3> QED BY <3>2 DEF Agree, DeclsTo
  <2> HIDE DEF x, D, E
  <2>6. PieceIn(D, C, p) /\ (kind = "Prefix" => OneLabel(p))
    BY <2>3, <2>4 DEF LayerIn
  <2>7. PieceIn(E, C, p)
    BY <2>5, <2>6, LayerInMore
  <2> QED BY <2>6, <2>7 DEF E
<1> QED BY <1>2, <1>6, <1>7

\* The open layers that a scope's name stands for
LEMMA NamedLayersOK ==
    ASSUME NEW C, LayersOpen(layers, ancestry, C)
    PROVE  /\ IsVec(NamedLayers) /\ Len(NamedLayers) \in Nat /\ DOMAIN NamedLayers = 1 .. Len(NamedLayers)
           /\ \A i \in 1 .. Len(NamedLayers) : \E j \in 1 .. Len(ancestry) :
                NamedLayers[i] = ancestry[j] /\ LayerRead(layers[NamedLayers[i]])
<1> DEFINE K == {id \in DOMAIN layers : layers[id].name # None}
           some == FlattenSeq([i \in DOMAIN ancestry |->
                                 IF ancestry[i] \in K THEN <<ancestry[i]>> ELSE <<>>])
<1>1. \A i \in DOMAIN ancestry : layers[ancestry[i]].name # None <=> ancestry[i] \in K
  BY DEF LayersOpen, ToSet
<1>2. NamedLayers = some
  <2> HIDE DEF K
  <2>1. [i \in DOMAIN ancestry |-> IF layers[ancestry[i]].name # None THEN <<ancestry[i]>> ELSE <<>>]
          = [i \in DOMAIN ancestry |-> IF ancestry[i] \in K THEN <<ancestry[i]>> ELSE <<>>]
    BY <1>1
  <2> QED BY <2>1 DEF NamedLayers, Concat, Kept
<1>3. /\ IsVec(some) /\ Len(some) \in Nat /\ DOMAIN some = 1 .. Len(some)
      /\ \A i \in 1 .. Len(some) : \E j \in 1 .. Len(ancestry) :
           some[i] = ancestry[j] /\ some[i] \in K /\ LayerRead(layers[some[i]])
  <2> HIDE DEF K
  <2> QED BY SomeLayers
<1> HIDE DEF some, K
<1> QED BY <1>2, <1>3

\* The credentials of the client and of the open layers
LEMMA InheritedAuthOK ==
    ASSUME NEW C, LayersOpen(layers, ancestry, C), AuthOK(api.auth)
    PROVE  AuthOK(InheritedAuth)
<1> DEFINE parts == [i \in DOMAIN ancestry |-> layers[ancestry[i]].auth]
<1>1. InheritedAuth = api.auth \o FlattenSeq(parts)
  BY DEF InheritedAuth, Concat
<1>2. IsVec(ancestry) /\ DOMAIN ancestry = 1 .. Len(ancestry)
  BY VecSeq DEF LayersOpen
<1>3. parts = [i \in DOMAIN ancestry |-> parts[i]] /\ \A i \in DOMAIN ancestry : parts[i] = layers[ancestry[i]].auth
  OBVIOUS
<1> HIDE DEF parts
<1>4. ASSUME NEW i \in 1 .. Len(ancestry) PROVE AuthOK(parts[i])
  <2>1. ancestry[i] \in DOMAIN layers
    BY <1>2, VecSeq DEF LayersOpen
  <2>2. layers[ancestry[i]] \in ToSet(layers)
    BY <2>1 DEF ToSet
  <2> QED BY <1>2, <1>3, <2>2 DEF LayersOpen, LayerRead
<1>5. IsVec(FlattenSeq(parts))
      /\ \A x \in ToSet(FlattenSeq(parts)) : \E i \in 1 .. Len(ancestry) : x \in ToSet(parts[i])
  <2>1. parts = [i \in DOMAIN ancestry |-> parts[i]] /\ \A i \in 1 .. Len(ancestry) : IsVec(parts[i])
    BY <1>3, <1>4 DEF AuthOK
  <2> QED BY <1>2, <2>1, Joined
<1>6. AuthOK(FlattenSeq(parts))
  BY <1>4, <1>5 DEF AuthOK
<1> QED BY <1>1, <1>6, JoinVec DEF AuthOK

\* An accepted endpoint
LEMMA EndpointWalked ==
    ASSUME ClientOK, AuthOK(api.auth), LayersOpen(layers, ancestry, ToSet(client.vars)),
           NEW e, RawEndpointOK(e), NEW target,
           ~ EndpointFaults(e, UpsertAll(OpenDecls \o e.params), BindKeys(OpenKeys, e.keys), target)
    PROVE  EndpointOK(client.base, ToSet(client.vars),
             ResolvedEndpoint(e, UpsertAll(OpenDecls \o e.params), BindKeys(OpenKeys, e.keys)))
<1> DEFINE C   == ToSet(client.vars)
           D   == DeclsTo(layers, ancestry, Len(ancestry))
           all == OpenDecls \o e.params
           vs  == UpsertAll(all)
           V   == ToSet(vs)
           vis == BindKeys(OpenKeys, e.keys)
           r   == ResolvedEndpoint(e, vs, vis)
<1>1. /\ RawSiteOK(e) /\ DeclsOK(e.params) /\ IsVec(e.params) /\ VecOf(IsRouteAtom, e.route)
      /\ RateSpecOK(e.rate) /\ IsVec(e.keys)
  BY DEF RawEndpointOK, DeclsOK, VecOf
<1>2. IsVec(OpenDecls) /\ ToSet(OpenDecls) = D /\ DeclsOK(OpenDecls)
  BY OpenDeclsFacts
<1>3. IsVec(all) /\ ToSet(all) = D \cup ToSet(e.params)
  <2> HIDE DEF D
  <2> QED BY <1>1, <1>2, JoinVec
<1>4. IsVec(vs) /\ V \subseteq ToSet(all) /\ Distinct(vs)
  <2> HIDE DEF all
  <2> QED BY <1>3, Upserted
<1>5. DeclsOK(vs)
  BY <1>1, <1>2, <1>3, <1>4 DEF DeclsOK, VecOf
<1>6. /\ DeclFaults(all) = {}
      /\ \A a \in ToSet(e.route) : ~ RouteFault(a, "Path", FALSE, client.vars, vs)
      /\ ProfileUseFaults(e.profiles, client.bundles) = {}
      /\ KeyBindingFaults(e.keys, vs) = {}
      /\ ~ SiteFaults(e, e.rate, vis, vs, vs)
  BY DEF EndpointFaults
<1>7. Agree(ToSet(all), V) /\ Agree(D, V)
  <2>1. \A d \in ToSet(all) : \E v \in V : v.rust = d.rust /\ v.optional = d.optional /\ v.ty = d.ty
    <3> HIDE DEF all
    <3> QED BY <1>3, <1>6, Agreeing
  <2> HIDE DEF V, D, all
  <2> QED BY <1>3, <2>1 DEF Agree
<1>8. VisibleIn(V, vis)
  <2>1. VisibleIn(D, OpenKeys)
    BY OpenKeysIn
  <2>2. VisibleIn(V, OpenKeys)
    <3> HIDE DEF D, V
    <3> QED BY <1>7, <2>1 DEF VisibleIn, Demanded, Agree
  <2>3. \A b \in ToSet(e.keys) : Demanded(V, b.value)
    <3> HIDE DEF vs
    <3> QED BY <1>4, <1>6, BindingsIn
  <2> HIDE DEF V
  <2> QED BY <1>1, <2>2, <2>3, BoundIn
<1> HIDE DEF vis, vs, D
<1>9. BlockIn(V, C, SitePolicy(e, e.rate, vis, vs))
  BY <1>1, <1>4, <1>6, <1>8, SiteIn
<1>10. AuthOK(InheritedAuth \o SiteAuth(e, <<"endpoint">>))
  <2>1. AuthOK(SiteAuth(e, <<"endpoint">>)) /\ AuthOK(InheritedAuth)
    BY <1>1, <1>6, SiteAuthOK, InheritedAuthOK
  <2> QED BY <2>1, JoinVec DEF AuthOK
<1>11. /\ IsVec(RoutePieces(e.route, "Path"))
       /\ \A p \in ToSet(RoutePieces(e.route, "Path")) : PieceIn(V, C, p)
  BY <1>1, <1>4, <1>6, PiecesIn DEF ClientOK
<1>12. ASSUME NEW kind
       PROVE  /\ IsVec(PiecesOf(kind))
              /\ \A p \in ToSet(PiecesOf(kind)) : PieceIn(V, C, p) /\ (kind = "Prefix" => OneLabel(p))
  <2>1. /\ IsVec(PiecesOf(kind))
        /\ \A p \in ToSet(PiecesOf(kind)) : PieceIn(D, C, p) /\ (kind = "Prefix" => OneLabel(p))
    BY PiecesOfIn DEF D
  <2> HIDE DEF V
  <2> QED BY <1>7, <2>1, LayerInMore
<1>13. /\ r.vars = vs /\ r.prefix = PiecesOf("Prefix") /\ r.scopePath = PiecesOf("Path")
       /\ r.route = RoutePieces(e.route, "Path")
       /\ r.policy.scopes = [i \in DOMAIN ancestry |-> layers[ancestry[i]].policy]
       /\ r.policy.endpoint = SitePolicy(e, e.rate, vis, vs)
       /\ r.auth = InheritedAuth \o SiteAuth(e, <<"endpoint">>)
       /\ r.scopes = [i \in DOMAIN NamedLayers |-> layers[NamedLayers[i]].name]
       /\ r.groups = [i \in DOMAIN NamedLayers |-> layers[NamedLayers[i]].decls]
       /\ r.descriptor.origin = classify_endpoint_origin(client.base, PiecesOf("Prefix"))
  BY DEF ResolvedEndpoint
<1> HIDE DEF r
<1>14. IsVec(r.policy.scopes) /\ \A b \in ToSet(r.policy.scopes) : BlockIn(V, C, b)
  <2> DEFINE n == Len(ancestry)  f == r.policy.scopes
  <2>1. n \in Nat /\ DOMAIN ancestry = 1 .. n
    BY VecSeq DEF LayersOpen
  <2>2. f = [i \in 1 .. n |-> f[i]] /\ \A i \in 1 .. n : f[i] = layers[ancestry[i]].policy
    BY <1>13, <2>1
  <2> HIDE DEF f
  <2>3. IsVec(f) /\ ToSet(f) = {f[i] : i \in 1 .. n}
    <3>1. f = [i \in 1 .. n |-> f[i]]
      BY <2>2
    <3> QED BY <2>1, <3>1, MapVec
  <2>4. ASSUME NEW i \in 1 .. n PROVE BlockIn(V, C, f[i])
    <3> DEFINE Di == DeclsTo(layers, ancestry, i)
    <3>1. BlockIn(Di, C, f[i])
      BY <2>2 DEF LayersOpen, LayerIn
    <3>2. Agree(Di, V)
      <4>1. \A j \in 1 .. i : j \in 1 .. n
        BY <2>1
      <4>2. Di \subseteq D
        BY <4>1 DEF DeclsTo, D
      <4> QED BY <1>7, <4>2 DEF Agree
    <3> HIDE DEF Di, V
    <3> QED BY <3>1, <3>2, LayerInMore
  <2> QED BY <2>3, <2>4 DEF f
<1>15. /\ IsVec(r.scopes) /\ IsVec(r.groups) /\ Len(r.groups) = Len(r.scopes)
       /\ \A g \in ToSet(r.groups) : DeclsOK(g) /\ Agree(ToSet(g), V)
  <2> DEFINE n == Len(NamedLayers)  f == r.groups  h == r.scopes
  <2>1. /\ n \in Nat /\ DOMAIN NamedLayers = 1 .. n
        /\ \A i \in 1 .. n : \E j \in 1 .. Len(ancestry) :
             NamedLayers[i] = ancestry[j] /\ LayerRead(layers[NamedLayers[i]])
    BY NamedLayersOK
  <2>2. /\ f = [i \in 1 .. n |-> f[i]] /\ \A i \in 1 .. n : f[i] = layers[NamedLayers[i]].decls
        /\ h = [i \in 1 .. n |-> h[i]]
    BY <1>13, <2>1
  <2> HIDE DEF f, h, n
  <2>3. IsVec(f) /\ ToSet(f) = {f[i] : i \in 1 .. n} /\ Len(f) = n
    <3>1. f = [i \in 1 .. n |-> f[i]]
      BY <2>2
    <3> QED BY <2>1, <3>1, MapVec
  <2>4. IsVec(h) /\ Len(h) = n
    <3>1. h = [i \in 1 .. n |-> h[i]]
      BY <2>2
    <3> QED BY <2>1, <3>1, MapVec
  <2>5. ASSUME NEW i \in 1 .. n PROVE DeclsOK(f[i]) /\ Agree(ToSet(f[i]), V)
    <3>1. PICK j \in 1 .. Len(ancestry) :
            NamedLayers[i] = ancestry[j] /\ LayerRead(layers[NamedLayers[i]])
      BY <2>1
    <3>2. ToSet(f[i]) \subseteq D
      BY <2>2, <3>1 DEF D, DeclsTo
    <3> HIDE DEF V
    <3> QED BY <1>7, <2>2, <3>1, <3>2 DEF LayerRead, Agree
  <2> QED BY <2>3, <2>4, <2>5 DEF f, h
<1>16. ToSet(r.vars) = V
  BY <1>13
<1>17. /\ IsVec(r.prefix) /\ IsVec(r.scopePath) /\ IsVec(r.route)
       /\ \A p \in PiecesIn3(r) : PieceIn(V, C, p)
       /\ \A p \in ToSet(r.prefix) : OneLabel(p)
  <2> HIDE DEF V
  <2> QED BY <1>11, <1>12, <1>13 DEF PiecesIn3
<1>18. \A b \in BlocksOf(r) : BlockIn(V, C, b)
  BY <1>9, <1>13, <1>14 DEF BlocksOf
<1> HIDE DEF V
<1> QED BY <1>4, <1>5, <1>10, <1>13, <1>14, <1>15, <1>16, <1>17, <1>18 DEF EndpointOK, r, vs, vis

(* --------------------------- the invariant ------------------------------- *)

BeforeWalk == {"client", "items", "normalize", "outputs", "credentials", "profiles", "policy"}

SourceRead == DOMAIN source = {"from", "client", "items"} /\ source.from \in Vocabularies

\* The parser's tree is nested, then normalized.
TreeNested == \E level : Nested(items, level)
                         /\ depth = IF Len(items) = 0 THEN 0 ELSE level[Len(items)]
ItemsHeld ==
    /\ pos \in Nat
    /\ stage \in {"client", "items", "normalize"} => VecOf(ItemRead, items) /\ depth \in Nat /\ TreeNested
    /\ stage \in {"outputs", "credentials", "profiles", "policy", "walk"} => VecOf(ItemNormal, items)

EndpointsResolved ==
    IsVec(endpoints) /\ \A e \in ToSet(endpoints) : EndpointOK(client.base, ToSet(client.vars), e)

Walked ==
    /\ stage \in BeforeWalk => layers = <<>> /\ ancestry = <<>> /\ endpoints = <<>>
    /\ LayersOpen(layers, ancestry, ToSet(client.vars))
    /\ EndpointsResolved

\* The client's own declarations, policy and credentials, once they are resolved
ApiHeld ==
    /\ stage \in {"credentials", "profiles", "policy"} => DOMAIN api = {"outputs", "policy", "auth"}
    /\ stage \notin {"client", "items", "normalize", "outputs", "credentials", "rejected"} =>
         Distinct(client.vars)
    /\ stage \notin BeforeWalk \cup {"rejected"} =>
         AuthOK(api.auth) /\ BlockIn({}, ToSet(client.vars), api.policy)

Called ==
    /\ stage \notin {"calling", "pending", "done"} => caller = NoCaller
    /\ DOMAIN caller = DOMAIN NoCaller
    /\ stage \in {"pending", "done"} => caller.e \in ToSet(endpoints)
    /\ stage = "done" =>
         \E fits \in BOOLEAN :
           caller.request = build_request(client.base, api.policy, caller.e, caller.vars,
                                          caller.fields, caller.headers, caller.timeout, fits)

CompileInv == SourceRead /\ RawClientOK(client) /\ ItemsHeld /\ Walked /\ ApiHeld /\ Called

\* No layer is open before the walk.
LEMMA NothingOpen == ASSUME NEW C PROVE LayersOpen(<<>>, <<>>, C)
  BY EmptyVec DEF LayersOpen

\* No endpoint was walked before the walk.
LEMMA NothingWalked ==
    ASSUME NEW C, NEW base
    PROVE  LayersOpen(<<>>, <<>>, C) /\ IsVec(<<>>) /\ \A e \in ToSet(<<>>) : EndpointOK(base, C, e)
  BY NothingOpen, EmptyVec

\* The invariant holds before the first token is read.
LEMMA CompileInit == Init => CompileInv
<1> SUFFICES ASSUME Init PROVE CompileInv
  OBVIOUS
<1>1. SourceRead
  BY DEF Init, SourceRead
<1>2. RawClientOK(client)
  BY EmptyClientOK DEF Init
<1>3. ItemsHeld
  <2>1. Nested(<<>>, [i \in {0} |-> 0])
    BY DEF Nested
  <2>2. TreeNested
    BY <2>1 DEF TreeNested, Init
  <2> QED BY <2>2, EmptyVec DEF ItemsHeld, Init, VecOf
<1>4. Walked
  BY NothingWalked DEF Init, Walked, BeforeWalk, EndpointsResolved
<1>5. Called
  BY DEF Init, Called, NoCaller
<1>6. ApiHeld
  BY DEF Init, ApiHeld, BeforeWalk
<1> QED BY <1>1, <1>2, <1>3, <1>4, <1>5, <1>6 DEF CompileInv

\* A refused program: what was read stays.
LEMMA RejectedKeeps ==
    ASSUME CompileInv, Rejected, stage \notin {"calling", "pending", "done"}, SourceRead' PROVE CompileInv'
<1>1. RawClientOK(client)'
  BY DEF CompileInv, Rejected
<1>2. ItemsHeld'
  BY DEF CompileInv, Rejected, ItemsHeld
<1>3. Walked'
  BY DEF CompileInv, Rejected, Walked, BeforeWalk, EndpointsResolved
<1>4. Called'
  BY DEF CompileInv, Rejected, Called
<1>5. ApiHeld'
  BY DEF Rejected, ApiHeld
<1> QED BY <1>1, <1>2, <1>3, <1>4, <1>5 DEF CompileInv

\* What the author of the program may write
LEMMA TextsRead ==
    ASSUME SourceRead
    PROVE  /\ \A t \in source.from.clients : IsClientText(Types, t)
           /\ \A t \in source.from.scopes : IsScopeText(Types, t)
           /\ \A t \in source.from.endpoints : IsEndpointText(Types, t)
  BY CompileTexts DEF SourceRead, Types

\* Parsing the client block keeps the invariant.
LEMMA KeptParseClient == ASSUME CompileInv, ParseClient PROVE CompileInv'
<1> PICK text \in source.from.clients :
       /\ source' = [source EXCEPT !.client = text]
       /\ IF parse_client(text).err THEN Rejected
          ELSE /\ client' = parse_client(text) /\ stage' = "items"
               /\ UNCHANGED <<items, depth, api, pos, ancestry, layers, endpoints, caller>>
  BY DEF ParseClient
<1>0. stage = "client"
  BY DEF ParseClient
<1>1. SourceRead'
  BY DEF CompileInv, SourceRead
<1>2. CASE parse_client(text).err
  BY <1>0, <1>1, <1>2, RejectedKeeps
<1>3. CASE ~ parse_client(text).err
  <2>1. RawClientOK(client')
    <3>1. IsClientText(Types, text)
      BY TextsRead DEF CompileInv
    <3> QED BY <1>3, <3>1, ParsedClient
  <2>2. ItemsHeld'
    BY <1>0, <1>3 DEF CompileInv, ItemsHeld, TreeNested
  <2>3. Walked'
    <3>1. stage' = "items" /\ layers' = <<>> /\ ancestry' = <<>> /\ endpoints' = <<>>
      BY <1>0, <1>3 DEF CompileInv, Walked, BeforeWalk
    <3> QED BY <3>1, NothingWalked DEF Walked, EndpointsResolved
  <2>4. Called'
    BY <1>0, <1>3 DEF CompileInv, Called
  <2>5. ApiHeld'
    BY <1>3 DEF ApiHeld, BeforeWalk
  <2> QED BY <1>1, <2>1, <2>2, <2>3, <2>4, <2>5 DEF CompileInv
<1> QED BY <1>2, <1>3

\* One more item of the tree
LEMMA ItemMore ==
    ASSUME ItemsHeld, stage = "items", NEW it, ItemRead(it), it.k = "close" => depth > 0,
           items' = Append(items, it), pos' = pos, stage' = stage,
           depth' = CASE it.k = "open" -> depth + 1 [] it.k = "close" -> depth - 1 [] OTHER -> depth
    PROVE  ItemsHeld'
<1>1. PICK level : Nested(items, level) /\ depth = IF Len(items) = 0 THEN 0 ELSE level[Len(items)]
  BY DEF ItemsHeld, TreeNested
<1>2. IsVec(items) /\ depth \in Nat /\ Len(items) \in Nat
  BY VecSeq DEF ItemsHeld, VecOf
<1>3. PICK l : /\ Nested(Append(items, it), l)
               /\ l[Len(items) + 1] = CASE it.k = "open" -> depth + 1 [] it.k = "close" -> depth - 1
                                        [] OTHER -> depth
  BY <1>1, <1>2, NestedMore
<1>4. Len(items') = Len(items) + 1
  BY <1>2, AppendVec
<1>5. TreeNested'
  <2>1. Nested(items', l) /\ depth' = l[Len(items')] /\ Len(items') # 0
    BY <1>2, <1>3, <1>4
  <2> QED BY <2>1 DEF TreeNested
<1>6. VecOf(ItemRead, items')
  BY <1>2, AppendVec DEF ItemsHeld, VecOf
<1>7. depth' \in Nat
  BY <1>2
<1> QED BY <1>5, <1>6, <1>7 DEF ItemsHeld

\* While items are read nothing else changes.
LEMMA ReadKeeps ==
    ASSUME CompileInv, stage = "items", SourceRead', ItemsHeld', stage' = "items",
           UNCHANGED <<client, api, ancestry, layers, endpoints, caller>>
    PROVE  CompileInv'
<1>1. Walked'
  BY DEF CompileInv, Walked, EndpointsResolved
<1>2. Called'
  BY DEF CompileInv, Called
<1>3. ApiHeld'
  BY DEF ApiHeld, BeforeWalk
<1> QED BY <1>1, <1>2, <1>3 DEF CompileInv

\* Recording what was read
LEMMA SeenSource ==
    ASSUME SourceRead, NEW k, NEW text, Seen(k, text) PROVE SourceRead'
  BY DEF SourceRead, Seen

\* Parsing the head of a scope keeps the invariant.
LEMMA KeptParseScope == ASSUME CompileInv, ParseScope PROVE CompileInv'
<1>0. stage = "items" /\ SourceRead /\ ItemsHeld
  BY DEF ParseScope, CompileInv
<1> PICK text \in source.from.scopes :
       IF depth = MaxDepth \/ parse_scope(text).err
       THEN Rejected /\ Seen("open", text)
       ELSE /\ Read([k |-> "open", scope |-> parse_scope(text)], text)
            /\ depth' = depth + 1
            /\ UNCHANGED <<stage, client, api, pos, ancestry, layers, endpoints, caller>>
  BY DEF ParseScope
<1>1. CASE depth = MaxDepth \/ parse_scope(text).err
  BY <1>0, <1>1, SeenSource, RejectedKeeps
<1>2. CASE ~ (depth = MaxDepth \/ parse_scope(text).err)
  <2> DEFINE it == [k |-> "open", scope |-> parse_scope(text)]
  <2>1. items' = Append(items, it) /\ Seen(it.k, text) /\ depth' = depth + 1
        /\ UNCHANGED <<stage, client, api, pos, ancestry, layers, endpoints, caller>>
    BY <1>2 DEF Read
  <2>2. it.k = "open" /\ ItemRead(it)
    <3>1. RawScopeOK(parse_scope(text))
      BY <1>0, TextsRead, ParsedScope
    <3> QED BY <3>1 DEF ItemRead
  <2> HIDE DEF it
  <2>3. ItemsHeld'
    BY <1>0, <2>1, <2>2, ItemMore
  <2>4. SourceRead'
    BY <1>0, <2>1, SeenSource
  <2> QED BY <1>0, <2>1, <2>3, <2>4, ReadKeeps
<1> QED BY <1>1, <1>2

\* Parsing an endpoint keeps the invariant.
LEMMA KeptParseEndpoint == ASSUME CompileInv, ParseEndpoint PROVE CompileInv'
<1>0. stage = "items" /\ SourceRead /\ ItemsHeld
  BY DEF ParseEndpoint, CompileInv
<1> PICK text \in source.from.endpoints :
       IF parse_endpoint(text).err
       THEN Rejected /\ Seen("endpoint", text)
       ELSE /\ Read([k |-> "endpoint", endpoint |-> parse_endpoint(text)], text)
            /\ UNCHANGED <<stage, client, depth, api, pos, ancestry, layers, endpoints, caller>>
  BY DEF ParseEndpoint
<1>1. CASE parse_endpoint(text).err
  BY <1>0, <1>1, SeenSource, RejectedKeeps
<1>2. CASE ~ parse_endpoint(text).err
  <2> DEFINE it == [k |-> "endpoint", endpoint |-> parse_endpoint(text)]
  <2>1. items' = Append(items, it) /\ Seen(it.k, text)
        /\ UNCHANGED <<stage, client, depth, api, pos, ancestry, layers, endpoints, caller>>
    BY <1>2 DEF Read
  <2>2. it.k = "endpoint" /\ ItemRead(it)
    <3>1. RawEndpointOK(parse_endpoint(text))
      BY <1>0, TextsRead, ParsedEndpoint
    <3> QED BY <3>1 DEF ItemRead
  <2> HIDE DEF it
  <2>3. ItemsHeld'
    BY <1>0, <2>1, <2>2, ItemMore
  <2>4. SourceRead'
    BY <1>0, <2>1, SeenSource
  <2> QED BY <1>0, <2>1, <2>3, <2>4, ReadKeeps
<1> QED BY <1>1, <1>2

\* The end of a scope keeps the invariant.
LEMMA KeptParseScopeEnd == ASSUME CompileInv, ParseScopeEnd PROVE CompileInv'
<1>0. stage = "items" /\ SourceRead /\ ItemsHeld /\ depth > 0
  BY DEF ParseScopeEnd, CompileInv
<1> DEFINE it == [k |-> "close"]
<1>1. items' = Append(items, it) /\ Seen(it.k, None) /\ depth' = depth - 1
      /\ UNCHANGED <<stage, client, api, pos, ancestry, layers, endpoints, caller>>
  BY DEF ParseScopeEnd, Read
<1>2. it.k = "close" /\ ItemRead(it)
  BY DEF ItemRead
<1> HIDE DEF it
<1>3. ItemsHeld'
  BY <1>0, <1>1, <1>2, ItemMore
<1>4. SourceRead'
  BY <1>0, <1>1, SeenSource
<1> QED BY <1>0, <1>1, <1>3, <1>4, ReadKeeps

\* The passes before the walk keep the invariant; normalize_api makes the tree of layers.
LEMMA KeptPasses ==
    ASSUME CompileInv, EndOfInput \/ NormalizeApi \/ ResolveProfiles \/ CollectEndpointOutputTypes
    PROVE  CompileInv'
<1>1. CASE stage' = "rejected"
  <2>1. Rejected /\ source' = source /\ stage \notin {"calling", "pending", "done"}
    BY <1>1 DEF EndOfInput, NormalizeApi, ResolveProfiles, CollectEndpointOutputTypes, Rejected
  <2> QED BY <2>1, RejectedKeeps DEF CompileInv, SourceRead
<1>2. CASE stage' # "rejected"
  <2>1. /\ UNCHANGED <<source, client, depth, pos, ancestry, layers, endpoints, caller>>
        /\ stage \in BeforeWalk /\ stage' \in BeforeWalk
    BY <1>2 DEF EndOfInput, NormalizeApi, ResolveProfiles, CollectEndpointOutputTypes, BeforeWalk, Rejected
  <2>2. ItemsHeld'
    <3>1. CASE EndOfInput
      BY <2>1, <3>1 DEF EndOfInput, CompileInv, ItemsHeld, TreeNested
    <3>2. CASE NormalizeApi
      <4>1. VecOf(ItemNormal, items')
        BY <3>2, NormalItems DEF NormalizeApi, CompileInv, ItemsHeld, TreeNested
      <4> QED BY <2>1, <3>2, <4>1 DEF NormalizeApi, CompileInv, ItemsHeld
    <3>3. CASE ResolveProfiles
      BY <1>2, <2>1, <3>3 DEF ResolveProfiles, CompileInv, ItemsHeld, Rejected
    <3>4. CASE CollectEndpointOutputTypes
      BY <1>2, <2>1, <3>4 DEF CollectEndpointOutputTypes, CompileInv, ItemsHeld, Rejected
    <3> QED BY <3>1, <3>2, <3>3, <3>4
  <2>3. Walked'
    BY <2>1 DEF CompileInv, Walked, EndpointsResolved, BeforeWalk
  <2>4. Called'
    BY <2>1 DEF CompileInv, Called, BeforeWalk
  <2>5. SourceRead' /\ RawClientOK(client')
    BY <2>1 DEF CompileInv, SourceRead
  <2>6. ApiHeld'
    BY <1>2, <2>1 DEF EndOfInput, NormalizeApi, ResolveProfiles, CollectEndpointOutputTypes, Rejected,
                      CompileInv, ApiHeld, BeforeWalk
  <2> QED BY <2>2, <2>3, <2>4, <2>5, <2>6 DEF CompileInv
<1> QED BY <1>1, <1>2

\* The analysis of credentials keeps the invariant: names are checked to be distinct.
LEMMA KeptAnalyzeAuthCredentials == ASSUME CompileInv, AnalyzeAuthCredentials PROVE CompileInv'
<1>0. stage = "credentials"
  BY DEF AnalyzeAuthCredentials
<1>1. CASE Rejected /\ UNCHANGED source
  BY <1>0, <1>1, RejectedKeeps DEF CompileInv, SourceRead
<1>2. CASE ~ (Rejected /\ UNCHANGED source)
  <2>1. /\ client' = [client EXCEPT !.vars = UpsertAll(@), !.secrets = UpsertAll(@)]
        /\ stage' = "profiles"
        /\ UNCHANGED <<source, items, depth, api, pos, ancestry, layers, endpoints, caller>>
    BY <1>2 DEF AnalyzeAuthCredentials
  <2>2. RawClientOK(client') /\ Distinct(client'.vars)
    <3> DEFINE c == client'
    <3>1. DeclsOK(client.vars) /\ IsVec(client.vars)
      BY DEF CompileInv, RawClientOK, DeclsOK, VecOf
    <3>2. IsVec(UpsertAll(client.vars)) /\ ToSet(UpsertAll(client.vars)) \subseteq ToSet(client.vars)
          /\ Distinct(UpsertAll(client.vars))
      BY <3>1, Upserted
    <3>3. DeclsOK(UpsertAll(client.vars))
      BY <3>1, <3>2 DEF DeclsOK, VecOf
    <3>4. Same(c, client, {"vars", "secrets"}) /\ c.vars = UpsertAll(client.vars)
      BY <2>1 DEF CompileInv, RawClientOK, Same
    <3> HIDE DEF c
    <3> QED BY <3>2, <3>3, <3>4 DEF CompileInv, RawClientOK, RawSiteOK, Same, c
  <2>3. ItemsHeld'
    BY <1>0, <2>1 DEF CompileInv, ItemsHeld
  <2>4. Walked'
    <3>1. layers' = <<>> /\ ancestry' = <<>> /\ endpoints' = <<>>
      BY <1>0, <2>1 DEF CompileInv, Walked, BeforeWalk
    <3> QED BY <2>1, <3>1, NothingWalked DEF Walked, EndpointsResolved
  <2>5. Called'
    BY <1>0, <2>1 DEF CompileInv, Called
  <2>6. SourceRead'
    BY <2>1 DEF CompileInv, SourceRead
  <2>7. ApiHeld'
    BY <1>0, <2>1, <2>2 DEF CompileInv, ApiHeld, BeforeWalk
  <2> QED BY <2>2, <2>3, <2>4, <2>5, <2>6, <2>7 DEF CompileInv
<1> QED BY <1>1, <1>2

\* What the walk needs of the client
LEMMA ClientHeld == ASSUME CompileInv PROVE ClientOK /\ RawSiteOK(client)
  BY DEF CompileInv, RawClientOK, ClientOK, DeclsOK, VecOf

\* Resolving the client's own policy keeps the invariant.
LEMMA KeptResolveClientPolicy == ASSUME CompileInv, ResolveClientPolicy PROVE CompileInv'
<1>0. stage = "policy"
  BY DEF ResolveClientPolicy
<1>1. CASE Rejected /\ UNCHANGED source
  BY <1>0, <1>1, RejectedKeeps DEF CompileInv, SourceRead
<1>2. CASE ~ (Rejected /\ UNCHANGED source)
  <2> DEFINE policy == SitePolicy(client, ClientRateSpec, <<>>, <<>>)
             auth == SiteAuth(client, <<"client">>)
  <2>1. /\ ProfileUseFaults(client.profiles, client.bundles) = {}
        /\ ~ SiteFaults(client, ClientRateSpec, <<>>, <<>>, <<>>)
        /\ api' = [api EXCEPT !.policy = policy, !.auth = auth]
        /\ stage' = "walk"
        /\ UNCHANGED <<source, client, items, depth, pos, ancestry, layers, endpoints, caller>>
    BY <1>2 DEF ResolveClientPolicy
  <2>2. AuthOK(auth)
    BY <2>1, ClientHeld, SiteAuthOK
  <2>3. BlockIn({}, ToSet(client.vars), policy)
    <3>1. RateSpecOK(ClientRateSpec)
      BY DEF CompileInv, RawClientOK, ClientRateSpec, RateSpecOK, IsRateLimitSpec
    <3>2. VisibleIn({}, <<>>)
      BY DEF VisibleIn
    <3> QED BY <2>1, <3>1, <3>2, ClientHeld, EmptyVec, SiteIn
  <2> HIDE DEF policy, auth
  <2>4. ApiHeld'
    <3>1. DOMAIN api = {"outputs", "policy", "auth"} /\ Distinct(client.vars)
      BY <1>0 DEF CompileInv, ApiHeld
    <3>2. api'.auth = auth /\ api'.policy = policy
      BY <2>1, <3>1
    <3> QED BY <2>1, <2>2, <2>3, <3>1, <3>2 DEF ApiHeld
  <2>5. ItemsHeld'
    BY <1>0, <2>1 DEF CompileInv, ItemsHeld
  <2>6. Walked'
    BY <2>1, <2>2 DEF CompileInv, Walked, EndpointsResolved, BeforeWalk
  <2>7. Called'
    BY <1>0, <2>1 DEF CompileInv, Called
  <2>8. SourceRead' /\ RawClientOK(client')
    BY <2>1 DEF CompileInv, SourceRead
  <2> QED BY <2>4, <2>5, <2>6, <2>7, <2>8 DEF CompileInv
<1> QED BY <1>1, <1>2

\* What the steps of walk_items leave alone
LEMMA WalkKeeps ==
    ASSUME CompileInv, stage = "walk", stage' = stage, pos' = pos + 1,
           UNCHANGED <<source, client, items, api, caller>>,
           LayersOpen(layers', ancestry', ToSet(client.vars)), EndpointsResolved'
    PROVE  CompileInv'
<1>1. SourceRead' /\ RawClientOK(client')
  BY DEF CompileInv, SourceRead
<1>2. ItemsHeld'
  BY DEF CompileInv, ItemsHeld
<1>3. Walked'
  BY DEF CompileInv, Walked, BeforeWalk
<1>4. Called'
  <2>1. caller = NoCaller
    BY DEF CompileInv, Called, NoCaller
  <2> QED BY <2>1 DEF CompileInv, Called
<1>5. ApiHeld'
  BY DEF CompileInv, ApiHeld, BeforeWalk
<1> QED BY <1>1, <1>2, <1>3, <1>4, <1>5 DEF CompileInv

\* The item that the walk is at
LEMMA NextItem ==
    ASSUME CompileInv, stage = "walk", pos < Len(items)
    PROVE  ItemNormal(items[pos + 1])
<1>1. VecOf(ItemNormal, items) /\ pos \in Nat
  BY DEF CompileInv, ItemsHeld
<1>2. Len(items) \in Nat /\ \A i \in 1 .. Len(items) : items[i] \in ToSet(items)
  BY <1>1, VecSeq DEF VecOf
<1>3. pos + 1 \in 1 .. Len(items)
  BY <1>1, <1>2
<1> QED BY <1>1, <1>2, <1>3 DEF VecOf

\* Entering a layer keeps the invariant.
LEMMA KeptWalkLayer == ASSUME CompileInv, WalkLayer PROVE CompileInv'
<1> DEFINE s   == items[pos + 1].scope
           vs  == LayerVars(OpenDecls \o s.params)
           vis == BindKeys(OpenKeys, s.keys)
           C   == ToSet(client.vars)
           x   == [name |-> s.name, kind |-> s.kind, pieces |-> RoutePieces(s.route, s.kind),
                   policy |-> SitePolicy(s, s.rate, vis, vs),
                   auth |-> SiteAuth(s, <<"scope", Len(layers) + 1>>), keys |-> s.keys,
                   decls |-> s.params]
<1>0. stage = "walk" /\ pos < Len(items) /\ items[pos + 1].k = "open"
  BY DEF WalkLayer
<1>1. CASE LayerFaults(s, vs, vis)
  <2>1. Rejected /\ UNCHANGED source
    BY <1>1 DEF WalkLayer
  <2> QED BY <1>0, <2>1, RejectedKeeps DEF CompileInv, SourceRead
<1>2. CASE ~ LayerFaults(s, vs, vis)
  <2>1. /\ layers' = Append(layers, x) /\ ancestry' = Append(ancestry, Len(layers) + 1)
        /\ pos' = pos + 1
        /\ UNCHANGED <<stage, source, client, items, depth, api, endpoints, caller>>
    BY <1>2 DEF WalkLayer
  <2>2. LayerTextOK(s)
    BY <1>0, NextItem DEF ItemNormal
  <2>3. ClientOK /\ LayersOpen(layers, ancestry, C)
    BY ClientHeld DEF CompileInv, Walked
  <2>4. LayersOpen(Append(layers, x), Append(ancestry, Len(layers) + 1), C)
    <3> HIDE DEF s
    <3> QED BY <1>2, <2>2, <2>3, LayerWalked
  <2>5. LayersOpen(layers', ancestry', C)
    BY <2>1, <2>4
  <2>6. EndpointsResolved'
    BY <2>1 DEF CompileInv, Walked, EndpointsResolved
  <2> QED BY <1>0, <2>1, <2>5, <2>6, WalkKeeps
<1> QED BY <1>1, <1>2

\* Leaving a layer keeps the invariant.
LEMMA KeptWalkLayerEnd == ASSUME CompileInv, WalkLayerEnd PROVE CompileInv'
<1>1. /\ stage = "walk" /\ ancestry' = Front(ancestry) /\ pos' = pos + 1
      /\ UNCHANGED <<stage, source, client, items, depth, api, layers, endpoints, caller>>
  BY DEF WalkLayerEnd
<1>2. LayersOpen(layers', ancestry', ToSet(client.vars))
  BY <1>1, LayerPopped DEF CompileInv, Walked
<1>3. EndpointsResolved'
  BY <1>1 DEF CompileInv, Walked, EndpointsResolved
<1> QED BY <1>1, <1>2, <1>3, WalkKeeps

\* Resolving an endpoint keeps the invariant.
LEMMA KeptWalkEndpoint == ASSUME CompileInv, WalkEndpoint PROVE CompileInv'
<1> DEFINE e   == items[pos + 1].endpoint
           vs  == UpsertAll(OpenDecls \o e.params)
           vis == BindKeys(OpenKeys, e.keys)
           target == TargetOf(items, pos + 1)
           C   == ToSet(client.vars)
           r   == ResolvedEndpoint(e, vs, vis)
<1>0. stage = "walk" /\ pos < Len(items) /\ items[pos + 1].k = "endpoint"
  BY DEF WalkEndpoint
<1>1. CASE EndpointFaults(e, vs, vis, target)
  <2>1. Rejected /\ UNCHANGED source
    BY <1>1 DEF WalkEndpoint
  <2> QED BY <1>0, <2>1, RejectedKeeps DEF CompileInv, SourceRead
<1>2. CASE ~ EndpointFaults(e, vs, vis, target)
  <2>1. /\ endpoints' = Append(endpoints, r) /\ pos' = pos + 1
        /\ UNCHANGED <<stage, source, client, items, depth, api, ancestry, layers, caller>>
    BY <1>2 DEF WalkEndpoint
  <2>2. RawEndpointOK(e)
    BY <1>0, NextItem DEF ItemNormal
  <2>3. ClientOK /\ LayersOpen(layers, ancestry, C) /\ AuthOK(api.auth)
    BY <1>0, ClientHeld DEF CompileInv, Walked, ApiHeld, BeforeWalk
  <2>4. EndpointOK(client.base, C, r)
    <3> HIDE DEF e, target
    <3> QED BY <1>2, <2>2, <2>3, EndpointWalked
  <2> HIDE DEF r
  <2>5. EndpointsResolved'
    <3>1. IsVec(endpoints) /\ \A x \in ToSet(endpoints) : EndpointOK(client.base, C, x)
      BY DEF CompileInv, Walked, EndpointsResolved
    <3>2. IsVec(Append(endpoints, r)) /\ ToSet(Append(endpoints, r)) = ToSet(endpoints) \cup {r}
      BY <3>1, AppendVec
    <3> QED BY <2>1, <2>4, <3>1, <3>2 DEF EndpointsResolved
  <2>6. LayersOpen(layers', ancestry', C)
    BY <2>1, <2>3
  <2> QED BY <1>0, <2>1, <2>5, <2>6, WalkKeeps
<1> QED BY <1>1, <1>2

\* Validating the public names and compiling the tokens keep the invariant.
LEMMA KeptEmitting ==
    ASSUME CompileInv, ValidateGeneratedPublicApi \/ RustCompiles PROVE CompileInv'
<1>1. CASE stage' = "rejected"
  <2>1. Rejected /\ source' = source /\ stage \notin {"calling", "pending", "done"}
    BY <1>1 DEF ValidateGeneratedPublicApi, RustCompiles, Rejected
  <2> QED BY <2>1, RejectedKeeps DEF CompileInv, SourceRead
<1>2. CASE stage' # "rejected"
  <2>1. /\ UNCHANGED <<source, client, items, depth, api, pos, ancestry, layers, endpoints, caller>>
        /\ stage \in {"walk", "emitted"} /\ stage' \in {"emitted", "built", "rustc_error"}
    BY <1>2 DEF ValidateGeneratedPublicApi, RustCompiles, Rejected
  <2>2. SourceRead' /\ RawClientOK(client') /\ ItemsHeld'
    BY <2>1 DEF CompileInv, SourceRead, ItemsHeld
  <2>3. Walked' /\ ApiHeld'
    BY <2>1 DEF CompileInv, Walked, EndpointsResolved, BeforeWalk, ApiHeld
  <2>4. Called'
    BY <2>1 DEF CompileInv, Called
  <2> QED BY <2>2, <2>3, <2>4 DEF CompileInv
<1> QED BY <1>1, <1>2

(* ------------------------- the client's user ----------------------------- *)

\* The caller's steps leave the compiler's results alone.
LEMMA CallKeeps ==
    ASSUME CompileInv, Calls, stage \in {"built", "calling", "pending"},
           stage' \in {"calling", "pending", "done"}, Called'
    PROVE  CompileInv'
<1>1. SourceRead' /\ RawClientOK(client') /\ ItemsHeld'
  BY DEF CompileInv, Calls, SourceRead, ItemsHeld
<1>2. Walked' /\ ApiHeld'
  BY DEF CompileInv, Calls, Walked, EndpointsResolved, BeforeWalk, ApiHeld
<1> QED BY <1>1, <1>2 DEF CompileInv

\* The fields of the caller's record that these steps do not name
LEMMA StillCalling ==
    ASSUME CompileInv, Calls, DOMAIN caller' = DOMAIN caller,
           \/ stage \in {"built", "calling"} /\ stage' = "calling"
           \/ /\ stage \in {"calling", "pending"} /\ stage' = "pending"
              /\ (stage = "pending" /\ caller'.e = caller.e) \/ caller'.e \in ToSet(endpoints)
    PROVE  CompileInv'
<1>1. Called'
  BY DEF CompileInv, Called, Calls
<1> QED BY <1>1, CallKeeps

\* The endpoints that a handle offers are endpoints of the program.
LEMMA InScope ==
    ASSUME IsVec(endpoints), NEW path
    PROVE  ToSet(EndpointsIn(endpoints, path)) \subseteq ToSet(endpoints)
<1> DEFINE K == {e \in ToSet(endpoints) : e.scopes = path}
           parts == [i \in DOMAIN endpoints |-> IF endpoints[i] \in K THEN <<endpoints[i]>> ELSE <<>>]
<1>1. \A i \in DOMAIN endpoints : endpoints[i].scopes = path <=> endpoints[i] \in K
  BY DEF ToSet
<1> HIDE DEF K
<1>2. EndpointsIn(endpoints, path) = FlattenSeq(parts)
  <2>1. [i \in DOMAIN endpoints |-> IF endpoints[i].scopes = path THEN <<endpoints[i]>> ELSE <<>>] = parts
    BY <1>1
  <2> HIDE DEF parts
  <2> QED BY <2>1 DEF EndpointsIn, Kept, Concat
<1>3. ToSet(FlattenSeq(parts)) = ToSet(endpoints) \cap K
  BY KeptVec
<1> QED BY <1>2, <1>3

\* What the caller does before it has a request keeps the invariant.
LEMMA KeptCalls ==
    ASSUME CompileInv,
           Construct \/ EditClientVar \/ EnterScope \/ EditScopeParam \/ EditParam
             \/ StorePagination \/ OverrideTimeout
    PROVE  CompileInv'
<1>1. DOMAIN caller = DOMAIN NoCaller
  BY DEF CompileInv, Called
<1>2. DOMAIN caller' = DOMAIN caller /\ caller'.e = caller.e
  <2>1. CASE Construct
    BY <1>1, <2>1 DEF Construct, NoCaller
  <2>2. CASE EditClientVar
    BY <1>1, <2>2 DEF EditClientVar, NoCaller
  <2>3. CASE EnterScope
    BY <1>1, <2>3 DEF EnterScope, NoCaller
  <2>4. CASE EditScopeParam
    BY <1>1, <2>4 DEF EditScopeParam, NoCaller
  <2>5. CASE EditParam
    BY <1>1, <2>5 DEF EditParam, NoCaller
  <2>6. CASE StorePagination
    BY <1>1, <2>6 DEF StorePagination, NoCaller
  <2>7. CASE OverrideTimeout
    BY <1>1, <2>7 DEF OverrideTimeout, NoCaller
  <2> QED BY <2>1, <2>2, <2>3, <2>4, <2>5, <2>6, <2>7
<1>3. /\ Calls
      /\ \/ stage \in {"built", "calling"} /\ stage' = "calling"
         \/ stage = "pending" /\ stage' = "pending"
  BY DEF Construct, EditClientVar, EnterScope, EditScopeParam, EditParam, StorePagination,
         OverrideTimeout, Editing
<1> QED BY <1>2, <1>3, StillCalling

\* Calling an endpoint keeps the invariant.
LEMMA KeptCallEndpoint == ASSUME CompileInv, CallEndpoint PROVE CompileInv'
<1>1. PICK e \in ToSet(EndpointsIn(endpoints, caller.handle.path)) :
        \E f, a : caller' = [caller EXCEPT !.e = e, !.fields = f, !.asked = a]
  BY DEF CallEndpoint
<1>2. DOMAIN caller' = DOMAIN caller /\ caller'.e = e
  BY <1>1 DEF CompileInv, Called, NoCaller
<1>3. e \in ToSet(endpoints)
  BY InScope DEF CompileInv, Walked, EndpointsResolved
<1>4. Calls /\ stage = "calling" /\ stage' = "pending"
  BY DEF CallEndpoint
<1> QED BY <1>2, <1>3, <1>4, StillCalling

\* Executing the request keeps the invariant.
LEMMA KeptExecute == ASSUME CompileInv, Execute PROVE CompileInv'
<1>0. PICK fits \in BOOLEAN :
        caller' = [caller EXCEPT !.request = build_request(client.base, api.policy, caller.e,
                     caller.vars, caller.fields, caller.headers, caller.timeout, fits)]
  BY DEF Execute
<1> DEFINE wire == build_request(client.base, api.policy, caller.e, caller.vars,
                                 caller.fields, caller.headers, caller.timeout, fits)
<1>1. caller' = [caller EXCEPT !.request = wire] /\ Calls /\ stage = "pending" /\ stage' = "done"
      /\ caller.e \in ToSet(endpoints)
  BY <1>0 DEF Execute, CompileInv, Called
<1>2. DOMAIN caller' = DOMAIN caller /\ caller'.request = wire
      /\ \A f \in DOMAIN caller \ {"request"} : caller'[f] = caller[f]
  <2> HIDE DEF wire
  <2> QED BY <1>1 DEF CompileInv, Called, NoCaller
<1>3. /\ caller'.e = caller.e /\ caller'.vars = caller.vars /\ caller'.fields = caller.fields
      /\ caller'.headers = caller.headers /\ caller'.timeout = caller.timeout
  <2> HIDE DEF wire
  <2> QED BY <1>2 DEF CompileInv, Called, NoCaller
<1>4. Called'
  BY <1>1, <1>2, <1>3 DEF Called, CompileInv, Calls
<1> QED BY <1>1, <1>4, CallKeeps

\* The inductive invariant: whatever the author writes, what the parser accepts is
\* well-formed, every open layer and every resolved endpoint mentions only what is declared
\* around it, and the executed request is the one that was built for the called endpoint.
THEOREM CompileApiInv == Spec => []CompileInv
<1>1. CompileInv /\ [Next]_vars => CompileInv'
  <2> SUFFICES ASSUME CompileInv, [Next]_vars PROVE CompileInv'
    OBVIOUS
  <2>1. CASE UNCHANGED vars
    BY <2>1 DEF vars, CompileInv, SourceRead, ItemsHeld, TreeNested, Walked, EndpointsResolved,
                BeforeWalk, ApiHeld, Called
  <2>2. CASE ParseClient \/ ParseScope \/ ParseEndpoint \/ ParseScopeEnd
    BY <2>2, KeptParseClient, KeptParseScope, KeptParseEndpoint, KeptParseScopeEnd
  <2>3. CASE EndOfInput \/ NormalizeApi \/ CollectEndpointOutputTypes \/ ResolveProfiles
    BY <2>3, KeptPasses
  <2>4. CASE AnalyzeAuthCredentials \/ ResolveClientPolicy
    BY <2>4, KeptAnalyzeAuthCredentials, KeptResolveClientPolicy
  <2>5. CASE WalkLayer \/ WalkLayerEnd \/ WalkEndpoint
    BY <2>5, KeptWalkLayer, KeptWalkLayerEnd, KeptWalkEndpoint
  <2>6. CASE ValidateGeneratedPublicApi \/ RustCompiles
    BY <2>6, KeptEmitting
  <2>7. CASE Construct \/ EditClientVar \/ EnterScope \/ EditScopeParam \/ EditParam
               \/ StorePagination \/ OverrideTimeout
    BY <2>7, KeptCalls
  <2>8. CASE CallEndpoint \/ Execute
    BY <2>8, KeptCallEndpoint, KeptExecute
  <2> QED BY <2>1, <2>2, <2>3, <2>4, <2>5, <2>6, <2>7, <2>8 DEF Next, Ended
<1> QED BY <1>1, CompileInit, PTL DEF Spec

(* ---------------------- what an endpoint mentions ------------------------ *)

\* What is declared is found under its name.
LEMMA DeclaredFound ==
    ASSUME NEW vs, IsVec(vs), Distinct(vs), NEW f
    PROVE  /\ Declared(ToSet(vs), f) => f \in VarNames(vs)
           /\ Demanded(ToSet(vs), f) => f \in VarNames(vs) /\ ~ VarNamed(vs, f).optional
           /\ \A d \in ToSet(vs) : d.rust = f => VarNamed(vs, f) = d
  BY OneVar DEF Declared, Demanded

\* A resolved endpoint's policies and routes agree with its fields.
LEMMA EndpointFieldsAgree ==
    ASSUME CompileInv, NEW e \in ToSet(endpoints)
    PROVE  LET blocks == ToSet(e.policy.scopes) \cup {e.policy.endpoint}
               ops    == UNION {ToSet(b.headers) \cup ToSet(b.query) : b \in blocks}
               sets   == {op \in ops : op.op = "Set"}
               pieces == ToSet(e.prefix \o e.scopePath \o e.route) \cup {op.value : op \in sets}
               refs   == {p \in pieces : p.t = "Ep"} \cup UNION {{r \in ToSet(p.pieces) : r.t = "Ep"} :
                             p \in {q \in pieces : q.t = "Fmt"}}
               keys   == UNION {ToSet(k.key) : k \in UNION {ToSet(b.rate.buckets) : b \in blocks}}
           IN  /\ \A r \in refs : r.field \in VarNames(e.vars)
               /\ \A op \in sets : op.value.t = "Ep" =>
                    /\ op.optional = VarNamed(e.vars, op.value.field).optional
                    /\ op.cardinality = "Vector" => VarNamed(e.vars, op.value.field).ty = "Vec"
               /\ \A k \in keys : k.t = "EpField" =>
                    k.name \in VarNames(e.vars) /\ ~ VarNamed(e.vars, k.name).optional
<1> DEFINE C      == ToSet(client.vars)
           D      == ToSet(e.vars)
           blocks == ToSet(e.policy.scopes) \cup {e.policy.endpoint}
           ops    == UNION {ToSet(b.headers) \cup ToSet(b.query) : b \in blocks}
           sets   == {op \in ops : op.op = "Set"}
           pieces == ToSet(e.prefix \o e.scopePath \o e.route) \cup {op.value : op \in sets}
           refs   == {p \in pieces : p.t = "Ep"} \cup UNION {{r \in ToSet(p.pieces) : r.t = "Ep"} :
                         p \in {q \in pieces : q.t = "Fmt"}}
           keys   == UNION {ToSet(k.key) : k \in UNION {ToSet(b.rate.buckets) : b \in blocks}}
<1>1. EndpointOK(client.base, C, e)
  BY DEF CompileInv, Walked, EndpointsResolved
<1>2. IsVec(e.vars) /\ Distinct(e.vars)
  BY <1>1 DEF EndpointOK
<1>3. \A b \in blocks : BlockIn(D, C, b)
  BY <1>1 DEF EndpointOK, BlocksOf
<1>4. \A op \in ops : OpIn(D, C, op)
  BY <1>3 DEF BlockIn
<1>5. \A p \in pieces : RefsIn(D, C, p)
  <2>1. ToSet(e.prefix \o e.scopePath \o e.route) = PiecesIn3(e)
    <3>1. IsVec(e.prefix \o e.scopePath)
          /\ ToSet(e.prefix \o e.scopePath) = ToSet(e.prefix) \cup ToSet(e.scopePath)
      BY <1>1, JoinVec DEF EndpointOK
    <3>2. ToSet((e.prefix \o e.scopePath) \o e.route) = ToSet(e.prefix \o e.scopePath) \cup ToSet(e.route)
      BY <1>1, <3>1, JoinVec DEF EndpointOK
    <3> QED BY <3>1, <3>2 DEF PiecesIn3
  <2>2. \A p \in PiecesIn3(e) : RefsIn(D, C, p)
    BY <1>1 DEF EndpointOK, PieceIn
  <2>3. \A op \in sets : RefsIn(D, C, op.value)
    BY <1>4 DEF OpIn
  <2> QED BY <2>1, <2>2, <2>3
<1>6. ASSUME NEW r \in refs PROVE r.field \in VarNames(e.vars)
  <2>1. RefIn(D, C, r) /\ r.t = "Ep"
    <3> HIDE DEF pieces
    <3> QED BY <1>5 DEF RefsIn
  <2> QED BY <1>2, <2>1, DeclaredFound DEF RefIn
<1>7. ASSUME NEW op \in sets, op.value.t = "Ep"
      PROVE  /\ op.optional = VarNamed(e.vars, op.value.field).optional
             /\ op.cardinality = "Vector" => VarNamed(e.vars, op.value.field).ty = "Vec"
  <2>1. PICK d \in D : /\ d.rust = op.value.field /\ d.optional = op.optional
                       /\ op.cardinality = "Vector" => d.ty = "Vec"
    BY <1>4, <1>7 DEF OpIn
  <2> QED BY <1>2, <2>1, DeclaredFound
<1>8. ASSUME NEW k \in keys, k.t = "EpField"
      PROVE  k.name \in VarNames(e.vars) /\ ~ VarNamed(e.vars, k.name).optional
  <2>1. Demanded(D, k.name)
    BY <1>3, <1>8 DEF BlockIn, RateIn, BucketIn
  <2> QED BY <1>2, <2>1, DeclaredFound
<1> HIDE DEF refs, sets, keys
<1> QED BY <1>6, <1>7, <1>8 DEF refs, sets, keys

\* Whatever a scope or an endpoint of an accepted program mentions is a field of the
\* generated endpoint, in the shape that the code generator assumed.
THEOREM CompileFieldsAgree == Spec => []FieldsAgree
<1>1. CompileInv => FieldsAgree
  <2> SUFFICES ASSUME CompileInv PROVE FieldsAgree
    OBVIOUS
  <2> QED BY EndpointFieldsAgree, Zenon DEF FieldsAgree
<1> QED BY <1>1, CompileApiInv, PTL

(* ------------------------------- the wire -------------------------------- *)

PlaceStep(head, d, m, r) ==
    IF placement(r)[1] = "header"
    THEN [m EXCEPT !.headers = With(@, placement(r)[2], <<"cred", r.credential>>)]
    ELSE [m EXCEPT !.query = Append(@, <<placement(r)[2], <<"cred", r.credential>>>>)]
PlaceInv(head, d, i, m) ==
    DOMAIN m = DOMAIN head /\ \A f \in DOMAIN head \ {"headers", "query"} : m[f] = head[f]
PlaceFold == INSTANCE LeftFolds WITH Op <- PlaceStep, Inv <- PlaceInv

\* Credentials are added to the headers and the query, and nothing else is touched.
LEMMA PlacedBeside ==
    ASSUME NEW head, NEW auth, IsVec(auth)
    PROVE  LET wire == materialize_authentication(head, auth)
           IN  /\ DOMAIN wire = DOMAIN head
               /\ \A f \in DOMAIN head \ {"headers", "query"} : wire[f] = head[f]
<1>1. PlaceInv(head, 0, 0, head)
  BY DEF PlaceInv
<1>2. Len(auth) \in Nat /\ DOMAIN auth = 1 .. Len(auth)
  BY VecSeq
<1>3. ASSUME NEW i \in 1 .. Len(auth), NEW m, PlaceInv(head, 0, i - 1, m)
      PROVE  PlaceInv(head, 0, i, PlaceStep(head, 0, m, auth[i]))
  BY <1>3 DEF PlaceInv, PlaceStep
<1>4. PlaceInv(head, 0, Len(auth), PlaceFold!Fold(head, 0, head, auth))
  BY <1>1, <1>2, <1>3, PlaceFold!FoldKeeps
<1>5. materialize_authentication(head, auth) = PlaceFold!Fold(head, 0, head, auth)
  BY DEF materialize_authentication, PlaceFold!Fold, PlaceStep, FoldLeft, MapThenFoldSet, Max,
         PlaceFold!FoldLeft, PlaceFold!MapThenFoldSet, PlaceFold!Max
<1> QED BY <1>4, <1>5 DEF PlaceInv

\* A request that is sent: its public head was resolved, its credentials are placed.
LEMMA SentWire ==
    ASSUME CompileInv, Sent
    PROVE  LET head == resolve_public_request_head(client.base, api.policy, caller.e, caller.vars,
                         caller.fields, caller.headers, caller.timeout)
               wire == caller.request
           IN  /\ caller.e \in ToSet(endpoints)
               /\ ~ head.err /\ ~ from_auth_plan_fails(caller.e.auth)
               /\ validate_public_request_with_reserved_headers(head, caller.e.body, caller.e.auth)
               /\ wire = materialize_authentication(head, caller.e.auth)
<1> DEFINE head == resolve_public_request_head(client.base, api.policy, caller.e, caller.vars,
                     caller.fields, caller.headers, caller.timeout)
<1>1. caller.e \in ToSet(endpoints) /\ ~ caller.request.err
  BY DEF CompileInv, Called, Sent
<1>0. PICK fits \in BOOLEAN :
        caller.request = build_request(client.base, api.policy, caller.e, caller.vars,
                                       caller.fields, caller.headers, caller.timeout, fits)
  BY DEF CompileInv, Called, Sent
<1> DEFINE bad == \/ head.err \/ from_auth_plan_fails(caller.e.auth)
                  \/ ~ validate_public_request_with_reserved_headers(head, caller.e.body, caller.e.auth)
                  \/ (caller.e.auth # <<>> /\ ~ fits)
<1>2. caller.request = IF bad THEN [err |-> TRUE] ELSE materialize_authentication(head, caller.e.auth)
  BY <1>0 DEF build_request
<1>3. ~ bad
  <2> HIDE DEF head
  <2> QED BY <1>1, <1>2
<1> HIDE DEF head
<1> QED BY <1>1, <1>2, <1>3 DEF head

\* The public head of a request that is sent
LEMMA SentHead ==
    ASSUME NEW p, NEW base, NEW e, NEW cx, NEW ep, NEW headers, NEW override,
           NEW head, head = PublicHead(p, base, e, cx, ep, headers, override), ~ head.err
    PROVE  /\ DOMAIN head = {"err", "host", "path", "query", "headers", "rate", "timeout"}
           /\ head.query = p.query
           /\ head.headers = apply_prepared_body_media_type(PublicHeaders(p, headers), e.body).headers
           /\ head.rate = canonicalize(p.rate)
           /\ head.timeout = IF apply_to(override) # None THEN apply_to(override) ELSE p.timeout
  BY DEF PublicHead

\* The labels of a host whose pieces are all literal
LEMMA StaticHost ==
    ASSUME NEW prefix, IsVec(prefix), NEW cx, NEW ep,
           \A p \in ToSet(prefix) : /\ p.t = "Static" /\ p.labels[1] \in ValidLabels
                                    /\ OneLabel(p)
    PROVE  RouteTexts(prefix, cx, ep) = [i \in DOMAIN prefix |-> prefix[i].labels]
<1> DEFINE f == [i \in DOMAIN prefix |-> prefix[i].labels]
           n == Len(prefix)
           text(p) == IF p.t = "Static" THEN p.labels ELSE emit_value_expr(p, cx, ep)
           parts == [i \in DOMAIN prefix |-> IF text(prefix[i]) = None THEN <<>> ELSE <<text(prefix[i])>>]
<1>1. n \in Nat /\ DOMAIN prefix = 1 .. n
  BY VecSeq
<1>2. ASSUME NEW i \in 1 .. n PROVE text(prefix[i]) = prefix[i].labels /\ prefix[i].labels # None
  <2>1. prefix[i] \in ToSet(prefix)
    BY VecSeq
  <2>2. prefix[i].t = "Static" /\ prefix[i].labels = <<prefix[i].labels[1]>> /\ prefix[i].labels[1] \in ValidLabels
    BY <2>1 DEF OneLabel
  <2>3. \A l \in ValidLabels : <<l>> # None
    BY CompileTexts
  <2> QED BY <2>2, <2>3
<1>3. RouteTexts(prefix, cx, ep) = FlattenSeq(parts)
  BY DEF RouteTexts, Concat
<1>4. parts = [i \in 1 .. n |-> <<prefix[i].labels>>]
  <2> HIDE DEF text, n
  <2> QED BY <1>1, <1>2
<1>5. f = [i \in 1 .. n |-> f[i]] /\ \A i \in 1 .. n : f[i] = prefix[i].labels
  BY <1>1
<1>6. parts = [i \in 1 .. n |-> <<f[i]>>]
  BY <1>4, <1>5
<1> HIDE DEF parts, f
<1>7. FlattenSeq(parts) = f
  <2>1. f = [i \in 1 .. n |-> f[i]]
    BY <1>5
  <2> HIDE DEF n
  <2> QED BY <1>1, <1>6, <2>1, FlattenOnes
<1> QED BY <1>3, <1>7 DEF f

\* An API that is "fixed, one origin": each endpoint's origin is that one.
LEMMA SingleOrigin ==
    ASSUME IsVec(endpoints), classify_api_origin(endpoints).t = "FixedSingle",
           NEW e \in ToSet(endpoints)
    PROVE  /\ e.descriptor.origin.t # "Dynamic"
           /\ e.descriptor.origin.host = classify_api_origin(endpoints).host
<1> DEFINE origins == {endpoints[i].descriptor.origin : i \in DOMAIN endpoints}
           chosen == CHOOSE o \in origins : TRUE
<1>1. e.descriptor.origin \in origins
  BY DEF ToSet
<1>2. /\ \A o \in origins : o.t # "Dynamic"
      /\ Cardinality(origins) = 1
      /\ classify_api_origin(endpoints).host = chosen.host
  <2> HIDE DEF origins
  <2>1. \/ classify_api_origin(endpoints) = [t |-> "Dynamic"]
        \/ classify_api_origin(endpoints) = [t |-> "Multi"]
        \/ /\ \A o \in origins : o.t # "Dynamic"
           /\ Cardinality(origins) = 1
           /\ classify_api_origin(endpoints) = [t |-> "FixedSingle", host |-> chosen.host]
    BY DEF classify_api_origin, origins, chosen
  <2> HIDE DEF chosen
  <2> QED BY <2>1
<1>3. \E x : origins = {x}
  <2>1. IsFiniteSet(origins)
    <3> DEFINE f == [i \in DOMAIN endpoints |-> endpoints[i].descriptor.origin]
    <3>1. IsFiniteSet(DOMAIN endpoints)
      <4>1. Len(endpoints) \in Nat /\ DOMAIN endpoints = 1 .. Len(endpoints)
        BY VecSeq
      <4>2. IsFiniteSet(1 .. Len(endpoints))
        BY <4>1, FS_Interval
      <4> QED BY <4>1, <4>2
    <3>2. f \in Surjection(DOMAIN endpoints, origins)
      BY DEF Surjection
    <3> QED BY <3>1, <3>2, FS_Surjection
  <2> HIDE DEF origins
  <2> QED BY <1>2, <2>1, FS_Singleton
<1>4. chosen = e.descriptor.origin
  <2> HIDE DEF origins
  <2> QED BY <1>1, <1>3
<1> HIDE DEF origins, chosen
<1> QED BY <1>1, <1>2, <1>4

\* An API that the compiler calls "fixed, one origin" (classify_api_origin) sends every
\* request to that host, whatever the caller sets.
THEOREM CompileOriginPinned == Spec => []OriginPinned
<1>1. CompileInv => OriginPinned
  <2> SUFFICES ASSUME CompileInv, Sent, classify_api_origin(endpoints).t = "FixedSingle"
               PROVE  caller.request.host = classify_api_origin(endpoints).host
    BY DEF OriginPinned
  <2> DEFINE e == caller.e
             head == resolve_public_request_head(client.base, api.policy, e, caller.vars,
                       caller.fields, caller.headers, caller.timeout)
  <2>1. e \in ToSet(endpoints) /\ ~ head.err /\ caller.request = materialize_authentication(head, e.auth)
    BY SentWire
  <2>2. EndpointOK(client.base, ToSet(client.vars), e)
    BY <2>1 DEF CompileInv, Walked, EndpointsResolved
  <2>3. /\ e.descriptor.origin.t # "Dynamic"
        /\ e.descriptor.origin.host = classify_api_origin(endpoints).host
    BY <2>1, SingleOrigin DEF CompileInv, Walked, EndpointsResolved
  <2>4. e.descriptor.origin = classify_endpoint_origin(client.base, e.prefix)
    BY <2>2 DEF EndpointOK
  <2>5. /\ \A p \in ToSet(e.prefix) : p.t = "Static" /\ p.labels[1] \in ValidLabels
        /\ e.descriptor.origin.host
             = [i \in DOMAIN e.prefix |-> e.prefix[i].labels] \o <<<<client.base.host>>>>
    <3> DEFINE host == [i \in DOMAIN e.prefix |-> e.prefix[i].labels] \o <<<<client.base.host>>>>
               static == \A p \in ToSet(e.prefix) : p.t = "Static" /\ p.labels[1] \in ValidLabels
    <3>1. \/ e.descriptor.origin = [t |-> "Dynamic"]
          \/ static /\ e.descriptor.origin = [t |-> "Fixed", host |-> host]
      BY <2>4 DEF classify_endpoint_origin
    <3> HIDE DEF host, static, e
    <3>2. static /\ e.descriptor.origin.host = host
      BY <2>3, <3>1
    <3> QED BY <3>2 DEF host, static
  <2>6. RouteTexts(e.prefix, caller.vars, caller.fields) = [i \in DOMAIN e.prefix |-> e.prefix[i].labels]
    BY <2>2, <2>5, StaticHost DEF EndpointOK
  <2>7. head.host = RouteTexts(e.prefix, caller.vars, caller.fields) \o <<<<client.base.host>>>>
        /\ "host" \in DOMAIN head
    <3> DEFINE p == ApplyPolicies(api.policy, e, caller.vars, caller.fields)
    <3>1. head = PublicHead(p, client.base, e, caller.vars, caller.fields, caller.headers, caller.timeout)
      BY DEF resolve_public_request_head
    <3> HIDE DEF p, e, head
    <3>2. head.host = RouteTexts(e.prefix, caller.vars, caller.fields) \o <<<<client.base.host>>>>
      BY <2>1, <3>1 DEF PublicHead
    <3>3. DOMAIN head = {"err", "host", "path", "query", "headers", "rate", "timeout"}
      BY <2>1, <3>1, SentHead
    <3> QED BY <3>2, <3>3
  <2>8. caller.request.host = head.host
    <3> HIDE DEF head, e
    <3>1. IsVec(e.auth)
      BY <2>2 DEF EndpointOK, AuthOK
    <3> QED BY <2>1, <2>7, <3>1, PlacedBeside
  <2> QED BY <2>3, <2>5, <2>6, <2>7, <2>8
<1> QED BY <1>1, CompileApiInv, PTL

(* ------------------------- scopes of the facade -------------------------- *)

\* A slice of a Vec
LEMMA SubVec ==
    ASSUME NEW s, IsVec(s), NEW m \in Nat, NEW n \in Nat, 1 <= m, m <= n + 1, n <= Len(s)
    PROVE  /\ IsVec(SubSeq(s, m, n)) /\ Len(SubSeq(s, m, n)) = n - m + 1
           /\ ToSet(SubSeq(s, m, n)) \subseteq ToSet(s)
           /\ \A i \in 1 .. n - m + 1 : SubSeq(s, m, n)[i] = s[m + i - 1]
<1> DEFINE r == SubSeq(s, m, n)  k == n - m + 1
<1>1. Len(s) \in Nat /\ DOMAIN s = 1 .. Len(s) /\ k \in Nat /\ s \in Seq(ToSet(s))
  BY VecSeq DEF IsVec
<1>2. r = [i \in 1 .. k |-> s[m + i - 1]]
  BY <1>1
<1>3. r = [i \in 1 .. k |-> r[i]] /\ \A i \in 1 .. k : r[i] = s[m + i - 1]
  BY <1>2
<1>4. \A i \in 1 .. k : m + i - 1 \in 1 .. Len(s)
  BY <1>1
<1> HIDE DEF r, k
<1>5. IsVec(r) /\ Len(r) = k /\ ToSet(r) = {r[i] : i \in 1 .. k}
  <2>1. r = [i \in 1 .. k |-> r[i]]
    BY <1>3
  <2> QED BY <1>1, <2>1, MapVec
<1>6. \A i \in 1 .. k : r[i] \in ToSet(s)
  BY <1>1, <1>3, <1>4, VecSeq
<1> QED BY <1>3, <1>5, <1>6 DEF r, k

\* A scope of the facade: it has a name, and its parameters are declarations.
ScopeOK(s) == IsVec(s.path) /\ Len(s.path) # 0 /\ DeclsOK(s.decls)
PathsDiffer(scopes) == \A i, j \in DOMAIN scopes : scopes[i].path = scopes[j].path => i = j
ScopesOK(scopes) == IsVec(scopes) /\ PathsDiffer(scopes) /\ \A s \in ToSet(scopes) : ScopeOK(s)

ScopesAbove(e) ==
    [i \in DOMAIN e.scopes |-> [path |-> SubSeq(e.scopes, 1, i), decls |-> FlattenSeq(SubSeq(e.groups, 1, i))]]

\* The scopes above an endpoint, outermost first
LEMMA AboveOK ==
    ASSUME NEW base, NEW C, NEW e, EndpointOK(base, C, e)
    PROVE  IsVec(ScopesAbove(e)) /\ \A s \in ToSet(ScopesAbove(e)) : ScopeOK(s)
<1> DEFINE r == ScopesAbove(e)  n == Len(e.scopes)
<1>1. n \in Nat /\ DOMAIN e.scopes = 1 .. n /\ IsVec(e.scopes) /\ IsVec(e.groups) /\ Len(e.groups) = n
  BY VecSeq DEF EndpointOK
<1>2. r = [i \in 1 .. n |-> r[i]]
      /\ \A i \in 1 .. n : r[i] = [path |-> SubSeq(e.scopes, 1, i), decls |-> FlattenSeq(SubSeq(e.groups, 1, i))]
  BY <1>1 DEF ScopesAbove
<1> HIDE DEF r, n
<1>3. ASSUME NEW i \in 1 .. n PROVE ScopeOK(r[i])
  <2> DEFINE g == SubSeq(e.groups, 1, i)
  <2>1. r[i].path = SubSeq(e.scopes, 1, i) /\ r[i].decls = FlattenSeq(g)
    BY <1>2
  <2>2. i \in Nat /\ 1 <= i /\ i <= n /\ 1 \in Nat /\ 1 <= i + 1 /\ i - 1 + 1 = i /\ i # 0
    BY <1>1
  <2>3. IsVec(SubSeq(e.scopes, 1, i)) /\ Len(SubSeq(e.scopes, 1, i)) = i
    BY <1>1, <2>2, SubVec DEF n
  <2>4. IsVec(g) /\ Len(g) = i /\ ToSet(g) \subseteq ToSet(e.groups)
    BY <1>1, <2>2, SubVec
  <2> HIDE DEF g
  <2>5. \A j \in 1 .. Len(g) : g[j] \in ToSet(g)
    BY <2>4, VecSeq
  <2>6. \A x \in ToSet(g) : IsVec(x) /\ \A d \in ToSet(x) : IsVarDecl(Types, d)
    BY <2>4 DEF EndpointOK, DeclsOK, VecOf
  <2>7. IsVec(FlattenSeq(g)) /\ ToSet(FlattenSeq(g)) = UNION {ToSet(g[j]) : j \in 1 .. Len(g)}
    BY <2>4, <2>5, <2>6, FlattenVec
  <2>8. DeclsOK(FlattenSeq(g))
    BY <2>5, <2>6, <2>7 DEF DeclsOK, VecOf
  <2> QED BY <2>1, <2>2, <2>3, <2>8 DEF ScopeOK
<1>4. IsVec(r) /\ ToSet(r) = {r[i] : i \in 1 .. n}
  <2>1. r = [i \in 1 .. n |-> r[i]]
    BY <1>2
  <2> QED BY <1>1, <2>1, MapVec
<1> QED BY <1>3, <1>4 DEF r

AddScope(c, d, seen, s) == IF \E i \in DOMAIN seen : seen[i].path = s.path THEN seen ELSE Append(seen, s)
AddedScopes(c, d, i, seen) == ScopesOK(seen)
ScopesFold == INSTANCE LeftFolds WITH Op <- AddScope, Inv <- AddedScopes

\* Collecting one more scope: paths stay different.
LEMMA AddScopeKeeps ==
    ASSUME NEW seen, ScopesOK(seen), NEW s, ScopeOK(s) PROVE ScopesOK(AddScope(0, 0, seen, s))
<1>1. CASE \E i \in DOMAIN seen : seen[i].path = s.path
  BY <1>1 DEF AddScope
<1>2. CASE ~ \E i \in DOMAIN seen : seen[i].path = s.path
  <2> DEFINE r == Append(seen, s)  n == Len(seen)
  <2>1. AddScope(0, 0, seen, s) = r
    BY <1>2 DEF AddScope
  <2>2. /\ IsVec(r) /\ ToSet(r) = ToSet(seen) \cup {s} /\ Len(r) = n + 1 /\ r[n + 1] = s
        /\ \A i \in 1 .. n : r[i] = seen[i]
    BY AppendVec DEF ScopesOK
  <2>3. n \in Nat /\ DOMAIN seen = 1 .. n
    BY VecSeq DEF ScopesOK
  <2> HIDE DEF r, n
  <2>4. DOMAIN r = 1 .. n + 1
    BY <2>2, VecSeq
  <2>5. PathsDiffer(r)
    <3> SUFFICES ASSUME NEW i \in 1 .. n + 1, NEW j \in 1 .. n + 1, r[i].path = r[j].path PROVE i = j
      BY <2>4 DEF PathsDiffer
    <3>1. i \in 1 .. n \/ i = n + 1
      BY <2>3
    <3>2. j \in 1 .. n \/ j = n + 1
      BY <2>3
    <3> QED BY <1>2, <2>2, <2>3, <3>1, <3>2 DEF ScopesOK, PathsDiffer
  <2> QED BY <2>1, <2>2, <2>5 DEF ScopesOK
<1> QED BY <1>1, <1>2

\* collect_facade_scopes: each scope once, with the declarations along its path
LEMMA FacadeScopes ==
    ASSUME EndpointsResolved PROVE ScopesOK(Scopes)
<1> DEFINE parts == [i \in DOMAIN endpoints |-> ScopesAbove(endpoints[i])]
           all == FlattenSeq(parts)
<1>1. IsVec(endpoints) /\ Len(endpoints) \in Nat /\ DOMAIN endpoints = 1 .. Len(endpoints)
  BY VecSeq DEF EndpointsResolved
<1>2. \A i \in 1 .. Len(endpoints) :
        parts[i] = ScopesAbove(endpoints[i]) /\ IsVec(parts[i]) /\ \A s \in ToSet(parts[i]) : ScopeOK(s)
  <2> SUFFICES ASSUME NEW i \in 1 .. Len(endpoints)
               PROVE  parts[i] = ScopesAbove(endpoints[i]) /\ IsVec(parts[i])
                      /\ \A s \in ToSet(parts[i]) : ScopeOK(s)
    OBVIOUS
  <2>1. parts[i] = ScopesAbove(endpoints[i])
    BY <1>1
  <2>2. EndpointOK(client.base, ToSet(client.vars), endpoints[i])
    BY <1>1, VecSeq DEF EndpointsResolved
  <2> HIDE DEF parts
  <2> QED BY <2>1, <2>2, AboveOK
<1>3. parts = [i \in DOMAIN endpoints |-> parts[i]]
  OBVIOUS
<1>4. Scopes = ScopesFold!Fold(0, 0, <<>>, all)
  BY DEF Scopes, collect_facade_scopes, Concat, ScopesAbove, ScopesFold!Fold, AddScope, FoldLeft,
         MapThenFoldSet, Max, ScopesFold!FoldLeft, ScopesFold!MapThenFoldSet, ScopesFold!Max
<1> HIDE DEF parts
<1>5. IsVec(all) /\ \A s \in ToSet(all) : \E i \in 1 .. Len(endpoints) : s \in ToSet(parts[i])
  BY <1>1, <1>2, <1>3, Joined
<1> HIDE DEF all
<1>6. \A s \in ToSet(all) : ScopeOK(s)
  BY <1>2, <1>5
<1>7. Len(all) \in Nat /\ DOMAIN all = 1 .. Len(all) /\ \A i \in 1 .. Len(all) : all[i] \in ToSet(all)
  BY <1>5, VecSeq
<1>8. AddedScopes(0, 0, 0, <<>>)
  BY EmptyVec DEF AddedScopes, ScopesOK, PathsDiffer
<1>9. ASSUME NEW i \in 1 .. Len(all), NEW seen, AddedScopes(0, 0, i - 1, seen)
      PROVE  AddedScopes(0, 0, i, AddScope(0, 0, seen, all[i]))
  BY <1>6, <1>7, <1>9, AddScopeKeeps DEF AddedScopes
<1>10. AddedScopes(0, 0, Len(all), ScopesFold!Fold(0, 0, <<>>, all))
  BY <1>7, <1>8, <1>9, ScopesFold!FoldKeeps
<1> QED BY <1>4, <1>10 DEF AddedScopes

\* ScopeAt finds the scope of that path.
LEMMA AtItsPath ==
    ASSUME ScopesOK(Scopes), NEW s \in ToSet(Scopes) PROVE ScopeAt(s.path) = s /\ s.path # <<>>
<1> DEFINE all == Scopes
<1>1. PICK i \in DOMAIN all : all[i] = s
  BY DEF ToSet
<1>2. s.path # <<>>
  BY DEF ScopesOK, ScopeOK
<1>3. (CHOOSE j \in DOMAIN all : all[j].path = s.path) = i
  <2> HIDE DEF all
  <2>1. \A j \in DOMAIN all : all[j].path = s.path => j = i
    BY <1>1 DEF ScopesOK, PathsDiffer, all
  <2> QED BY <1>1, <2>1
<1>4. ScopeAt(s.path) = all[CHOOSE j \in DOMAIN all : all[j].path = s.path]
  BY <1>2 DEF ScopeAt
<1> HIDE DEF all
<1> QED BY <1>1, <1>2, <1>3, <1>4

(* ----------------------- the values that are passed ----------------------- *)

\* A parameter has a value, or is optional and has none.
HasValue(v, x) == (x = None /\ v.optional) \/ (x # None /\ IsVec(x))
Unique(vs) == \A v, w \in ToSet(vs) : v.rust = w.rust => v = w
Filled(vs, f) == DOMAIN f = VarNames(vs) /\ \A v \in ToSet(vs) : HasValue(v, f[v.rust])

\* VarNamed finds the one declaration of that name.
LEMMA UniqueFound ==
    ASSUME NEW vs, IsVec(vs), Unique(vs), NEW v \in ToSet(vs)
    PROVE  v.rust \in VarNames(vs) /\ VarNamed(vs, v.rust) = v
<1>1. v.rust \in VarNames(vs)
  BY NamesOf
<1>2. VarNamed(vs, v.rust) \in ToSet(vs) /\ VarNamed(vs, v.rust).rust = v.rust
  BY <1>1, FoundVar
<1> QED BY <1>1, <1>2 DEF Unique

\* Distinct names are unique ones.
LEMMA DistinctUnique == ASSUME NEW vs, Distinct(vs) PROVE Unique(vs)
  BY DEF Distinct, Unique, ToSet

\* The parameters of some kind
LEMMA RequiredKept ==
    ASSUME NEW vs, IsVec(vs)
    PROVE  IsVec(Kept(vs, Required)) /\ ToSet(Kept(vs, Required)) = {v \in ToSet(vs) : Required(v)}
<1> DEFINE K == {v \in ToSet(vs) : Required(v)}
           parts == [i \in DOMAIN vs |-> IF vs[i] \in K THEN <<vs[i]>> ELSE <<>>]
<1>1. \A i \in DOMAIN vs : Required(vs[i]) <=> vs[i] \in K
  BY DEF ToSet
<1> HIDE DEF K
<1>2. Kept(vs, Required) = FlattenSeq(parts)
  <2>1. [i \in DOMAIN vs |-> IF Required(vs[i]) THEN <<vs[i]>> ELSE <<>>] = parts
    BY <1>1
  <2> HIDE DEF parts
  <2> QED BY <2>1 DEF Kept, Concat
<1>3. IsVec(FlattenSeq(parts)) /\ ToSet(FlattenSeq(parts)) = ToSet(vs) \cap K
  BY KeptVec
<1> QED BY <1>2, <1>3 DEF K

\* The parameters with a setter
LEMMA SettableKept ==
    ASSUME NEW vs, IsVec(vs) PROVE ToSet(Kept(vs, Settable)) = {v \in ToSet(vs) : Settable(v)}
<1> DEFINE K == {v \in ToSet(vs) : Settable(v)}
           parts == [i \in DOMAIN vs |-> IF vs[i] \in K THEN <<vs[i]>> ELSE <<>>]
<1>1. \A i \in DOMAIN vs : Settable(vs[i]) <=> vs[i] \in K
  BY DEF ToSet
<1> HIDE DEF K
<1>2. Kept(vs, Settable) = FlattenSeq(parts)
  <2>1. [i \in DOMAIN vs |-> IF Settable(vs[i]) THEN <<vs[i]>> ELSE <<>>] = parts
    BY <1>1
  <2> HIDE DEF parts
  <2> QED BY <2>1 DEF Kept, Concat
<1>3. IsVec(FlattenSeq(parts)) /\ ToSet(FlattenSeq(parts)) = ToSet(vs) \cap K
  BY KeptVec
<1> QED BY <1>2, <1>3 DEF K

\* The endpoint's own parameters, and those of them that have a setter
OwnVars(e) == Kept(e.vars, LAMBDA v : v.rust \notin CapturedNames(e))
OwnSettable(e) == Kept(e.vars, LAMBDA w : Settable(w) /\ w.rust \notin CapturedNames(e))

\* The parameters that are an endpoint's own
LEMMA OwnKept ==
    ASSUME NEW e, IsVec(e.vars)
    PROVE  /\ IsVec(OwnVars(e))
           /\ ToSet(OwnVars(e)) = {v \in ToSet(e.vars) : v.rust \notin CapturedNames(e)}
           /\ \A v \in ToSet(OwnSettable(e)) :
                v \in ToSet(e.vars) /\ Settable(v) /\ v.rust \notin CapturedNames(e)
<1> DEFINE N == CapturedNames(e)  vs == e.vars
           K == {v \in ToSet(vs) : v.rust \notin N}
           L == {v \in ToSet(vs) : Settable(v) /\ v.rust \notin N}
           k == [i \in DOMAIN vs |-> IF vs[i] \in K THEN <<vs[i]>> ELSE <<>>]
           l == [i \in DOMAIN vs |-> IF vs[i] \in L THEN <<vs[i]>> ELSE <<>>]
<1>1. \A i \in DOMAIN vs : /\ vs[i].rust \notin N <=> vs[i] \in K
                           /\ (Settable(vs[i]) /\ vs[i].rust \notin N) <=> vs[i] \in L
  <2> HIDE DEF N
  <2> QED BY DEF ToSet
<1> HIDE DEF K, L
<1>2. OwnVars(e) = FlattenSeq(k)
  <2>1. [i \in DOMAIN vs |-> IF vs[i].rust \notin N THEN <<vs[i]>> ELSE <<>>] = k
    <3> HIDE DEF N
    <3> QED BY <1>1
  <2> HIDE DEF k
  <2> QED BY <2>1 DEF OwnVars, Kept, Concat
<1>3. OwnSettable(e) = FlattenSeq(l)
  <2>1. [i \in DOMAIN vs |-> IF Settable(vs[i]) /\ vs[i].rust \notin N THEN <<vs[i]>> ELSE <<>>] = l
    <3> HIDE DEF N
    <3> QED BY <1>1
  <2> HIDE DEF l
  <2> QED BY <2>1 DEF OwnSettable, Kept, Concat
<1>4. IsVec(FlattenSeq(k)) /\ ToSet(FlattenSeq(k)) = ToSet(vs) \cap K
  BY KeptVec
<1>5. IsVec(FlattenSeq(l)) /\ ToSet(FlattenSeq(l)) = ToSet(vs) \cap L
  BY KeptVec
<1> HIDE DEF k, l
<1> QED BY <1>2, <1>3, <1>4, <1>5 DEF K, L

\* What the signature asks for is given.
LEMMA ArgsGiven ==
    ASSUME NEW vs, DeclsOK(vs), Unique(vs), NEW args \in ArgumentsFor(vs)
    PROVE  /\ DOMAIN args = {v.rust : v \in {w \in ToSet(vs) : Required(w)}}
           /\ \A v \in ToSet(vs) : Required(v) => HasValue(v, args[v.rust])
<1> DEFINE names == {d.rust : d \in ToSet(Kept(vs, Required))}
<1>1. IsVec(vs) /\ \A v \in ToSet(vs) : v.ty \in Types
  BY DEF DeclsOK, VecOf, IsVarDecl
<1>2. names = {v.rust : v \in {w \in ToSet(vs) : Required(w)}}
  BY <1>1, RequiredKept
<1>3. DOMAIN args = names /\ \A f \in names : args[f] \in Values[VarNamed(vs, f).ty]
  BY DEF ArgumentsFor
<1>4. ASSUME NEW v \in ToSet(vs), Required(v) PROVE HasValue(v, args[v.rust])
  <2>1. args[v.rust] \in Values[v.ty]
    BY <1>1, <1>2, <1>3, <1>4, UniqueFound
  <2>2. \A t \in Types : \A x \in Values[t] : IsVec(x) /\ x # None
    BY CompileTexts DEF Types
  <2> QED BY <1>1, <2>1, <2>2 DEF HasValue
<1> QED BY <1>2, <1>3, <1>4

\* A default is a value of the parameter; only an optional one may have none.
LEMMA DefaultHasValue ==
    ASSUME NEW v, IsVarDecl(Types, v), Settable(v) PROVE HasValue(v, v.default)
  BY DEF IsVarDecl, Settable, HasValue

\* A fresh handle or endpoint value
LEMMA FreshFields ==
    ASSUME NEW vs, IsVec(vs), Unique(vs), NEW args
    PROVE  /\ DOMAIN NewFields(vs, args) = VarNames(vs)
           /\ \A v \in ToSet(vs) :
                NewFields(vs, args)[v.rust] = IF Required(v) THEN args[v.rust] ELSE v.default
<1>1. DOMAIN NewFields(vs, args) = VarNames(vs)
  BY DEF NewFields
<1>2. ASSUME NEW v \in ToSet(vs)
      PROVE  NewFields(vs, args)[v.rust] = IF Required(v) THEN args[v.rust] ELSE v.default
  BY UniqueFound DEF NewFields
<1> QED BY <1>1, <1>2

\* A fresh handle or endpoint value has a value for every parameter.
LEMMA FreshFilled ==
    ASSUME NEW vs, DeclsOK(vs), Unique(vs), NEW args,
           \A v \in ToSet(vs) : Required(v) => HasValue(v, args[v.rust])
    PROVE  Filled(vs, NewFields(vs, args))
<1>1. IsVec(vs) /\ \A v \in ToSet(vs) : IsVarDecl(Types, v)
  BY DEF DeclsOK, VecOf
<1>2. ASSUME NEW v \in ToSet(vs) PROVE HasValue(v, NewFields(vs, args)[v.rust])
  BY <1>1, FreshFields, DefaultHasValue DEF Required
<1> QED BY <1>1, <1>2, FreshFields DEF Filled

\* One parameter is set anew.
LEMMA EditedFilled ==
    ASSUME NEW vs, IsVec(vs), Unique(vs), NEW f, Filled(vs, f), NEW n, NEW x,
           \A v \in ToSet(vs) : v.rust = n => HasValue(v, x)
    PROVE  Filled(vs, [f EXCEPT ![n] = x])
<1> DEFINE g == [f EXCEPT ![n] = x]
<1>1. DOMAIN g = DOMAIN f /\ \A m \in DOMAIN f : g[m] = IF m = n THEN x ELSE f[m]
  OBVIOUS
<1> HIDE DEF g
<1>2. \A v \in ToSet(vs) : v.rust \in DOMAIN f
  BY NamesOf DEF Filled
<1>3. Filled(vs, g)
  BY <1>1, <1>2 DEF Filled
<1> QED BY <1>3 DEF g

\* So has one after a setter.
LEMMA ValueGiven ==
    ASSUME NEW v, IsVarDecl(Types, v), NEW x,
           x \in Values[v.ty] \/ (v.optional /\ x = None) \/ (Settable(v) /\ x = Cleared(v))
    PROVE  HasValue(v, x)
<1>1. \A t \in Types : \A y \in Values[t] : IsVec(y) /\ y # None
  BY CompileTexts DEF Types
<1>2. CASE x \in Values[v.ty]
  BY <1>1, <1>2 DEF IsVarDecl, HasValue
<1>3. CASE v.optional /\ x = None
  BY <1>3 DEF HasValue
<1>4. CASE Settable(v) /\ x = Cleared(v)
  BY <1>4, DefaultHasValue DEF Cleared, HasValue
<1> QED BY <1>2, <1>3, <1>4

=============================================================================
