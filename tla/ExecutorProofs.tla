---------------------------- MODULE ExecutorProofs ----------------------------
(***************************************************************************)
(* The two executors of a request.  Proofs about DevelopmentExecutor, for   *)
(* any number of executions, readers and gates, and for scripts and bodies  *)
(* of any length; and about DriveExecutions, the driver of a protected      *)
(* request, for any requests, credentials, challenge policies and           *)
(* generation width.                                                        *)
(***************************************************************************)
EXTENDS DevelopmentExecutor, DriveExecutions, WellFoundedInduction, NaturalsInduction, TLAPS

-----------------------------------------------------------------------------
(* Flattening, prefix by prefix                                             *)

\* What holds of 0 and is passed on from i - 1 to i holds up to n.
LEMMA Climb ==
    ASSUME NEW n \in Nat, NEW T, 0 \in T, \A i \in 1 .. n : i - 1 \in T => i \in T
    PROVE  0 .. n \subseteq T
<1> DEFINE Off == {i \in 0 .. n : i \notin T}
<1> SUFFICES ASSUME Off # {} PROVE FALSE
  OBVIOUS
<1>1. Off \subseteq Nat
  OBVIOUS
<1>2. PICK k \in Off : \A m \in Off : ~ (<<m, k>> \in OpToRel(<, Nat))
  <2> HIDE DEF Off
  <2> QED BY <1>1, NatLessThanWellFounded, WFMin
<1>3. k \in 0 .. n /\ k \notin T /\ k # 0
  OBVIOUS
<1>4. k - 1 \in 0 .. n /\ k \in 1 .. n /\ k - 1 < k /\ k \in Nat /\ k - 1 \in Nat
  BY <1>3
<1>5. k - 1 \notin Off
  BY <1>2, <1>4 DEF OpToRel
<1> QED BY <1>3, <1>4, <1>5

Join(s, t) == s \o t

\* F[k] is what the first k sequences of D come to.
Joins(F, D, n, X) ==
    F \in [0 .. n -> Seq(X)] /\ F[0] = <<>> /\ \A i \in 1 .. n : F[i] = Join(F[i - 1], D[i])

LEMMA JoinType ==
    ASSUME NEW X, NEW s \in Seq(X), NEW t \in Seq(X)
    PROVE  /\ Join(s, t) \in Seq(X) /\ Len(Join(s, t)) = Len(s) + Len(t) /\ Join(<<>>, t) = t
           /\ \A i \in 1 .. Len(s) : Join(s, t)[i] = s[i]
           /\ \A i \in 1 .. Len(t) : Join(s, t)[Len(s) + i] = t[i]
BY DEF Join

\* A prefix stays one when something is added.
LEMMA JoinContinues ==
    ASSUME NEW X, NEW a \in Seq(X), NEW b \in Seq(X), NEW d \in Seq(X),
           Len(a) <= Len(b), \A i \in 1 .. Len(a) : b[i] = a[i]
    PROVE  Len(a) <= Len(Join(b, d)) /\ \A i \in 1 .. Len(a) : Join(b, d)[i] = a[i]
BY DEF Join

LEMMA JoinAdds ==
    ASSUME NEW X, NEW a \in Seq(X), NEW b \in Seq(X), NEW c \in Seq(X), NEW d \in Seq(X),
           Len(a) + Len(b) = Len(c)
    PROVE  Len(a) + Len(Join(b, d)) = Len(Join(c, d))
BY DEF Join

LEMMA JoinsExist ==
    ASSUME NEW X, NEW n \in Nat, NEW D, \A i \in 1 .. n : D[i] \in Seq(X)
    PROVE  \E F : Joins(F, D, n, X)
<1> DEFINE T == {m \in 0 .. n : \E F : Joins(F, D, m, X)}
<1>1. 0 \in T
  <2> DEFINE F == [i \in 0 .. 0 |-> <<>>]
  <2>1. Joins(F, D, 0, X)
    BY DEF Joins
  <2> HIDE DEF F
  <2> QED BY <2>1
<1>2. ASSUME NEW m \in 1 .. n, m - 1 \in T PROVE m \in T
  <2>1. PICK G : Joins(G, D, m - 1, X)
    BY <1>2
  <2> DEFINE F == [i \in 0 .. m |-> IF i < m THEN G[i] ELSE Join(G[m - 1], D[m])]
  <2>2. D[m] \in Seq(X) /\ G[m - 1] \in Seq(X) /\ G \in [0 .. m - 1 -> Seq(X)]
    BY <2>1 DEF Joins
  <2>3. F \in [0 .. m -> Seq(X)]
    <3>1. Join(G[m - 1], D[m]) \in Seq(X)
      BY <2>2, JoinType
    <3> QED BY <2>2, <3>1
  <2>4. F[0] = <<>>
    BY <2>1 DEF Joins
  <2>5. ASSUME NEW i \in 1 .. m PROVE F[i] = Join(F[i - 1], D[i])
    <3>1. F[i - 1] = G[i - 1]
      OBVIOUS
    <3>2. CASE i < m
      <4>1. F[i] = G[i] /\ i \in 1 .. m - 1
        BY <3>2
      <4>2. G[i] = Join(G[i - 1], D[i])
        BY <2>1, <4>1 DEF Joins
      <4> HIDE DEF F
      <4> QED BY <3>1, <4>1, <4>2
    <3>3. CASE i = m
      BY <3>1, <3>3
    <3> QED BY <3>2, <3>3
  <2>6. Joins(F, D, m, X)
    <3> HIDE DEF F
    <3> QED BY <2>3, <2>4, <2>5 DEF Joins
  <2> HIDE DEF F
  <2> QED BY <2>6
<1>3. n \in T
  <2> HIDE DEF T
  <2>1. 0 .. n \subseteq T
    BY <1>1, <1>2, Climb
  <2> QED BY <2>1
<1> QED BY <1>3

\* The library's recursive function computes F.
LEMMA FlattenIsJoin ==
    ASSUME NEW X, NEW n \in Nat, NEW D \in [1 .. n -> Seq(X)], NEW F, Joins(F, D, n, X)
    PROVE  FlattenSeq(D) = F[n]
<1>0. D \in Seq(Seq(X)) /\ Len(D) = n
  OBVIOUS
<1>1. CASE n = 0
  <2>1. D = <<>>
    BY <1>0, <1>1
  <2>2. FlattenSeq(D) = D
    BY <1>0, <1>1 DEF FlattenSeq
  <2> QED BY <1>1, <2>1, <2>2 DEF Joins
<1>2. CASE n # 0
  <2> DEFINE Solves(h) == h = [i \in 1 .. n |-> IF i = 1 THEN D[i] ELSE Join(h[i - 1], D[i])]
             f == CHOOSE h : Solves(h)
             G == [i \in 1 .. n |-> F[i]]
  <2>0. /\ F \in [0 .. n -> Seq(X)] /\ F[0] = <<>>
        /\ \A i \in 1 .. n : F[i] = Join(F[i - 1], D[i])
    BY DEF Joins
  <2>1. FlattenSeq(D) = f[n]
    BY <1>0, <1>2 DEF FlattenSeq, Join
  <2>2. \A i \in 1 .. n : G[i] = IF i = 1 THEN D[i] ELSE Join(G[i - 1], D[i])
    <3> TAKE i \in 1 .. n
    <3>1. CASE i = 1
      <4>1. F[1] = Join(F[0], D[1]) /\ D[1] \in Seq(X)
        BY <1>2, <2>0
      <4>2. F[1] = D[1]
        BY <2>0, <4>1, JoinType
      <4> QED BY <3>1, <4>2
    <3>2. CASE i # 1
      <4>1. i - 1 \in 1 .. n
        BY <3>2
      <4> QED BY <2>0, <3>2, <4>1
    <3> QED BY <3>1, <3>2
  <2>3. Solves(G)
    <3>1. G = [i \in 1 .. n |-> G[i]]
      OBVIOUS
    <3> HIDE DEF G
    <3> QED BY <2>2, <3>1
  <2>4. Solves(f)
    <3> HIDE DEF G, Solves
    <3> QED BY <2>3
  <2> HIDE DEF f, G
  <2>5. \A i \in 1 .. n : f[i] = IF i = 1 THEN D[i] ELSE Join(f[i - 1], D[i])
    BY <2>4
  <2> HIDE DEF Solves
  <2> DEFINE T == {i \in 0 .. n : i = 0 \/ f[i] = F[i]}
  <2>6. 0 .. n \subseteq T
    <3>1. 0 \in T
      OBVIOUS
    <3>2. ASSUME NEW i \in 1 .. n, i - 1 \in T PROVE i \in T
      <4>1. CASE i = 1
        <5>1. f[1] = D[1] /\ F[1] = Join(F[0], D[1]) /\ D[1] \in Seq(X)
          BY <1>2, <2>0, <2>5
        <5>2. F[1] = D[1]
          BY <2>0, <5>1, JoinType
        <5> QED BY <4>1, <5>1, <5>2
      <4>2. CASE i # 1
        <5>1. f[i - 1] = F[i - 1] /\ i - 1 \in 1 .. n
          BY <3>2, <4>2
        <5>2. f[i] = Join(f[i - 1], D[i]) /\ F[i] = Join(F[i - 1], D[i])
          BY <2>0, <2>5, <4>2
        <5> QED BY <5>1, <5>2
      <4> QED BY <4>1, <4>2
    <3> HIDE DEF T
    <3> QED BY <3>1, <3>2, Climb
  <2>7. f[n] = F[n]
    BY <1>2, <2>6
  <2> QED BY <2>1, <2>7
<1> QED BY <1>1, <1>2

\* The first k of the sequences D, joined
Flat(D, k) == FlattenSeq([i \in 1 .. k |-> D[i]])

Pieces(D, n, X) == \A i \in 1 .. n : D[i] \in Seq(X)

LEMMA Flats ==
    ASSUME NEW X, NEW n \in Nat, NEW D, Pieces(D, n, X)
    PROVE  /\ Flat(D, 0) = <<>> /\ \A k \in 0 .. n : Flat(D, k) \in Seq(X)
           /\ \A k \in 1 .. n : Flat(D, k) = Join(Flat(D, k - 1), D[k])
<1>1. PICK F : Joins(F, D, n, X)
  BY JoinsExist DEF Pieces
<1>2. ASSUME NEW k \in 0 .. n PROVE Flat(D, k) = F[k]
  <2> DEFINE C == [i \in 1 .. k |-> D[i]]
             G == [i \in 0 .. k |-> F[i]]
  <2>1. C \in [1 .. k -> Seq(X)]
    BY DEF Pieces
  <2>2. Joins(G, C, k, X)
    <3>1. G \in [0 .. k -> Seq(X)] /\ G[0] = <<>>
      BY <1>1 DEF Joins
    <3>2. ASSUME NEW i \in 1 .. k PROVE G[i] = Join(G[i - 1], C[i])
      <4>1. F[i] = Join(F[i - 1], D[i])
        BY <1>1 DEF Joins
      <4> QED BY <4>1
    <3> HIDE DEF G, C
    <3> QED BY <3>1, <3>2 DEF Joins
  <2>3. G[k] = F[k]
    OBVIOUS
  <2>4. FlattenSeq(C) = G[k]
    <3> HIDE DEF G, C
    <3>1. k \in Nat
      OBVIOUS
    <3> QED BY <2>1, <2>2, <3>1, FlattenIsJoin
  <2> QED BY <2>3, <2>4 DEF Flat
<1>3. Flat(D, 0) = <<>> /\ \A k \in 0 .. n : Flat(D, k) \in Seq(X)
  BY <1>1, <1>2 DEF Joins
<1>4. ASSUME NEW k \in 1 .. n PROVE Flat(D, k) = Join(Flat(D, k - 1), D[k])
  <2>1. F[k] = Join(F[k - 1], D[k])
    BY <1>1 DEF Joins
  <2>2. Flat(D, k) = F[k] /\ Flat(D, k - 1) = F[k - 1]
    BY <1>2
  <2> QED BY <2>1, <2>2
<1> QED BY <1>3, <1>4

\* One piece more
LEMMA FlatNext ==
    ASSUME NEW X, NEW n \in Nat, NEW D, Pieces(D, n + 1, X)
    PROVE  Flat(D, n + 1) = Join(Flat(D, n), D[n + 1])
<1> DEFINE m == n + 1
<1>1. m \in Nat /\ m \in 1 .. m /\ m - 1 = n /\ Pieces(D, m, X)
  OBVIOUS
<1> HIDE DEF m
<1>2. \A k \in 1 .. m : Flat(D, k) = Join(Flat(D, k - 1), D[k])
  BY <1>1, Flats
<1>3. Flat(D, m) = Join(Flat(D, m - 1), D[m])
  BY <1>1, <1>2
<1> QED BY <1>1, <1>3 DEF m

\* s begins with part.
Begins(s, part) == Len(part) <= Len(s) /\ \A i \in 1 .. Len(part) : s[i] = part[i]

\* A longer prefix continues a shorter one.
LEMMA FlatGrows ==
    ASSUME NEW X, NEW n \in Nat, NEW D, Pieces(D, n, X),
           NEW j \in 0 .. n, NEW k \in 0 .. n, j <= k
    PROVE  Begins(Flat(D, k), Flat(D, j))
<1> DEFINE P(m) == /\ Len(Flat(D, j)) <= Len(Flat(D, m))
                   /\ \A i \in 1 .. Len(Flat(D, j)) : Flat(D, m)[i] = Flat(D, j)[i]
           T == {m \in 0 .. n : j <= m => P(m)}
<1>1. \A m \in 0 .. n : Flat(D, m) \in Seq(X)
  BY Flats
<1>2. 0 \in T
  BY <1>1
<1>3. ASSUME NEW m \in 1 .. n, m - 1 \in T PROVE m \in T
  <2>1. CASE j = m
    BY <1>1, <2>1
  <2>2. CASE j < m
    <3>1. P(m - 1) /\ m - 1 \in 0 .. n
      BY <1>3, <2>2
    <3> HIDE DEF T
    <3>2. Flat(D, m) = Join(Flat(D, m - 1), D[m])
      BY Flats
    <3>3. Flat(D, m) \in Seq(X) /\ Flat(D, m - 1) \in Seq(X) /\ Flat(D, j) \in Seq(X) /\ D[m] \in Seq(X)
      BY <1>1, <3>1 DEF Pieces
    <3>4. P(m)
      <4> DEFINE a == Flat(D, j)
                 b == Flat(D, m - 1)
                 c == Flat(D, m)
                 d == D[m]
      <4>1. /\ a \in Seq(X) /\ b \in Seq(X) /\ c = Join(b, d) /\ d \in Seq(X)
            /\ Len(a) <= Len(b) /\ \A i \in 1 .. Len(a) : b[i] = a[i]
        BY <3>1, <3>2, <3>3
      <4> HIDE DEF a, b, c, d
      <4>2. Len(a) <= Len(c) /\ \A i \in 1 .. Len(a) : c[i] = a[i]
        BY <4>1, JoinContinues
      <4> QED BY <4>2 DEF a, c
    <3> QED BY <3>4 DEF T
  <2>3. CASE ~ (j <= m)
    BY <2>3
  <2> QED BY <2>1, <2>2, <2>3
<1>4. 0 .. n \subseteq T
  <2> HIDE DEF T
  <2> QED BY <1>2, <1>3, Climb
<1> QED BY <1>4 DEF Begins

\* A sequence is the join of its first part and of the rest, as far as lengths go.
LEMMA FlatSplits ==
    ASSUME NEW X, NEW n \in Nat, NEW D, Pieces(D, n, X),
           NEW k \in 0 .. n, NEW S, \A i \in 1 .. n - k : S[i] = D[k + i]
    PROVE  Len(Flat(D, k)) + Len(Flat(S, n - k)) = Len(Flat(D, n))
<1> DEFINE T == {m \in 0 .. n - k : Len(Flat(D, k)) + Len(Flat(S, m)) = Len(Flat(D, k + m))}
<1>0. n - k \in Nat /\ Pieces(S, n - k, X)
  BY DEF Pieces
<1>1. \A m \in 0 .. n : Flat(D, m) \in Seq(X)
  BY Flats
<1>2. Flat(S, 0) = <<>> /\ \A m \in 0 .. n - k : Flat(S, m) \in Seq(X)
  BY <1>0, Flats
<1>3. 0 \in T
  BY <1>1, <1>2
<1>a. \A i \in 1 .. n : Flat(D, i) = Join(Flat(D, i - 1), D[i])
  BY Flats
<1>4. ASSUME NEW m \in 1 .. n - k, m - 1 \in T PROVE m \in T
  <2> DEFINE w == k + m
             old == Flat(S, m - 1)
             new == Flat(S, m)
             before == Flat(D, w - 1)
             after == Flat(D, w)
             d == S[m]
  <2>1. w \in 1 .. n /\ w - 1 \in 0 .. n /\ k + (m - 1) = w - 1 /\ d = D[w] /\ m - 1 \in 0 .. n - k
    OBVIOUS
  <2> HIDE DEF w
  <2>2. old \in Seq(X) /\ before \in Seq(X) /\ d \in Seq(X) /\ Flat(D, k) \in Seq(X)
    BY <1>0, <1>1, <1>2, <2>1 DEF Pieces
  <2>3. new = Join(old, d)
    BY <1>0, Flats
  <2>4. after = Join(before, d)
    BY <2>1, <1>a
  <2>5. Len(Flat(D, k)) + Len(old) = Len(before)
    BY <1>4, <2>1
  <2> HIDE DEF old, new, before, after, d, T
  <2>8. Len(Flat(D, k)) + Len(new) = Len(after)
    <3> DEFINE a == Flat(D, k)
    <3>1. a \in Seq(X) /\ Len(a) + Len(old) = Len(before)
      BY <2>2, <2>5
    <3> HIDE DEF a
    <3>2. Len(a) + Len(Join(old, d)) = Len(Join(before, d))
      BY <2>2, <3>1, JoinAdds
    <3> QED BY <2>3, <2>4, <3>2 DEF a
  <2>9. m \in 0 .. n - k
    OBVIOUS
  <2> QED BY <2>8, <2>9 DEF T, new, after, w
<1>5. 0 .. n - k \subseteq T
  <2> HIDE DEF T
  <2> QED BY <1>0, <1>3, <1>4, Climb
<1>6. n - k \in T /\ k + (n - k) = n
  BY <1>0, <1>5
<1> QED BY <1>6
-----------------------------------------------------------------------------
(* Executions                                                               *)

Bodies ==
    [steps : Seq(ScriptedBodyStep), first : Option(Gates), terminal : BOOLEAN, got : Seq(Bytes),
     state : {"ready", "polling", "pending", "over"}, task : Option(Readers)]
Results ==
    [t : {"Ok"}, body : Bodies]
    \cup [t : {"Err"}, why : SyntheticExecutionFailure \cup {"Cancelled"}]
Starting ==
    [pc : {"begun", "take", "match"}, request : Requests, observer : BOOLEAN, outcome : Option(Outcomes)]
Draining ==
    [pc : {"drain"}, request : Requests, observer : BOOLEAN, outcome : Outcomes,
     rest : Option(Seq(RequestFrame)), offset : Nat]
Finished ==
    [pc : {"done"}, request : Requests, result : Results, outcome : Option(Outcomes), observer : BOOLEAN]
Executions == [pc : {"new"}] \cup Starting \cup Draining \cup Finished

Observations == {"Completed", "Failed", "CancelledOrDropped", "NeverPolled"}

\* OneTerminal and ResultIsJust, of one execution x whose observer was told rs
Polled(x) == x.outcome # None /\ matches(x.outcome, x.request) /\ Drains(x.outcome)
Expected(x) == x.outcome.exact \in {None, Sent(x.request)}
Terminal(x, rs) ==
    /\ Len(rs) = IF x.pc = "done" /\ x.observer THEN 1 ELSE 0
    /\ rs # <<>> =>
         /\ rs[1] = "NeverPolled" <=> ~ Polled(x)
         /\ rs[1] = "Completed" => ~ Broken(x.request) /\ Expected(x)
         /\ x.result.t = "Ok" => rs[1] = "Completed"
Just(x) ==
    x.pc = "done" /\ x.outcome # None /\ x.outcome.t = "Response" =>
        /\ x.result.t = "Ok" => matches(x.outcome, x.request) /\ ~ Broken(x.request) /\ Expected(x)
        /\ x.result = Err("Request") => ~ matches(x.outcome, x.request) \/ ~ Expected(x)

\* The data of each frame
Payload(frames) == [i \in DOMAIN frames |-> IF frames[i].t = "data" THEN frames[i].data ELSE <<>>]

\* x has read k frames, none of them an error, and what they carry is expected.
ReadUpTo(x, k) ==
    LET frames == x.request.frames
        read == Flat(Payload(frames), k)
        exact == x.outcome.exact
    IN  /\ x.rest \in Seq(RequestFrame) /\ Len(x.rest) = Len(frames) - k
        /\ \A i \in 1 .. Len(frames) - k : x.rest[i] = frames[k + i]
        /\ \A i \in 1 .. k : frames[i].t # "error"
        /\ exact # None => /\ x.offset = Len(read) /\ x.offset <= Len(exact)
                           /\ \A i \in 1 .. x.offset : exact[i] = read[i]
Drained(x) ==
    IF x.request.frames = None THEN x.rest = None /\ x.offset = 0
    ELSE \E k \in 0 .. Len(x.request.frames) : ReadUpTo(x, k)

\* What is known of an execution where it is
Phase(x) ==
    /\ x.pc \in {"begun", "take"} => x.outcome = None
    /\ x.pc = "match" => x.outcome # None
    /\ x.pc = "drain" => Polled(x) /\ Drained(x)
    /\ x.pc = "done" /\ x.result.t = "Ok" => x.outcome # None /\ x.outcome.t = "Response"

Fine(x, rs) == Phase(x) /\ Terminal(x, rs) /\ Just(x)

ExecInv ==
    /\ exec \in [Execs -> Executions] /\ reports \in [Execs -> Seq(Observations)]
    /\ scripts \in Seq(Outcomes) /\ repeating \in Option(Outcomes) /\ observed \in BOOLEAN
    /\ \A e \in Execs : Fine(exec[e], reports[e])

LEMMA PropertiesOfExecutions ==
    ASSUME ExecInv
    PROVE  OneTerminal /\ ResultIsJust
<1>1. \A e \in Execs : Terminal(exec[e], reports[e]) /\ Just(exec[e])
  BY DEF ExecInv, Fine
<1>2. OneTerminal
  BY <1>1 DEF OneTerminal, Terminal, Polled, Expected, AsExpected, Done
<1>3. ResultIsJust
  BY <1>1 DEF ResultIsJust, Just, Expected, AsExpected, Done
<1> QED BY <1>2, <1>3

\* A request body, flattened
LEMMA PayloadFacts ==
    ASSUME NEW r \in Requests, r.frames # None
    PROVE  /\ r.frames \in Seq(RequestFrame)
           /\ \A i \in 1 .. Len(r.frames) : Payload(r.frames)[i] \in Seq(0 .. 255)
           /\ Sent(r) = Flat(Payload(r.frames), Len(r.frames))
<1>1. r.frames \in Seq(RequestFrame)
  BY RequestsAssumption DEF Option
<1> DEFINE f == r.frames
           n == Len(f)
<1>2. n \in Nat /\ DOMAIN f = 1 .. n /\ \A i \in 1 .. n : f[i] \in RequestFrame
  BY <1>1
<1> HIDE DEF f, n
<1>3. ASSUME NEW i \in 1 .. n PROVE Payload(f)[i] \in Seq(0 .. 255)
  <2>1. Payload(f)[i] = IF f[i].t = "data" THEN f[i].data ELSE <<>>
    BY <1>2 DEF Payload
  <2>2. f[i].t = "data" => f[i].data \in Bytes
    BY <1>2 DEF RequestFrame
  <2>3. <<>> \in Seq(0 .. 255)
    OBVIOUS
  <2> QED BY <2>1, <2>2, <2>3 DEF Bytes
<1>4. Payload(f) = [i \in 1 .. n |-> Payload(f)[i]]
  BY <1>2 DEF Payload
<1>5. Sent(r) = FlattenSeq(Payload(f))
  BY DEF Sent, Payload, f
<1> QED BY <1>1, <1>3, <1>4, <1>5 DEF Flat, f, n

\* The execution returns.
LEMMA ReturnValue ==
    ASSUME NEW x \in Starting \cup Draining, NEW rs \in Seq(Observations), Fine(x, rs),
           NEW result \in Results, NEW obs \in Observations,
           obs = "NeverPolled" <=> ~ Polled(x),
           obs = "Completed" => ~ Broken(x.request) /\ Expected(x),
           result.t = "Ok" => /\ obs = "Completed" /\ matches(x.outcome, x.request)
                              /\ x.outcome # None /\ x.outcome.t = "Response",
           result = Err("Request") /\ x.outcome # None /\ x.outcome.t = "Response" =>
               ~ matches(x.outcome, x.request) \/ ~ Expected(x)
    PROVE  LET y == [pc |-> "done", request |-> x.request, result |-> result,
                     outcome |-> x.outcome, observer |-> x.observer]
               told == IF x.observer THEN Append(rs, obs) ELSE rs
           IN  y \in Finished /\ told \in Seq(Observations) /\ Fine(y, told)
<1> DEFINE y == [pc |-> "done", request |-> x.request, result |-> result,
                 outcome |-> x.outcome, observer |-> x.observer]
           told == IF x.observer THEN Append(rs, obs) ELSE rs
<1>1. /\ x.request \in Requests /\ x.observer \in BOOLEAN /\ x.outcome \in Option(Outcomes) /\ x.pc # "done"
  BY DEF Starting, Draining, Option
<1>2. rs = <<>>
  BY <1>1 DEF Fine, Terminal
<1>3. told = IF x.observer THEN <<obs>> ELSE <<>>
  BY <1>2
<1>4. y \in Finished
  BY <1>1 DEF Finished
<1>5. y.pc = "done" /\ y.request = x.request /\ y.result = result /\ y.outcome = x.outcome /\ y.observer = x.observer
  OBVIOUS
<1> HIDE DEF y
<1>6. (Polled(y) <=> Polled(x)) /\ (Expected(y) <=> Expected(x))
  BY <1>5 DEF Polled, Expected
<1>7. Terminal(y, told)
  <2>1. CASE x.observer
    <3>1. told = <<obs>> /\ Len(told) = 1 /\ told[1] = obs
      BY <1>3, <2>1
    <3> HIDE DEF told
    <3> QED BY <1>5, <1>6, <2>1, <3>1 DEF Terminal
  <2>2. CASE ~ x.observer
    <3>1. told = <<>> /\ Len(told) = 0
      BY <1>3, <2>2
    <3> HIDE DEF told
    <3> QED BY <1>5, <2>2, <3>1 DEF Terminal
  <2> QED BY <2>1, <2>2
<1>8. Phase(y) /\ Just(y)
  BY <1>5, <1>6 DEF Phase, Just
<1>9. told \in Seq(Observations)
  BY <1>3
<1> QED BY <1>4, <1>7, <1>8, <1>9 DEF Fine, y

-----------------------------------------------------------------------------
(* Each step of execute_native keeps what is known of its execution         *)

LEMMA Types ==
    /\ \A s \in SyntheticExecutionFailure \cup {"Cancelled"} : Err(s) \in Results
    /\ \A x \in Starting \cup Draining :
          x.request \in Requests /\ x.outcome \in Option(Outcomes) /\ x.observer \in BOOLEAN
    /\ \A x \in Draining : x.pc = "drain" /\ x.outcome \in Outcomes
    /\ \A o \in Outcomes : /\ o.t \in {"Response", "Failure"}
                           /\ o.t = "Failure" => o.failure \in SyntheticExecutionFailure
                           /\ o.exact \in Option(Bytes)
<1>1. \A s \in SyntheticExecutionFailure \cup {"Cancelled"} : Err(s) \in Results
  BY DEF Results, Err
<1>2. \A x \in Starting \cup Draining :
          x.request \in Requests /\ x.outcome \in Option(Outcomes) /\ x.observer \in BOOLEAN
  BY DEF Starting, Draining, Option
<1>3. \A x \in Draining : x.pc = "drain" /\ x.outcome \in Outcomes
  BY DEF Draining
<1>4. \A o \in Outcomes : /\ o.t \in {"Response", "Failure"}
                          /\ o.t = "Failure" => o.failure \in SyntheticExecutionFailure
                          /\ o.exact \in Option(Bytes)
  <2>1. Outcomes \subseteq ScriptedOutcome
    BY OutcomesAssumption
  <2> QED BY <2>1 DEF ScriptedOutcome
<1> QED BY <1>1, <1>2, <1>3, <1>4

\* What Return(e, result, observation) makes of x and of the reports rs
Returned(x, result) ==
    [pc |-> "done", request |-> x.request, result |-> result, outcome |-> x.outcome, observer |-> x.observer]
Told(x, rs, obs) == IF x.observer THEN Append(rs, obs) ELSE rs

Keeps(x, rs, result, obs) ==
    /\ Returned(x, result) \in Finished /\ Told(x, rs, obs) \in Seq(Observations)
    /\ Fine(Returned(x, result), Told(x, rs, obs))

\* Before the body is polled: no context, no outcome, a refusal or a failure.
LEMMA NeverPolledValue ==
    ASSUME NEW x \in Starting, NEW rs \in Seq(Observations), Fine(x, rs),
           NEW why \in SyntheticExecutionFailure,
           \/ x.pc \in {"begun", "take"}
           \/ ~ matches(x.outcome, x.request)
           \/ ~ Drains(x.outcome)
    PROVE  Keeps(x, rs, Err(why), "NeverPolled")
<1>1. Err(why) \in Results
  BY Types
<1>2. Err(why).t = "Err"
  BY DEF Err
<1>3. ~ Polled(x)
  BY DEF Polled, Fine, Phase
<1>4. x.outcome # None /\ x.outcome.t = "Response" => ~ matches(x.outcome, x.request)
  BY DEF Fine, Phase, Drains
<1>5. "NeverPolled" \in Observations
  BY DEF Observations
<1> QED BY <1>1, <1>2, <1>3, <1>4, <1>5, ReturnValue DEF Keeps, Returned, Told

\* The future is dropped, or a frame is an error.
LEMMA GivenUpValue ==
    ASSUME NEW x \in Draining, NEW rs \in Seq(Observations), Fine(x, rs),
           NEW why \in {"Cancelled", "Body"}, NEW obs \in {"CancelledOrDropped", "Failed"}
    PROVE  Keeps(x, rs, Err(why), obs)
<1>1. Err(why) \in Results
  BY Types DEF SyntheticExecutionFailure
<1>2. Err(why).t = "Err" /\ Err(why) # Err("Request")
  BY DEF Err
<1>3. Polled(x)
  BY Types DEF Fine, Phase
<1>5. obs \in Observations /\ obs # "NeverPolled" /\ obs # "Completed"
  BY DEF Observations
<1>6. x \in Starting \cup Draining
  OBVIOUS
<1> QED BY <1>1, <1>2, <1>3, <1>5, <1>6, ReturnValue DEF Keeps, Returned, Told

\* The body turns out not to be the expected one.
LEMMA UnexpectedValue ==
    ASSUME NEW x \in Draining, NEW rs \in Seq(Observations), Fine(x, rs), ~ Expected(x)
    PROVE  Keeps(x, rs, Err("Request"), "Failed")
<1>1. Err("Request") \in Results
  BY Types DEF SyntheticExecutionFailure
<1>2. Err("Request").t = "Err"
  BY DEF Err
<1>3. Polled(x)
  BY Types DEF Fine, Phase
<1>5. "Failed" \in Observations
  BY DEF Observations
<1>6. x \in Starting \cup Draining
  OBVIOUS
<1> QED BY <1>1, <1>2, <1>3, <1>5, <1>6, ReturnValue DEF Keeps, Returned, Told

\* The whole body was read, and it is the expected one.
LEMMA CompletedValue ==
    ASSUME NEW x \in Draining, NEW rs \in Seq(Observations), Fine(x, rs), Expected(x), ~ Broken(x.request)
    PROVE  /\ x.outcome.t = "Failure" => Keeps(x, rs, Err(x.outcome.failure), "Completed")
           /\ x.outcome.t # "Failure" => Keeps(x, rs, [t |-> "Ok", body |-> Native(x.outcome)], "Completed")
<1>0. x \in Starting \cup Draining /\ x.outcome \in Outcomes
  BY Types
<1>3. Polled(x) /\ matches(x.outcome, x.request) /\ x.outcome # None
  BY Types DEF Fine, Phase, Polled
<1>5. "Completed" \in Observations
  BY DEF Observations
<1>1. ASSUME x.outcome.t = "Failure" PROVE Keeps(x, rs, Err(x.outcome.failure), "Completed")
  <2>1. Err(x.outcome.failure) \in Results
    BY <1>0, <1>1, Types
  <2>2. Err(x.outcome.failure).t = "Err"
    BY DEF Err
  <2> QED BY <1>0, <1>1, <1>3, <1>5, <2>1, <2>2, ReturnValue DEF Keeps, Returned, Told
<1>2. ASSUME x.outcome.t # "Failure" PROVE Keeps(x, rs, [t |-> "Ok", body |-> Native(x.outcome)], "Completed")
  <2>1. x.outcome.t = "Response" /\ x.outcome.steps \in Seq(ScriptedBodyStep) /\ x.outcome.gate \in Option(Gates)
    BY <1>0, <1>2, OutcomesAssumption DEF ScriptedOutcome
  <2>2. Native(x.outcome) \in Bodies
    BY <2>1 DEF Native, Bodies, Option
  <2> DEFINE ok == [t |-> "Ok", body |-> Native(x.outcome)]
  <2>3. ok \in Results
    BY <2>2 DEF Results
  <2>4. ok.t = "Ok" /\ ok # Err("Request")
    BY DEF Err
  <2> HIDE DEF ok
  <2>5. Keeps(x, rs, ok, "Completed")
    BY <1>0, <1>3, <1>5, <2>1, <2>3, <2>4, ReturnValue DEF Keeps, Returned, Told
  <2> QED BY <2>5 DEF ok
<1> QED BY <1>1, <1>2

\* Comparing one more piece comes to comparing what was read with it.
LEMMA MatchingContinues ==
    ASSUME NEW X, NEW read \in Seq(X), NEW d \in Seq(X), NEW exact \in Seq(X),
           Begins(exact, read), Matching(exact, Len(read), d)
    PROVE  Len(read) + Len(d) = Len(Join(read, d)) /\ Begins(exact, Join(read, d))
<1>a. /\ Len(Join(read, d)) = Len(read) + Len(d)
      /\ \A i \in 1 .. Len(read) : Join(read, d)[i] = read[i]
      /\ \A i \in 1 .. Len(d) : Join(read, d)[Len(read) + i] = d[i]
  BY DEF Join
<1> DEFINE n == Len(read)
           m == Len(d)
<1>1. n \in Nat /\ m \in Nat /\ n + m <= Len(exact)
  BY DEF Matching
<1>2. SubSeq(exact, n + 1, n + m) = d
  BY DEF Matching
<1>3. ASSUME NEW i \in 1 .. m PROVE exact[n + i] = d[i]
  <2>1. SubSeq(exact, n + 1, n + m)[i] = exact[n + i]
    BY <1>1
  <2> QED BY <1>2, <2>1
<1>4. Len(Join(read, d)) = n + m
  BY <1>a
<1>5. ASSUME NEW i \in 1 .. n + m PROVE exact[i] = Join(read, d)[i]
  <2>1. CASE i <= n
    BY <1>1, <1>a, <2>1 DEF Begins
  <2>2. CASE i > n
    <3> DEFINE j == i - n
    <3>1. j \in 1 .. m /\ n + j = i
      BY <1>1, <2>2
    <3> HIDE DEF j
    <3>2. Join(read, d)[n + j] = d[j]
      BY <1>a, <3>1
    <3> QED BY <1>3, <3>1, <3>2
  <2> QED BY <1>1, <2>1, <2>2
<1> QED BY <1>1, <1>4, <1>5 DEF Begins

LEMMA MismatchShows ==
    ASSUME NEW X, NEW read \in Seq(X), NEW d \in Seq(X), NEW whole \in Seq(X),
           Begins(whole, Join(read, d)), ~ Matching(whole, Len(read), d)
    PROVE  FALSE
<1>a. /\ Len(Join(read, d)) = Len(read) + Len(d)
      /\ \A i \in 1 .. Len(read) : Join(read, d)[i] = read[i]
      /\ \A i \in 1 .. Len(d) : Join(read, d)[Len(read) + i] = d[i]
  BY DEF Join
<1> DEFINE n == Len(read)
           m == Len(d)
           s == SubSeq(whole, n + 1, n + m)
<1>1. n \in Nat /\ m \in Nat /\ Len(Join(read, d)) = n + m /\ n + m <= Len(whole)
  BY <1>a DEF Begins
<1>2. ASSUME NEW i \in 1 .. m PROVE whole[n + i] = d[i]
  <2>1. n + i \in 1 .. n + m
    BY <1>1
  <2>2. whole[n + i] = Join(read, d)[n + i]
    BY <1>1, <2>1 DEF Begins
  <2>3. Join(read, d)[n + i] = d[i]
    BY <1>a
  <2> QED BY <2>2, <2>3
<1>3. s \in Seq(X) /\ Len(s) = m /\ \A i \in 1 .. m : s[i] = whole[n + i]
  BY <1>1
<1>4. \A i \in 1 .. m : s[i] = d[i]
  BY <1>2, <1>3
<1>5. s = d
  <2> HIDE DEF s
  <2> QED BY <1>3, <1>4
<1> QED BY <1>1, <1>5 DEF Matching

\* What the frame at the head of the rest is
LEMMA NextFrame ==
    ASSUME NEW x \in Draining, Drained(x), x.rest # None, x.rest # <<>>
    PROVE  /\ x.request.frames # None /\ x.request \in Requests
           /\ \E k \in 0 .. Len(x.request.frames) - 1 :
                /\ ReadUpTo(x, k) /\ Head(x.rest) = x.request.frames[k + 1]
                /\ Tail(x.rest) \in Seq(RequestFrame)
                /\ Len(Tail(x.rest)) = Len(x.request.frames) - (k + 1)
                /\ \A i \in 1 .. Len(x.request.frames) - (k + 1) :
                      Tail(x.rest)[i] = x.request.frames[k + 1 + i]
<1>1. x.request \in Requests
  BY Types
<1>2. x.request.frames # None
  BY DEF Drained
<1> DEFINE f == x.request.frames
           n == Len(f)
           s == x.rest
<1>3. PICK k \in 0 .. n : ReadUpTo(x, k)
  BY <1>2 DEF Drained
<1>4. f \in Seq(RequestFrame) /\ n \in Nat
  BY <1>1, <1>2, PayloadFacts
<1>5. s \in Seq(RequestFrame) /\ Len(s) = n - k /\ \A i \in 1 .. n - k : s[i] = f[k + i]
  BY <1>3 DEF ReadUpTo
<1>6. s # <<>>
  OBVIOUS
<1> HIDE DEF f, n, s
<1>7. k \in 0 .. n - 1
  BY <1>4, <1>5, <1>6
<1>8. Head(s) = f[k + 1] /\ Tail(s) \in Seq(RequestFrame) /\ Len(Tail(s)) = n - (k + 1)
  BY <1>4, <1>5, <1>6, <1>7
<1>9. ASSUME NEW i \in 1 .. n - (k + 1) PROVE Tail(s)[i] = f[k + 1 + i]
  <2>1. Tail(s)[i] = s[i + 1]
    BY <1>4, <1>5, <1>6, <1>7
  <2>2. i + 1 \in 1 .. n - k /\ k + (i + 1) = k + 1 + i
    BY <1>4, <1>7
  <2> QED BY <1>5, <2>1, <2>2
<1> QED BY <1>1, <1>2, <1>3, <1>7, <1>8, <1>9 DEF f, n, s

LEMMA JoinNothing ==
    ASSUME NEW X, NEW s \in Seq(X)
    PROVE  Join(s, <<>>) = s
BY DEF Join

\* One frame more is read.
LEMMA Advances ==
    ASSUME NEW x \in Draining, NEW rs, Fine(x, rs), x.request.frames # None,
           NEW k \in 0 .. Len(x.request.frames) - 1,
           NEW rest \in Seq(RequestFrame), NEW offset \in Nat,
           ReadUpTo([x EXCEPT !.rest = rest, !.offset = offset], k + 1)
    PROVE  LET y == [x EXCEPT !.rest = rest, !.offset = offset]
           IN  y \in Draining /\ Fine(y, rs)
<1> DEFINE y == [x EXCEPT !.rest = rest, !.offset = offset]
<1>1. y \in Draining
  BY DEF Draining, Option
<1>2. y.request = x.request /\ y.outcome = x.outcome /\ y.pc = "drain" /\ x.pc = "drain"
  BY DEF Draining
<1>3. ReadUpTo(y, k + 1)
  OBVIOUS
<1> HIDE DEF y
<1>4. k + 1 \in 0 .. Len(x.request.frames)
  <2>1. x.request.frames \in Seq(RequestFrame)
    BY Types, PayloadFacts
  <2>2. Len(x.request.frames) \in Nat
    BY <2>1
  <2> QED BY <2>2
<1>5. Drained(y)
  BY <1>2, <1>3, <1>4 DEF Drained
<1>6. Polled(y)
  BY <1>2 DEF Fine, Phase, Polled
<1>7. Phase(y) /\ Just(y)
  BY <1>2, <1>5, <1>6 DEF Phase, Just
<1>8. Terminal(y, rs)
  BY <1>2 DEF Fine, Terminal
<1> QED BY <1>1, <1>7, <1>8 DEF Fine, y

\* What was read grows by the data of a frame, and the whole body begins with it.
LEMMA PayloadFlats ==
    ASSUME NEW r \in Requests, r.frames # None
    PROVE  LET n == Len(r.frames)
               P == Payload(r.frames)
           IN  /\ \A k \in 0 .. n : Flat(P, k) \in Seq(0 .. 255) /\ Begins(Flat(P, n), Flat(P, k))
               /\ \A k \in 1 .. n : Flat(P, k) = Join(Flat(P, k - 1), P[k])
<1> DEFINE n == Len(r.frames)
           P == Payload(r.frames)
<1>1. n \in Nat /\ n \in 0 .. n /\ Pieces(P, n, 0 .. 255)
  BY PayloadFacts DEF Pieces
<1> HIDE DEF n, P
<1>2. /\ \A k \in 0 .. n : Flat(P, k) \in Seq(0 .. 255)
      /\ \A k \in 1 .. n : Flat(P, k) = Join(Flat(P, k - 1), P[k])
  <2> DEFINE X == 0 .. 255
  <2>1. Pieces(P, n, X)
    BY <1>1
  <2> HIDE DEF X
  <2>2. n \in Nat
    BY <1>1
  <2>3. /\ Flat(P, 0) = <<>> /\ \A k \in 0 .. n : Flat(P, k) \in Seq(X)
        /\ \A k \in 1 .. n : Flat(P, k) = Join(Flat(P, k - 1), P[k])
    BY <2>1, <2>2, Flats
  <2> QED BY <2>3 DEF X
<1>3. ASSUME NEW k \in 0 .. n PROVE Begins(Flat(P, n), Flat(P, k))
  <2>1. k <= n
    BY <1>1
  <2> QED BY <1>1, <2>1, FlatGrows
<1> QED BY <1>2, <1>3 DEF n, P

LEMMA DrainFrameValue ==
    ASSUME NEW x \in Draining, NEW rs, Fine(x, rs), x.rest # None, x.rest # <<>>
    PROVE  LET frame == Head(x.rest)
               exact == x.outcome.exact
               Gone(offset) == [x EXCEPT !.rest = Tail(x.rest), !.offset = offset]
               Keeping(offset) == Gone(offset) \in Draining /\ Fine(Gone(offset), rs)
           IN  /\ frame.t = "trailers" => Keeping(x.offset)
               /\ frame.t = "data" /\ exact = None => Keeping(x.offset)
               /\ frame.t = "data" /\ exact # None =>
                    IF Matching(exact, x.offset, frame.data)
                    THEN Keeping(x.offset + Len(frame.data))
                    ELSE ~ Expected(x)
<1> DEFINE frame == Head(x.rest)
           exact == x.outcome.exact
           Gone(offset) == [x EXCEPT !.rest = Tail(x.rest), !.offset = offset]
           Keeping(offset) == Gone(offset) \in Draining /\ Fine(Gone(offset), rs)
           f == x.request.frames
           n == Len(f)
           P == Payload(f)
<1>1. Drained(x) /\ x.offset \in Nat /\ x.pc = "drain"
  BY DEF Fine, Phase, Draining
<1>2. f # None /\ x.request \in Requests
  BY <1>1, NextFrame
<1>3. PICK k \in 0 .. n - 1 :
        /\ ReadUpTo(x, k) /\ frame = f[k + 1]
        /\ Tail(x.rest) \in Seq(RequestFrame) /\ Len(Tail(x.rest)) = n - (k + 1)
        /\ \A i \in 1 .. n - (k + 1) : Tail(x.rest)[i] = f[k + 1 + i]
  BY <1>1, NextFrame
<1>4. /\ f \in Seq(RequestFrame) /\ \A i \in 1 .. n : P[i] \in Seq(0 .. 255)
      /\ Sent(x.request) = Flat(P, n)
  BY <1>2, PayloadFacts
<1>5. n \in Nat /\ k \in 0 .. n /\ k + 1 \in 1 .. n /\ k + 1 \in 0 .. n /\ (k + 1) - 1 = k /\ DOMAIN f = 1 .. n
  BY <1>4
<1> DEFINE read == Flat(P, k)
           new == Flat(P, k + 1)
           d == P[k + 1]
<1>6. read \in Seq(0 .. 255) /\ d \in Seq(0 .. 255) /\ Flat(P, n) \in Seq(0 .. 255) /\ new = Join(read, d)
  BY <1>2, <1>4, <1>5, PayloadFlats
<1>7. d = IF frame.t = "data" THEN frame.data ELSE <<>>
  BY <1>3, <1>5 DEF Payload
<1>8. exact \in Option(Bytes)
  BY Types
<1>9. exact # None => exact \in Seq(0 .. 255) /\ x.offset = Len(read) /\ Begins(exact, read)
  BY <1>3, <1>8 DEF ReadUpTo, Option, Bytes, Begins
<1> HIDE DEF read, new, d
<1>10. ASSUME NEW offset \in Nat, frame.t # "error",
              exact # None => offset = Len(new) /\ Begins(exact, new)
       PROVE  Keeping(offset)
  <2>1. /\ Gone(offset).rest = Tail(x.rest) /\ Gone(offset).offset = offset
        /\ Gone(offset).request = x.request /\ Gone(offset).outcome = x.outcome
    BY DEF Draining
  <2>2. \A i \in 1 .. k + 1 : f[i].t # "error"
    <3>1. \A i \in 1 .. k : f[i].t # "error"
      BY <1>3 DEF ReadUpTo
    <3>2. f[k + 1].t # "error"
      BY <1>3, <1>10
    <3>3. \A i \in 1 .. k + 1 : i \in 1 .. k \/ i = k + 1
      BY <1>5
    <3> QED BY <3>1, <3>2, <3>3
  <2>3. ReadUpTo(Gone(offset), k + 1)
    BY <1>3, <1>10, <2>1, <2>2 DEF ReadUpTo, new, Begins
  <2> QED BY <1>2, <1>3, <2>3, Advances
<1>11. ASSUME frame.t = "trailers" PROVE Keeping(x.offset)
  <2>1. new = read
    BY <1>6, <1>7, <1>11, JoinNothing
  <2> HIDE DEF Keeping, exact, frame
  <2> QED BY <1>1, <1>9, <1>10, <1>11, <2>1
<1>12. ASSUME frame.t = "data", exact = None PROVE Keeping(x.offset)
  <2> HIDE DEF Keeping, exact, frame
  <2> QED BY <1>1, <1>10, <1>12
<1>13. ASSUME frame.t = "data", exact # None, Matching(exact, x.offset, frame.data)
       PROVE  Keeping(x.offset + Len(frame.data))
  <2>1. frame.data = d
    BY <1>7, <1>13
  <2> HIDE DEF Keeping, exact, frame
  <2>2. Len(read) + Len(d) = Len(Join(read, d)) /\ Begins(exact, Join(read, d))
    BY <1>6, <1>9, <1>13, <2>1, MatchingContinues
  <2>3. Len(new) \in Nat
    BY <1>6, JoinType
  <2> QED BY <1>6, <1>9, <1>10, <1>13, <2>1, <2>2, <2>3
<1>14. ASSUME frame.t = "data", exact # None, ~ Matching(exact, x.offset, frame.data)
       PROVE  ~ Expected(x)
  <2>1. frame.data = d
    BY <1>7, <1>14
  <2>2. Begins(Flat(P, n), new)
    BY <1>2, <1>5, PayloadFlats DEF new
  <2>3. exact # Flat(P, n)
    <3> SUFFICES ASSUME exact = Flat(P, n) PROVE FALSE
      OBVIOUS
    <3> HIDE DEF exact, frame, P, n
    <3> QED BY <1>6, <1>9, <1>14, <2>1, <2>2, MismatchShows
  <2> QED BY <1>4, <1>14, <2>3 DEF Expected
<1> HIDE DEF Keeping, exact, frame
<1>15. /\ frame.t = "trailers" => Keeping(x.offset)
       /\ frame.t = "data" /\ exact = None => Keeping(x.offset)
       /\ frame.t = "data" /\ exact # None =>
            IF Matching(exact, x.offset, frame.data) THEN Keeping(x.offset + Len(frame.data))
            ELSE ~ Expected(x)
  BY <1>11, <1>12, <1>13, <1>14
<1> QED BY <1>15 DEF Keeping, exact, frame

LEMMA DrainEndValue ==
    ASSUME NEW x \in Draining, NEW rs, Fine(x, rs), x.rest \in {None, <<>>}
    PROVE  IF x.outcome.exact # None => x.offset = Len(x.outcome.exact)
           THEN Expected(x) /\ ~ Broken(x.request) ELSE ~ Expected(x)
<1> DEFINE exact == x.outcome.exact
           f == x.request.frames
           n == Len(f)
           P == Payload(f)
<1>1. Drained(x) /\ exact \in Option(Bytes) /\ x.request \in Requests
  BY Types DEF Fine, Phase
<1>2. CASE f = None
  <2>1. x.offset = 0 /\ Sent(x.request) = <<>> /\ ~ Broken(x.request)
    BY <1>1, <1>2 DEF Drained, Sent, Broken
  <2>2. exact # None => (Len(exact) = 0 <=> exact = <<>>)
    BY <1>1 DEF Option, Bytes
  <2> QED BY <2>1, <2>2 DEF Expected
<1>3. CASE f # None
  <2>1. /\ f \in Seq(RequestFrame) /\ \A i \in 1 .. n : P[i] \in Seq(0 .. 255)
        /\ Sent(x.request) = Flat(P, n)
    BY <1>1, <1>3, PayloadFacts
  <2>2. PICK k \in 0 .. n : ReadUpTo(x, k)
    BY <1>1, <1>3 DEF Drained
  <2>3. k = n
    <3>1. x.rest \in Seq(RequestFrame) /\ Len(x.rest) = n - k
      BY <2>2 DEF ReadUpTo
    <3>2. None \notin Seq(RequestFrame)
      BY ExecutorConstants
    <3>3. x.rest = <<>>
      BY <3>1, <3>2
    <3>4. n \in Nat
      BY <2>1
    <3> QED BY <3>1, <3>3, <3>4
  <2>4. ~ Broken(x.request)
    BY <2>1, <2>2, <2>3 DEF ReadUpTo, Broken
  <2> DEFINE whole == Flat(P, n)
  <2>5. whole \in Seq(0 .. 255)
    <3> HIDE DEF P, n
    <3>1. n \in Nat /\ n \in 0 .. n
      BY <2>1 DEF n
    <3> QED BY <2>1, <3>1, Flats DEF Pieces
  <2>6. exact # None => x.offset = Len(whole) /\ Begins(exact, whole) /\ exact \in Seq(0 .. 255)
    BY <1>1, <2>2, <2>3 DEF ReadUpTo, Begins, Option, Bytes
  <2> HIDE DEF whole
  <2>7. exact # None /\ x.offset = Len(exact) => exact = whole
    BY <2>5, <2>6 DEF Begins
  <2>8. exact # None /\ exact = whole => x.offset = Len(exact)
    BY <2>6
  <2>9. Sent(x.request) = whole
    BY <2>1 DEF whole
  <2> QED BY <2>4, <2>7, <2>8, <2>9 DEF Expected
<1> QED BY <1>2, <1>3

-----------------------------------------------------------------------------
(* Response bodies                                                          *)

\* The body that a poll leaves when it meets no gate
Stepped(b) ==
    LET ready == [b EXCEPT !.state = "ready"]
    IN  IF b.terminal \/ b.steps = <<>>
        THEN [ready EXCEPT !.terminal = TRUE, !.state = "over"]
        ELSE IF Head(b.steps).t = "Failure"
        THEN [ready EXCEPT !.terminal = TRUE, !.steps = Tail(@)]
        ELSE IF Head(b.steps).t = "Trailers"
        THEN [ready EXCEPT !.steps = Tail(@)]
        ELSE [ready EXCEPT !.steps = Tail(@), !.got = Append(@, Head(b.steps).data)]

\* The gate that the next poll of b meets
Ahead(b) ==
    IF b.terminal THEN None
    ELSE IF b.first # None THEN b.first
    ELSE IF b.steps # <<>> /\ Head(b.steps).t = "Gate" THEN Head(b.steps).gate
    ELSE None

LEMMA HeadOfSteps ==
    ASSUME NEW b \in Bodies, b.steps # <<>>
    PROVE  /\ Head(b.steps) \in ScriptedBodyStep /\ Tail(b.steps) \in Seq(ScriptedBodyStep)
           /\ Head(b.steps).t \in {"Chunk", "Gate", "Trailers", "Failure"}
           /\ Head(b.steps).t = "Chunk" => Head(b.steps).data \in Bytes
           /\ Head(b.steps).t = "Gate" => Head(b.steps).gate \in Gates
<1>1. b.steps \in Seq(ScriptedBodyStep)
  BY DEF Bodies
<1>2. Head(b.steps) \in ScriptedBodyStep /\ Tail(b.steps) \in Seq(ScriptedBodyStep)
  BY <1>1
<1> QED BY <1>2 DEF ScriptedBodyStep

LEMMA BodySteps ==
    ASSUME NEW b \in Bodies
    PROVE  /\ Ahead(b) = None => Stepped(b) \in Bodies
           /\ Ahead(b) # None => Ahead(b) \in Gates /\ BehindGate(b) \in Bodies
           /\ \A s \in {"ready", "polling", "pending", "over"}, r \in Readers :
                 [b EXCEPT !.state = s] \in Bodies /\ [b EXCEPT !.state = s, !.task = r] \in Bodies
<1>1. ASSUME Ahead(b) # None PROVE Ahead(b) \in Gates /\ BehindGate(b) \in Bodies
  <2>1. CASE b.first # None
    BY <2>1, <1>1 DEF Ahead, BehindGate, Bodies, Option
  <2>2. CASE b.first = None
    <3>1. b.steps # <<>> /\ Head(b.steps).t = "Gate" /\ Ahead(b) = Head(b.steps).gate
      BY <1>1, <2>2 DEF Ahead
    <3>2. Ahead(b) \in Gates /\ Tail(b.steps) \in Seq(ScriptedBodyStep)
      BY <3>1, HeadOfSteps
    <3>3. BehindGate(b) = [b EXCEPT !.steps = Tail(b.steps)]
      BY <2>2 DEF BehindGate
    <3> QED BY <3>2, <3>3 DEF Bodies
  <2> QED BY <2>1, <2>2
<1>2. ASSUME Ahead(b) = None PROVE Stepped(b) \in Bodies
  <2>1. CASE b.terminal \/ b.steps = <<>>
    BY <2>1 DEF Stepped, Bodies
  <2>2. CASE ~ b.terminal /\ b.steps # <<>>
    <3>1. Head(b.steps).t # "Gate"
      BY <1>2, <2>2, HeadOfSteps, ExecutorConstants DEF Ahead
    <3>2. Tail(b.steps) \in Seq(ScriptedBodyStep)
      BY <2>2, HeadOfSteps
    <3>3. CASE Head(b.steps).t \in {"Failure", "Trailers"}
      BY <2>2, <3>2, <3>3 DEF Stepped, Bodies
    <3>4. CASE Head(b.steps).t = "Chunk"
      <4>1. Append(b.got, Head(b.steps).data) \in Seq(Bytes)
        <5>1. Head(b.steps).data \in Bytes /\ b.got \in Seq(Bytes)
          BY <2>2, <3>4, HeadOfSteps DEF Bodies
        <5> QED BY <5>1
      <4>2. Stepped(b) = [b EXCEPT !.state = "ready", !.steps = Tail(b.steps),
                                   !.got = Append(b.got, Head(b.steps).data)]
        BY <2>2, <3>4 DEF Stepped
      <4> QED BY <3>2, <4>1, <4>2 DEF Bodies
    <3> QED BY <2>2, <3>1, <3>3, <3>4, HeadOfSteps
  <2> QED BY <2>1, <2>2
<1>3. \A s \in {"ready", "polling", "pending", "over"}, r \in Readers :
                 [b EXCEPT !.state = s] \in Bodies /\ [b EXCEPT !.state = s, !.task = r] \in Bodies
  BY DEF Bodies, Option
<1> QED BY <1>1, <1>2, <1>3

\* Where an execution is says what is known of it.
LEMMA Where ==
    ASSUME NEW x \in Executions
    PROVE  /\ x.pc \in {"begun", "take", "match"} => x \in Starting
           /\ x.pc = "drain" => x \in Draining
           /\ x.pc = "done" => x \in Finished
           /\ x.pc = "done" /\ x.result.t = "Ok" => x.result.body \in Bodies
<1>1. x.pc = "done" => x \in Finished
  BY DEF Executions, Starting, Draining, Finished
<1>2. x.pc = "done" => x.result \in Results
  BY <1>1 DEF Finished
<1>3. x.pc = "done" /\ x.result.t = "Ok" => x.result.body \in Bodies
  BY <1>2 DEF Results
<1>4. x.pc = "drain" => x \in Draining
  BY DEF Executions, Starting, Draining, Finished
<1>5. x.pc \in {"begun", "take", "match"} => x \in Starting
  BY DEF Executions, Starting, Draining, Finished
<1> QED BY <1>1, <1>3, <1>4, <1>5

\* Reading the body of a response changes nothing else of the execution.
LEMMA SetBodyValue ==
    ASSUME NEW x \in Finished, x.result.t = "Ok", NEW rs, Fine(x, rs), NEW b \in Bodies
    PROVE  LET y == [x EXCEPT !.result.body = b]
           IN  /\ y \in Finished /\ Fine(y, rs)
               /\ y.pc = "done" /\ y.result.t = "Ok" /\ y.result.body = b /\ y.outcome = x.outcome
<1> DEFINE y == [x EXCEPT !.result.body = b]
<1>1. x.result \in [t : {"Ok"}, body : Bodies]
  BY DEF Finished, Results
<1>2. y.result = [t |-> "Ok", body |-> b]
  BY <1>1 DEF Finished
<1>3. y.result \in Results
  BY <1>2 DEF Results
<1>4. /\ y.pc = "done" /\ y.request = x.request /\ y.outcome = x.outcome /\ y.observer = x.observer
      /\ x.pc = "done"
  BY DEF Finished
<1>5. y \in Finished
  <2>1. y = [x EXCEPT !.result = y.result]
    BY <1>1 DEF Finished
  <2> HIDE DEF y
  <2> QED BY <1>3, <2>1 DEF Finished
<1>6. y.result.t = "Ok" /\ y.result.body = b /\ y.result # Err("Request") /\ x.result # Err("Request")
  BY <1>1, <1>2 DEF Err
<1> HIDE DEF y
<1>7. (Polled(y) <=> Polled(x)) /\ (Expected(y) <=> Expected(x))
  BY <1>4 DEF Polled, Expected
<1>8. Phase(y) /\ Just(y)
  BY <1>4, <1>6, <1>7 DEF Fine, Phase, Just
<1>9. Terminal(y, rs)
  BY <1>4, <1>6, <1>7 DEF Fine, Terminal
<1> QED BY <1>4, <1>5, <1>6, <1>8, <1>9 DEF Fine, y

-----------------------------------------------------------------------------
(* The steps of the specification                                           *)

\* One execution moves.
LEMMA ExecStep ==
    ASSUME ExecInv, NEW e \in Execs, NEW y \in Executions, NEW told \in Seq(Observations),
           Fine(y, told), exec' = [exec EXCEPT ![e] = y], reports' = [reports EXCEPT ![e] = told],
           scripts' \in Seq(Outcomes), repeating' = repeating, observed' = observed
    PROVE  ExecInv'
<1>1. exec' \in [Execs -> Executions] /\ reports' \in [Execs -> Seq(Observations)]
  BY DEF ExecInv
<1>2. ASSUME NEW d \in Execs PROVE Fine(exec'[d], reports'[d])
  <2>1. exec'[d] = (IF d = e THEN y ELSE exec[d]) /\ reports'[d] = (IF d = e THEN told ELSE reports[d])
    BY DEF ExecInv
  <2>2. Fine(exec[d], reports[d])
    BY DEF ExecInv
  <2> QED BY <2>1, <2>2
<1> QED BY <1>1, <1>2 DEF ExecInv

LEMMA QuietStep ==
    ASSUME ExecInv, NEW e \in Execs, NEW y \in Executions, Fine(y, reports[e]),
           exec' = [exec EXCEPT ![e] = y], reports' = reports,
           scripts' \in Seq(Outcomes), repeating' = repeating, observed' = observed
    PROVE  ExecInv'
<1>1. reports' = [reports EXCEPT ![e] = reports[e]] /\ reports[e] \in Seq(Observations)
  BY DEF ExecInv
<1> QED BY <1>1, ExecStep

LEMMA ReturnStep ==
    ASSUME ExecInv, NEW e \in Execs, NEW result, NEW obs, Return(e, result, obs),
           Keeps(exec[e], reports[e], result, obs), scripts' = scripts, repeating' = repeating,
           observed' = observed
    PROVE  ExecInv'
<1> DEFINE y == Returned(exec[e], result)
           told == Told(exec[e], reports[e], obs)
<1>1. exec' = [exec EXCEPT ![e] = y]
  BY DEF Return, Returned
<1>2. reports' = [reports EXCEPT ![e] = told]
  BY DEF Return, finish, Told, ExecInv
<1>3. y \in Executions /\ told \in Seq(Observations) /\ Fine(y, told)
  BY DEF Keeps, Executions
<1>4. scripts' \in Seq(Outcomes)
  BY DEF ExecInv
<1> HIDE DEF y, told
<1> QED BY <1>1, <1>2, <1>3, <1>4, ExecStep

\* What is known of the execution that moves
LEMMA Knows ==
    ASSUME ExecInv, NEW e \in Execs
    PROVE  /\ exec[e] \in Executions /\ reports[e] \in Seq(Observations) /\ Fine(exec[e], reports[e])
           /\ exec[e].pc \in {"begun", "take", "match"} => exec[e] \in Starting
           /\ exec[e].pc = "drain" => exec[e] \in Draining
           /\ HasBody(e) => exec[e] \in Finished /\ exec[e].result.t = "Ok" /\ Body(e) \in Bodies
<1>1. exec[e] \in Executions /\ reports[e] \in Seq(Observations) /\ Fine(exec[e], reports[e])
  BY DEF ExecInv
<1> QED BY <1>1, Where DEF HasBody, Body

LEMMA SetBodyStep ==
    ASSUME ExecInv, NEW e \in Execs, HasBody(e), NEW b \in Bodies, SetBody(e, b), ReaderUnchanged
    PROVE  ExecInv'
<1> DEFINE y == [exec[e] EXCEPT !.result.body = b]
<1>1. y \in Finished /\ Fine(y, reports[e])
  BY Knows, SetBodyValue
<1>2. exec' = [exec EXCEPT ![e] = y]
  BY DEF SetBody
<1>3. reports' = reports /\ scripts' \in Seq(Outcomes) /\ repeating' = repeating /\ observed' = observed
  BY DEF ReaderUnchanged, scriptVars, ExecInv
<1>4. y \in Executions
  BY <1>1 DEF Executions
<1> HIDE DEF y
<1> QED BY <1>1, <1>2, <1>3, <1>4, QuietStep

LEMMA StartingSteps ==
    ASSUME ExecInv, NEW e \in Execs,
           Begin(e) \/ Capture(e) \/ TakeOutcome(e) \/ BeginPolling(e)
    PROVE  ExecInv'
<1> DEFINE x == exec[e]
<1>0. x \in Executions /\ Fine(x, reports[e])
  BY Knows
<1>1. CASE Begin(e)
  <2>1. PICK request \in Requests :
          exec' = [exec EXCEPT ![e] = [pc |-> "begun", request |-> request, observer |-> observed,
                                       outcome |-> None]]
    BY <1>1 DEF Begin
  <2> DEFINE y == [pc |-> "begun", request |-> request, observer |-> observed, outcome |-> None]
  <2>2. y \in Executions
    BY DEF Executions, Starting, Option, ExecInv
  <2>3. Len(reports[e]) = 0 /\ reports[e] = <<>>
    <3>1. x.pc = "new" /\ reports[e] \in Seq(Observations)
      BY <1>1, Knows DEF Begin
    <3> QED BY <1>0, <3>1 DEF Fine, Terminal
  <2>4. y.pc = "begun" /\ y.outcome = None
    OBVIOUS
  <2> HIDE DEF y
  <2>5. Fine(y, reports[e])
    BY <2>3, <2>4 DEF Fine, Phase, Terminal, Just
  <2>6. reports' = reports /\ scripts' \in Seq(Outcomes) /\ repeating' = repeating /\ observed' = observed
    BY <1>1 DEF Begin, RunnerUnchanged, scriptVars, ExecInv
  <2>7. exec' = [exec EXCEPT ![e] = y]
    BY <2>1 DEF y
  <2> QED BY <2>2, <2>5, <2>6, <2>7, QuietStep
<1>2. CASE Capture(e)
  <2> DEFINE y == [x EXCEPT !.pc = "take"]
  <2>1. x \in Starting /\ x.pc = "begun"
    BY <1>2, Knows DEF Capture
  <2>2. y \in Executions
    BY <2>1 DEF Executions, Starting
  <2>3. y.pc = "take" /\ y.outcome = x.outcome
    BY <2>1 DEF Starting
  <2>4. Fine(y, reports[e])
    <3> HIDE DEF x, y
    <3> QED BY <1>0, <2>1, <2>3 DEF Fine, Phase, Terminal, Just
  <2>6. reports' = reports /\ scripts' \in Seq(Outcomes) /\ repeating' = repeating /\ observed' = observed
    BY <1>2 DEF Capture, RunnerUnchanged, scriptVars, ExecInv
  <2>7. exec' = [exec EXCEPT ![e] = y]
    BY <1>2 DEF Capture
  <2> HIDE DEF y
  <2> QED BY <2>2, <2>4, <2>6, <2>7, QuietStep
<1>3. CASE TakeOutcome(e)
  <2> DEFINE y == [x EXCEPT !.pc = "match", !.outcome = NextOutcome]
  <2>1. x \in Starting /\ x.pc = "take"
    BY <1>3, Knows DEF TakeOutcome
  <2>2. NextOutcome \in Outcomes
    BY <1>3 DEF TakeOutcome, NextOutcome, ExecInv, Option
  <2>3. NextOutcome # None
    BY <1>3 DEF TakeOutcome
  <2>a. y \in Executions
    BY <2>1, <2>2 DEF Executions, Starting, Option
  <2>4. y.pc = "match" /\ y.outcome = NextOutcome
    BY <2>1 DEF Starting
  <2>5. Fine(y, reports[e])
    <3> HIDE DEF x, y
    <3> QED BY <1>0, <2>1, <2>3, <2>4 DEF Fine, Phase, Terminal, Just
  <2>6. reports' = reports /\ repeating' = repeating /\ observed' = observed
    BY <1>3 DEF TakeOutcome
  <2>7. exec' = [exec EXCEPT ![e] = y]
    BY <1>3 DEF TakeOutcome
  <2>8. scripts' \in Seq(Outcomes)
    BY <1>3 DEF TakeOutcome, ExecInv
  <2> HIDE DEF y
  <2> QED BY <2>a, <2>5, <2>6, <2>7, <2>8, QuietStep
<1>4. CASE BeginPolling(e)
  <2> DEFINE y == [pc |-> "drain", request |-> x.request, observer |-> x.observer,
                   outcome |-> x.outcome, rest |-> x.request.frames, offset |-> 0]
             f == x.request.frames
  <2>1. /\ x \in Starting /\ x.pc = "match" /\ matches(x.outcome, x.request) /\ Drains(x.outcome)
        /\ x.outcome # None
    BY <1>0, <1>4, Knows DEF BeginPolling, Fine, Phase
  <2>2. x.outcome \in Outcomes /\ x.request \in Requests
    BY <2>1 DEF Starting, Option
  <2>3. f \in Option(Seq(RequestFrame))
    BY <2>2, RequestsAssumption
  <2>4. y \in Draining
    BY <2>1, <2>2, <2>3 DEF Draining, Starting
  <2>5. y.pc = "drain" /\ y.request = x.request /\ y.outcome = x.outcome /\ y.rest = f /\ y.offset = 0
    OBVIOUS
  <2> HIDE DEF y
  <2>6. Polled(y)
    BY <2>1, <2>5 DEF Polled
  <2>7. Drained(y)
    <3>1. CASE f = None
      BY <2>5, <3>1 DEF Drained
    <3>2. CASE f # None
      <4>1. f \in Seq(RequestFrame) /\ Len(f) \in Nat /\ 0 \in 0 .. Len(f)
        BY <2>3, <3>2 DEF Option
      <4>2. Flat(Payload(f), 0) \in Seq(0 .. 255) /\ Flat(Payload(f), 0) = <<>>
        <5>1. Pieces(Payload(f), 0, 0 .. 255)
          BY DEF Pieces
        <5> QED BY <5>1, Flats
      <4>3. y.outcome.exact # None => y.outcome.exact \in Seq(0 .. 255)
        BY <2>2, <2>5, Types DEF Option, Bytes
      <4>4. ReadUpTo(y, 0)
        BY <2>5, <4>1, <4>2, <4>3 DEF ReadUpTo
      <4> QED BY <2>5, <3>2, <4>1, <4>4 DEF Drained
    <3> QED BY <3>1, <3>2
  <2>8. Fine(y, reports[e])
    <3> HIDE DEF x
    <3> QED BY <1>0, <2>1, <2>5, <2>6, <2>7 DEF Fine, Phase, Terminal, Just
  <2>9. reports' = reports /\ scripts' \in Seq(Outcomes) /\ repeating' = repeating /\ observed' = observed
    BY <1>4 DEF BeginPolling, RunnerUnchanged, scriptVars, ExecInv
  <2>10. exec' = [exec EXCEPT ![e] = y]
    BY <1>4 DEF BeginPolling, y
  <2>11. y \in Executions
    BY <2>4 DEF Executions
  <2> QED BY <2>8, <2>9, <2>10, <2>11, QuietStep
<1> QED BY <1>1, <1>2, <1>3, <1>4

LEMMA RefusingSteps ==
    ASSUME ExecInv, NEW e \in Execs,
           NoContext(e) \/ NoOutcome(e) \/ RefuseOrFail(e)
    PROVE  ExecInv'
<1>0. /\ exec[e] \in Executions /\ reports[e] \in Seq(Observations) /\ Fine(exec[e], reports[e])
      /\ "Request" \in SyntheticExecutionFailure
  BY Knows DEF SyntheticExecutionFailure
<1>1. CASE NoContext(e) \/ NoOutcome(e)
  <2>1. exec[e] \in Starting /\ exec[e].pc \in {"begun", "take"}
    BY <1>1, Knows DEF NoContext, NoOutcome
  <2>2. Keeps(exec[e], reports[e], Err("Request"), "NeverPolled")
    BY <1>0, <2>1, NeverPolledValue
  <2>3. /\ Return(e, Err("Request"), "NeverPolled")
        /\ scripts' = scripts /\ repeating' = repeating /\ observed' = observed
    BY <1>1 DEF NoContext, NoOutcome, RunnerUnchanged, scriptVars
  <2> QED BY <2>2, <2>3, ReturnStep
<1>2. CASE RefuseOrFail(e)
  <2> DEFINE o == exec[e].outcome
  <2>1. exec[e] \in Starting /\ exec[e].pc = "match" /\ o # None
    BY <1>0, <1>2, Knows DEF RefuseOrFail, Fine, Phase
  <2>2. scripts' = scripts /\ repeating' = repeating /\ observed' = observed
    BY <1>2 DEF RefuseOrFail, RunnerUnchanged, scriptVars
  <2>3. CASE ~ matches(o, exec[e].request) /\ Return(e, Err("Request"), "NeverPolled")
    <3>1. Keeps(exec[e], reports[e], Err("Request"), "NeverPolled")
      BY <1>0, <2>1, <2>3, NeverPolledValue
    <3> QED BY <2>2, <2>3, <3>1, ReturnStep
  <2>4. CASE ~ Drains(o) /\ Return(e, Err(o.failure), "NeverPolled")
    <3>1. o.failure \in SyntheticExecutionFailure
      BY <2>1, <2>4, Types DEF Drains, Option
    <3>2. Keeps(exec[e], reports[e], Err(o.failure), "NeverPolled")
      BY <1>0, <2>1, <2>4, <3>1, NeverPolledValue
    <3> QED BY <2>2, <2>4, <3>2, ReturnStep
  <2> QED BY <1>2, <2>3, <2>4 DEF RefuseOrFail
<1> QED BY <1>1, <1>2

LEMMA DrainingSteps ==
    ASSUME ExecInv, NEW e \in Execs,
           DrainFrame(e) \/ DrainEnd(e) \/ CancelExecution(e)
    PROVE  ExecInv'
<1> DEFINE x == exec[e]
           exact == x.outcome.exact
<1>0. /\ reports[e] \in Seq(Observations) /\ Fine(x, reports[e]) /\ x \in Draining
  BY Knows DEF DrainFrame, DrainEnd, CancelExecution
<1>a. scripts' = scripts /\ repeating' = repeating /\ observed' = observed
  BY DEF DrainFrame, DrainEnd, CancelExecution, RunnerUnchanged, scriptVars
<1>1. CASE CancelExecution(e)
  <2>1. Return(e, Err("Cancelled"), "CancelledOrDropped")
    BY <1>1 DEF CancelExecution
  <2>2. Keeps(x, reports[e], Err("Cancelled"), "CancelledOrDropped")
    BY <1>0, GivenUpValue
  <2> QED BY <1>a, <2>1, <2>2, ReturnStep
<1>2. CASE DrainEnd(e)
  <2>1. x.rest \in {None, <<>>} /\ (BodyIsComplete(e) <=> (exact # None => x.offset = Len(exact)))
    BY <1>2 DEF DrainEnd, BodyIsComplete
  <2>2. CASE ~ BodyIsComplete(e)
    <3>1. Keeps(x, reports[e], Err("Request"), "Failed")
      BY <1>0, <2>1, <2>2, DrainEndValue, UnexpectedValue
    <3>2. Return(e, Err("Request"), "Failed")
      BY <1>2, <2>2 DEF DrainEnd
    <3> QED BY <1>a, <3>1, <3>2, ReturnStep
  <2>3. CASE BodyIsComplete(e)
    <3>1. Expected(x) /\ ~ Broken(x.request)
      BY <1>0, <2>1, <2>3, DrainEndValue
    <3>2. CASE x.outcome.t = "Failure"
      <4>1. Keeps(x, reports[e], Err(x.outcome.failure), "Completed")
        BY <1>0, <3>1, <3>2, CompletedValue
      <4>2. Return(e, Err(x.outcome.failure), "Completed")
        BY <1>2, <2>3, <3>2 DEF DrainEnd
      <4> QED BY <1>a, <4>1, <4>2, ReturnStep
    <3>3. CASE x.outcome.t # "Failure"
      <4>1. Keeps(x, reports[e], [t |-> "Ok", body |-> Native(x.outcome)], "Completed")
        BY <1>0, <3>1, <3>3, CompletedValue
      <4>2. Return(e, [t |-> "Ok", body |-> Native(x.outcome)], "Completed")
        BY <1>2, <2>3, <3>3 DEF DrainEnd
      <4> QED BY <1>a, <4>1, <4>2, ReturnStep
    <3> QED BY <3>2, <3>3
  <2> QED BY <2>2, <2>3
<1>3. CASE DrainFrame(e)
  <2> DEFINE frame == Head(x.rest)
             Gone(offset) == [x EXCEPT !.rest = Tail(x.rest), !.offset = offset]
             Keeping(offset) == Gone(offset) \in Draining /\ Fine(Gone(offset), reports[e])
             Go(offset) == exec' = [exec EXCEPT ![e] = Gone(offset)] /\ reports' = reports
  <2>1. x.rest # None /\ x.rest # <<>>
    BY <1>3 DEF DrainFrame
  <2>2. /\ frame.t = "trailers" => Keeping(x.offset)
        /\ frame.t = "data" /\ exact = None => Keeping(x.offset)
        /\ frame.t = "data" /\ exact # None =>
             IF Matching(exact, x.offset, frame.data) THEN Keeping(x.offset + Len(frame.data))
             ELSE ~ Expected(x)
    BY <1>0, <2>1, DrainFrameValue
  <2>3. ASSUME NEW offset, Go(offset), Keeping(offset) PROVE ExecInv'
    <3> DEFINE y == Gone(offset)
    <3>1. y \in Executions /\ Fine(y, reports[e]) /\ exec' = [exec EXCEPT ![e] = y] /\ reports' = reports
      BY <2>3 DEF Executions
    <3>2. scripts' \in Seq(Outcomes)
      BY <1>a DEF ExecInv
    <3> HIDE DEF y
    <3> QED BY <1>a, <3>1, <3>2, QuietStep
  <2>4. \/ frame.t = "error" /\ Return(e, Err("Body"), "Failed")
        \/ frame.t = "trailers" /\ Go(x.offset)
        \/ frame.t = "data" /\ exact = None /\ Go(x.offset)
        \/ /\ frame.t = "data" /\ exact # None /\ Matching(exact, x.offset, frame.data)
           /\ Go(x.offset + Len(frame.data))
        \/ /\ frame.t = "data" /\ exact # None /\ ~ Matching(exact, x.offset, frame.data)
           /\ Return(e, Err("Request"), "Failed")
    BY <1>3 DEF DrainFrame
  <2> HIDE DEF Go, Keeping, frame, exact
  <2>5. CASE frame.t = "error" /\ Return(e, Err("Body"), "Failed")
    <3>1. Keeps(x, reports[e], Err("Body"), "Failed")
      BY <1>0, GivenUpValue
    <3> QED BY <1>a, <2>5, <3>1, ReturnStep
  <2>6. CASE frame.t = "trailers" /\ Go(x.offset)
    BY <2>2, <2>3, <2>6
  <2>7. CASE frame.t = "data" /\ exact = None /\ Go(x.offset)
    BY <2>2, <2>3, <2>7
  <2>8. CASE /\ frame.t = "data" /\ exact # None /\ Matching(exact, x.offset, frame.data)
             /\ Go(x.offset + Len(frame.data))
    BY <2>2, <2>3, <2>8
  <2>9. CASE /\ frame.t = "data" /\ exact # None /\ ~ Matching(exact, x.offset, frame.data)
             /\ Return(e, Err("Request"), "Failed")
    <3>1. Keeps(x, reports[e], Err("Request"), "Failed")
      BY <1>0, <2>2, <2>9, UnexpectedValue
    <3> QED BY <1>a, <2>9, <3>1, ReturnStep
  <2> QED BY <2>4, <2>5, <2>6, <2>7, <2>8, <2>9
<1> QED BY <1>1, <1>2, <1>3

LEMMA ReadingSteps ==
    ASSUME ExecInv, NEW e \in Execs,
           (\E r \in Readers : StartPoll(e, r)) \/ PollGate(e) \/ PollStep(e) \/ DropBody(e)
    PROVE  ExecInv' /\ HasBody(e) /\ ReaderUnchanged
<1> DEFINE b == Body(e)
<1>1. HasBody(e) /\ ReaderUnchanged
  BY DEF StartPoll, PollGate, PollStep, DropBody
<1>2. b \in Bodies
  BY <1>1, Knows
<1>3. GateAhead(e) = Ahead(b)
  BY DEF GateAhead, Ahead
<1>4. PICK c \in Bodies : SetBody(e, c)
  <2>1. CASE \E r \in Readers : StartPoll(e, r)
    BY <1>2, <2>1, BodySteps DEF StartPoll
  <2>2. CASE DropBody(e)
    <3>1. [b EXCEPT !.state = "over"] \in Bodies
      BY <1>2 DEF Bodies
    <3>2. SetBody(e, [b EXCEPT !.state = "over"])
      BY <2>2 DEF DropBody
    <3> QED BY <3>1, <3>2
  <2>3. CASE PollGate(e)
    <3>1. Ahead(b) # None
      BY <1>3, <2>3 DEF PollGate
    <3>2. SetBody(e, BehindGate(b)) \/ SetBody(e, [b EXCEPT !.state = "pending"])
      BY <2>3 DEF PollGate
    <3> HIDE DEF b
    <3>3. BehindGate(b) \in Bodies
      BY <1>2, <3>1, BodySteps
    <3>4. [b EXCEPT !.state = "pending"] \in Bodies
      BY <1>2 DEF Bodies
    <3> QED BY <3>2, <3>3, <3>4
  <2>4. CASE PollStep(e)
    <3>1. Ahead(b) = None
      BY <1>3, <2>4 DEF PollStep
    <3>2. SetBody(e, Stepped(b))
      BY <2>4 DEF PollStep, Stepped
    <3> HIDE DEF b
    <3> QED BY <1>2, <3>1, <3>2, BodySteps
  <2> QED BY <2>1, <2>2, <2>3, <2>4
<1> QED BY <1>1, <1>4, SetBodyStep

LEMMA WakeStep ==
    ASSUME ExecInv, NEW r \in Readers, Wake(r)
    PROVE  ExecInv'
<1> DEFINE hit(e) == HasBody(e) /\ Body(e).state = "pending" /\ Body(e).task = r
<1>1. /\ exec' = [e \in Execs |-> IF hit(e) THEN [exec[e] EXCEPT !.result.body.state = "polling"]
                                  ELSE exec[e]]
      /\ reports' = reports /\ scripts' = scripts /\ repeating' = repeating /\ observed' = observed
  BY DEF Wake, ReaderUnchanged, scriptVars
<1>2. ASSUME NEW e \in Execs PROVE exec'[e] \in Executions /\ Fine(exec'[e], reports[e])
  <2>1. CASE ~ hit(e)
    <3> HIDE DEF hit
    <3> QED BY <1>1, <2>1, Knows
  <2>2. CASE hit(e)
    <3> DEFINE b == [Body(e) EXCEPT !.state = "polling"]
    <3>1. HasBody(e) /\ Body(e) \in Bodies
      BY <2>2, Knows
    <3>2. b \in Bodies
      BY <3>1, BodySteps
    <3>3. exec'[e] = [exec[e] EXCEPT !.result.body = b]
      <4>1. exec'[e] = [exec[e] EXCEPT !.result.body.state = "polling"]
        <5> HIDE DEF hit
        <5> QED BY <1>1, <2>2
      <4> QED BY <4>1 DEF Body
    <3> HIDE DEF b
    <3>4. exec[e] \in Finished /\ exec[e].result.t = "Ok" /\ Fine(exec[e], reports[e])
      BY <3>1, Knows
    <3> DEFINE y == [exec[e] EXCEPT !.result.body = b]
    <3>5. y \in Finished /\ Fine(y, reports[e])
      BY <3>2, <3>4, SetBodyValue
    <3>6. exec'[e] = y
      BY <3>3
    <3> HIDE DEF y
    <3> QED BY <3>5, <3>6 DEF Executions
  <2> QED BY <2>1, <2>2
<1>3. exec' \in [Execs -> Executions]
  BY <1>1, <1>2
<1> HIDE DEF hit
<1> QED BY <1>1, <1>2, <1>3 DEF ExecInv

\* The steps of the test, and of the gates
LEMMA OtherSteps ==
    ASSUME ExecInv,
           \/ \E channel \in Kinds : Install(channel)
           \/ \E answer \in Outcomes : Script(answer) \/ ScriptRepeating(answer)
           \/ SetBodyObserver
           \/ \E g \in Gates : Release(g) \/ NotifyEntered(g) \/ WaitUntilEntered(g) \/ WaitTimesOut(g)
           \/ UNCHANGED vars
    PROVE  ExecInv' /\ exec' = exec
<1>1. exec' = exec /\ reports' = reports
  BY DEF Install, Script, ScriptRepeating, SetBodyObserver, Release, NotifyEntered, WaitUntilEntered,
         WaitTimesOut, GateUnchanged, vars
<1>2. \/ UNCHANGED <<scripts, repeating, observed>>
      \/ \E answer \in Outcomes : scripts' = Append(scripts, answer) /\ UNCHANGED <<repeating, observed>>
      \/ \E answer \in Outcomes : repeating' = answer /\ UNCHANGED <<scripts, observed>>
      \/ observed' = TRUE /\ UNCHANGED <<scripts, repeating>>
  BY DEF Install, Script, ScriptRepeating, SetBodyObserver, Release, NotifyEntered, WaitUntilEntered,
         WaitTimesOut, GateUnchanged, vars, scriptVars
<1>3. scripts \in Seq(Outcomes) /\ repeating \in Option(Outcomes) /\ observed \in BOOLEAN
  BY DEF ExecInv
<1>4. scripts' \in Seq(Outcomes)
  BY <1>2, <1>3
<1>5. repeating' \in Option(Outcomes)
  BY <1>2, <1>3, Zenon DEF Option
<1>6. observed' \in BOOLEAN
  BY <1>2, <1>3, Zenon
<1> QED BY <1>1, <1>4, <1>5, <1>6 DEF ExecInv

LEMMA ExecInvInit ==
    ASSUME Init
    PROVE  ExecInv
<1> DEFINE x == [pc |-> "new"]
<1>1. Fine(x, <<>>) /\ x \in Executions
  BY DEF Fine, Phase, Terminal, Just, Executions
<1>2. exec = [e \in Execs |-> x] /\ reports = [e \in Execs |-> <<>>] /\ scripts = <<>>
      /\ repeating = None /\ observed = FALSE
  BY DEF Init
<1> HIDE DEF x
<1>3. exec \in [Execs -> Executions] /\ reports \in [Execs -> Seq(Observations)]
  BY <1>1, <1>2
<1>4. \A e \in Execs : Fine(exec[e], reports[e])
  BY <1>1, <1>2
<1>5. scripts \in Seq(Outcomes)
  BY <1>2
<1>6. repeating \in Option(Outcomes) /\ observed \in BOOLEAN
  BY <1>2, Zenon DEF Option
<1> QED BY <1>3, <1>4, <1>5, <1>6 DEF ExecInv

LEMMA ExecInvNext ==
    ASSUME ExecInv, [Next]_vars
    PROVE  ExecInv'
<1>1. CASE \/ \E channel \in Kinds : Install(channel)
           \/ \E answer \in Outcomes : Script(answer) \/ ScriptRepeating(answer)
           \/ SetBodyObserver
           \/ \E g \in Gates : Release(g) \/ NotifyEntered(g) \/ WaitUntilEntered(g) \/ WaitTimesOut(g)
           \/ UNCHANGED vars
  BY <1>1, OtherSteps
<1>2. ASSUME NEW e \in Execs, Begin(e) \/ Capture(e) \/ TakeOutcome(e) \/ BeginPolling(e)
      PROVE  ExecInv'
  BY <1>2, StartingSteps
<1>3. ASSUME NEW e \in Execs, NoContext(e) \/ NoOutcome(e) \/ RefuseOrFail(e)
      PROVE  ExecInv'
  BY <1>3, RefusingSteps
<1>4. ASSUME NEW e \in Execs, DrainFrame(e) \/ DrainEnd(e) \/ CancelExecution(e)
      PROVE  ExecInv'
  BY <1>4, DrainingSteps
<1>5. ASSUME NEW e \in Execs, PollGate(e) \/ PollStep(e) \/ DropBody(e)
      PROVE  ExecInv'
  BY <1>5, ReadingSteps
<1>6. ASSUME NEW e \in Execs, NEW r \in Readers, StartPoll(e, r)
      PROVE  ExecInv'
  BY <1>6, ReadingSteps
<1>7. ASSUME NEW r \in Readers, Wake(r)
      PROVE  ExecInv'
  BY <1>7, WakeStep
<1> QED BY <1>1, <1>2, <1>3, <1>4, <1>5, <1>6, <1>7 DEF Next

\* A scripted response reaches only a request whose credentials are placed and whose
\* body is the expected one, however the body is framed, and is withheld with a request
\* failure only if one of them is not.
THEOREM ResultsAreJust == Spec => []ResultIsJust
<1>1. ExecInv => ResultIsJust
  BY PropertiesOfExecutions
<1> QED BY <1>1, ExecInvInit, ExecInvNext, PTL DEF Spec

\* One execution tells its observer once what became of the request body, and tells
\* the truth, however it ends.
THEOREM OneObservation == Spec => []OneTerminal
<1>1. ExecInv => OneTerminal
  BY PropertiesOfExecutions
<1> QED BY <1>1, ExecInvInit, ExecInvNext, PTL DEF Spec

-----------------------------------------------------------------------------
(* What the steps do to the bodies of the responses                         *)

Runs(e) ==
    \/ Begin(e) \/ Capture(e) \/ TakeOutcome(e) \/ BeginPolling(e)
    \/ NoContext(e) \/ NoOutcome(e) \/ RefuseOrFail(e)
    \/ DrainFrame(e) \/ DrainEnd(e) \/ CancelExecution(e)

LEMMA BodyOfReturn ==
    ASSUME ExecInv, NEW e \in Execs, NEW result, NEW obs, Return(e, result, obs),
           result.t = "Ok" => result.body = Native(exec[e].outcome)
    PROVE  /\ HasBody(e)' => Body(e)' = Native(exec'[e].outcome)
           /\ \A d \in Execs \ {e} : exec'[d] = exec[d]
<1>1. exec' = [exec EXCEPT ![e] = Returned(exec[e], result)]
  BY DEF Return, Returned
<1>2. exec'[e] = Returned(exec[e], result) /\ \A d \in Execs \ {e} : exec'[d] = exec[d]
  BY <1>1 DEF ExecInv
<1>3. exec'[e].result = result /\ exec'[e].outcome = exec[e].outcome
  BY <1>2 DEF Returned
<1> QED BY <1>2, <1>3 DEF HasBody, Body

LEMMA BodyOfMove ==
    ASSUME ExecInv, NEW e \in Execs, NEW y, exec' = [exec EXCEPT ![e] = y], y.pc # "done"
    PROVE  /\ HasBody(e)' => Body(e)' = Native(exec'[e].outcome)
           /\ \A d \in Execs \ {e} : exec'[d] = exec[d]
<1>1. exec'[e] = y /\ \A d \in Execs \ {e} : exec'[d] = exec[d]
  BY DEF ExecInv
<1> QED BY <1>1 DEF HasBody

\* A response that an execution returns has its script before it; nothing else happens
\* to the bodies, and the gates stay as they are.
LEMMA BodiesOfRuns ==
    ASSUME ExecInv, NEW e \in Execs, Runs(e)
    PROVE  /\ UNCHANGED gateVars
           /\ HasBody(e)' => Body(e)' = Native(exec'[e].outcome)
           /\ \A d \in Execs \ {e} : exec'[d] = exec[d]
<1> DEFINE Goal == /\ HasBody(e)' => Body(e)' = Native(exec'[e].outcome)
                   /\ \A d \in Execs \ {e} : exec'[d] = exec[d]
           x == exec[e]
<1>0. UNCHANGED gateVars
  BY DEF Runs, Begin, Capture, TakeOutcome, BeginPolling, NoContext, NoOutcome, RefuseOrFail,
         DrainFrame, DrainEnd, CancelExecution, RunnerUnchanged
<1> SUFFICES Goal
  BY <1>0
<1>a. ASSUME NEW why, NEW obs, Return(e, Err(why), obs) PROVE Goal
  <2>1. Err(why).t # "Ok"
    BY DEF Err
  <2> QED BY <1>a, <2>1, BodyOfReturn
<1>b. ASSUME NEW y, exec' = [exec EXCEPT ![e] = y], y.pc # "done" PROVE Goal
  BY <1>b, BodyOfMove
<1> HIDE DEF Goal
<1>1. CASE Begin(e)
  <2>1. PICK request \in Requests :
          exec' = [exec EXCEPT ![e] = [pc |-> "begun", request |-> request, observer |-> observed,
                                       outcome |-> None]]
    BY <1>1 DEF Begin
  <2> DEFINE y == [pc |-> "begun", request |-> request, observer |-> observed, outcome |-> None]
  <2>2. y.pc = "begun" /\ exec' = [exec EXCEPT ![e] = y]
    BY <2>1
  <2> HIDE DEF y
  <2> QED BY <1>b, <2>2
<1>2. CASE Capture(e)
  <2>1. x \in Starting
    BY <1>2, Knows DEF Capture
  <2>2. [x EXCEPT !.pc = "take"].pc = "take"
    BY <2>1 DEF Starting
  <2>3. exec' = [exec EXCEPT ![e] = [x EXCEPT !.pc = "take"]]
    BY <1>2 DEF Capture
  <2> QED BY <1>b, <2>2, <2>3
<1>3. CASE TakeOutcome(e)
  <2> DEFINE y == [x EXCEPT !.pc = "match", !.outcome = NextOutcome]
  <2>1. x \in Starting
    BY <1>3, Knows DEF TakeOutcome
  <2>2. y.pc = "match"
    BY <2>1 DEF Starting
  <2>3. exec' = [exec EXCEPT ![e] = y]
    BY <1>3 DEF TakeOutcome
  <2> HIDE DEF y
  <2> QED BY <1>b, <2>2, <2>3
<1>4. CASE BeginPolling(e)
  <2> DEFINE y == [pc |-> "drain", request |-> x.request, observer |-> x.observer,
                   outcome |-> x.outcome, rest |-> x.request.frames, offset |-> 0]
  <2>1. exec' = [exec EXCEPT ![e] = y] /\ y.pc = "drain"
    BY <1>4 DEF BeginPolling
  <2> HIDE DEF y
  <2> QED BY <1>b, <2>1
<1>5. CASE NoContext(e) \/ NoOutcome(e) \/ RefuseOrFail(e) \/ CancelExecution(e)
  <2>1. \E why, obs : Return(e, Err(why), obs)
    BY <1>5 DEF NoContext, NoOutcome, RefuseOrFail, CancelExecution
  <2> QED BY <1>a, <2>1
<1>6. CASE DrainFrame(e)
  <2>1. \/ \E why, obs : Return(e, Err(why), obs)
        \/ \E offset : exec' = [exec EXCEPT ![e] = [x EXCEPT !.rest = Tail(x.rest), !.offset = offset]]
    BY <1>6 DEF DrainFrame
  <2>2. x \in Draining
    BY <1>6, Knows DEF DrainFrame
  <2>3. \A offset : [x EXCEPT !.rest = Tail(x.rest), !.offset = offset].pc = "drain"
    BY <2>2 DEF Draining
  <2>4. CASE \E why, obs : Return(e, Err(why), obs)
    BY <1>a, <2>4
  <2>5. CASE \E offset : exec' = [exec EXCEPT ![e] = [x EXCEPT !.rest = Tail(x.rest), !.offset = offset]]
    <3>1. PICK offset : exec' = [exec EXCEPT ![e] = [x EXCEPT !.rest = Tail(x.rest), !.offset = offset]]
      BY <2>5
    <3> DEFINE y == [x EXCEPT !.rest = Tail(x.rest), !.offset = offset]
    <3>2. y.pc = "drain" /\ exec' = [exec EXCEPT ![e] = y]
      BY <2>3, <3>1
    <3> HIDE DEF y
    <3> QED BY <1>b, <3>2
  <2> QED BY <2>1, <2>4, <2>5
<1>7. CASE DrainEnd(e)
  <2>1. \/ \E why, obs : Return(e, Err(why), obs)
        \/ Return(e, [t |-> "Ok", body |-> Native(x.outcome)], "Completed")
    BY <1>7 DEF DrainEnd
  <2>2. CASE \E why, obs : Return(e, Err(why), obs)
    BY <1>a, <2>2
  <2>3. CASE Return(e, [t |-> "Ok", body |-> Native(x.outcome)], "Completed")
    <3> DEFINE ok == [t |-> "Ok", body |-> Native(x.outcome)]
    <3>1. ok.body = Native(x.outcome) /\ Return(e, ok, "Completed")
      BY <2>3
    <3> HIDE DEF ok
    <3> QED BY <3>1, BodyOfReturn DEF Goal
  <2> QED BY <2>1, <2>2, <2>3
<1> QED BY <1>1, <1>2, <1>3, <1>4, <1>5, <1>6, <1>7 DEF Runs

\* A reader sets the body of one response.
LEMMA BodiesOfSet ==
    ASSUME ExecInv, NEW e \in Execs, HasBody(e), NEW b \in Bodies, SetBody(e, b), NEW d \in Execs
    PROVE  /\ HasBody(d)' <=> HasBody(d)
           /\ HasBody(d) => Body(d)' = (IF d = e THEN b ELSE Body(d)) /\ exec'[d].outcome = exec[d].outcome
<1> DEFINE y == [exec[e] EXCEPT !.result.body = b]
<1>0. exec[e] \in Finished /\ exec[e].result.t = "Ok" /\ Fine(exec[e], reports[e])
  BY Knows
<1>1. y.pc = "done" /\ y.result.t = "Ok" /\ y.result.body = b /\ y.outcome = exec[e].outcome
  BY <1>0, SetBodyValue
<1>2. exec'[d] = IF d = e THEN y ELSE exec[d]
  BY DEF SetBody, ExecInv
<1> HIDE DEF y
<1> QED BY <1>1, <1>2 DEF HasBody, Body

LEMMA BodiesOfWake ==
    ASSUME ExecInv, NEW r \in Readers, Wake(r), NEW d \in Execs
    PROVE  /\ HasBody(d)' <=> HasBody(d)
           /\ HasBody(d) =>
                /\ Body(d)' = IF Body(d).state = "pending" /\ Body(d).task = r
                              THEN [Body(d) EXCEPT !.state = "polling"] ELSE Body(d)
                /\ exec'[d].outcome = exec[d].outcome
<1> DEFINE hit == HasBody(d) /\ Body(d).state = "pending" /\ Body(d).task = r
<1>1. exec'[d] = IF hit THEN [exec[d] EXCEPT !.result.body.state = "polling"] ELSE exec[d]
  BY DEF Wake
<1>2. CASE hit
  <2> DEFINE b == [Body(d) EXCEPT !.state = "polling"]
             y == [exec[d] EXCEPT !.result.body = b]
  <2>1. HasBody(d) /\ Body(d) \in Bodies
    BY <1>2, Knows
  <2>2. b \in Bodies
    BY <2>1, BodySteps
  <2>3. exec'[d] = y
    <3>1. exec'[d] = [exec[d] EXCEPT !.result.body.state = "polling"]
      <4> HIDE DEF hit
      <4> QED BY <1>1, <1>2
    <3> QED BY <3>1 DEF Body
  <2>4. exec[d] \in Finished /\ exec[d].result.t = "Ok" /\ Fine(exec[d], reports[d])
    BY <2>1, Knows
  <2> HIDE DEF b
  <2>5. y.pc = "done" /\ y.result.t = "Ok" /\ y.result.body = b /\ y.outcome = exec[d].outcome
    BY <2>2, <2>4, SetBodyValue
  <2> HIDE DEF y
  <2>6. HasBody(d)' /\ Body(d)' = b /\ exec'[d].outcome = exec[d].outcome
    BY <2>3, <2>5 DEF HasBody, Body
  <2> QED BY <1>2, <2>1, <2>6 DEF b
<1>3. CASE ~ hit
  <2>1. exec'[d] = exec[d]
    <3> HIDE DEF hit
    <3> QED BY <1>1, <1>3
  <2> QED BY <1>3, <2>1 DEF HasBody, Body
<1> QED BY <1>2, <1>3

-----------------------------------------------------------------------------
(* Gates and wakers                                                         *)

\* A body d that is pending waits at a gate; the body that polled the gate last has
\* its waker there, or the gate was released and took it out.
Waits(d, b) ==
    /\ b.state \in {"polling", "pending"} => b.task \in Readers
    /\ b.state = "pending" =>
         /\ Ahead(b) \in Gates
         /\ last[Ahead(b)] = d => IF gate[Ahead(b)].released THEN b.task \in waking
                                  ELSE gate[Ahead(b)].waker = b.task

Announced(g) == tester[g] = "asleep" /\ gate[g].entered => g \in notifying

GateStates == [entered : BOOLEAN, released : BOOLEAN, waker : Option(Readers)]
GateTypes ==
    /\ gate \in [Gates -> GateStates] /\ last \in [Gates -> Option(Execs)]
    /\ tester \in [Gates -> {"away", "asleep"}]

WakeInv ==
    /\ GateTypes
    /\ \A e \in Execs : HasBody(e) => Waits(e, Body(e))
    /\ \A g \in Gates : Announced(g)

LEMMA PropertyOfGates ==
    ASSUME ExecInv, WakeInv
    PROVE  GateWakes
<1>1. ASSUME NEW e \in Execs, HasBody(e), Body(e).state = "pending",
             gate[GateAhead(e)].released, last[GateAhead(e)] = e
      PROVE  Body(e).task \in waking
  <2> DEFINE g == GateAhead(e)
  <2>1. g = Ahead(Body(e))
    BY DEF GateAhead, Ahead
  <2>2. Waits(e, Body(e))
    BY <1>1 DEF WakeInv
  <2> QED BY <1>1, <2>1, <2>2 DEF Waits
<1>2. \A g \in Gates : tester[g] = "asleep" /\ gate[g].entered => g \in notifying
  BY DEF WakeInv, Announced
<1> QED BY <1>1, <1>2 DEF GateWakes

\* Steps that leave the gates as they are
LEMMA GatesKept ==
    ASSUME WakeInv, UNCHANGED gateVars,
           \A d \in Execs : HasBody(d)' =>
              \/ HasBody(d) /\ Body(d)' = Body(d)
              \/ Body(d)'.state # "pending" /\ (Body(d)'.state = "polling" => Body(d)'.task \in Readers)
    PROVE  WakeInv'
<1>1. GateTypes' /\ \A g \in Gates : Announced(g)'
  BY DEF WakeInv, GateTypes, Announced, gateVars
<1>2. ASSUME NEW d \in Execs, HasBody(d)' PROVE Waits(d, Body(d))'
  <2>1. CASE HasBody(d) /\ Body(d)' = Body(d)
    <3>1. Waits(d, Body(d))
      BY <2>1 DEF WakeInv
    <3> QED BY <2>1, <3>1 DEF Waits, Ahead, gateVars
  <2>2. CASE Body(d)'.state # "pending" /\ (Body(d)'.state = "polling" => Body(d)'.task \in Readers)
    BY <2>2 DEF Waits
  <2> QED BY <1>2, <2>1, <2>2
<1> QED BY <1>1, <1>2 DEF WakeInv

LEMMA WakeInvRuns ==
    ASSUME ExecInv, WakeInv, NEW e \in Execs, Runs(e)
    PROVE  WakeInv'
<1>1. ASSUME NEW d \in Execs, HasBody(d)'
      PROVE  \/ HasBody(d) /\ Body(d)' = Body(d)
             \/ Body(d)'.state # "pending" /\ (Body(d)'.state = "polling" => Body(d)'.task \in Readers)
  <2>1. CASE d = e
    <3>1. Body(d)' = Native(exec'[d].outcome)
      BY <1>1, <2>1, BodiesOfRuns
    <3> QED BY <3>1 DEF Native
  <2>2. CASE d # e
    <3>1. exec'[d] = exec[d]
      BY <2>2, BodiesOfRuns
    <3> QED BY <1>1, <3>1 DEF HasBody, Body
  <2> QED BY <2>1, <2>2
<1>2. UNCHANGED gateVars
  BY BodiesOfRuns
<1> QED BY <1>1, <1>2, GatesKept

\* A poll that meets no gate, its start, and the drop of a body
LEMMA WakeInvReads ==
    ASSUME ExecInv, WakeInv, NEW e \in Execs,
           (\E r \in Readers : StartPoll(e, r)) \/ PollStep(e) \/ DropBody(e)
    PROVE  WakeInv'
<1> DEFINE b == Body(e)
<1>1. HasBody(e) /\ UNCHANGED gateVars
  BY DEF StartPoll, PollStep, DropBody
<1>2. b \in Bodies
  BY <1>1, Knows
<1>3. PICK c \in Bodies : /\ SetBody(e, c) /\ c.state # "pending"
                          /\ c.state = "polling" => c.task \in Readers
  <2>1. CASE \E r \in Readers : StartPoll(e, r)
    <3>1. PICK r \in Readers : StartPoll(e, r)
      BY <2>1
    <3> DEFINE c == [b EXCEPT !.state = "polling", !.task = r]
    <3>2. c \in Bodies /\ c.state = "polling" /\ c.task = r
      BY <1>2 DEF Bodies, Option
    <3>3. SetBody(e, c)
      BY <3>1 DEF StartPoll
    <3> HIDE DEF c
    <3> QED BY <3>2, <3>3
  <2>2. CASE DropBody(e)
    <3> DEFINE c == [b EXCEPT !.state = "over"]
    <3>2. c \in Bodies /\ c.state = "over"
      BY <1>2 DEF Bodies
    <3>3. SetBody(e, c)
      BY <2>2 DEF DropBody
    <3> HIDE DEF c
    <3> QED BY <3>2, <3>3
  <2>3. CASE PollStep(e)
    <3>1. GateAhead(e) = None /\ GateAhead(e) = Ahead(b)
      BY <2>3 DEF PollStep, GateAhead, Ahead
    <3>2. SetBody(e, Stepped(b))
      BY <2>3 DEF PollStep, Stepped
    <3> HIDE DEF b
    <3>3. Stepped(b) \in Bodies
      BY <1>2, <3>1, BodySteps
    <3>4. Stepped(b).state \in {"ready", "over"}
      BY <1>2 DEF Stepped, Bodies
    <3> QED BY <3>2, <3>3, <3>4
  <2> QED BY <2>1, <2>2, <2>3
<1>4. ASSUME NEW d \in Execs, HasBody(d)'
      PROVE  \/ HasBody(d) /\ Body(d)' = Body(d)
             \/ Body(d)'.state # "pending" /\ (Body(d)'.state = "polling" => Body(d)'.task \in Readers)
  <2>1. HasBody(d) /\ Body(d)' = IF d = e THEN c ELSE Body(d)
    BY <1>1, <1>3, <1>4, BodiesOfSet
  <2> QED BY <1>3, <2>1
<1> QED BY <1>1, <1>4, GatesKept

LEMMA WakeInvWake ==
    ASSUME ExecInv, WakeInv, NEW r \in Readers, Wake(r)
    PROVE  WakeInv'
<1>1. waking' = waking \ {r} /\ UNCHANGED <<gate, last, notifying, tester>>
  BY DEF Wake
<1>2. GateTypes' /\ \A g \in Gates : Announced(g)'
  BY <1>1 DEF WakeInv, GateTypes, Announced
<1>3. ASSUME NEW d \in Execs, HasBody(d)' PROVE Waits(d, Body(d))'
  <2> DEFINE b == Body(d)
  <2>1. /\ HasBody(d)
        /\ Body(d)' = IF b.state = "pending" /\ b.task = r THEN [b EXCEPT !.state = "polling"] ELSE b
    BY <1>3, BodiesOfWake
  <2>2. b \in Bodies /\ Waits(d, b)
    BY <2>1, Knows DEF WakeInv
  <2>3. CASE b.state = "pending" /\ b.task = r
    <3>1. Body(d)'.state = "polling" /\ Body(d)'.task = r
      BY <2>1, <2>2, <2>3 DEF Bodies
    <3> QED BY <3>1 DEF Waits
  <2>4. CASE ~ (b.state = "pending" /\ b.task = r)
    <3>1. Body(d)' = b
      BY <2>1, <2>4
    <3> QED BY <1>1, <2>2, <2>4, <3>1 DEF Waits, Ahead
  <2> QED BY <2>3, <2>4
<1> QED BY <1>2, <1>3 DEF WakeInv

\* A poll registers its waker at a gate that is not released.
LEMMA WakeInvGate ==
    ASSUME ExecInv, WakeInv, NEW e \in Execs, PollGate(e)
    PROVE  WakeInv'
<1> DEFINE b == Body(e)
           g == Ahead(b)
<1>1. HasBody(e) /\ b.state = "polling" /\ GateAhead(e) # None /\ GateAhead(e) = g
  BY DEF PollGate, GateAhead, Ahead
<1>2. b \in Bodies /\ g \in Gates /\ Waits(e, b) /\ BehindGate(b) \in Bodies
  <2>1. b \in Bodies /\ Waits(e, b)
    BY <1>1, Knows DEF WakeInv
  <2> HIDE DEF b
  <2> QED BY <1>1, <2>1, BodySteps
<1>3. b.task \in Readers
  BY <1>1, <1>2 DEF Waits
<1>4. /\ notifying' = IF gate[g].entered THEN notifying ELSE notifying \cup {g}
      /\ waking' = waking /\ tester' = tester
      /\ IF gate[g].released
         THEN /\ SetBody(e, BehindGate(b))
              /\ gate' = [gate EXCEPT ![g].entered = TRUE]
              /\ last' = last
         ELSE /\ SetBody(e, [b EXCEPT !.state = "pending"])
              /\ gate' = [gate EXCEPT ![g].entered = TRUE, ![g].waker = b.task]
              /\ last' = [last EXCEPT ![g] = e]
  BY <1>1 DEF PollGate, NewWaker
<1> DEFINE c == IF gate[g].released THEN BehindGate(b) ELSE [b EXCEPT !.state = "pending"]
<1>5. c \in Bodies /\ SetBody(e, c)
  <2>1. [b EXCEPT !.state = "pending"] \in Bodies
    BY <1>2 DEF Bodies
  <2> QED BY <1>2, <1>4, <2>1
<1>6. gate[g] \in GateStates /\ gate \in [Gates -> GateStates] /\ last \in [Gates -> Option(Execs)]
  BY <1>2 DEF WakeInv, GateTypes
<1>7. /\ gate'[g].entered = TRUE /\ gate'[g].released = gate[g].released
      /\ gate'[g].waker = (IF gate[g].released THEN gate[g].waker ELSE b.task)
      /\ gate' \in [Gates -> GateStates]
      /\ \A h \in Gates \ {g} : gate'[h] = gate[h]
  <2> HIDE DEF g, b
  <2>1. CASE gate[g].released
    <3>1. gate' = [gate EXCEPT ![g].entered = TRUE]
      BY <1>4, <2>1
    <3> QED BY <1>2, <1>6, <2>1, <3>1 DEF GateStates
  <2>2. CASE ~ gate[g].released
    <3>1. gate' = [gate EXCEPT ![g].entered = TRUE, ![g].waker = b.task]
      BY <1>4, <2>2
    <3> QED BY <1>2, <1>3, <1>6, <2>2, <3>1 DEF GateStates, Option
  <2> QED BY <2>1, <2>2
<1>8. /\ last' \in [Gates -> Option(Execs)]
      /\ last'[g] = (IF gate[g].released THEN last[g] ELSE e)
      /\ \A h \in Gates \ {g} : last'[h] = last[h]
  <2> HIDE DEF g, b
  <2> QED BY <1>2, <1>4, <1>6 DEF Option
<1>9. GateTypes'
  BY <1>4, <1>7, <1>8 DEF WakeInv, GateTypes
<1>10. ASSUME NEW h \in Gates PROVE Announced(h)'
  <2> HIDE DEF g, b
  <2>1. Announced(h)
    BY DEF WakeInv
  <2>2. CASE h = g
    BY <1>4, <1>7, <2>1, <2>2 DEF Announced
  <2>3. CASE h # g
    BY <1>4, <1>7, <2>1, <2>3 DEF Announced
  <2> QED BY <2>2, <2>3
<1>11. ASSUME NEW d \in Execs, HasBody(d)' PROVE Waits(d, Body(d))'
  <2>1. HasBody(d) /\ Body(d)' = IF d = e THEN c ELSE Body(d)
    <3> HIDE DEF c, b
    <3> QED BY <1>1, <1>5, <1>11, BodiesOfSet
  <2>2. CASE d = e
    <3>1. CASE gate[g].released
      <4>1. Body(d)' = BehindGate(b)
        BY <2>1, <2>2, <3>1
      <4>2. BehindGate(b).state = "polling" /\ BehindGate(b).task = b.task
        <5> HIDE DEF b
        <5> QED BY <1>1, <1>2 DEF BehindGate, Bodies
      <4> HIDE DEF b
      <4> QED BY <1>3, <4>1, <4>2 DEF Waits
    <3>2. CASE ~ gate[g].released
      <4> DEFINE p == [b EXCEPT !.state = "pending"]
      <4>1. Body(d)' = p
        BY <2>1, <2>2, <3>2
      <4>2. p.state = "pending" /\ p.task = b.task /\ Ahead(p) = g
        <5> HIDE DEF b
        <5> QED BY <1>2 DEF Ahead, Bodies
      <4>3. gate'[g].released = FALSE /\ gate'[g].waker = b.task
        BY <1>6, <1>7, <3>2 DEF GateStates
      <4> HIDE DEF b, g, p
      <4> QED BY <1>2, <1>3, <4>1, <4>2, <4>3 DEF Waits
    <3> QED BY <3>1, <3>2
  <2>3. CASE d # e
    <3> DEFINE a == Body(d)
    <3>1. Body(d)' = a /\ Waits(d, a)
      BY <2>1, <2>3 DEF WakeInv
    <3> HIDE DEF a, b, g
    <3>2. CASE Ahead(a) = g
      BY <1>4, <1>7, <1>8, <2>3, <3>1, <3>2 DEF Waits
    <3>3. CASE Ahead(a) # g
      BY <1>4, <1>7, <1>8, <3>1, <3>3 DEF Waits
    <3> QED BY <3>2, <3>3
  <2> QED BY <2>2, <2>3
<1> QED BY <1>9, <1>10, <1>11 DEF WakeInv

\* A release takes the waker out and wakes it.
LEMMA WakeInvRelease ==
    ASSUME ExecInv, WakeInv, NEW g \in Gates, Release(g)
    PROVE  WakeInv'
<1>1. /\ gate' = [gate EXCEPT ![g].released = TRUE, ![g].waker = None]
      /\ waking' = IF gate[g].waker = None THEN waking ELSE waking \cup {gate[g].waker}
      /\ last' = last /\ notifying' = notifying /\ tester' = tester /\ exec' = exec
  BY DEF Release, GateUnchanged
<1>2. gate \in [Gates -> GateStates] /\ gate[g] \in GateStates
  BY DEF WakeInv, GateTypes
<1>3. /\ gate'[g].released = TRUE /\ gate'[g].entered = gate[g].entered
      /\ \A h \in Gates \ {g} : gate'[h] = gate[h]
      /\ gate' \in [Gates -> GateStates]
  BY <1>1, <1>2 DEF GateStates, Option
<1>4. GateTypes'
  BY <1>1, <1>3 DEF WakeInv, GateTypes
<1>5. ASSUME NEW h \in Gates PROVE Announced(h)'
  <2>1. Announced(h) /\ gate'[h].entered = gate[h].entered
    BY <1>3 DEF WakeInv
  <2> QED BY <1>1, <2>1 DEF Announced
<1>6. ASSUME NEW d \in Execs, HasBody(d)' PROVE Waits(d, Body(d))'
  <2> DEFINE b == Body(d)
  <2>1. HasBody(d) /\ Body(d)' = b
    BY <1>1, <1>6 DEF HasBody, Body
  <2>2. Waits(d, b)
    BY <2>1 DEF WakeInv
  <2> HIDE DEF b
  <2>3. CASE Ahead(b) = g
    <3>1. b.task \in Readers => b.task # None
      BY ExecutorConstants
    <3> QED BY <1>1, <1>3, <2>1, <2>2, <2>3, <3>1 DEF Waits
  <2>4. CASE Ahead(b) # g
    BY <1>1, <1>3, <2>1, <2>2, <2>4 DEF Waits
  <2> QED BY <2>3, <2>4
<1> QED BY <1>4, <1>5, <1>6 DEF WakeInv

\* The test's thread waits for a gate to be entered, and the steps that touch no gate
LEMMA WakeInvTester ==
    ASSUME ExecInv, WakeInv, exec' = exec, UNCHANGED <<gate, last, waking>>,
           \/ \E g \in Gates : NotifyEntered(g) \/ WaitUntilEntered(g) \/ WaitTimesOut(g)
           \/ UNCHANGED <<notifying, tester>>
    PROVE  WakeInv'
<1>1. ASSUME NEW d \in Execs, HasBody(d)' PROVE Waits(d, Body(d))'
  <2>1. HasBody(d) /\ Body(d)' = Body(d)
    BY <1>1 DEF HasBody, Body
  <2>2. Waits(d, Body(d))
    BY <2>1 DEF WakeInv
  <2> QED BY <2>1, <2>2 DEF Waits, Ahead
<1>2. tester \in [Gates -> {"away", "asleep"}] /\ \A h \in Gates : Announced(h)
  BY DEF WakeInv, GateTypes
<1>3. /\ tester' \in [Gates -> {"away", "asleep"}]
      /\ \A h \in Gates : tester'[h] = "asleep" /\ gate[h].entered => h \in notifying'
  <2>1. CASE UNCHANGED <<notifying, tester>>
    BY <1>2, <2>1 DEF Announced
  <2>2. ASSUME NEW g \in Gates, NotifyEntered(g) \/ WaitUntilEntered(g) \/ WaitTimesOut(g)
        PROVE  <1>3!1 /\ <1>3!2
    BY <1>2, <2>2 DEF NotifyEntered, WaitUntilEntered, WaitTimesOut, Announced
  <2> QED BY <2>1, <2>2
<1>4. GateTypes' /\ \A h \in Gates : Announced(h)'
  BY <1>3 DEF WakeInv, GateTypes, Announced
<1> QED BY <1>1, <1>4 DEF WakeInv

LEMMA WakeInvInit ==
    ASSUME Init
    PROVE  WakeInv
<1>1. GateTypes
  BY DEF Init, GateTypes, GateStates, Option
<1>2. \A e \in Execs : ~ HasBody(e)
  BY DEF Init, HasBody
<1>3. \A g \in Gates : Announced(g)
  BY DEF Init, Announced
<1> QED BY <1>1, <1>2, <1>3 DEF WakeInv

LEMMA WakeInvNext ==
    ASSUME ExecInv, WakeInv, [Next]_vars
    PROVE  WakeInv'
<1>1. ASSUME \/ \E channel \in Kinds : Install(channel)
             \/ \E answer \in Outcomes : Script(answer) \/ ScriptRepeating(answer)
             \/ SetBodyObserver \/ UNCHANGED vars
      PROVE  WakeInv'
  <2>1. exec' = exec /\ UNCHANGED gateVars
    BY <1>1 DEF Install, Script, ScriptRepeating, SetBodyObserver, vars, gateVars
  <2> QED BY <2>1, WakeInvTester DEF gateVars
<1>2. ASSUME NEW g \in Gates, NotifyEntered(g) \/ WaitUntilEntered(g) \/ WaitTimesOut(g)
      PROVE  WakeInv'
  <2>1. exec' = exec /\ UNCHANGED <<gate, last, waking>>
    BY <1>2 DEF NotifyEntered, WaitUntilEntered, WaitTimesOut, GateUnchanged
  <2> QED BY <1>2, <2>1, WakeInvTester
<1>3. ASSUME NEW e \in Execs, Runs(e) PROVE WakeInv'
  BY <1>3, WakeInvRuns
<1>4. ASSUME NEW e \in Execs, (\E r \in Readers : StartPoll(e, r)) \/ PollStep(e) \/ DropBody(e)
      PROVE  WakeInv'
  BY <1>4, WakeInvReads
<1>5. ASSUME NEW e \in Execs, PollGate(e) PROVE WakeInv'
  BY <1>5, WakeInvGate
<1>6. ASSUME NEW r \in Readers, Wake(r) PROVE WakeInv'
  BY <1>6, WakeInvWake
<1>7. ASSUME NEW g \in Gates, Release(g) PROVE WakeInv'
  BY <1>7, WakeInvRelease
<1> QED BY <1>1, <1>2, <1>3, <1>4, <1>5, <1>6, <1>7 DEF Next, Runs

\* Whatever tasks poll a body and whenever a gate is released, the body that polled the
\* gate last is not left pending, nor is a thread that waits for the gate to be entered.
THEOREM NoBodyIsStranded == Spec => []GateWakes
<1>1. ExecInv /\ WakeInv => GateWakes
  BY PropertyOfGates
<1> QED BY <1>1, ExecInvInit, ExecInvNext, WakeInvInit, WakeInvNext, PTL DEF Spec

-----------------------------------------------------------------------------
(* What readers get                                                         *)

\* The bytes of each step
Chunks(steps) == [i \in DOMAIN steps |-> IF steps[i].t = "Chunk" THEN steps[i].data ELSE <<>>]

\* What is left of a script after its first k steps
Left(rest, steps, k) ==
    /\ Len(rest) = Len(steps) - k
    /\ \A i \in 1 .. Len(steps) - k : rest[i] = steps[k + i]

\* Nothing stops a reader in the first k steps when the gates open are released.
Passable(steps, k, open) ==
    \A i \in 1 .. k : /\ steps[i].t # "Failure"
                      /\ steps[i].t = "Gate" => steps[i].gate \in open

\* The body b of the scripted response o has delivered the first k steps.
Follows(b, o, k, open) ==
    /\ FlattenSeq(b.got) = Flat(Chunks(o.steps), k)
    /\ Passable(o.steps, k, open)
    /\ b.terminal => k = Len(o.steps) \/ o.steps[k + 1].t = "Failure"
    /\ ~ b.terminal => Left(b.steps, o.steps, k)
    /\ b.first # None => b.first = o.gate /\ k = 0
    /\ b.first = None /\ o.gate # None => o.gate \in open

Scripted(b, o, open) == \E k \in 0 .. Len(o.steps) : Follows(b, o, k, open)

Open == {g \in Gates : gate[g].released}

ScriptInv == \A e \in Execs : HasBody(e) => Scripted(Body(e), exec[e].outcome, Open)

Responses == {o \in Outcomes : o.t = "Response"}

LEMMA ResponseTypes ==
    ASSUME NEW o \in Responses
    PROVE  o.steps \in Seq(ScriptedBodyStep) /\ Len(o.steps) \in Nat /\ o.gate \in Option(Gates)
<1>1. o \in ScriptedOutcome /\ o.t = "Response"
  BY OutcomesAssumption DEF Responses
<1>2. o.steps \in Seq(ScriptedBodyStep) /\ o.gate \in Option(Gates)
  BY <1>1 DEF ScriptedOutcome
<1> QED BY <1>2

\* The bytes of a script, step by step
LEMMA ChunkPieces ==
    ASSUME NEW s \in Seq(ScriptedBodyStep)
    PROVE  /\ Pieces(Chunks(s), Len(s), 0 .. 255)
           /\ \A i \in 1 .. Len(s) : Chunks(s)[i] = IF s[i].t = "Chunk" THEN s[i].data ELSE <<>>
<1> DEFINE n == Len(s)
<1>1. n \in Nat /\ DOMAIN s = 1 .. n /\ \A i \in 1 .. n : s[i] \in ScriptedBodyStep
  OBVIOUS
<1> HIDE DEF n
<1>2. \A i \in 1 .. n : Chunks(s)[i] = IF s[i].t = "Chunk" THEN s[i].data ELSE <<>>
  BY <1>1 DEF Chunks
<1>3. ASSUME NEW i \in 1 .. n PROVE Chunks(s)[i] \in Seq(0 .. 255)
  <2>1. s[i].t = "Chunk" => s[i].data \in Bytes
    BY <1>1 DEF ScriptedBodyStep
  <2>2. <<>> \in Seq(0 .. 255)
    OBVIOUS
  <2> QED BY <1>2, <2>1, <2>2 DEF Bytes
<1> QED BY <1>2, <1>3 DEF Pieces, n

LEMMA ChunkFlats ==
    ASSUME NEW s \in Seq(ScriptedBodyStep)
    PROVE  /\ Flat(Chunks(s), 0) = <<>>
           /\ \A k \in 0 .. Len(s) : Flat(Chunks(s), k) \in Seq(0 .. 255)
           /\ \A k \in 1 .. Len(s) : Flat(Chunks(s), k) = Join(Flat(Chunks(s), k - 1), Chunks(s)[k])
           /\ \A k \in 1 .. Len(s) : s[k].t # "Chunk" => Flat(Chunks(s), k) = Flat(Chunks(s), k - 1)
           /\ \A j, k \in 0 .. Len(s) : j <= k => Begins(Flat(Chunks(s), k), Flat(Chunks(s), j))
<1> DEFINE n == Len(s)
           D == Chunks(s)
<1>0. n \in Nat /\ Pieces(D, n, 0 .. 255)
  BY ChunkPieces
<1>1. \A i \in 1 .. n : D[i] = IF s[i].t = "Chunk" THEN s[i].data ELSE <<>>
  BY ChunkPieces
<1> HIDE DEF n, D
<1>2. /\ Flat(D, 0) = <<>>
      /\ \A k \in 0 .. n : Flat(D, k) \in Seq(0 .. 255)
      /\ \A k \in 1 .. n : Flat(D, k) = Join(Flat(D, k - 1), D[k])
  BY <1>0, Flats
<1>3. ASSUME NEW k \in 1 .. n, s[k].t # "Chunk" PROVE Flat(D, k) = Flat(D, k - 1)
  <2>1. D[k] = <<>> /\ k - 1 \in 0 .. n
    BY <1>0, <1>1, <1>3
  <2>2. Flat(D, k) = Join(Flat(D, k - 1), <<>>) /\ Flat(D, k - 1) \in Seq(0 .. 255)
    BY <1>2, <2>1
  <2> QED BY <2>2, JoinNothing
<1>4. ASSUME NEW j \in 0 .. n, NEW k \in 0 .. n, j <= k PROVE Begins(Flat(D, k), Flat(D, j))
  BY <1>0, <1>4, FlatGrows
<1> QED BY <1>2, <1>3, <1>4 DEF n, D

\* One more chunk is delivered.
LEMMA FlattenAppend ==
    ASSUME NEW got \in Seq(Bytes), NEW d \in Bytes
    PROVE  FlattenSeq(Append(got, d)) = Join(FlattenSeq(got), d)
<1> DEFINE n == Len(got)
           a == Append(got, d)
<1>0. n \in Nat /\ got \in Seq(Seq(0 .. 255)) /\ d \in Seq(0 .. 255)
  BY DEF Bytes
<1>1. a \in Seq(Seq(0 .. 255)) /\ Len(a) = n + 1 /\ a[n + 1] = d /\ \A i \in 1 .. n : a[i] = got[i]
  BY <1>0
<1> HIDE DEF n, a
<1>2. Pieces(a, n + 1, 0 .. 255)
  BY <1>0, <1>1 DEF Pieces
<1>3. Flat(a, n + 1) = Join(Flat(a, n), d)
  BY <1>0, <1>1, <1>2, FlatNext
<1>4. a = [i \in 1 .. n + 1 |-> a[i]]
  BY <1>0, <1>1
<1>5. got = [i \in 1 .. n |-> a[i]]
  BY <1>0, <1>1 DEF n
<1>6. Flat(a, n + 1) = FlattenSeq(a) /\ Flat(a, n) = FlattenSeq(got)
  BY <1>4, <1>5 DEF Flat
<1> QED BY <1>3, <1>6 DEF a

LEMMA LeftHead ==
    ASSUME NEW T, NEW rest \in Seq(T), NEW steps \in Seq(T), NEW k \in 0 .. Len(steps),
           Left(rest, steps, k), rest # <<>>
    PROVE  /\ k + 1 \in 1 .. Len(steps) /\ k + 1 \in 0 .. Len(steps)
           /\ Head(rest) = steps[k + 1] /\ Left(Tail(rest), steps, k + 1)
<1> DEFINE n == Len(steps)
<1>1. n \in Nat /\ Len(rest) = n - k /\ \A i \in 1 .. n - k : rest[i] = steps[k + i]
  BY DEF Left
<1> HIDE DEF n
<1>2. k + 1 \in 1 .. n /\ k + 1 \in 0 .. n
  BY <1>1
<1>3. Head(rest) = steps[k + 1] /\ Len(Tail(rest)) = n - (k + 1)
  BY <1>1, <1>2
<1>4. ASSUME NEW i \in 1 .. n - (k + 1) PROVE Tail(rest)[i] = steps[k + 1 + i]
  <2>1. Tail(rest)[i] = rest[i + 1]
    BY <1>1, <1>2
  <2>2. i + 1 \in 1 .. n - k /\ k + (i + 1) = k + 1 + i
    BY <1>1, <1>2
  <2> QED BY <1>1, <2>1, <2>2
<1> QED BY <1>2, <1>3, <1>4 DEF Left, n

LEMMA LeftNothing ==
    ASSUME NEW T, NEW steps \in Seq(T), NEW k \in 0 .. Len(steps), Left(<<>>, steps, k)
    PROVE  k = Len(steps)
BY DEF Left

LEMMA NativeFollows ==
    ASSUME NEW o \in Responses, NEW open
    PROVE  Scripted(Native(o), o, open)
<1> DEFINE b == Native(o)
<1>1. b.steps = o.steps /\ b.first = o.gate /\ b.terminal = FALSE /\ b.got = <<>>
  BY DEF Native
<1> HIDE DEF b
<1>2. o.steps \in Seq(ScriptedBodyStep) /\ Len(o.steps) \in Nat
  BY ResponseTypes
<1>3. FlattenSeq(b.got) = Flat(Chunks(o.steps), 0)
  <2>1. FlattenSeq(<<>>) = <<>>
    BY DEF FlattenSeq
  <2> QED BY <1>1, <1>2, <2>1, ChunkFlats
<1>4. Passable(o.steps, 0, open) /\ Left(b.steps, o.steps, 0)
  BY <1>1, <1>2 DEF Passable, Left
<1>5. Follows(b, o, 0, open)
  BY <1>1, <1>3, <1>4 DEF Follows
<1>6. 0 \in 0 .. Len(o.steps)
  BY <1>2
<1> QED BY <1>5, <1>6 DEF Scripted, b

\* More gates are released, or the body changes hands.
LEMMA StillFollows ==
    ASSUME NEW b, NEW o, NEW open, NEW more, open \subseteq more, Scripted(b, o, open),
           NEW c, c.steps = b.steps, c.first = b.first, c.terminal = b.terminal, c.got = b.got
    PROVE  Scripted(c, o, more)
<1>1. PICK k \in 0 .. Len(o.steps) : Follows(b, o, k, open)
  BY DEF Scripted
<1>2. Passable(o.steps, k, more)
  BY <1>1 DEF Follows, Passable
<1>3. Follows(c, o, k, more)
  BY <1>1, <1>2 DEF Follows
<1> QED BY <1>3 DEF Scripted

\* A released gate is passed.
LEMMA GatePassed ==
    ASSUME NEW o \in Responses, NEW b \in Bodies, NEW open, Scripted(b, o, open),
           Ahead(b) # None, Ahead(b) \in open
    PROVE  Scripted(BehindGate(b), o, open)
<1> DEFINE c == BehindGate(b)
           s == o.steps
<1>1. PICK k \in 0 .. Len(s) : Follows(b, o, k, open)
  BY DEF Scripted
<1>2. s \in Seq(ScriptedBodyStep) /\ b.steps \in Seq(ScriptedBodyStep)
  BY ResponseTypes DEF Bodies
<1>3. CASE b.first # None
  <2>1. c.steps = b.steps /\ c.first = None /\ c.terminal = b.terminal /\ c.got = b.got
    BY <1>3 DEF BehindGate, Bodies
  <2>2. o.gate \in open
    BY <1>1, <1>3 DEF Follows, Ahead
  <2> HIDE DEF c
  <2>3. Follows(c, o, k, open)
    BY <1>1, <2>1, <2>2 DEF Follows
  <2> QED BY <2>3 DEF Scripted, c
<1>4. CASE b.first = None
  <2>1. ~ b.terminal /\ b.steps # <<>> /\ Head(b.steps).t = "Gate" /\ Head(b.steps).gate \in open
    BY <1>4 DEF Ahead
  <2>2. c.steps = Tail(b.steps) /\ c.first = None /\ c.terminal = b.terminal /\ c.got = b.got
    BY <1>4 DEF BehindGate, Bodies
  <2>3. Left(b.steps, s, k)
    BY <1>1, <2>1 DEF Follows
  <2>4. /\ k + 1 \in 1 .. Len(s) /\ k + 1 \in 0 .. Len(s)
        /\ Head(b.steps) = s[k + 1] /\ Left(Tail(b.steps), s, k + 1)
    BY <1>2, <2>1, <2>3, LeftHead
  <2> HIDE DEF c
  <2>5. Passable(s, k + 1, open)
    <3>1. Passable(s, k, open)
      BY <1>1 DEF Follows
    <3> QED BY <2>1, <2>4, <3>1 DEF Passable
  <2>6. Flat(Chunks(s), k + 1) = Flat(Chunks(s), k)
    <3>1. s[k + 1].t # "Chunk" /\ (k + 1) - 1 = k
      BY <2>1, <2>4
    <3> QED BY <1>2, <2>4, <3>1, ChunkFlats
  <2>7. Follows(c, o, k + 1, open)
    BY <1>1, <1>4, <2>1, <2>2, <2>4, <2>5, <2>6 DEF Follows
  <2> QED BY <2>4, <2>7 DEF Scripted, c
<1> QED BY <1>3, <1>4

\* A poll delivers a chunk, or trailers, or the failure, or the end.
LEMMA StepFollows ==
    ASSUME NEW o \in Responses, NEW b \in Bodies, NEW open, Scripted(b, o, open), Ahead(b) = None
    PROVE  Scripted(Stepped(b), o, open)
<1> DEFINE c == Stepped(b)
           s == o.steps
<1>1. PICK k \in 0 .. Len(s) : Follows(b, o, k, open)
  BY DEF Scripted
<1>2. s \in Seq(ScriptedBodyStep) /\ b.steps \in Seq(ScriptedBodyStep)
  BY ResponseTypes DEF Bodies
<1>3. CASE b.terminal
  <2>1. c.first = b.first /\ c.terminal = TRUE /\ c.got = b.got
    BY <1>3 DEF Stepped, Bodies
  <2> HIDE DEF c
  <2>2. Follows(c, o, k, open)
    BY <1>1, <1>3, <2>1 DEF Follows
  <2> QED BY <2>2 DEF Scripted, c
<1>4. CASE ~ b.terminal /\ b.steps = <<>>
  <2>1. c.first = b.first /\ c.terminal = TRUE /\ c.got = b.got
    BY <1>4 DEF Stepped, Bodies
  <2>2. k = Len(s)
    <3>1. Left(<<>>, s, k)
      BY <1>1, <1>4 DEF Follows
    <3> QED BY <1>2, <3>1, LeftNothing
  <2> HIDE DEF c
  <2>3. Follows(c, o, k, open)
    BY <1>1, <2>1, <2>2 DEF Follows
  <2> QED BY <2>3 DEF Scripted, c
<1>5. CASE ~ b.terminal /\ b.steps # <<>>
  <2>1. b.first = None /\ Head(b.steps).t # "Gate"
    BY <1>5, HeadOfSteps, ExecutorConstants DEF Ahead
  <2>2. Left(b.steps, s, k)
    BY <1>1, <1>5 DEF Follows
  <2>3. /\ k + 1 \in 1 .. Len(s) /\ k + 1 \in 0 .. Len(s)
        /\ Head(b.steps) = s[k + 1] /\ Left(Tail(b.steps), s, k + 1)
    BY <1>2, <1>5, <2>2, LeftHead
  <2>4. CASE Head(b.steps).t = "Failure"
    <3>1. c.first = b.first /\ c.terminal = TRUE /\ c.got = b.got
      BY <1>5, <2>4 DEF Stepped, Bodies
    <3> HIDE DEF c
    <3>2. Follows(c, o, k, open)
      BY <1>1, <2>3, <2>4, <3>1 DEF Follows
    <3> QED BY <3>2 DEF Scripted, c
  <2>5. CASE Head(b.steps).t \in {"Trailers", "Chunk"}
    <3>1. Passable(s, k + 1, open)
      <4>1. Passable(s, k, open)
        BY <1>1 DEF Follows
      <4> QED BY <2>3, <2>5, <4>1 DEF Passable
    <3>2. c.first = None /\ c.terminal = FALSE /\ c.steps = Tail(b.steps)
      BY <1>5, <2>1, <2>5 DEF Stepped, Bodies
    <3>3. FlattenSeq(c.got) = Flat(Chunks(s), k + 1)
      <4>0. FlattenSeq(b.got) = Flat(Chunks(s), k) /\ (k + 1) - 1 = k
        BY <1>1 DEF Follows
      <4>1. CASE Head(b.steps).t = "Trailers"
        <5>1. c.got = b.got
          BY <1>5, <4>1 DEF Stepped, Bodies
        <5>2. Flat(Chunks(s), k + 1) = Flat(Chunks(s), k)
          BY <1>2, <2>3, <4>0, <4>1, ChunkFlats
        <5> QED BY <4>0, <5>1, <5>2
      <4>2. CASE Head(b.steps).t = "Chunk"
        <5> DEFINE d == Head(b.steps).data
        <5>1. c.got = Append(b.got, d)
          BY <1>5, <4>2 DEF Stepped, Bodies
        <5>2. d \in Bytes /\ b.got \in Seq(Bytes)
          BY <1>5, <4>2, HeadOfSteps DEF Bodies
        <5>3. Chunks(s)[k + 1] = d
          BY <1>2, <2>3, <4>2, ChunkPieces
        <5>4. Flat(Chunks(s), k + 1) = Join(Flat(Chunks(s), k), d)
          BY <1>2, <2>3, <4>0, <5>3, ChunkFlats
        <5> HIDE DEF d
        <5>5. FlattenSeq(Append(b.got, d)) = Join(FlattenSeq(b.got), d)
          BY <5>2, FlattenAppend
        <5> QED BY <4>0, <5>1, <5>4, <5>5
      <4> QED BY <2>5, <4>1, <4>2
    <3> HIDE DEF c
    <3>4. Follows(c, o, k + 1, open)
      BY <1>1, <2>1, <2>3, <3>1, <3>2, <3>3 DEF Follows
    <3> QED BY <2>3, <3>4 DEF Scripted, c
  <2> QED BY <1>5, <2>1, <2>4, <2>5, HeadOfSteps
<1> QED BY <1>3, <1>4, <1>5

\* A gate stays released.
LEMMA OpenGrows ==
    ASSUME ExecInv, WakeInv, [Next]_vars
    PROVE  Open \subseteq Open'
<1>0. gate \in [Gates -> GateStates]
  BY DEF WakeInv, GateTypes
<1>1. CASE gate' = gate
  BY <1>1 DEF Open
<1>2. ASSUME NEW g \in Gates, Release(g) PROVE Open \subseteq Open'
  <2>1. gate' = [gate EXCEPT ![g].released = TRUE, ![g].waker = None]
    BY <1>2 DEF Release
  <2>2. \A h \in Gates : gate[h].released => gate'[h].released
    BY <1>0, <2>1 DEF GateStates
  <2> QED BY <2>2 DEF Open
<1>3. ASSUME NEW e \in Execs, PollGate(e) PROVE Open \subseteq Open'
  <2> DEFINE g == GateAhead(e)
  <2>0. g \in Gates
    <3>1. HasBody(e) /\ g # None /\ g = Ahead(Body(e)) /\ Body(e) \in Bodies
      BY <1>3, Knows DEF PollGate, GateAhead, Ahead
    <3> QED BY <3>1, BodySteps
  <2>1. \/ gate' = [gate EXCEPT ![g].entered = TRUE]
        \/ gate' = [gate EXCEPT ![g].entered = TRUE, ![g].waker = Body(e).task]
    BY <1>3 DEF PollGate, NewWaker
  <2> HIDE DEF g
  <2>2. \A h \in Gates : gate[h].released => gate'[h].released
    BY <1>0, <2>0, <2>1 DEF GateStates
  <2> QED BY <2>2 DEF Open
<1>4. \/ gate' = gate \/ (\E g \in Gates : Release(g)) \/ (\E e \in Execs : PollGate(e))
  <2>1. \A e \in Execs : Runs(e) => gate' = gate
    BY BodiesOfRuns DEF gateVars
  <2>2. \A e \in Execs : PollStep(e) \/ DropBody(e) \/ (\E r \in Readers : StartPoll(e, r)) => gate' = gate
    BY DEF PollStep, DropBody, StartPoll, gateVars
  <2>3. \A g \in Gates : NotifyEntered(g) \/ WaitUntilEntered(g) \/ WaitTimesOut(g) => gate' = gate
    BY DEF NotifyEntered, WaitUntilEntered, WaitTimesOut
  <2>4. \A r \in Readers : Wake(r) => gate' = gate
    BY DEF Wake
  <2>5. \/ \E channel \in Kinds : Install(channel)
        \/ \E answer \in Outcomes : Script(answer) \/ ScriptRepeating(answer)
        \/ SetBodyObserver \/ UNCHANGED vars
        => gate' = gate
    BY DEF Install, Script, ScriptRepeating, SetBodyObserver, vars, gateVars
  <2> QED BY <2>1, <2>2, <2>3, <2>4, <2>5 DEF Next, Runs
<1> QED BY <1>1, <1>2, <1>3, <1>4

LEMMA OkIsResponse ==
    ASSUME NEW x \in Executions, NEW rs, Fine(x, rs), x.pc = "done", x.result.t = "Ok"
    PROVE  x.outcome \in Responses
<1>1. x.outcome # None /\ x.outcome.t = "Response"
  BY DEF Fine, Phase
<1>2. x.outcome \in Option(Outcomes)
  BY Where DEF Finished
<1> QED BY <1>1, <1>2 DEF Option, Responses

LEMMA BodyHasResponse ==
    ASSUME ExecInv, NEW e \in Execs, HasBody(e)
    PROVE  exec[e].outcome \in Responses /\ Body(e) \in Bodies
BY Knows, OkIsResponse DEF HasBody

LEMMA ScriptInvReads ==
    ASSUME ExecInv, WakeInv, ScriptInv, Open \subseteq Open', NEW e \in Execs,
           (\E r \in Readers : StartPoll(e, r)) \/ PollGate(e) \/ PollStep(e) \/ DropBody(e)
    PROVE  ScriptInv'
<1> DEFINE b == Body(e)
           o == exec[e].outcome
<1>1. HasBody(e)
  BY DEF StartPoll, PollGate, PollStep, DropBody
<1>2. b \in Bodies /\ o \in Responses /\ Scripted(b, o, Open)
  BY <1>1, BodyHasResponse DEF ScriptInv
<1>3. PICK c \in Bodies : SetBody(e, c) /\ Scripted(c, o, Open)
  <2>1. CASE \E r \in Readers : StartPoll(e, r)
    <3>1. PICK r \in Readers : StartPoll(e, r)
      BY <2>1
    <3> DEFINE c == [b EXCEPT !.state = "polling", !.task = r]
    <3>2. c \in Bodies /\ c.steps = b.steps /\ c.first = b.first /\ c.terminal = b.terminal /\ c.got = b.got
      BY <1>2 DEF Bodies, Option
    <3>3. SetBody(e, c)
      BY <3>1 DEF StartPoll
    <3> HIDE DEF c, b, o
    <3>4. Scripted(c, o, Open)
      BY <1>2, <3>2, StillFollows
    <3> QED BY <3>2, <3>3, <3>4
  <2>2. CASE DropBody(e)
    <3> DEFINE c == [b EXCEPT !.state = "over"]
    <3>2. c \in Bodies /\ c.steps = b.steps /\ c.first = b.first /\ c.terminal = b.terminal /\ c.got = b.got
      BY <1>2 DEF Bodies
    <3>3. SetBody(e, c)
      BY <2>2 DEF DropBody
    <3> HIDE DEF c, b, o
    <3>4. Scripted(c, o, Open)
      BY <1>2, <3>2, StillFollows
    <3> QED BY <3>2, <3>3, <3>4
  <2>3. CASE PollStep(e)
    <3>1. GateAhead(e) = None /\ GateAhead(e) = Ahead(b)
      BY <2>3 DEF PollStep, GateAhead, Ahead
    <3>2. SetBody(e, Stepped(b))
      BY <2>3 DEF PollStep, Stepped
    <3> HIDE DEF b, o
    <3>3. Stepped(b) \in Bodies
      BY <1>2, <3>1, BodySteps
    <3>4. Scripted(Stepped(b), o, Open)
      BY <1>2, <3>1, StepFollows
    <3> QED BY <3>2, <3>3, <3>4
  <2>4. CASE PollGate(e)
    <3> DEFINE g == Ahead(b)
    <3>1. GateAhead(e) # None /\ GateAhead(e) = g
      BY <2>4 DEF PollGate, GateAhead, Ahead
    <3>2. IF gate[g].released THEN SetBody(e, BehindGate(b)) ELSE SetBody(e, [b EXCEPT !.state = "pending"])
      BY <2>4, <3>1 DEF PollGate
    <3> HIDE DEF b, o
    <3>3. g \in Gates /\ BehindGate(b) \in Bodies
      BY <1>2, <3>1, BodySteps
    <3>4. CASE gate[g].released
      <4>1. g \in Open
        BY <3>3, <3>4 DEF Open
      <4>2. Scripted(BehindGate(b), o, Open)
        BY <1>2, <3>1, <4>1, GatePassed
      <4> QED BY <3>2, <3>3, <3>4, <4>2
    <3>5. CASE ~ gate[g].released
      <4> DEFINE c == [b EXCEPT !.state = "pending"]
      <4>1. c \in Bodies /\ c.steps = b.steps /\ c.first = b.first /\ c.terminal = b.terminal /\ c.got = b.got
        BY <1>2 DEF Bodies
      <4>2. SetBody(e, c)
        BY <3>2, <3>5
      <4> HIDE DEF c
      <4>3. Scripted(c, o, Open)
        BY <1>2, <4>1, StillFollows
      <4> QED BY <4>1, <4>2, <4>3
    <3> QED BY <3>4, <3>5
  <2> QED BY <2>1, <2>2, <2>3, <2>4
<1>4. ASSUME NEW d \in Execs, HasBody(d)'
      PROVE  Scripted(Body(d), exec[d].outcome, Open)'
  <2> DEFINE a == IF d = e THEN c ELSE Body(d)
  <2>1. HasBody(d) /\ Body(d)' = a /\ exec'[d].outcome = exec[d].outcome
    BY <1>1, <1>3, <1>4, BodiesOfSet
  <2>2. Scripted(a, exec[d].outcome, Open)
    BY <1>3, <2>1 DEF ScriptInv
  <2> HIDE DEF a
  <2>3. Scripted(a, exec[d].outcome, Open')
    BY <2>2, StillFollows
  <2> QED BY <2>1, <2>3
<1> QED BY <1>4 DEF ScriptInv

LEMMA ScriptInvNext ==
    ASSUME ExecInv, WakeInv, ScriptInv, ExecInv', [Next]_vars
    PROVE  ScriptInv'
<1>0. Open \subseteq Open'
  BY OpenGrows
<1>a. ASSUME NEW d \in Execs, HasBody(d), exec'[d].outcome = exec[d].outcome, NEW c, Body(d)' = c,
             c.steps = Body(d).steps, c.first = Body(d).first, c.terminal = Body(d).terminal,
             c.got = Body(d).got
      PROVE  Scripted(Body(d), exec[d].outcome, Open)'
  <2>1. Scripted(Body(d), exec[d].outcome, Open)
    BY <1>a DEF ScriptInv
  <2>2. Scripted(c, exec[d].outcome, Open')
    BY <1>0, <1>a, <2>1, StillFollows
  <2> QED BY <1>a, <2>2
<1>b. ASSUME NEW d \in Execs, HasBody(d)', exec'[d] = exec[d]
      PROVE  Scripted(Body(d), exec[d].outcome, Open)'
  <2>1. HasBody(d) /\ Body(d)' = Body(d) /\ exec'[d].outcome = exec[d].outcome
    BY <1>b DEF HasBody, Body
  <2> QED BY <1>a, <2>1
<1>1. ASSUME NEW e \in Execs, Runs(e) PROVE ScriptInv'
  <2>1. ASSUME NEW d \in Execs, HasBody(d)' PROVE Scripted(Body(d), exec[d].outcome, Open)'
    <3>1. CASE d = e
      <4>1. Body(d)' = Native(exec'[d].outcome)
        BY <1>1, <2>1, <3>1, BodiesOfRuns
      <4>2. exec'[d].outcome \in Responses
        BY <2>1, OkIsResponse DEF ExecInv, HasBody
      <4>3. Scripted(Native(exec'[d].outcome), exec'[d].outcome, Open')
        BY <4>2, NativeFollows
      <4> QED BY <4>1, <4>3
    <3>2. CASE d # e
      BY <1>1, <1>b, <2>1, <3>2, BodiesOfRuns
    <3> QED BY <3>1, <3>2
  <2> QED BY <2>1 DEF ScriptInv
<1>2. ASSUME NEW e \in Execs,
             (\E r \in Readers : StartPoll(e, r)) \/ PollGate(e) \/ PollStep(e) \/ DropBody(e)
      PROVE  ScriptInv'
  BY <1>0, <1>2, ScriptInvReads
<1>3. ASSUME NEW r \in Readers, Wake(r) PROVE ScriptInv'
  <2>1. ASSUME NEW d \in Execs, HasBody(d)' PROVE Scripted(Body(d), exec[d].outcome, Open)'
    <3> DEFINE c == IF Body(d).state = "pending" /\ Body(d).task = r
                    THEN [Body(d) EXCEPT !.state = "polling"] ELSE Body(d)
    <3>1. HasBody(d) /\ Body(d)' = c /\ exec'[d].outcome = exec[d].outcome
      BY <1>3, <2>1, BodiesOfWake
    <3>2. Body(d) \in Bodies
      BY <3>1, Knows
    <3>3. c.steps = Body(d).steps /\ c.first = Body(d).first /\ c.terminal = Body(d).terminal /\ c.got = Body(d).got
      BY <3>2 DEF Bodies
    <3> HIDE DEF c
    <3> QED BY <1>a, <3>1, <3>3
  <2> QED BY <2>1 DEF ScriptInv
<1>4. CASE exec' = exec
  <2>1. ASSUME NEW d \in Execs, HasBody(d)' PROVE Scripted(Body(d), exec[d].outcome, Open)'
    BY <1>4, <1>b, <2>1
  <2> QED BY <2>1 DEF ScriptInv
<1>5. ASSUME \/ \E channel \in Kinds : Install(channel)
             \/ \E answer \in Outcomes : Script(answer) \/ ScriptRepeating(answer)
             \/ SetBodyObserver
             \/ \E g \in Gates : Release(g) \/ NotifyEntered(g) \/ WaitUntilEntered(g) \/ WaitTimesOut(g)
             \/ UNCHANGED vars
      PROVE  exec' = exec
  BY <1>5, OtherSteps
<1> QED BY <1>1, <1>2, <1>3, <1>4, <1>5 DEF Next, Runs

LEMMA ScriptInvInit ==
    ASSUME Init
    PROVE  ScriptInv
BY DEF Init, HasBody, ScriptInv

\* Where delivery stops: before the least of the stops, or at the end
StopsAt(o, stops, m) ==
    /\ m \in 0 .. Len(o.steps) /\ \A i \in stops : m < i
    /\ m = Len(o.steps) \/ m + 1 \in stops

LEMMA StopExists ==
    ASSUME NEW o \in Responses, NEW stops \in SUBSET (1 .. Len(o.steps))
    PROVE  \E m : StopsAt(o, stops, m)
<1> DEFINE n == Len(o.steps)
<1>0. n \in Nat
  BY ResponseTypes
<1> HIDE DEF n
<1>1. CASE stops = {}
  <2>1. n \in 0 .. n
    BY <1>0
  <2> QED BY <1>1, <2>1 DEF StopsAt, n
<1>2. CASE stops # {}
  <2>1. stops \subseteq Nat /\ stops \subseteq 1 .. n
    BY <1>0 DEF n
  <2>2. PICK k \in stops : \A i \in stops : ~ (<<i, k>> \in OpToRel(<, Nat))
    BY <1>2, <2>1, NatLessThanWellFounded, WFMin
  <2>3. ASSUME NEW i \in stops PROVE k <= i
    <3>1. i \in Nat /\ k \in Nat
      BY <2>1
    <3>2. ASSUME i < k PROVE FALSE
      <4>1. <<i, k>> \in OpToRel(<, Nat)
        BY <3>1, <3>2 DEF OpToRel
      <4> QED BY <2>2, <4>1
    <3> QED BY <3>1, <3>2
  <2>4. k - 1 \in 0 .. n /\ (k - 1) + 1 = k /\ k \in Nat
    BY <1>0, <2>1
  <2>5. \A i \in stops : k - 1 < i
    BY <2>1, <2>3, <2>4
  <2>6. StopsAt(o, stops, k - 1)
    BY <2>2, <2>4, <2>5 DEF StopsAt, n
  <2> QED BY <2>6
<1> QED BY <1>1, <1>2

LEMMA StopIsUnique ==
    ASSUME NEW o \in Responses, NEW stops, NEW j, StopsAt(o, stops, j), NEW k, StopsAt(o, stops, k)
    PROVE  j = k
<1> DEFINE n == Len(o.steps)
<1>1. n \in Nat
  BY ResponseTypes
<1> HIDE DEF n
<1>2. /\ j \in 0 .. n /\ (\A i \in stops : j < i) /\ (j = n \/ j + 1 \in stops)
      /\ k \in 0 .. n /\ (\A i \in stops : k < i) /\ (k = n \/ k + 1 \in stops)
  BY DEF StopsAt, n
<1>3. ~ (j < k)
  BY <1>1, <1>2
<1>4. ~ (k < j)
  BY <1>1, <1>2
<1> QED BY <1>1, <1>2, <1>3, <1>4

LEMMA DeliverableIs ==
    ASSUME NEW o \in Responses, NEW stops, NEW m, StopsAt(o, stops, m)
    PROVE  Deliverable(o, stops) = Flat(Chunks(o.steps), m)
<1> DEFINE upTo == CHOOSE j \in 0 .. Len(o.steps) : /\ \A i \in stops : j < i
                                                    /\ j = Len(o.steps) \/ j + 1 \in stops
<1>1. m \in 0 .. Len(o.steps) /\ (\A i \in stops : m < i) /\ (m = Len(o.steps) \/ m + 1 \in stops)
  BY DEF StopsAt
<1>2. upTo \in 0 .. Len(o.steps) /\ (\A i \in stops : upTo < i) /\ (upTo = Len(o.steps) \/ upTo + 1 \in stops)
  BY <1>1
<1>3. Deliverable(o, stops)
        = FlattenSeq([i \in 1 .. upTo |-> IF o.steps[i].t = "Chunk" THEN o.steps[i].data ELSE <<>>])
  BY DEF Deliverable
<1> HIDE DEF upTo
<1>4. StopsAt(o, stops, upTo)
  BY <1>2 DEF StopsAt
<1>5. upTo = m
  BY <1>4, StopIsUnique
<1>6. o.steps \in Seq(ScriptedBodyStep) /\ Len(o.steps) \in Nat
  BY ResponseTypes
<1>7. \A i \in 1 .. m : i \in 1 .. Len(o.steps)
  BY <1>1, <1>6
<1>8. \A i \in 1 .. m : Chunks(o.steps)[i] = IF o.steps[i].t = "Chunk" THEN o.steps[i].data ELSE <<>>
  BY <1>6, <1>7, ChunkPieces
<1>9. [i \in 1 .. m |-> IF o.steps[i].t = "Chunk" THEN o.steps[i].data ELSE <<>>]
        = [i \in 1 .. m |-> Chunks(o.steps)[i]]
  BY <1>8
<1> QED BY <1>3, <1>5, <1>9 DEF Flat

\* The bytes that are left, as size_hint counts them
LEMMA BytesLeft ==
    ASSUME NEW steps \in Seq(ScriptedBodyStep), NEW rest \in Seq(ScriptedBodyStep),
           NEW k \in 0 .. Len(steps), Left(rest, steps, k)
    PROVE  Len(Flat(Chunks(steps), k)) + ChunkBytes(rest) = Len(Flat(Chunks(steps), Len(steps)))
<1> DEFINE n == Len(steps)
           D == Chunks(steps)
           S == Chunks(rest)
<1>1. n \in Nat /\ Pieces(D, n, 0 .. 255) /\ Len(rest) = n - k
  BY ChunkPieces DEF Left
<1>2. ASSUME NEW i \in 1 .. n - k PROVE S[i] = D[k + i]
  <2>1. rest[i] = steps[k + i] /\ i \in 1 .. Len(rest) /\ k + i \in 1 .. Len(steps)
    BY <1>1 DEF Left
  <2>2. S[i] = IF rest[i].t = "Chunk" THEN rest[i].data ELSE <<>>
    BY <2>1, ChunkPieces
  <2>3. D[k + i] = IF steps[k + i].t = "Chunk" THEN steps[k + i].data ELSE <<>>
    BY <2>1, ChunkPieces
  <2> QED BY <2>1, <2>2, <2>3
<1>3. ChunkBytes(rest) = Len(Flat(S, n - k))
  <2>1. DOMAIN rest = 1 .. n - k
    BY <1>1
  <2>2. S = [i \in 1 .. n - k |-> S[i]]
    BY <2>1 DEF Chunks
  <2>3. ChunkBytes(rest) = Len(FlattenSeq(S))
    BY DEF ChunkBytes, Chunks
  <2> HIDE DEF S
  <2> QED BY <2>2, <2>3 DEF Flat
<1> HIDE DEF n, D, S
<1>4. k \in 0 .. n
  BY DEF n
<1>5. Len(Flat(D, k)) + Len(Flat(S, n - k)) = Len(Flat(D, n))
  <2>1. n \in Nat /\ Pieces(D, n, 0 .. 255)
    BY <1>1
  <2> QED BY <1>2, <1>4, <2>1, FlatSplits
<1> QED BY <1>3, <1>5 DEF n, D

LEMMA BeginsIsPrefix ==
    ASSUME NEW X, NEW s \in Seq(X), NEW part \in Seq(X), Begins(s, part)
    PROVE  IsPrefix(part, s)
<1> DEFINE m == Len(part)
           a == SubSeq(part, 1, m)
           c == SubSeq(s, 1, m)
<1>1. m \in Nat /\ m <= Len(s) /\ \A i \in 1 .. m : s[i] = part[i]
  BY DEF Begins
<1>2. a \in Seq(X) /\ c \in Seq(X) /\ Len(a) = m /\ Len(c) = m
  BY <1>1
<1>3. \A i \in 1 .. m : a[i] = part[i] /\ c[i] = s[i]
  BY <1>1
<1>4. a = c
  <2> HIDE DEF a, c, m
  <2> QED BY <1>1, <1>2, <1>3
<1> QED BY <1>1, <1>4 DEF IsPrefix

LEMMA PropertyOfBodies ==
    ASSUME ExecInv, WakeInv, ScriptInv
    PROVE  BodyAsScripted
<1> SUFFICES ASSUME NEW e \in Execs, HasBody(e)
             PROVE  LET o == exec[e].outcome
                        got == FlattenSeq(Body(e).got)
                        all == Deliverable(o, Failures(o))
                        hint == size_hint(Body(e))
                    IN  /\ IF o.gate # None /\ ~ gate[o.gate].released THEN got = <<>>
                           ELSE IsPrefix(got, Deliverable(o, Stops(o)))
                        /\ is_end_stream(Body(e)) => got = all
                        /\ Len(got) + hint.lower <= Len(all) /\ Len(all) <= Len(got) + hint.upper
  BY DEF BodyAsScripted
<1> DEFINE o == exec[e].outcome
           b == Body(e)
           s == o.steps
           n == Len(s)
           F(k) == Flat(Chunks(s), k)
           got == FlattenSeq(b.got)
           all == Deliverable(o, Failures(o))
<1>1. o \in Responses /\ b \in Bodies /\ Scripted(b, o, Open)
  BY BodyHasResponse DEF ScriptInv
<1> HIDE DEF o, b
<1>2. PICK k \in 0 .. n : Follows(b, o, k, Open)
  BY <1>1 DEF Scripted
<1>3. s \in Seq(ScriptedBodyStep) /\ n \in Nat /\ o.gate \in Option(Gates) /\ b.steps \in Seq(ScriptedBodyStep)
  BY <1>1, ResponseTypes DEF Bodies
<1>4. DOMAIN s = 1 .. n /\ Stops(o) \in SUBSET (1 .. n) /\ Failures(o) \in SUBSET (1 .. n)
  BY <1>3 DEF Stops, Failures
<1>5. got = F(k) /\ Passable(s, k, Open)
  BY <1>2 DEF Follows
<1>6. /\ F(0) = <<>> /\ \A i \in 0 .. n : F(i) \in Seq(0 .. 255)
      /\ \A i, j \in 0 .. n : i <= j => Begins(F(j), F(i))
  BY <1>3, ChunkFlats
<1>7. \A i \in Stops(o) \cup Failures(o) : k < i
  <2>1. ASSUME NEW i \in Stops(o) \cup Failures(o), ~ (k < i) PROVE FALSE
    <3>1. i \in 1 .. k /\ i \in 1 .. n
      BY <1>3, <1>4, <2>1
    <3>2. s[i].t # "Failure" /\ (s[i].t = "Gate" => s[i].gate \in Open)
      BY <1>5, <3>1 DEF Passable
    <3> QED BY <2>1, <3>2 DEF Stops, Failures, Open
  <2> QED BY <2>1
<1> HIDE DEF F, n
<1>8. PICK p : StopsAt(o, Stops(o), p)
  BY <1>1, <1>4, StopExists DEF n
<1>9. PICK f : StopsAt(o, Failures(o), f)
  BY <1>1, <1>4, StopExists DEF n
<1>10. Deliverable(o, Stops(o)) = F(p) /\ all = F(f)
  BY <1>1, <1>8, <1>9, DeliverableIs DEF F
<1>11. p \in 0 .. n /\ f \in 0 .. n /\ k <= p /\ k <= f
  BY <1>3, <1>7, <1>8, <1>9 DEF StopsAt, n
<1>12. Begins(F(p), F(k)) /\ Begins(F(f), F(k)) /\ Begins(F(n), F(f))
  <2>1. n \in 0 .. n /\ f <= n
    BY <1>3, <1>11
  <2> QED BY <1>6, <1>11, <2>1
<1>13. IF o.gate # None /\ ~ gate[o.gate].released THEN got = <<>>
       ELSE IsPrefix(got, Deliverable(o, Stops(o)))
  <2>1. CASE o.gate # None /\ ~ gate[o.gate].released
    <3>1. o.gate \notin Open
      BY <2>1 DEF Open
    <3>2. k = 0
      BY <1>2, <2>1, <3>1 DEF Follows
    <3> QED BY <1>5, <1>6, <2>1, <3>2
  <2>2. IsPrefix(got, Deliverable(o, Stops(o)))
    <3>1. Begins(F(p), F(k)) /\ F(p) \in Seq(0 .. 255) /\ F(k) \in Seq(0 .. 255)
      BY <1>6, <1>11, <1>12
    <3>2. IsPrefix(F(k), F(p))
      BY <3>1, BeginsIsPrefix
    <3> QED BY <1>5, <1>10, <3>2
  <2> QED BY <2>1, <2>2
<1>14. is_end_stream(b) => got = all
  <2> SUFFICES ASSUME is_end_stream(b) PROVE k = f
    BY <1>5, <1>10
  <2>1. k = n \/ k + 1 \in Failures(o)
    <3>1. CASE b.terminal
      <4>1. k = n \/ s[k + 1].t = "Failure"
        BY <1>2, <3>1 DEF Follows, n
      <4>2. k # n => k + 1 \in 1 .. n
        BY <1>3
      <4> QED BY <1>4, <4>1, <4>2 DEF Failures
    <3>2. CASE ~ b.terminal
      <4>1. Left(<<>>, s, k)
        BY <1>2, <3>2 DEF Follows, is_end_stream
      <4> QED BY <1>3, <4>1, LeftNothing DEF n
    <3> QED BY <3>1, <3>2
  <2>2. StopsAt(o, Failures(o), k)
    BY <1>7, <2>1 DEF StopsAt, n
  <2> QED BY <1>1, <1>9, <2>2, StopIsUnique
<1>15. Len(got) + size_hint(b).lower <= Len(all) /\ Len(all) <= Len(got) + size_hint(b).upper
  <2>0. Len(F(k)) \in Nat /\ Len(F(f)) \in Nat /\ Len(F(n)) \in Nat /\ Len(F(k)) <= Len(F(f)) /\ Len(F(f)) <= Len(F(n))
    <3>1. n \in 0 .. n
      BY <1>3
    <3>2. F(k) \in Seq(0 .. 255) /\ F(f) \in Seq(0 .. 255) /\ F(n) \in Seq(0 .. 255)
      BY <1>6, <1>11, <3>1
    <3> QED BY <1>12, <3>2 DEF Begins
  <2>1. CASE b.terminal
    <3>1. size_hint(b).lower = 0 /\ size_hint(b).upper = 0
      BY <2>1 DEF size_hint
    <3>2. got = all
      BY <1>14, <2>1 DEF is_end_stream
    <3> QED BY <1>5, <2>0, <3>1, <3>2
  <2>2. CASE ~ b.terminal
    <3> DEFINE length == ChunkBytes(b.steps)
               fails == \E i \in DOMAIN b.steps : b.steps[i].t = "Failure"
    <3>1. size_hint(b).upper = length /\ size_hint(b).lower = IF fails THEN 0 ELSE length
      BY <2>2 DEF size_hint
    <3>2. Left(b.steps, s, k)
      BY <1>2, <2>2 DEF Follows
    <3>3. Len(F(k)) + length = Len(F(n))
      BY <1>3, <3>2, BytesLeft DEF F, n
    <3>4. CASE fails
      <4> HIDE DEF length, fails
      <4> QED BY <1>5, <1>10, <2>0, <3>1, <3>3, <3>4
    <3>5. CASE ~ fails
      <4>1. ASSUME NEW i \in Failures(o) PROVE FALSE
        <5>1. k < i /\ i \in 1 .. n /\ s[i].t = "Failure"
          BY <1>4, <1>7 DEF Failures
        <5> DEFINE j == i - k
        <5>2. j \in 1 .. n - k /\ k + j = i
          BY <1>3, <5>1
        <5> HIDE DEF j
        <5>3. b.steps[j] = s[i] /\ Len(b.steps) = n - k
          BY <3>2, <5>2 DEF Left, n
        <5>4. j \in DOMAIN b.steps
          BY <1>3, <5>2, <5>3
        <5> QED BY <3>5, <5>1, <5>3, <5>4
      <4>2. f = n
        BY <1>9, <4>1 DEF StopsAt, n
      <4> HIDE DEF length, fails
      <4> QED BY <1>5, <1>10, <2>0, <3>1, <3>3, <3>5, <4>2
    <3> QED BY <3>4, <3>5
  <2> QED BY <2>1, <2>2
<1> QED BY <1>13, <1>14, <1>15 DEF o, b

\* Readers get the scripted bytes in order, none from behind a gate that is not released
\* or a failure, all of them before the end, and size_hint is right throughout, for
\* scripts of any length and however tasks poll and gates are released.
THEOREM BodiesFollowTheScript == Spec => []BodyAsScripted
<1>1. ExecInv /\ WakeInv /\ ScriptInv => BodyAsScripted
  BY PropertyOfBodies
<1>2. Init => ExecInv /\ WakeInv /\ ScriptInv
  BY ExecInvInit, WakeInvInit, ScriptInvInit
<1>3. ExecInv /\ WakeInv /\ ScriptInv /\ [Next]_vars => (ExecInv /\ WakeInv /\ ScriptInv)'
  BY ExecInvNext, WakeInvNext, ScriptInvNext
<1> QED BY <1>1, <1>2, <1>3, PTL DEF Spec

-----------------------------------------------------------------------------
(* DriveExecutions                                                          *)

USE RequirementsAssumption, RefreshableAssumption, GenerationAssumption

UseSet == [credential : Credentials, gen : Nat]

Shapes ==
    /\ slot \in [Credentials -> [gen : Nat, live : BOOLEAN]]
    /\ recipe \in [DriveRequests -> Recipes]
    /\ DOMAIN pc = DriveRequests /\ DOMAIN outcome = DriveRequests /\ DOMAIN status = DriveRequests
    /\ applied \in [DriveRequests -> Seq(Nat)]
    /\ plan \in [DriveRequests -> SUBSET Nat]
    /\ todo \in [DriveRequests -> SUBSET Nat]
    /\ then \in [DriveRequests -> {"none", "resend", "status", "rejected"}]
    /\ budget \in [DriveRequests -> BOOLEAN]
    /\ count \in [DriveRequests -> [bodies : Nat, sends : Nat]]
    /\ first \in [DriveRequests -> SUBSET UseSet]
    /\ settled \subseteq UseSet

\* The requirements of a request name credentials.
LEMMA Requirement ==
    ASSUME NEW r \in DriveRequests
    PROVE  /\ Len(Requirements[r]) \in Nat
           /\ \A i \in Uses(r) : CredentialOf(r, i) \in Credentials
<1>1. Requirements[r] \in Seq(AuthRequirement)
  BY DEF AuthRequirement
<1>2. \A i \in 1 .. Len(Requirements[r]) : Requirements[r][i] \in AuthRequirement
  BY <1>1
<1> QED BY <1>1, <1>2 DEF Uses, CredentialOf, AuthRequirement

\* A plan acts on uses of the request, and is followed by one of three things.
LEMMA PlanShape ==
    ASSUME NEW r \in DriveRequests, Shapes
    PROVE  /\ RejectionPlan(r) \subseteq Uses(r) /\ Uses(r) \subseteq Nat
           /\ AfterRejection(r) \in {"resend", "status", "rejected"}
           /\ AfterRejection(r) = "resend" => IsReplayable(r) /\ ~budget[r]
<1>1. RejectionPlan(r) \subseteq Uses(r) /\ Uses(r) \subseteq Nat
  BY Requirement DEF RejectionPlan, Uses
<1>2. budget[r] \in BOOLEAN
  BY DEF Shapes
<1> QED BY <1>1, <1>2 DEF AfterRejection

\* A slot that moves to the next generation keeps its type.
LEMMA NextGeneration ==
    ASSUME NEW c \in Credentials, NEW b \in BOOLEAN,
           slot \in [Credentials -> [gen : Nat, live : BOOLEAN]],
           slot' = [slot EXCEPT ![c] = [gen |-> slot[c].gen + 1, live |-> b]]
    PROVE  slot' \in [Credentials -> [gen : Nat, live : BOOLEAN]]
<1>1. slot[c].gen \in Nat
  OBVIOUS
<1>2. slot[c].gen + 1 \in Nat
  BY <1>1
<1>3. [gen |-> slot[c].gen + 1, live |-> b] \in [gen : Nat, live : BOOLEAN]
  BY <1>2
<1> QED BY <1>3

\* The initial state has the types of Shapes.
LEMMA ShapesInit == DriveInit => Shapes
BY DEF DriveInit, Shapes

\* Returning from drive_executions keeps the types.
LEMMA FinishShapes ==
    ASSUME Shapes, NEW r \in DriveRequests, NEW o, Finish(r, o),
           slot' \in [Credentials -> [gen : Nat, live : BOOLEAN]], settled' \subseteq UseSet
    PROVE  Shapes'
BY DEF Shapes, Finish

\* Going on to the next await keeps the types.
LEMMA ContinueShapes ==
    ASSUME Shapes, NEW r \in DriveRequests, NEW l, Continue(r, l), UNCHANGED <<slot, settled>>
    PROVE  Shapes'
BY DEF Shapes, Continue, Goto, localVars

\* What a plan has dealt with is a set of credential uses.
LEMMA DealtShape ==
    ASSUME Shapes, NEW r \in DriveRequests, plan[r] \subseteq 1 .. Len(applied[r]),
           plan[r] \subseteq Uses(r)
    PROVE  Dealt(r) \subseteq UseSet
<1> SUFFICES ASSUME NEW i \in plan[r] PROVE Use(CredentialOf(r, i), applied[r][i]) \in UseSet
  BY DEF Dealt
<1>1. applied[r][i] \in Nat
  BY DEF Shapes
<1> QED BY <1>1, Requirement DEF Use, UseSet
-----------------------------------------------------------------------------
(* The phases of one request                                               *)

Prepared == {"permit", "preSend", "send", "observe", "classify", "readBody"}

Allowed(r) == IF budget[r] THEN 2 ELSE 1

\* Where a request is determines what it has leased, planned, built and sent.
DrivePhase(r) ==
    /\ Len(applied[r]) <= Len(Requirements[r])
    /\ plan[r] \subseteq Uses(r) /\ todo[r] \subseteq plan[r]
    /\ plan[r] # {} => Len(applied[r]) = Len(Requirements[r])
    /\ pc[r] \in Prepared => Len(applied[r]) = Len(Requirements[r])
    /\ pc[r] \in Prepared \cup {"prepare"} => plan[r] = {} /\ then[r] # "resend"
    /\ pc[r] = "preflight" /\ then[r] # "resend" => plan[r] = {} /\ count[r].bodies = 0
    /\ then[r] = "resend" => budget[r] /\ count[r].bodies <= 1
    /\ budget[r] => IsReplayable(r)
    /\ outcome[r] # "consumed"
    /\ count[r].sends <= count[r].bodies /\ count[r].bodies <= Allowed(r)
    /\ pc[r] = "prepare" => count[r].bodies < Allowed(r)
    /\ pc[r] \in {"permit", "preSend"} => count[r].sends < count[r].bodies

PhaseInv == Shapes /\ \A r \in DriveRequests : DrivePhase(r)

\* What a step leaves alone of a request
Same(q) ==
    /\ recipe'[q] = recipe[q] /\ pc'[q] = pc[q] /\ outcome'[q] = outcome[q]
    /\ applied'[q] = applied[q] /\ status'[q] = status[q] /\ plan'[q] = plan[q]
    /\ todo'[q] = todo[q] /\ then'[q] = then[q] /\ budget'[q] = budget[q]
    /\ count'[q] = count[q] /\ first'[q] = first[q]

\* A request that a step leaves alone stays in its phase.
LEMMA SameKeepsPhase ==
    ASSUME NEW q \in DriveRequests, DrivePhase(q), Same(q)
    PROVE  DrivePhase(q)'
BY DEF DrivePhase, Same, Allowed, IsReplayable

\* A step of one request leaves the others alone.
LEMMA OthersStay ==
    ASSUME Shapes, NEW r \in DriveRequests, DriveExecutions(r) \/ Cancel(r)
    PROVE  \A q \in DriveRequests \ {r} : Same(q)
<1>1. ASSUME NEW o, Finish(r, o) PROVE \A q \in DriveRequests \ {r} : Same(q)
  BY <1>1 DEF Finish, Same, Shapes
<1>2. ASSUME NEW l, Continue(r, l) PROVE \A q \in DriveRequests \ {r} : Same(q)
  BY <1>2 DEF Continue, Goto, localVars, Same, Shapes
<1>3. ASSUME NEW f, NEW l, Tick(r, f, l) PROVE \A q \in DriveRequests \ {r} : Same(q)
  BY <1>3 DEF Tick, Goto, localVars, Same, Shapes
<1>4. ASSUME PreflightFails(r) \/ Preflight(r) \/ PrepareFails(r) \/ ProduceBody(r)
             \/ ProduceFails(r) \/ AcquirePermit(r) \/ SendBuiltRequest(r) \/ TransportFails(r)
             \/ Observe(r) \/ ClassifyStatus(r) \/ ReadBody(r) \/ Cancel(r)
      PROVE  \A q \in DriveRequests \ {r} : Same(q)
  BY <1>1, <1>2, <1>3, <1>4 DEF PreflightFails, Preflight, PrepareFails, ProduceBody,
     ProduceFails, AcquirePermit, SendBuiltRequest, TransportFails, Observe, ClassifyStatus,
     ReadBody, Cancel, Fail
<1>5. ASSUME PrepareBinding(r) PROVE \A q \in DriveRequests \ {r} : Same(q)
  BY <1>5 DEF PrepareBinding, Same, Shapes
<1>6. ASSUME NEW s, Respond(r, s) PROVE \A q \in DriveRequests \ {r} : Same(q)
  BY <1>6 DEF Respond, Goto, Same, Shapes
<1>7. ASSUME ClassifyChallenge(r) PROVE \A q \in DriveRequests \ {r} : Same(q)
  BY <1>7 DEF ClassifyChallenge, Goto, Same, Shapes
<1>8. ASSUME NEW i, ApplyAction(r, i) PROVE \A q \in DriveRequests \ {r} : Same(q)
  BY <1>8 DEF ApplyAction, Goto, Same, Shapes
<1>9. ASSUME NEW i, ApplyOverflows(r, i) PROVE \A q \in DriveRequests \ {r} : Same(q)
  BY <1>1, <1>9 DEF ApplyOverflows, Fail
<1>10. ASSUME ProviderInvalidated(r) \/ ProviderInvalidateFails(r)
       PROVE  \A q \in DriveRequests \ {r} : Same(q)
  BY <1>1, <1>2, <1>10 DEF ProviderInvalidated, ProviderInvalidateFails, Fail
<1>11. ASSUME ConcludePlan(r) PROVE \A q \in DriveRequests \ {r} : Same(q)
  <2>1. ASSUME Resend(r) PROVE \A q \in DriveRequests \ {r} : Same(q)
    BY <2>1 DEF Resend, Goto, Same, Shapes
  <2> QED BY <1>1, <1>11, <2>1 DEF ConcludePlan
<1> QED
  BY <1>4, <1>5, <1>6, <1>7, <1>8, <1>9, <1>10, <1>11
  DEF DriveExecutions, Execution, ApplyRejectionPlan

\* Returning from drive_executions leaves no lease and no plan behind.
LEMMA FinishPhase ==
    ASSUME Shapes, NEW r \in DriveRequests, DrivePhase(r), NEW o, o # "consumed", Finish(r, o)
    PROVE  DrivePhase(r)'
<1>1. /\ pc'[r] = "done" /\ outcome'[r] = o /\ applied'[r] = <<>> /\ plan'[r] = {}
      /\ todo'[r] = {} /\ then'[r] = "none" /\ UNCHANGED <<recipe, budget, count>>
  BY DEF Finish, Shapes
<1>2. Len(Requirements[r]) \in Nat /\ Len(<<>>) = 0
  BY Requirement
<1> QED BY <1>1, <1>2 DEF DrivePhase, Prepared, Allowed, IsReplayable

\* The plan of a request names uses that it has leased.
LEMMA PlannedIsApplied ==
    ASSUME NEW r \in DriveRequests, DrivePhase(r)
    PROVE  plan[r] \subseteq 1 .. Len(applied[r])
BY Requirement DEF DrivePhase, Uses

\* Every step keeps every request in its phase.
LEMMA PhaseStep == PhaseInv /\ [DriveNext]_driveVars => PhaseInv'
<1> SUFFICES ASSUME PhaseInv, [DriveNext]_driveVars
             PROVE  PhaseInv'
  OBVIOUS
<1>s. Shapes /\ \A q \in DriveRequests : DrivePhase(q)
  BY DEF PhaseInv
<1>r. ASSUME NEW r \in DriveRequests, DriveExecutions(r) \/ Cancel(r), Shapes', DrivePhase(r)'
      PROVE  PhaseInv'
  BY <1>r, <1>s, OthersStay, SameKeepsPhase DEF PhaseInv
\* The request returns
<1>f. ASSUME NEW r \in DriveRequests, NEW o, o # "consumed", Finish(r, o),
             slot' \in [Credentials -> [gen : Nat, live : BOOLEAN]],
             settled' \in {settled, settled \cup Dealt(r)}
      PROVE  Shapes' /\ DrivePhase(r)'
  <2>1. plan[r] \subseteq 1 .. Len(applied[r]) /\ plan[r] \subseteq Uses(r)
    BY <1>s, PlannedIsApplied DEF DrivePhase
  <2>2. Dealt(r) \subseteq UseSet
    BY <1>s, <2>1, DealtShape
  <2>3. settled' \subseteq UseSet
    BY <1>s, <1>f, <2>2 DEF Shapes
  <2> QED BY <1>s, <1>f, <2>3, FinishShapes, FinishPhase
<1>l. slot \in [Credentials -> [gen : Nat, live : BOOLEAN]]
  BY <1>s DEF Shapes
<1>1. ASSUME NEW r \in DriveRequests,
             \/ PreflightFails(r) \/ ProduceFails(r) \/ TransportFails(r) \/ ReadBody(r)
             \/ Cancel(r) \/ ProviderInvalidateFails(r) \/ (\E i \in Uses(r) : ApplyOverflows(r, i))
      PROVE  Shapes' /\ DrivePhase(r)'
  BY <1>1, <1>f, <1>l DEF PreflightFails, ProduceFails, TransportFails, ReadBody, Cancel,
                          ProviderInvalidateFails, ApplyOverflows, Fail, history
<1>2. ASSUME NEW r \in DriveRequests, PrepareFails(r)
      PROVE  Shapes' /\ DrivePhase(r)'
  <2>1. slot' \in [Credentials -> [gen : Nat, live : BOOLEAN]]
    <3> DEFINE c == CredentialOf(r, NextUse(r))
    <3>1. c \in Credentials
      BY <1>2, Requirement DEF PrepareFails
    <3>2. \/ UNCHANGED slot
          \/ slot' = [slot EXCEPT ![c] = [gen |-> slot[c].gen + 1, live |-> FALSE]]
      BY <1>2 DEF PrepareFails
    <3> QED BY <1>l, <3>1, <3>2, NextGeneration
  <2> QED BY <1>2, <1>f, <2>1 DEF PrepareFails, Fail, history
\* The request goes on and only its pc changes
<1>c. ASSUME NEW r \in DriveRequests, NEW m, Continue(r, m), UNCHANGED <<slot, history>>,
             m \in Prepared => Len(applied[r]) = Len(Requirements[r]),
             m \in Prepared \cup {"prepare"} => plan[r] = {} /\ then[r] # "resend",
             m # "preflight",
             m = "prepare" => count[r].bodies < Allowed(r),
             m \in {"permit", "preSend"} => count[r].sends < count[r].bodies
      PROVE  Shapes' /\ DrivePhase(r)'
  <2>1. Shapes'
    BY <1>s, <1>c, ContinueShapes DEF history
  <2>2. /\ pc'[r] = m /\ UNCHANGED <<recipe, outcome, applied, plan, todo, then, budget, count>>
    BY <1>s, <1>c DEF Continue, Goto, localVars, Shapes
  <2>3. DrivePhase(r)
    BY <1>s
  <2> QED BY <1>c, <2>1, <2>2, <2>3 DEF DrivePhase, Allowed, IsReplayable
<1>3. ASSUME NEW r \in DriveRequests, Preflight(r)
      PROVE  Shapes' /\ DrivePhase(r)'
  <2>1. then[r] # "resend" => plan[r] = {} /\ count[r].bodies < Allowed(r)
    BY <1>s, <1>3 DEF Preflight, DrivePhase, Allowed
  <2> QED BY <1>3, <1>c, <2>1 DEF Preflight, Prepared
<1>4. ASSUME NEW r \in DriveRequests, PrepareBinding(r)
      PROVE  Shapes' /\ DrivePhase(r)'
  <2>1. PICK g \in Nat : /\ applied' = [applied EXCEPT ![r] = Append(@, g)]
                         /\ slot' = [slot EXCEPT ![CredentialOf(r, NextUse(r))] =
                                        [gen |-> g, live |-> TRUE]]
    <3> DEFINE c == CredentialOf(r, NextUse(r))
               h == IF slot[c].live THEN slot[c].gen ELSE slot[c].gen + 1
    <3>1. c \in Credentials
      BY <1>4, Requirement DEF PrepareBinding
    <3>2. slot[c].gen \in Nat
      BY <1>l, <3>1
    <3>3. h \in Nat
      BY <3>2
    <3>4. /\ applied' = [applied EXCEPT ![r] = Append(@, h)]
          /\ slot' = [slot EXCEPT ![c] = [gen |-> h, live |-> TRUE]]
      BY <1>4 DEF PrepareBinding
    <3> QED BY <3>3, <3>4
  <2>2. Len(applied[r]) + 1 <= Len(Requirements[r])
    BY <1>s, <1>4, Requirement DEF PrepareBinding, NextUse, Uses, Shapes
  <2>3. applied[r] \in Seq(Nat) /\ applied'[r] = Append(applied[r], g)
    BY <1>s, <2>1 DEF Shapes
  <2>4. Len(applied'[r]) = Len(applied[r]) + 1 /\ applied'[r] \in Seq(Nat)
    BY <2>3
  <2>5. applied' \in [DriveRequests -> Seq(Nat)]
    BY <1>s, <2>1, <2>4 DEF Shapes
  <2>8. slot' \in [Credentials -> [gen : Nat, live : BOOLEAN]]
    BY <1>l, <2>1
  <2>6. Shapes'
    BY <1>s, <1>4, <2>5, <2>8 DEF PrepareBinding, Shapes, history
  <2>7. pc[r] = "prepare" /\ UNCHANGED <<recipe, pc, outcome, plan, todo, then, budget, count>>
    BY <1>4 DEF PrepareBinding
  <2> QED BY <1>s, <2>2, <2>4, <2>6, <2>7 DEF DrivePhase, Prepared, Allowed, IsReplayable
\* A body is built or sent
<1>t. ASSUME NEW r \in DriveRequests, NEW f \in {"bodies", "sends"}, NEW m, Tick(r, f, m),
             UNCHANGED <<slot, history>>
      PROVE  /\ Shapes' /\ pc'[r] = m
             /\ UNCHANGED <<recipe, outcome, applied, plan, todo, then, budget>>
             /\ count'[r] = [count[r] EXCEPT ![f] = @ + 1]
  <2>1. count' \in [DriveRequests -> [bodies : Nat, sends : Nat]]
    <3>1. count[r] \in [bodies : Nat, sends : Nat]
      BY <1>s DEF Shapes
    <3>2. [count[r] EXCEPT ![f] = @ + 1] \in [bodies : Nat, sends : Nat]
      BY <3>1
    <3>3. count' = [count EXCEPT ![r] = [count[r] EXCEPT ![f] = @ + 1]]
      BY <1>t DEF Tick
    <3> QED BY <1>s, <3>2, <3>3 DEF Shapes
  <2> QED BY <1>s, <1>t, <2>1 DEF Tick, Goto, localVars, history, Shapes
<1>5. ASSUME NEW r \in DriveRequests, ProduceBody(r)
      PROVE  Shapes' /\ DrivePhase(r)'
  <2>1. Len(applied[r]) = Len(Requirements[r])
    BY <1>s, <1>5, Requirement DEF ProduceBody, NextUse, Uses, Shapes, DrivePhase
  <2>2. pc[r] = "prepare" /\ count[r].bodies < Allowed(r) /\ plan[r] = {}
    BY <1>s, <1>5 DEF ProduceBody, DrivePhase
  <2>3. count[r] \in [bodies : Nat, sends : Nat]
    BY <1>s DEF Shapes
  <2>8. budget[r] \in BOOLEAN /\ (budget[r] => IsReplayable(r))
    BY <1>s DEF Shapes, DrivePhase
  <2>9. ~IsReplayable(r) => ~(count[r].bodies > 0)
    BY <2>2, <2>3, <2>8 DEF Allowed
  <2>4. Tick(r, "bodies", "permit") /\ UNCHANGED <<slot, history>>
    BY <1>5, <2>9 DEF ProduceBody
  <2>5. /\ Shapes' /\ pc'[r] = "permit"
        /\ UNCHANGED <<recipe, outcome, applied, plan, todo, then, budget>>
        /\ count'[r] = [count[r] EXCEPT !["bodies"] = @ + 1]
    BY <1>t, <2>4
  <2>6. count'[r].bodies = count[r].bodies + 1 /\ count'[r].sends = count[r].sends
    BY <2>3, <2>5
  <2>7. then[r] # "resend"
    BY <1>s, <1>5 DEF ProduceBody, DrivePhase
  <2> QED BY <1>s, <2>1, <2>2, <2>3, <2>5, <2>6, <2>7
          DEF DrivePhase, Prepared, Allowed, IsReplayable
<1>6. ASSUME NEW r \in DriveRequests, AcquirePermit(r)
      PROVE  Shapes' /\ DrivePhase(r)'
  BY <1>6, <1>c, <1>f, <1>l, <1>s DEF AcquirePermit, Fail, DrivePhase, Prepared, history
<1>7. ASSUME NEW r \in DriveRequests, SendBuiltRequest(r)
      PROVE  Shapes' /\ DrivePhase(r)'
  <2>1. CASE Fail(r)
    BY <1>7, <1>f, <1>l, <2>1 DEF SendBuiltRequest, Fail, history
  <2>2. CASE Tick(r, "sends", "send")
    <3>1. count[r] \in [bodies : Nat, sends : Nat] /\ count[r].sends < count[r].bodies
          /\ pc[r] = "preSend"
      BY <1>s, <1>7 DEF SendBuiltRequest, Shapes, DrivePhase
    <3>2. /\ Shapes' /\ pc'[r] = "send"
          /\ UNCHANGED <<recipe, outcome, applied, plan, todo, then, budget>>
          /\ count'[r] = [count[r] EXCEPT !["sends"] = @ + 1]
      BY <1>t, <1>7, <2>2 DEF SendBuiltRequest
    <3>3. count'[r].bodies = count[r].bodies /\ count'[r].sends = count[r].sends + 1
      BY <3>1, <3>2
    <3> QED BY <1>s, <3>1, <3>2, <3>3 DEF DrivePhase, Prepared, Allowed, IsReplayable
  <2> QED BY <1>7, <2>1, <2>2 DEF SendBuiltRequest
<1>8. ASSUME NEW r \in DriveRequests, NEW s \in Statuses, Respond(r, s)
      PROVE  Shapes' /\ DrivePhase(r)'
  <2>1. /\ pc[r] = "send" /\ pc'[r] = "observe"
        /\ UNCHANGED <<recipe, outcome, applied, plan, todo, then, budget, count>>
    BY <1>s, <1>8 DEF Respond, Goto, Shapes
  <2>2. Shapes'
    BY <1>s, <1>8 DEF Respond, Goto, Shapes
  <2> QED BY <1>s, <2>1, <2>2 DEF DrivePhase, Prepared, Allowed, IsReplayable
<1>9. ASSUME NEW r \in DriveRequests, Observe(r)
      PROVE  Shapes' /\ DrivePhase(r)'
  BY <1>9, <1>c, <1>f, <1>l, <1>s DEF Observe, Fail, DrivePhase, Prepared, history
<1>10. ASSUME NEW r \in DriveRequests, ClassifyChallenge(r)
       PROVE  Shapes' /\ DrivePhase(r)'
  <2>0. /\ RejectionPlan(r) \in SUBSET Nat
        /\ AfterRejection(r) \in {"none", "resend", "status", "rejected"}
    BY <1>s, PlanShape
  <2>7. /\ plan' \in [DriveRequests -> SUBSET Nat] /\ todo' \in [DriveRequests -> SUBSET Nat]
        /\ then' \in [DriveRequests -> {"none", "resend", "status", "rejected"}]
    BY <1>s, <1>10, <2>0 DEF ClassifyChallenge, Shapes
  <2>8. budget' \in [DriveRequests -> BOOLEAN]
    BY <1>s, <1>10 DEF ClassifyChallenge, Shapes
  <2>1. Shapes'
    BY <1>s, <1>10, <2>7, <2>8 DEF ClassifyChallenge, Goto, Shapes, history
  <2>2. /\ pc[r] = "classify" /\ pc'[r] \in {"preflight", "apply"}
        /\ pc'[r] = "preflight" => then'[r] = "resend"
        /\ plan'[r] = RejectionPlan(r) /\ todo'[r] = RejectionPlan(r)
        /\ then'[r] = AfterRejection(r)
        /\ budget'[r] = (budget[r] \/ AfterRejection(r) = "resend")
        /\ UNCHANGED <<recipe, outcome, applied, count>>
    BY <1>s, <1>10 DEF ClassifyChallenge, Goto, Shapes
  <2>3. count[r] \in [bodies : Nat, sends : Nat] /\ budget[r] \in BOOLEAN
    BY <1>s DEF Shapes
  <2>4. /\ RejectionPlan(r) \subseteq Uses(r)
        /\ AfterRejection(r) = "resend" => IsReplayable(r) /\ ~budget[r]
    BY <1>s, PlanShape
  <2>5. CASE AfterRejection(r) = "resend"
    <3>1. DrivePhase(r)
      BY <1>s
    <3>2. count[r].bodies <= 1 /\ budget'[r] /\ then'[r] = "resend" /\ pc'[r] \notin Prepared
      BY <2>2, <2>3, <2>4, <2>5, <3>1 DEF DrivePhase, Allowed, Prepared
    <3> QED BY <2>1, <2>2, <2>3, <2>4, <2>5, <3>1, <3>2
            DEF DrivePhase, Prepared, Allowed, IsReplayable, Uses
  <2>6. CASE AfterRejection(r) # "resend"
    BY <1>s, <2>1, <2>2, <2>3, <2>4, <2>6 DEF DrivePhase, Prepared, Allowed, IsReplayable, Uses
  <2> QED BY <2>5, <2>6
<1>11. ASSUME NEW r \in DriveRequests, ClassifyStatus(r)
       PROVE  Shapes' /\ DrivePhase(r)'
  BY <1>11, <1>c, <1>f, <1>l, <1>s DEF ClassifyStatus, DrivePhase, Prepared, history
<1>12. ASSUME NEW r \in DriveRequests, NEW i \in Uses(r), ApplyAction(r, i)
       PROVE  Shapes' /\ DrivePhase(r)'
  <2>1. slot' \in [Credentials -> [gen : Nat, live : BOOLEAN]]
    <3> DEFINE c == CredentialOf(r, i)
    <3>1. c \in Credentials
      BY Requirement
    <3>2. \/ UNCHANGED slot
          \/ slot' = [slot EXCEPT ![c] = [gen |-> slot[c].gen + 1, live |-> FALSE]]
      BY <1>12 DEF ApplyAction
    <3> QED BY <1>l, <3>1, <3>2, NextGeneration
  <2>2. /\ todo'[r] = todo[r] \ {i} /\ pc'[r] \in {"providerInvalidate", "apply"}
        /\ UNCHANGED <<recipe, outcome, applied, plan, then, budget, count>>
    BY <1>s, <1>12 DEF ApplyAction, Goto, Shapes
  <2>3. Shapes'
    BY <1>s, <1>12, <2>1 DEF ApplyAction, Goto, Shapes
  <2> QED BY <1>s, <2>2, <2>3 DEF DrivePhase, Prepared, Allowed, IsReplayable
<1>13. ASSUME NEW r \in DriveRequests, ProviderInvalidated(r)
       PROVE  Shapes' /\ DrivePhase(r)'
  BY <1>13, <1>c DEF ProviderInvalidated, Prepared
<1>14. ASSUME NEW r \in DriveRequests, ConcludePlan(r)
       PROVE  Shapes' /\ DrivePhase(r)'
  <2>1. settled' = settled \cup Dealt(r) /\ UNCHANGED slot
    BY <1>14 DEF ConcludePlan
  <2>2. CASE then[r] # "resend"
    <3>1. then[r] # "consumed"
      BY <1>s DEF Shapes
    <3> QED BY <1>14, <1>f, <1>l, <2>1, <2>2, <3>1 DEF ConcludePlan
  <2>3. CASE then[r] = "resend"
    <3>1. Resend(r)
      BY <1>14, <2>3 DEF ConcludePlan
    <3>2. Dealt(r) \subseteq UseSet
      BY <1>s, PlannedIsApplied, DealtShape DEF DrivePhase
    <3>3. /\ pc'[r] = "prepare" /\ applied'[r] = <<>> /\ plan'[r] = {} /\ then'[r] = "none"
          /\ UNCHANGED <<recipe, outcome, todo, budget, count>> /\ todo[r] = {}
      BY <1>s, <1>14, <3>1 DEF ConcludePlan, Resend, Goto, Shapes
    <3>4. applied' \in [DriveRequests -> Seq(Nat)]
      BY <1>s, <3>1 DEF Resend, Shapes
    <3>8. first' \in [DriveRequests -> SUBSET UseSet] /\ settled' \subseteq UseSet
      BY <1>s, <2>1, <3>1, <3>2 DEF Resend, Shapes
    <3>9. /\ plan' \in [DriveRequests -> SUBSET Nat]
          /\ then' \in [DriveRequests -> {"none", "resend", "status", "rejected"}]
      BY <1>s, <3>1 DEF Resend, Shapes
    <3>5. Shapes'
      BY <1>s, <2>1, <3>1, <3>4, <3>8, <3>9 DEF Resend, Goto, Shapes
    <3>6. Len(applied'[r]) = 0 /\ Len(Requirements[r]) \in Nat
      BY <3>3, Requirement
    <3>7. count[r].bodies \in Nat /\ count[r].sends \in Nat
      BY <1>s DEF Shapes
    <3> QED BY <1>s, <2>3, <3>3, <3>5, <3>6, <3>7 DEF DrivePhase, Prepared, Allowed, IsReplayable
  <2> QED BY <2>2, <2>3
<1>15. ASSUME NEW c \in Credentials, Supersede(c) \/ Fill(c)
       PROVE  PhaseInv'
  <2>1. slot' \in [Credentials -> [gen : Nat, live : BOOLEAN]] /\ UNCHANGED <<requestVars, history>>
    <3>1. CASE Supersede(c)
      BY <1>l, <3>1, NextGeneration DEF Supersede
    <3>2. CASE Fill(c)
      <4>1. [slot[c] EXCEPT !.live = TRUE] \in [gen : Nat, live : BOOLEAN]
        BY <1>l
      <4> QED BY <1>l, <3>2, <4>1 DEF Fill
    <3> QED BY <1>15, <3>1, <3>2
  <2> QED BY <1>s, <2>1, SameKeepsPhase
          DEF requestVars, localVars, history, Same, Shapes, PhaseInv
<1>16. CASE UNCHANGED driveVars
  BY <1>s, <1>16, SameKeepsPhase
  DEF driveVars, requestVars, localVars, history, Same, Shapes, PhaseInv
<1>17. ASSUME NEW r \in DriveRequests, DriveExecutions(r) \/ Cancel(r)
       PROVE  PhaseInv'
  BY <1>1, <1>2, <1>3, <1>4, <1>5, <1>6, <1>7, <1>8, <1>9, <1>10, <1>11, <1>12, <1>13, <1>14,
     <1>17, <1>r
  DEF DriveExecutions, Execution, ApplyRejectionPlan
<1> QED BY <1>15, <1>16, <1>17 DEF DriveNext

\* Nothing is leased, planned or counted at first.
LEMMA PhaseInit == DriveInit => PhaseInv
<1> SUFFICES ASSUME DriveInit, NEW r \in DriveRequests PROVE DrivePhase(r)
  BY ShapesInit DEF PhaseInv
<1>1. Len(Requirements[r]) \in Nat /\ Len(<<>>) = 0
  BY Requirement
<1> QED BY <1>1 DEF DriveInit, DrivePhase, Prepared, Allowed

\* At most one resend, only of a body that can be built again, and at most one
\* body and one send per execution, whatever the server answers.
THEOREM ExecutionsAreBounded == DriveSpec => []BoundedExecutions
<1>1. PhaseInv => BoundedExecutions
  BY DEF PhaseInv, DrivePhase, Allowed, BoundedExecutions
<1> QED BY <1>1, PhaseInit, PhaseStep, PTL DEF DriveSpec
-----------------------------------------------------------------------------
(* What a request has leased is never ahead of the slot                    *)

Behind(u) == u.gen < slot[u.credential].gen

\* A lease is of the slot's generation or of an older one, a use that the plan
\* has dealt with is of an older one, and so is a use dealt with before the
\* resend, which the leases of the resend are newer than.
Leased(r) ==
    /\ \A i \in 1 .. Len(applied[r]) :
         LET s == slot[CredentialOf(r, i)]
         IN  applied[r][i] <= s.gen /\ (applied[r][i] = s.gen => s.live)
    /\ \A i \in plan[r] \ todo[r] : Decides(r, i) => applied[r][i] < slot[CredentialOf(r, i)].gen
    /\ \A u \in first[r] : Behind(u)
    /\ \A u \in first[r], i \in 1 .. Len(applied[r]) :
         CredentialOf(r, i) = u.credential => applied[r][i] > u.gen

LeasedInv == (\A r \in DriveRequests : Leased(r)) /\ (\A u \in settled : Behind(u))

\* The generation of a slot never goes back, and under one generation a slot
\* that holds a credential keeps it.
Forward ==
    \A c \in Credentials :
      /\ slot'[c].gen \in Nat /\ slot[c].gen \in Nat /\ slot[c].gen <= slot'[c].gen
      /\ slot'[c].gen = slot[c].gen /\ slot[c].live => slot'[c].live

\* Writing a later generation moves the slots forward.
LEMMA ForwardWrite ==
    ASSUME slot \in [Credentials -> [gen : Nat, live : BOOLEAN]], NEW c \in Credentials,
           NEW g \in Nat, NEW b \in BOOLEAN,
           g > slot[c].gen \/ (g = slot[c].gen /\ b),
           slot' = [slot EXCEPT ![c] = [gen |-> g, live |-> b]]
    PROVE  Forward
<1> SUFFICES ASSUME NEW d \in Credentials
             PROVE  /\ slot'[d].gen \in Nat /\ slot[d].gen \in Nat /\ slot[d].gen <= slot'[d].gen
                    /\ slot'[d].gen = slot[d].gen /\ slot[d].live => slot'[d].live
  BY DEF Forward
<1>1. slot[d].gen \in Nat
  OBVIOUS
<1>2. CASE d = c
  <2>1. slot'[d] = [gen |-> g, live |-> b]
    BY <1>2
  <2> QED BY <1>1, <1>2, <2>1
<1>3. CASE d # c
  BY <1>1, <1>3
<1> QED BY <1>2, <1>3

\* A slot that is left alone has not moved back.
LEMMA ForwardStay ==
    ASSUME slot \in [Credentials -> [gen : Nat, live : BOOLEAN]], UNCHANGED slot
    PROVE  Forward
BY DEF Forward

\* No step moves a slot back.
LEMMA ForwardStep ==
    ASSUME PhaseInv, [DriveNext]_driveVars
    PROVE  Forward
<1>l. slot \in [Credentials -> [gen : Nat, live : BOOLEAN]]
  BY DEF PhaseInv, Shapes
<1>n. ASSUME NEW c \in Credentials, NEW b \in BOOLEAN,
             slot' = [slot EXCEPT ![c] = [gen |-> slot[c].gen + 1, live |-> b]]
      PROVE  Forward
  <2>1. slot[c].gen \in Nat
    BY <1>l
  <2>2. slot[c].gen + 1 \in Nat /\ slot[c].gen + 1 > slot[c].gen
    BY <2>1
  <2> QED BY <1>l, <1>n, <2>2, ForwardWrite
<1>1. ASSUME NEW r \in DriveRequests, PrepareBinding(r)
      PROVE  Forward
  <2> DEFINE c == CredentialOf(r, NextUse(r))
             h == IF slot[c].live THEN slot[c].gen ELSE slot[c].gen + 1
  <2>1. c \in Credentials
    BY <1>1, Requirement DEF PrepareBinding
  <2>2. slot[c].gen \in Nat /\ slot[c].live \in BOOLEAN
    BY <1>l, <2>1
  <2>3. h \in Nat /\ (h > slot[c].gen \/ h = slot[c].gen)
    BY <2>2
  <2>4. slot' = [slot EXCEPT ![c] = [gen |-> h, live |-> TRUE]]
    BY <1>1 DEF PrepareBinding
  <2> HIDE DEF c, h
  <2> QED BY <1>l, <2>1, <2>3, <2>4, ForwardWrite
<1>2. ASSUME NEW r \in DriveRequests, PrepareFails(r)
      PROVE  Forward
  <2>1. CredentialOf(r, NextUse(r)) \in Credentials
    BY <1>2, Requirement DEF PrepareFails
  <2> QED BY <1>l, <1>n, <1>2, <2>1, ForwardStay DEF PrepareFails
<1>3. ASSUME NEW r \in DriveRequests, NEW i \in Uses(r), ApplyAction(r, i)
      PROVE  Forward
  <2>1. CredentialOf(r, i) \in Credentials
    BY Requirement
  <2> QED BY <1>l, <1>n, <1>3, <2>1, ForwardStay DEF ApplyAction
<1>4. ASSUME NEW c \in Credentials, Supersede(c)
      PROVE  Forward
  BY <1>n, <1>4 DEF Supersede
<1>5. ASSUME NEW c \in Credentials, Fill(c)
      PROVE  Forward
  <2>1. slot[c] \in [gen : Nat, live : BOOLEAN] /\ c \in DOMAIN slot
    BY <1>l
  <2>2. slot'[c].gen = slot[c].gen /\ slot'[c].live
    BY <1>5, <2>1 DEF Fill
  <2>3. \A d \in Credentials \ {c} : slot'[d] = slot[d]
    BY <1>5, <1>l DEF Fill
  <2>4. \A d \in Credentials : slot[d].gen \in Nat
    BY <1>l
  <2> QED BY <2>2, <2>3, <2>4 DEF Forward
<1>6. ASSUME UNCHANGED slot PROVE Forward
  BY <1>l, <1>6, ForwardStay
<1>7. CASE UNCHANGED driveVars
  BY <1>6, <1>7 DEF driveVars
<1>8. ASSUME NEW r \in DriveRequests, DriveExecutions(r) \/ Cancel(r)
      PROVE  Forward
  BY <1>1, <1>2, <1>3, <1>6, <1>8
  DEF DriveExecutions, Execution, ApplyRejectionPlan, Cancel, PreflightFails, Preflight,
      ProduceBody, ProduceFails, AcquirePermit, SendBuiltRequest, Respond, TransportFails,
      Observe, ClassifyChallenge, ClassifyStatus, ReadBody, ApplyOverflows,
      ProviderInvalidated, ProviderInvalidateFails, ConcludePlan
<1> QED BY <1>4, <1>5, <1>7, <1>8 DEF DriveNext

\* A use that is behind its slot stays behind it.
LEMMA StaysBehind ==
    ASSUME Forward, NEW u \in UseSet, Behind(u)
    PROVE  Behind(u)'
<1>1. u.credential \in Credentials /\ u.gen \in Nat
  BY DEF UseSet
<1>2. u.gen < slot[u.credential].gen
  BY DEF Behind
<1>3. /\ slot[u.credential].gen \in Nat /\ slot'[u.credential].gen \in Nat
      /\ slot[u.credential].gen <= slot'[u.credential].gen
  BY <1>1 DEF Forward
<1> QED BY <1>1, <1>2, <1>3 DEF Behind

\* What the plan has dealt with is behind its slot.
LEMMA DealtBehind ==
    ASSUME NEW r \in DriveRequests, Leased(r)
    PROVE  \A u \in Dealt(r) : Behind(u)
BY DEF Leased, Dealt, Behind, Use

\* A lease that the request already holds stays in order with its slot.
LEMMA LeaseStays ==
    ASSUME NEW r \in DriveRequests, Shapes, DrivePhase(r), Leased(r), Forward,
           NEW i \in 1 .. Len(applied[r])
    PROVE  /\ applied[r][i] \in Nat /\ i \in Uses(r)
           /\ applied[r][i] <= slot'[CredentialOf(r, i)].gen
           /\ applied[r][i] = slot'[CredentialOf(r, i)].gen => slot'[CredentialOf(r, i)].live
           /\ applied[r][i] < slot[CredentialOf(r, i)].gen =>
                applied[r][i] < slot'[CredentialOf(r, i)].gen
<1> DEFINE c == CredentialOf(r, i)
<1>1. applied[r] \in Seq(Nat)
  BY DEF Shapes
<1>2. applied[r][i] \in Nat /\ i \in Uses(r)
  BY <1>1, Requirement DEF DrivePhase, Uses
<1>3. c \in Credentials
  BY <1>2, Requirement
<1>4. applied[r][i] <= slot[c].gen /\ (applied[r][i] = slot[c].gen => slot[c].live)
  BY DEF Leased
<1>5. /\ slot'[c].gen \in Nat /\ slot[c].gen \in Nat /\ slot[c].gen <= slot'[c].gen
      /\ slot'[c].gen = slot[c].gen /\ slot[c].live => slot'[c].live
  BY <1>3 DEF Forward
<1> HIDE DEF c
<1>6. applied[r][i] = slot'[c].gen => slot[c].gen = slot'[c].gen /\ applied[r][i] = slot[c].gen
  BY <1>2, <1>4, <1>5
<1>7. /\ applied[r][i] <= slot'[c].gen
      /\ applied[r][i] < slot[c].gen => applied[r][i] < slot'[c].gen
  BY <1>2, <1>4, <1>5
<1> QED BY <1>2, <1>4, <1>5, <1>6, <1>7 DEF c

\* A request keeps its leases in order when its leases and its plan stay, or
\* when the plan grows only by what is still to be done.
LEMMA LeasedStays ==
    ASSUME NEW r \in DriveRequests, Shapes, DrivePhase(r), Leased(r), Forward,
           applied'[r] = applied[r], first'[r] = first[r],
           \/ plan'[r] = plan[r] /\ todo'[r] = todo[r] /\ status'[r] = status[r]
           \/ plan'[r] \ todo'[r] = {}
    PROVE  Leased(r)'
<1>1. \A u \in first[r] : Behind(u)'
  BY StaysBehind DEF Shapes, Leased
<1>2. \A i \in plan[r] \ todo[r] : i \in 1 .. Len(applied[r])
  BY PlannedIsApplied
<1>3. \A i \in plan'[r] \ todo'[r] :
        Decides(r, i)' => applied[r][i] < slot'[CredentialOf(r, i)].gen
  BY <1>2, LeaseStays DEF Leased, Decides
<1>4. \A i \in 1 .. Len(applied[r]) :
        /\ applied[r][i] <= slot'[CredentialOf(r, i)].gen
        /\ applied[r][i] = slot'[CredentialOf(r, i)].gen => slot'[CredentialOf(r, i)].live
  BY LeaseStays
<1> QED BY <1>1, <1>3, <1>4 DEF Leased, Behind, CredentialOf

\* A request that holds no lease and has no plan is in order.
LEMMA LeasedEmpty ==
    ASSUME NEW r \in DriveRequests, applied'[r] = <<>>, plan'[r] = {}, \A u \in first'[r] : Behind(u)'
    PROVE  Leased(r)'
<1>1. 1 .. Len(applied'[r]) = {}
  OBVIOUS
<1> QED BY <1>1 DEF Leased

\* Every step keeps the leases in order, given the phases.
LEMMA LeasedStep ==
    ASSUME PhaseInv, LeasedInv, [DriveNext]_driveVars
    PROVE  LeasedInv'
<1>f. Forward
  BY ForwardStep
<1>s. Shapes /\ (\A q \in DriveRequests : DrivePhase(q) /\ Leased(q)) /\ (\A u \in settled : Behind(u))
  BY DEF PhaseInv, LeasedInv
<1>o. \A u \in settled : Behind(u)'
  BY <1>f, <1>s, StaysBehind DEF Shapes
<1>d. ASSUME NEW r \in DriveRequests PROVE \A u \in Dealt(r) : Behind(u)'
  <2>1. plan[r] \subseteq 1 .. Len(applied[r]) /\ plan[r] \subseteq Uses(r)
    BY <1>s, PlannedIsApplied DEF DrivePhase
  <2>2. Dealt(r) \subseteq UseSet
    BY <1>s, <2>1, DealtShape
  <2> QED BY <1>f, <1>s, <2>2, DealtBehind, StaysBehind
<1>q. ASSUME NEW q \in DriveRequests, Same(q) PROVE Leased(q)'
  BY <1>f, <1>s, <1>q, LeasedStays DEF Same
<1>r. ASSUME NEW r \in DriveRequests, DriveExecutions(r) \/ Cancel(r), Leased(r)',
             settled' \in {settled, settled \cup Dealt(r)}
      PROVE  LeasedInv'
  <2>1. \A u \in settled' : Behind(u)'
    BY <1>d, <1>o, <1>r
  <2>2. \A q \in DriveRequests \ {r} : Leased(q)'
    BY <1>q, <1>r, <1>s, OthersStay
  <2> QED BY <1>r, <2>1, <2>2 DEF LeasedInv
\* The request returns, or goes on with what it holds
<1>e. ASSUME NEW r \in DriveRequests, NEW o, Finish(r, o) PROVE Leased(r)'
  <2>1. applied'[r] = <<>> /\ plan'[r] = {} /\ first'[r] = first[r]
    BY <1>e, <1>s DEF Finish, Shapes
  <2>2. \A u \in first[r] : Behind(u)'
    BY <1>f, <1>s, StaysBehind DEF Shapes, Leased
  <2> QED BY <2>1, <2>2, LeasedEmpty
<1>g. ASSUME NEW r \in DriveRequests, UNCHANGED <<applied, plan, todo, status, first>> PROVE Leased(r)'
  BY <1>f, <1>g, <1>s, LeasedStays
<1>c. ASSUME NEW r \in DriveRequests, NEW m, Continue(r, m) PROVE Leased(r)'
  BY <1>c, <1>g DEF Continue, localVars
<1>t. ASSUME NEW r \in DriveRequests, NEW x, NEW m, Tick(r, x, m) PROVE Leased(r)'
  BY <1>t, <1>g DEF Tick, localVars
<1>1. ASSUME NEW r \in DriveRequests,
             \/ PreflightFails(r) \/ Preflight(r) \/ PrepareFails(r) \/ ProduceBody(r)
             \/ ProduceFails(r) \/ AcquirePermit(r) \/ SendBuiltRequest(r) \/ TransportFails(r)
             \/ Observe(r) \/ ClassifyStatus(r) \/ ReadBody(r) \/ ProviderInvalidated(r)
      PROVE  Leased(r)' /\ UNCHANGED settled
  BY <1>1, <1>c, <1>e, <1>t DEF PreflightFails, Preflight, PrepareFails, ProduceBody,
     ProduceFails, AcquirePermit, SendBuiltRequest, TransportFails, Observe, ClassifyStatus,
     ReadBody, ProviderInvalidated, Fail, history
<1>2. ASSUME NEW r \in DriveRequests,
             \/ Cancel(r) \/ ProviderInvalidateFails(r) \/ (\E i \in Uses(r) : ApplyOverflows(r, i))
      PROVE  Leased(r)' /\ settled' = settled \cup Dealt(r)
  BY <1>2, <1>e DEF Cancel, ProviderInvalidateFails, ApplyOverflows, Fail
\* A lease is added: of the slot's generation, so newer than what was dealt with
<1>3. ASSUME NEW r \in DriveRequests, PrepareBinding(r)
      PROVE  Leased(r)' /\ UNCHANGED settled
  <2> DEFINE c == CredentialOf(r, NextUse(r))
             h == IF slot[c].live THEN slot[c].gen ELSE slot[c].gen + 1
             n == Len(applied[r])
  <2>1. c \in Credentials
    BY <1>3, Requirement DEF PrepareBinding
  <2>2. slot[c].gen \in Nat /\ h \in Nat /\ h >= slot[c].gen
    <3>1. slot[c].gen \in Nat
      BY <1>s, <2>1 DEF Shapes
    <3> QED BY <3>1
  <2>3. applied[r] \in Seq(Nat) /\ n \in Nat
    BY <1>s DEF Shapes
  <2>4. /\ applied'[r] = Append(applied[r], h)
        /\ slot'[c] = [gen |-> h, live |-> TRUE]
        /\ UNCHANGED <<status, plan, todo, first, settled>>
        /\ plan[r] = {}
    BY <1>3, <1>s, <2>1 DEF PrepareBinding, Shapes, DrivePhase, history
  <2>5. /\ Len(applied'[r]) = n + 1 /\ applied'[r][n + 1] = h
        /\ \A i \in 1 .. n : applied'[r][i] = applied[r][i]
    BY <2>3, <2>4
  <2>6. CredentialOf(r, n + 1) = c
    BY DEF NextUse
  <2>7. \A u \in first[r] : Behind(u) /\ Behind(u)' /\ u.gen \in Nat
    BY <1>f, <1>s, StaysBehind DEF Shapes, Leased, UseSet
  <2>8. \A u \in first[r] : c = u.credential => h > u.gen
    BY <2>2, <2>7 DEF Behind
  <2>9. slot'[c].gen = h /\ slot'[c].live
    BY <2>4
  <2> HIDE DEF c, h
  <2>10. \A i \in 1 .. n :
           /\ applied'[r][i] <= slot'[CredentialOf(r, i)].gen
           /\ applied'[r][i] = slot'[CredentialOf(r, i)].gen => slot'[CredentialOf(r, i)].live
    BY <1>f, <1>s, <2>5, LeaseStays
  <2>11. \A u \in first[r], i \in 1 .. n :
           CredentialOf(r, i) = u.credential => applied'[r][i] > u.gen
    BY <1>s, <2>5 DEF Leased
  <2>12. \A i \in 1 .. Len(applied'[r]) : i \in 1 .. n \/ i = n + 1
    BY <2>3, <2>5
  <2> HIDE DEF n
  <2>13. \A i \in 1 .. Len(applied'[r]) :
           /\ applied'[r][i] <= slot'[CredentialOf(r, i)].gen
           /\ applied'[r][i] = slot'[CredentialOf(r, i)].gen => slot'[CredentialOf(r, i)].live
    BY <2>2, <2>5, <2>6, <2>9, <2>10, <2>12
  <2>14. \A u \in first[r], i \in 1 .. Len(applied'[r]) :
           CredentialOf(r, i) = u.credential => applied'[r][i] > u.gen
    BY <2>5, <2>6, <2>8, <2>11, <2>12
  <2> QED BY <2>4, <2>7, <2>13, <2>14 DEF Leased, Behind, CredentialOf
<1>4. ASSUME NEW r \in DriveRequests, NEW s \in Statuses, Respond(r, s)
      PROVE  Leased(r)' /\ UNCHANGED settled
  <2>1. plan'[r] = {} /\ UNCHANGED <<applied, first, settled>>
    BY <1>4, <1>s DEF Respond, DrivePhase, Prepared
  <2> QED BY <1>f, <1>s, <2>1, LeasedStays
<1>5. ASSUME NEW r \in DriveRequests, ClassifyChallenge(r)
      PROVE  Leased(r)' /\ UNCHANGED settled
  <2>1. plan'[r] \ todo'[r] = {} /\ UNCHANGED <<applied, first, settled>>
    BY <1>5, <1>s DEF ClassifyChallenge, Shapes, history
  <2> QED BY <1>f, <1>s, <2>1, LeasedStays
\* The use that is dealt with falls behind: it is removed, or no longer there
<1>6. ASSUME NEW r \in DriveRequests, NEW i \in Uses(r), ApplyAction(r, i)
      PROVE  Leased(r)' /\ UNCHANGED settled
  <2> DEFINE c == CredentialOf(r, i)
  <2>1. /\ todo'[r] = todo[r] \ {i} /\ i \in plan[r]
        /\ UNCHANGED <<applied, status, plan, first, settled>>
    BY <1>6, <1>s DEF ApplyAction, NextAction, Shapes, DrivePhase
  <2>2. plan[r] \subseteq 1 .. Len(applied[r])
    BY <1>s, PlannedIsApplied
  <2>3. c \in Credentials /\ slot[c].gen \in Nat /\ slot[c].live \in BOOLEAN
    BY <1>s, Requirement DEF Shapes
  <2>4. /\ applied[r][i] \in Nat /\ applied[r][i] <= slot[c].gen
        /\ applied[r][i] = slot[c].gen => slot[c].live
    BY <1>f, <1>s, <2>1, <2>2, LeaseStays DEF Leased
  <2>5. Decides(r, i) => applied[r][i] < slot'[c].gen
    <3>1. CASE Decides(r, i) /\ Matches(r, i)
      <4>1. slot' = [slot EXCEPT ![c] = [gen |-> slot[c].gen + 1, live |-> FALSE]]
        BY <1>6, <3>1 DEF ApplyAction
      <4>2. slot'[c].gen = slot[c].gen + 1
        BY <1>s, <2>3, <4>1 DEF Shapes
      <4> QED BY <2>3, <2>4, <4>2
    <3>2. CASE ~Matches(r, i)
      <4>1. UNCHANGED slot
        BY <1>6, <3>2 DEF ApplyAction
      <4>2. applied[r][i] # slot[c].gen
        BY <2>4, <3>2 DEF Matches
      <4> QED BY <2>3, <2>4, <4>1, <4>2
    <3> QED BY <3>1, <3>2
  <2>6. \A j \in plan[r] \ todo[r] : Decides(r, j) => applied[r][j] < slot'[CredentialOf(r, j)].gen
    BY <1>f, <1>s, <2>2, LeaseStays DEF Leased
  <2>7. \A j \in plan'[r] \ todo'[r] :
          Decides(r, j)' => applied[r][j] < slot'[CredentialOf(r, j)].gen
    BY <2>1, <2>5, <2>6 DEF Decides
  <2>8. \A j \in 1 .. Len(applied[r]) :
          /\ applied[r][j] <= slot'[CredentialOf(r, j)].gen
          /\ applied[r][j] = slot'[CredentialOf(r, j)].gen => slot'[CredentialOf(r, j)].live
    BY <1>f, <1>s, LeaseStays
  <2>9. \A u \in first[r] : Behind(u)'
    BY <1>f, <1>s, StaysBehind DEF Shapes, Leased
  <2> QED BY <1>s, <2>1, <2>7, <2>8, <2>9 DEF Leased, Behind, CredentialOf
<1>7. ASSUME NEW r \in DriveRequests, ConcludePlan(r)
      PROVE  Leased(r)' /\ settled' = settled \cup Dealt(r)
  <2>1. settled' = settled \cup Dealt(r)
    BY <1>7 DEF ConcludePlan
  <2>2. CASE Resend(r)
    <3>1. applied'[r] = <<>> /\ plan'[r] = {} /\ first'[r] = Dealt(r)
      BY <1>s, <2>2 DEF Resend, Shapes
    <3> QED BY <1>d, <2>1, <3>1, LeasedEmpty
  <2> QED BY <1>7, <1>e, <2>1, <2>2 DEF ConcludePlan
<1>8. ASSUME NEW c \in Credentials, Supersede(c) \/ Fill(c)
      PROVE  LeasedInv'
  <2>1. UNCHANGED <<requestVars, history>>
    BY <1>8 DEF Supersede, Fill
  <2> QED BY <1>g, <1>o, <2>1 DEF requestVars, localVars, history, LeasedInv
<1>9. CASE UNCHANGED driveVars
  BY <1>g, <1>o, <1>9 DEF driveVars, requestVars, localVars, history, LeasedInv
<1>10. ASSUME NEW r \in DriveRequests, DriveExecutions(r) \/ Cancel(r)
       PROVE  LeasedInv'
  <2>1. Leased(r)' /\ settled' \in {settled, settled \cup Dealt(r)}
    BY <1>1, <1>2, <1>3, <1>4, <1>5, <1>6, <1>7, <1>10
    DEF DriveExecutions, Execution, ApplyRejectionPlan
  <2> QED BY <1>10, <1>r, <2>1
<1> QED BY <1>8, <1>9, <1>10 DEF DriveNext

\* Nothing is leased or settled at first.
LEMMA LeasedInit == DriveInit => LeasedInv
<1> SUFFICES ASSUME DriveInit PROVE LeasedInv
  OBVIOUS
<1>1. \A r \in DriveRequests : 1 .. Len(applied[r]) = {} /\ plan[r] = {} /\ first[r] = {}
  BY DEF DriveInit
<1> QED BY <1>1 DEF DriveInit, LeasedInv, Leased

\* A credential generation that a rejection plan dealt with stays out of its
\* slot, whatever the other requests and the other users of the slot do.
THEOREM SettledIsGone == DriveSpec => []SettledStaysGone
<1>1. PhaseInv /\ LeasedInv => SettledStaysGone
  <2> SUFFICES ASSUME PhaseInv, LeasedInv, NEW u \in settled
               PROVE  slot[u.credential].gen # u.gen
    BY DEF SettledStaysGone
  <2>1. u \in UseSet /\ Behind(u)
    BY DEF PhaseInv, Shapes, LeasedInv
  <2>2. u.gen \in Nat
    BY <2>1 DEF UseSet
  <2> QED BY <2>1, <2>2 DEF Behind
<1> QED BY <1>1, PhaseInit, PhaseStep, LeasedInit, LeasedStep, PTL DEF DriveSpec

\* The resend of a challenged request carries newer generations of what the
\* challenge was about.
THEOREM ResendsAreFresh == DriveSpec => []ResendIsFresh
<1>1. LeasedInv => ResendIsFresh
  BY DEF LeasedInv, Leased, ResendIsFresh
<1> QED BY <1>1, PhaseInit, PhaseStep, LeasedInit, LeasedStep, PTL DEF DriveSpec

-----------------------------------------------------------------------------
(* A rejection plan is about generations that were challenged              *)

\* What a response in hand or a plan is about was challenged.
Accused(r) ==
    /\ \A i \in plan[r] : Use(CredentialOf(r, i), applied[r][i]) \in challenged
    /\ pc[r] \in {"observe", "classify"} /\ status[r] \in {"Unauthorized", "Forbidden"} =>
         AllUses(r) \subseteq challenged

AccusedInv == RemovalWasChallenged /\ \A r \in DriveRequests : Accused(r)

\* A request whose leases, response and plan stay, and that does not come to
\* hold a response, is still about challenged generations.
LEMMA AccusedStays ==
    ASSUME NEW r \in DriveRequests, Accused(r), challenged \subseteq challenged',
           applied'[r] = applied[r], status'[r] = status[r], plan'[r] = plan[r],
           pc'[r] \in {"observe", "classify"} => pc[r] \in {"observe", "classify"}
    PROVE  Accused(r)'
BY DEF Accused, AllUses, Uses, CredentialOf, Use

\* Every step keeps this, given the phases.
LEMMA AccusedStep ==
    ASSUME PhaseInv, AccusedInv, [DriveNext]_driveVars
    PROVE  AccusedInv'
<1>s. /\ Shapes /\ (\A q \in DriveRequests : DrivePhase(q) /\ Accused(q)) /\ removed \subseteq challenged
  BY DEF PhaseInv, AccusedInv, RemovalWasChallenged
<1>q. ASSUME NEW q \in DriveRequests, Same(q), challenged \subseteq challenged' PROVE Accused(q)'
  BY <1>s, <1>q, AccusedStays DEF Same
<1>r. ASSUME NEW r \in DriveRequests, DriveExecutions(r) \/ Cancel(r), Accused(r)',
             challenged \subseteq challenged', removed' \subseteq challenged'
      PROVE  AccusedInv'
  BY <1>q, <1>r, <1>s, OthersStay DEF AccusedInv, RemovalWasChallenged
<1>e. ASSUME NEW r \in DriveRequests, NEW o, Finish(r, o) PROVE Accused(r)'
  <2>1. plan'[r] = {} /\ pc'[r] = "done"
    BY <1>e, <1>s DEF Finish, Shapes
  <2> QED BY <2>1 DEF Accused
<1>c. ASSUME NEW r \in DriveRequests, NEW m, Continue(r, m), UNCHANGED challenged,
             m \in {"observe", "classify"} => pc[r] \in {"observe", "classify"}
      PROVE  Accused(r)'
  <2>1. pc'[r] = m /\ UNCHANGED <<applied, status, plan>>
    BY <1>c, <1>s DEF Continue, Goto, localVars, Shapes
  <2> QED BY <1>c, <1>s, <2>1, AccusedStays
<1>t. ASSUME NEW r \in DriveRequests, NEW x, NEW m \in {"permit", "send"}, Tick(r, x, m),
             UNCHANGED challenged
      PROVE  Accused(r)'
  <2>1. pc'[r] = m /\ UNCHANGED <<applied, status, plan>>
    BY <1>t, <1>s DEF Tick, Goto, localVars, Shapes
  <2> QED BY <1>t, <1>s, <2>1, AccusedStays
<1>1. ASSUME NEW r \in DriveRequests,
             \/ PreflightFails(r) \/ Preflight(r) \/ PrepareFails(r) \/ ProduceBody(r)
             \/ ProduceFails(r) \/ AcquirePermit(r) \/ SendBuiltRequest(r) \/ TransportFails(r)
             \/ Observe(r) \/ ClassifyStatus(r) \/ ReadBody(r) \/ ProviderInvalidated(r)
      PROVE  Accused(r)' /\ UNCHANGED <<challenged, removed>>
  BY <1>1, <1>c, <1>e, <1>t DEF PreflightFails, Preflight, PrepareFails, ProduceBody,
     ProduceFails, AcquirePermit, SendBuiltRequest, TransportFails, Observe, ClassifyStatus,
     ReadBody, ProviderInvalidated, Fail, history
<1>2. ASSUME NEW r \in DriveRequests,
             \/ Cancel(r) \/ ProviderInvalidateFails(r) \/ (\E i \in Uses(r) : ApplyOverflows(r, i))
      PROVE  Accused(r)' /\ UNCHANGED <<challenged, removed>>
  BY <1>2, <1>e DEF Cancel, ProviderInvalidateFails, ApplyOverflows, Fail
<1>3. ASSUME NEW r \in DriveRequests, PrepareBinding(r)
      PROVE  Accused(r)' /\ UNCHANGED <<challenged, removed>>
  <2>1. /\ plan'[r] = {} /\ pc'[r] = "prepare" /\ UNCHANGED <<challenged, removed>>
    BY <1>3, <1>s DEF PrepareBinding, DrivePhase, history
  <2> QED BY <2>1 DEF Accused
\* A challenge that arrives is recorded, and no plan is pending
<1>4. ASSUME NEW r \in DriveRequests, NEW s \in Statuses, Respond(r, s)
      PROVE  Accused(r)' /\ challenged \subseteq challenged' /\ UNCHANGED removed
  <2>1. /\ plan'[r] = {} /\ status'[r] = s /\ applied' = applied
        /\ challenged \subseteq challenged' /\ UNCHANGED removed
        /\ s \in {"Unauthorized", "Forbidden"} => AllUses(r) \subseteq challenged'
    BY <1>4, <1>s DEF Respond, DrivePhase, Prepared, Shapes
  <2>2. AllUses(r)' = AllUses(r)
    BY <2>1 DEF AllUses, Uses, CredentialOf, Use
  <2> QED BY <2>1, <2>2 DEF Accused
\* The plan is made from the response in hand
<1>5. ASSUME NEW r \in DriveRequests, ClassifyChallenge(r)
      PROVE  Accused(r)' /\ UNCHANGED <<challenged, removed>>
  <2>1. /\ pc[r] = "classify" /\ RejectionPlan(r) # {} /\ plan'[r] = RejectionPlan(r)
        /\ pc'[r] \in {"preflight", "apply"} /\ UNCHANGED <<applied, challenged, removed>>
    BY <1>5, <1>s DEF ClassifyChallenge, Goto, Shapes, history
  <2>2. status[r] \in {"Unauthorized", "Forbidden"}
    BY <2>1 DEF RejectionPlan
  <2>3. AllUses(r) \subseteq challenged
    BY <1>s, <2>1, <2>2 DEF Accused
  <2>4. RejectionPlan(r) \subseteq Uses(r)
    BY <1>s, PlanShape
  <2>5. \A i \in plan'[r] : Use(CredentialOf(r, i), applied[r][i]) \in challenged
    BY <2>1, <2>3, <2>4 DEF AllUses
  <2> QED BY <2>1, <2>5 DEF Accused, Use, CredentialOf
\* What an action removes is the use that its plan names
<1>6. ASSUME NEW r \in DriveRequests, NEW i \in Uses(r), ApplyAction(r, i)
      PROVE  Accused(r)' /\ UNCHANGED challenged /\ removed' \subseteq challenged
  <2>1. /\ i \in plan[r] /\ pc'[r] \in {"providerInvalidate", "apply"}
        /\ UNCHANGED <<applied, status, plan, challenged>>
    BY <1>6, <1>s DEF ApplyAction, NextAction, Goto, Shapes, DrivePhase
  <2>2. Use(CredentialOf(r, i), applied[r][i]) \in challenged
    BY <1>s, <2>1 DEF Accused
  <2>3. CASE Decides(r, i) /\ Matches(r, i)
    <3>1. removed' = removed \cup {Use(CredentialOf(r, i), slot[CredentialOf(r, i)].gen)}
      BY <1>6, <2>3 DEF ApplyAction
    <3>2. slot[CredentialOf(r, i)].gen = applied[r][i]
      BY <2>3 DEF Matches
    <3> QED BY <1>s, <2>1, <2>2, <3>1, <3>2, AccusedStays
  <2>4. CASE ~(Decides(r, i) /\ Matches(r, i))
    <3>1. UNCHANGED removed
      BY <1>6, <2>4 DEF ApplyAction
    <3> QED BY <1>s, <2>1, <3>1, AccusedStays
  <2> QED BY <2>3, <2>4
<1>7. ASSUME NEW r \in DriveRequests, ConcludePlan(r)
      PROVE  Accused(r)' /\ UNCHANGED <<challenged, removed>>
  <2>1. UNCHANGED <<challenged, removed>>
    BY <1>7 DEF ConcludePlan
  <2>2. CASE Resend(r)
    <3>1. plan'[r] = {} /\ pc'[r] = "prepare"
      BY <1>s, <2>2 DEF Resend, Goto, Shapes
    <3> QED BY <2>1, <3>1 DEF Accused
  <2> QED BY <1>7, <1>e, <2>1, <2>2 DEF ConcludePlan
<1>8. ASSUME UNCHANGED <<requestVars, history>> PROVE AccusedInv'
  BY <1>s, <1>8, AccusedStays
  DEF requestVars, localVars, history, AccusedInv, RemovalWasChallenged
<1>9. ASSUME NEW r \in DriveRequests, DriveExecutions(r) \/ Cancel(r)
      PROVE  AccusedInv'
  <2>1. Accused(r)' /\ challenged \subseteq challenged' /\ removed' \subseteq challenged'
    BY <1>1, <1>2, <1>3, <1>4, <1>5, <1>6, <1>7, <1>9, <1>s
    DEF DriveExecutions, Execution, ApplyRejectionPlan
  <2> QED BY <1>9, <1>r, <2>1
<1> QED BY <1>8, <1>9 DEF DriveNext, Supersede, Fill, driveVars

\* Only a credential generation that a response challenged is ever removed by
\* a rejection plan.
THEOREM RemovalsWereChallenged == DriveSpec => []RemovalWasChallenged
<1>1. DriveInit => AccusedInv
  BY DEF DriveInit, AccusedInv, Accused, RemovalWasChallenged
<1>2. AccusedInv => RemovalWasChallenged
  BY DEF AccusedInv
<1> QED BY <1>1, <1>2, PhaseInit, PhaseStep, AccusedStep, PTL DEF DriveSpec

===============================================================================
