--------------------------- MODULE RequestProofs ----------------------------
(***************************************************************************)
(* What one request relies on: proofs about BodyExchange, for any           *)
(* exchanges, any number of adapters in any order and frames of any length, *)
(* and about CredentialSlot, for any set of tasks and any counter width.    *)
(***************************************************************************)
EXTENDS BodyExchange, CredentialSlot, WellFoundedInduction, NaturalsInduction, TLAPS

USE BytesAssumption

-----------------------------------------------------------------------------
(* Induction, as a fact about sets                                          *)

\* What holds of 0 and is passed on from i - 1 to i holds up to n.
LEMMA Climb ==
    ASSUME NEW n \in Nat, NEW T, 0 \in T, \A i \in 1 .. n : i - 1 \in T => i \in T
    PROVE  0 .. n \subseteq T
<1> DEFINE Off == {i \in 0 .. n : i \notin T}
<1> SUFFICES ASSUME Off # {} PROVE FALSE
  OBVIOUS
<1>1. Off \subseteq Nat
  OBVIOUS
<1>2. PICK k \in Off : \A m \in Off : ~ (<<m, k>> \in OpToRel(<, Nat))
  <2> HIDE DEF Off
  <2> QED BY <1>1, NatLessThanWellFounded, WFMin
<1>3. k \in 0 .. n /\ k \notin T /\ k # 0
  OBVIOUS
<1>4. k - 1 \in 0 .. n /\ k \in 1 .. n /\ k - 1 < k /\ k \in Nat /\ k - 1 \in Nat
  BY <1>3
<1>5. k - 1 \notin Off
  BY <1>2, <1>4 DEF OpToRel
<1> QED BY <1>3, <1>4, <1>5

\* A value v that goes through n steps, each of them a function on V
StepsOn(G, n, V) == G \in [1 .. n -> [V -> V]]
Iterates(h, G, n, V, v) ==
    h \in [0 .. n -> V] /\ h[0] = v /\ \A i \in 1 .. n : h[i] = G[i][h[i - 1]]

LEMMA Iteration ==
    ASSUME NEW n \in Nat, NEW V, NEW v \in V, NEW G, StepsOn(G, n, V)
    PROVE  \E h : Iterates(h, G, n, V, v)
<1> DEFINE T == {m \in 0 .. n : \E h : Iterates(h, G, m, V, v)}
<1>1. 0 \in T
  <2> DEFINE h == [i \in 0 .. 0 |-> v]
  <2>1. Iterates(h, G, 0, V, v)
    BY DEF Iterates
  <2> HIDE DEF h
  <2> QED BY <2>1
<1>2. ASSUME NEW m \in 1 .. n, m - 1 \in T PROVE m \in T
  <2>1. PICK g : Iterates(g, G, m - 1, V, v)
    BY <1>2
  <2> DEFINE h == [i \in 0 .. m |-> IF i < m THEN g[i] ELSE G[m][g[m - 1]]]
  <2>2. G[m] \in [V -> V] /\ g[m - 1] \in V /\ g \in [0 .. m - 1 -> V]
    BY <2>1 DEF StepsOn, Iterates
  <2>3. h \in [0 .. m -> V]
    BY <2>2
  <2>4. h[0] = v
    BY <2>1 DEF Iterates
  <2>5. ASSUME NEW i \in 1 .. m PROVE h[i] = G[i][h[i - 1]]
    <3>1. h[i - 1] = g[i - 1]
      OBVIOUS
    <3>2. CASE i < m
      BY <2>1, <3>1, <3>2 DEF Iterates
    <3>3. CASE i = m
      BY <3>1, <3>3
    <3> QED BY <3>2, <3>3
  <2>6. Iterates(h, G, m, V, v)
    BY <2>3, <2>4, <2>5 DEF Iterates
  <2> HIDE DEF h
  <2> QED BY <2>6
<1>3. n \in T
  <2> HIDE DEF T
  <2>1. 0 .. n \subseteq T
    BY <1>1, <1>2, Climb
  <2> QED BY <2>1
<1> QED BY <1>3
-----------------------------------------------------------------------------
(* The adapters                                                             *)

GoodHints == {h \in [lower : Nat, upper : Nat] : h.lower <= h.upper}
Counters == {s \in [kind : {"limited", "exact"}, bound : Nat, seen : Nat, done : BOOLEAN] : s.seen <= s.bound}
Adapters ==
    Counters \cup [kind : {"hinted"}, hint : GoodHints, done : BOOLEAN]
    \cup [kind : {"observed"}, done : BOOLEAN]

Yields ==
    {Data(n) : n \in Nat} \cup {Trailers, End} \cup {Error(e) : e \in BodyErrors}

\* A size hint keeps its bounds in order through any adapter, also one that limits.
LEMMA ThroughHint ==
    ASSUME NEW s \in Adapters, NEW h \in GoodHints
    PROVE  Through(s, h) \in GoodHints
BY DEF Through, Adapters, Counters, GoodHints, Exact, Hint

\* An adapter stays what it is: its kind and its bound do not change, it counts what
\* it lets pass, and never past its bound.
LEMMA AfterAdapter ==
    ASSUME NEW s \in Adapters, NEW r \in Yields
    PROVE  /\ After(s, r) \in Adapters /\ After(s, r).kind = s.kind
           /\ Counts(s) => /\ After(s, r).bound = s.bound
                           /\ After(s, r).seen = IF r.tag = "data" /\ ~ Refuses(s, r)
                                                 THEN s.seen + r.n ELSE s.seen
<1>1. CASE s \in Counters
  <2>1. CASE r.tag = "data" /\ ~ Refuses(s, r)
    <3>1. r.n \in Nat /\ s.seen + r.n <= s.bound
      BY <1>1, <2>1 DEF Yields, Data, Trailers, End, Error, Refuses, Counts, Counters
    <3>2. After(s, r) = [s EXCEPT !.seen = @ + r.n]
      BY <1>1, <2>1 DEF After, Counts, Counters
    <3> QED BY <1>1, <2>1, <3>1, <3>2 DEF Counters, Adapters
  <2>2. CASE ~ (r.tag = "data" /\ ~ Refuses(s, r))
    <3>1. After(s, r) = [s EXCEPT !.done = TRUE] \/ After(s, r) = s
      BY <1>1, <2>2 DEF After, Counts, Counters
    <3> QED BY <1>1, <2>2, <3>1 DEF Counters, Adapters
  <2> QED BY <2>1, <2>2
<1>2. CASE s \in [kind : {"hinted"}, hint : GoodHints, done : BOOLEAN]
  <2>0. s.kind = "hinted" /\ ~ Counts(s) /\ s.hint \in GoodHints
    BY <1>2 DEF Counts
  <2>1. CASE r.tag = "data"
    <3>1. r.n \in Nat
      BY <2>1 DEF Yields, Data, Trailers, End, Error
    <3>2. NoBound \in Nat
      BY DEF NoBound
    <3>3. Consumed(s.hint, r.n) \in GoodHints
      BY <2>0, <3>1, <3>2 DEF Consumed, Hint, GoodHints
    <3>4. After(s, r) = [s EXCEPT !.hint = Consumed(@, r.n)]
      BY <2>0, <2>1 DEF After
    <3> QED BY <1>2, <2>0, <3>3, <3>4 DEF Adapters
  <2>2. CASE r.tag = "end"
    <3>1. Exact(0) \in GoodHints
      BY DEF Exact, Hint, GoodHints
    <3>2. After(s, r) = [s EXCEPT !.hint = Exact(0), !.done = TRUE]
      BY <2>0, <2>2 DEF After
    <3> QED BY <1>2, <2>0, <3>1, <3>2 DEF Adapters
  <2>3. CASE r.tag \notin {"data", "end"}
    BY <1>2, <2>0, <2>3 DEF After, Adapters
  <2> QED BY <2>1, <2>2, <2>3
<1>3. CASE s \in [kind : {"observed"}, done : BOOLEAN]
  BY <1>3 DEF After, Counts, Adapters
<1> QED BY <1>1, <1>2, <1>3 DEF Adapters

\* An adapter passes on what it is given or an error; an error it always passes on.
LEMMA PassedOn ==
    ASSUME NEW s \in Adapters, NEW r \in Yields
    PROVE  /\ Passed(s, r) \in Yields
           /\ Passed(s, r) = r \/ Passed(s, r).tag = "error"
           /\ r.tag = "error" => Passed(s, r) = r
           /\ Passed(s, r) # r /\ Passed(s, r).error = "LimitExceeded" => Refuses(s, r) /\ s.kind = "limited"
           /\ Passed(s, r) = r => ~ Refuses(s, r) /\ ~ EndsShort(s, r)
<1>1. /\ Error("LimitExceeded") \in Yields /\ Error("ExactLengthOverflow") \in Yields
      /\ Error("ExactLengthUnderflow") \in Yields
      /\ \A e : Error(e).tag = "error" /\ Error(e).error = e
  BY DEF Yields, Error, BodyErrors
<1>2. CASE Refuses(s, r)
  <2>1. r.tag = "data" /\ s.kind \in {"limited", "exact"}
    BY <1>2 DEF Refuses, Counts
  <2>2. Passed(s, r) = IF s.kind = "limited" THEN Error("LimitExceeded") ELSE Error("ExactLengthOverflow")
    <3>1. CASE s.kind = "limited"
      BY <1>2, <2>1, <3>1 DEF Passed, EndsShort
    <3>2. CASE s.kind # "limited"
      BY <1>2, <2>1, <3>2 DEF Passed, EndsShort
    <3> QED BY <3>1, <3>2
  <2> QED BY <1>1, <1>2, <2>1, <2>2
<1>3. CASE ~ Refuses(s, r) /\ EndsShort(s, r)
  <2>1. r.tag = "end"
    BY <1>3 DEF EndsShort
  <2>2. Passed(s, r) = Error("ExactLengthUnderflow")
    BY <1>3 DEF Passed
  <2> QED BY <1>1, <1>3, <2>1, <2>2
<1>4. CASE ~ Refuses(s, r) /\ ~ EndsShort(s, r)
  <2>1. Passed(s, r) = r
    BY <1>4 DEF Passed
  <2> QED BY <1>4, <2>1
<1> QED BY <1>2, <1>3, <1>4

\* The hints of all adapters around a producer that declares nothing are in order.
LEMMA HintsOfStages ==
    ASSUME NEW st \in Seq(Adapters)
    PROVE  \A i \in 0 .. Len(st) : HintAt(st, Unknown)[i] \in GoodHints
<1> DEFINE n == Len(st)
           G == [i \in 1 .. n |-> [h \in GoodHints |-> Through(st[i], h)]]
           Solves(h) == h = [i \in 0 .. n |-> IF i = 0 THEN Unknown ELSE Through(st[i], h[i - 1])]
           H == HintAt(st, Unknown)
<1>0. n \in Nat /\ \A i \in 1 .. n : st[i] \in Adapters
  OBVIOUS
<1>1. Unknown \in GoodHints
  BY DEF Unknown, Hint, GoodHints, NoBound
<1>2. \A i \in 1 .. n : \A h \in GoodHints : Through(st[i], h) \in GoodHints
  BY <1>0, ThroughHint
<1> HIDE DEF n
<1>3. StepsOn(G, n, GoodHints)
  BY <1>2 DEF StepsOn
<1>4. PICK h : Iterates(h, G, n, GoodHints, Unknown)
  <2> HIDE DEF G
  <2> QED BY <1>0, <1>1, <1>3, Iteration
<1>5. Solves(h)
  <2>1. h \in [0 .. n -> GoodHints] /\ h[0] = Unknown /\ \A i \in 1 .. n : h[i] = G[i][h[i - 1]]
    BY <1>4 DEF Iterates
  <2>2. ASSUME NEW i \in 1 .. n PROVE h[i] = Through(st[i], h[i - 1])
    <3>1. h[i - 1] \in GoodHints
      BY <1>0, <2>1
    <3> QED BY <2>1, <3>1
  <2> HIDE DEF G
  <2> QED BY <2>1, <2>2
<1>6. H = CHOOSE f : Solves(f)
  BY DEF HintAt, n
<1> HIDE DEF H
<1>7. Solves(H)
  BY <1>5, <1>6
<1>8. H[0] = Unknown /\ \A i \in 1 .. n : H[i] = Through(st[i], H[i - 1])
  BY <1>0, <1>7
<1> HIDE DEF Solves
<1> DEFINE T == {i \in 0 .. n : H[i] \in GoodHints}
<1>9. 0 .. n \subseteq T
  <2>1. 0 \in T
    BY <1>0, <1>1, <1>8
  <2>2. \A i \in 1 .. n : i - 1 \in T => i \in T
    BY <1>0, <1>2, <1>8
  <2> HIDE DEF T
  <2> QED BY <1>0, <2>1, <2>2, Climb
<1> QED BY <1>9 DEF n, H

\* What the adapters return: what the producer returned, up to the first that turns
\* it into an error, and that error from there on.
LEMMA ReturnedByStages ==
    ASSUME NEW st \in Seq(Adapters), NEW r \in Yields
    PROVE  LET back == Returned(st, r)
           IN  /\ back[0] = r /\ \A i \in 0 .. Len(st) : back[i] \in Yields
               /\ \A i \in 1 .. Len(st) : back[i] = Passed(st[i], back[i - 1])
               /\ \A i, j \in 0 .. Len(st) : i <= j /\ back[i].tag = "error" => back[j] = back[i]
               /\ \A i \in 0 .. Len(st) : back[i] # r =>
                    /\ back[i].tag = "error"
                    /\ \E k \in 1 .. Len(st) : back[i] = Passed(st[k], r) /\ Passed(st[k], r) # r
<1> DEFINE n == Len(st)
           G == [i \in 1 .. n |-> [x \in Yields |-> Passed(st[i], x)]]
           Solves(h) == h = [i \in 0 .. n |-> IF i = 0 THEN r ELSE Passed(st[i], h[i - 1])]
           B == Returned(st, r)
<1>0. n \in Nat /\ \A i \in 1 .. n : st[i] \in Adapters
  OBVIOUS
<1>2. \A i \in 1 .. n : \A x \in Yields :
        /\ Passed(st[i], x) \in Yields
        /\ Passed(st[i], x) = x \/ Passed(st[i], x).tag = "error"
        /\ x.tag = "error" => Passed(st[i], x) = x
  BY <1>0, PassedOn
<1> HIDE DEF n
<1>3. StepsOn(G, n, Yields)
  BY <1>2 DEF StepsOn
<1>4. PICK h : Iterates(h, G, n, Yields, r)
  <2> HIDE DEF G
  <2> QED BY <1>0, <1>3, Iteration
<1>5. Solves(h)
  <2>1. h \in [0 .. n -> Yields] /\ h[0] = r /\ \A i \in 1 .. n : h[i] = G[i][h[i - 1]]
    BY <1>4 DEF Iterates
  <2>2. ASSUME NEW i \in 1 .. n PROVE h[i] = Passed(st[i], h[i - 1])
    <3>1. h[i - 1] \in Yields
      BY <1>0, <2>1
    <3> QED BY <2>1, <3>1
  <2> HIDE DEF G
  <2> QED BY <2>1, <2>2
<1>6. B = CHOOSE f : Solves(f)
  BY DEF Returned, n
<1> HIDE DEF B
<1>7. Solves(B)
  BY <1>5, <1>6
<1>8. B[0] = r /\ \A i \in 1 .. n : B[i] = Passed(st[i], B[i - 1])
  BY <1>0, <1>7
<1> HIDE DEF Solves
<1>9. \A i \in 0 .. n : B[i] \in Yields
  <2> DEFINE T == {i \in 0 .. n : B[i] \in Yields}
  <2>1. 0 \in T
    BY <1>0, <1>8
  <2>2. \A i \in 1 .. n : i - 1 \in T => i \in T
    BY <1>0, <1>2, <1>8
  <2>3. 0 .. n \subseteq T
    <3> HIDE DEF T
    <3> QED BY <1>0, <2>1, <2>2, Climb
  <2> QED BY <2>3
<1>10. \A i \in 1 .. n : /\ B[i] = B[i - 1] \/ B[i].tag = "error"
                         /\ B[i - 1].tag = "error" => B[i] = B[i - 1]
  BY <1>0, <1>2, <1>8, <1>9
<1>11. ASSUME NEW i \in 0 .. n, B[i].tag = "error" PROVE \A j \in 0 .. n : i <= j => B[j] = B[i]
  <2> DEFINE T == {j \in 0 .. n : i <= j => B[j] = B[i]}
  <2>1. 0 \in T
    BY <1>0
  <2>2. ASSUME NEW j \in 1 .. n, j - 1 \in T PROVE j \in T
    <3>1. CASE i <= j - 1
      BY <1>0, <1>10, <1>11, <2>2, <3>1
    <3>2. CASE ~ (i <= j - 1)
      BY <1>0, <3>2
    <3> QED BY <3>1, <3>2
  <2>3. 0 .. n \subseteq T
    <3> HIDE DEF T
    <3> QED BY <1>0, <2>1, <2>2, Climb
  <2> QED BY <2>3
<1>12. \A i \in 0 .. n : B[i] # r => /\ B[i].tag = "error"
                                     /\ \E k \in 1 .. n : B[i] = Passed(st[k], r) /\ Passed(st[k], r) # r
  <2> DEFINE Shown(i) == B[i] # r => /\ B[i].tag = "error"
                                     /\ \E k \in 1 .. n : B[i] = Passed(st[k], r) /\ Passed(st[k], r) # r
             T == {i \in 0 .. n : Shown(i)}
  <2>1. 0 \in T
    BY <1>0, <1>8
  <2>2. ASSUME NEW i \in 1 .. n, i - 1 \in T PROVE i \in T
    <3>0. i - 1 \in 0 .. n /\ i \in 0 .. n /\ Shown(i - 1)
      BY <1>0, <2>2
    <3>1. CASE B[i - 1] = r
      <4>1. B[i] = Passed(st[i], r)
        BY <1>8, <3>1
      <4>2. B[i] # r => B[i].tag = "error"
        BY <1>10, <3>1
      <4>3. Shown(i)
        BY <4>1, <4>2
      <4> HIDE DEF Shown
      <4> QED BY <3>0, <4>3
    <3>2. CASE B[i - 1] # r
      <4>1. B[i] = B[i - 1]
        BY <1>10, <3>0, <3>2
      <4>2. Shown(i)
        BY <3>0, <4>1
      <4> HIDE DEF Shown
      <4> QED BY <3>0, <4>2
    <3> QED BY <3>1, <3>2
  <2>3. 0 .. n \subseteq T
    <3> HIDE DEF T
    <3> QED BY <1>0, <2>1, <2>2, Climb
  <2> QED BY <2>3
<1> QED BY <1>8, <1>9, <1>11, <1>12 DEF n, B
-----------------------------------------------------------------------------
(* The request body                                                         *)

FreshAdapters == {s \in Adapters : Counts(s) => s.seen = 0}

\* The adapters of a request body when it is handed over: none has counted yet.
LEMMA FreshStages ==
    ASSUME NEW p \in Plans
    PROVE  ObserveNativeRequestBody(p.own, DeclaredHint(p)) \in Seq(FreshAdapters)
<1>1. Sizes \subseteq Nat /\ Bounds \subseteq Nat /\ NoBound \in Nat
  BY DEF Sizes, Bounds, NoBound
<1>2. Hints \subseteq GoodHints
  BY <1>1 DEF Hints, GoodHints
<1>3. p.own \in Seq(Stages) /\ p.hint \in Hints /\ p.size \in Sizes
  BY PlansAssumption DEF Plan
<1>4. Stages \subseteq FreshAdapters
  <2>1. \A b \in Sizes : LimitedBody(b) \in FreshAdapters
    BY <1>1 DEF LimitedBody, FreshAdapters, Adapters, Counters
  <2>2. \A h \in Hints : HintedBody(h) \in FreshAdapters
    BY <1>2 DEF HintedBody, FreshAdapters, Adapters, Counts
  <2> QED BY <2>1, <2>2 DEF Stages
<1>5. p.own \in Seq(FreshAdapters) /\ p.own \in Seq(Adapters)
  BY <1>3, <1>4 DEF FreshAdapters
<1>6. DeclaredHint(p) \in GoodHints
  <2>1. Exact(p.size) \in GoodHints
    <3>1. p.size \in Nat
      BY <1>1, <1>3
    <3> QED BY <3>1 DEF Exact, Hint, GoodHints
  <2>2. SizeHint(p.own) \in GoodHints
    <3>1. Len(p.own) \in 0 .. Len(p.own)
      BY <1>5
    <3> QED BY <1>5, <3>1, HintsOfStages DEF SizeHint
  <2> QED BY <1>2, <1>3, <2>1, <2>2 DEF DeclaredHint
<1> DEFINE hint == DeclaredHint(p)
           guard == IF IsExact(hint) THEN <<ExactLengthBody(hint.upper)>> ELSE <<>>
<1>7. guard \in Seq(FreshAdapters)
  <2>1. hint.upper \in Nat
    BY <1>6 DEF GoodHints
  <2> HIDE DEF hint
  <2>2. ExactLengthBody(hint.upper) \in FreshAdapters
    BY <2>1 DEF ExactLengthBody, FreshAdapters, Adapters, Counters
  <2> QED BY <2>2
<1>8. <<ObservedRequestBody>> \in Seq(FreshAdapters)
  <2>1. ObservedRequestBody \in FreshAdapters
    BY DEF ObservedRequestBody, FreshAdapters, Adapters, Counts
  <2> QED BY <2>1
<1> HIDE DEF guard
<1>9. p.own \o guard \o <<ObservedRequestBody>> \in Seq(FreshAdapters)
  BY <1>5, <1>7, <1>8
<1> QED BY <1>9 DEF ObserveNativeRequestBody, guard

Phases == {"build", "limit", "sending", "head", "reading", "done"}

RequestTypes ==
    /\ plan \in Plans /\ at \in Phases
    /\ stages \in Seq(Adapters) /\ sent \in Nat /\ produced \in Nat
    /\ ended \in {"open", "end"} \cup BodyErrors

\* As long as the body is open, every counter has counted all that was sent, and
\* all that was produced was sent; at the end every exact length is reached.
Counting ==
    /\ \A i \in DOMAIN stages : Counts(stages[i]) => sent <= stages[i].seen
    /\ ended = "open" => /\ produced = sent
                         /\ \A i \in DOMAIN stages : Counts(stages[i]) => stages[i].seen = sent
    /\ ended = "end" => \A i \in DOMAIN stages : stages[i].kind = "exact" => sent = stages[i].bound

\* The error slot holds the error that ended the body, if anything.
Reporting ==
    /\ recorded \in {"none", ended} /\ (ended \in {"open", "end"} => recorded = "none")
    /\ ended = "LimitExceeded" =>
         \E i \in DOMAIN stages : stages[i].kind = "limited" /\ produced > stages[i].bound

Progress ==
    /\ at # "done" => outcome = "none"
    /\ at \in {"build", "limit"} => ended = "open" /\ sent = 0
    /\ at \in {"head", "reading"} => ended \in {"open", "end"}
    /\ call # "none" => at = "reading"
    /\ plan.recipe = "bytes" => DOMAIN stages = {}

RequestInv == RequestTypes /\ Counting /\ Reporting /\ Progress /\ RefusalIsJust

\* One poll of the outermost adapter
LEMMA PollStep ==
    ASSUME RequestInv, NEW r \in Yields, PollRequest(r),
           r.tag = "error" => r.error = "Input"
    PROVE  RequestInv'
<1> USE DEF RequestInv
<1> DEFINE back == Returned(stages, r)
           n == Len(stages)
           out == back[n]
           seen == {i \in DOMAIN stages : stages[i].kind = "observed" /\ back[i].tag = "error"}
<1>0. /\ n \in Nat /\ DOMAIN stages = 1 .. n /\ n \in 0 .. n
      /\ \A i \in 1 .. n : stages[i] \in Adapters
      /\ sent \in Nat /\ produced \in Nat
  BY DEF RequestTypes
<1>1. /\ back[0] = r /\ \A i \in 0 .. n : back[i] \in Yields
      /\ \A i \in 1 .. n : back[i] = Passed(stages[i], back[i - 1])
      /\ \A i, j \in 0 .. n : i <= j /\ back[i].tag = "error" => back[j] = back[i]
      /\ \A i \in 0 .. n : back[i] # r =>
           /\ back[i].tag = "error"
           /\ \E k \in 1 .. n : back[i] = Passed(stages[k], r) /\ Passed(stages[k], r) # r
  BY ReturnedByStages DEF RequestTypes
<1>2. /\ at = "sending" /\ ended = "open"
      /\ stages' = [i \in DOMAIN stages |-> After(stages[i], back[i - 1])]
      /\ produced' = IF r.tag = "data" THEN produced + r.n ELSE produced
      /\ sent' = IF out.tag = "data" THEN sent + out.n ELSE sent
      /\ ended' = CASE out.tag = "end" -> "end"
                    [] out.tag = "error" -> out.error
                    [] OTHER -> "open"
      /\ recorded' = IF seen = {} THEN recorded ELSE Record(back[CHOOSE i \in seen : TRUE].error)
      /\ UNCHANGED <<plan, at, outcome, call, promised>>
  BY DEF PollRequest, calls
<1> HIDE DEF back
<1>3. ASSUME NEW x \in Yields
      PROVE  /\ x.tag \in {"data", "trailers", "end", "error"}
             /\ x.tag = "data" => x.n \in Nat
             /\ x.tag = "error" => x.error \in BodyErrors
  BY DEF Yields, Data, Trailers, End, Error
<1>4. /\ out \in Yields /\ (out = r \/ out.tag = "error")
      /\ out.tag # "error" => r = out /\ \A i \in 0 .. n : back[i] = r
  <2>1. out \in Yields /\ (out = r \/ out.tag = "error")
    BY <1>0, <1>1
  <2>2. ASSUME out.tag # "error", NEW i \in 0 .. n PROVE back[i] = r
    <3>1. back[i].tag # "error"
      BY <1>0, <1>1, <2>2
    <3> QED BY <1>1, <3>1
  <2> QED BY <2>1, <2>2
<1>5. ASSUME NEW i \in 1 .. n
      PROVE  /\ stages'[i] \in Adapters /\ stages'[i].kind = stages[i].kind
             /\ Counts(stages[i]) =>
                  /\ stages'[i].bound = stages[i].bound
                  /\ stages'[i].seen \in Nat /\ stages'[i].seen >= sent
                  /\ stages'[i].seen <= stages'[i].bound
                  /\ out.tag # "error" => stages'[i].seen = sent'
                  /\ out.tag = "end" /\ stages[i].kind = "exact" => stages'[i].bound = sent'
  <2> DEFINE s == stages[i]
             x == back[i - 1]
  <2>0. s \in Adapters /\ x \in Yields /\ stages'[i] = After(s, x) /\ i - 1 \in 0 .. n
    BY <1>0, <1>1, <1>2
  <2> HIDE DEF x, s
  <2>1. /\ After(s, x) \in Adapters /\ After(s, x).kind = s.kind
        /\ Counts(s) => /\ After(s, x).bound = s.bound
                        /\ After(s, x).seen = IF x.tag = "data" /\ ~ Refuses(s, x) THEN s.seen + x.n ELSE s.seen
    BY <2>0, AfterAdapter
  <2>2. Counts(s) => /\ After(s, x).seen \in Nat /\ After(s, x).seen <= After(s, x).bound
                     /\ s.seen = sent /\ s.bound \in Nat
    <3>1. Counts(s) => s.seen = sent
      BY <1>0, <1>2 DEF Counting, s
    <3>2. \A a \in Adapters : Counts(a) => a.seen \in Nat /\ a.bound \in Nat /\ a.seen <= a.bound
      BY DEF Adapters, Counters, Counts
    <3>3. Counts(s) => Counts(After(s, x))
      BY <2>1 DEF Counts
    <3> QED BY <2>0, <2>1, <3>1, <3>2, <3>3
  <2>3. Counts(s) => After(s, x).seen >= sent
    BY <1>0, <1>3, <2>0, <2>1, <2>2
  <2>4. ASSUME out.tag # "error", Counts(s)
        PROVE  /\ After(s, x).seen = sent'
               /\ out.tag = "end" /\ s.kind = "exact" => After(s, x).bound = sent'
    <3>1. x = r /\ r = out /\ Passed(s, x) = x
      <4>1. x = r /\ r = out /\ back[i] = r
        BY <1>0, <1>4, <2>0, <2>4 DEF x
      <4> QED BY <1>1, <4>1 DEF x, s
    <3>2. ~ Refuses(s, x) /\ ~ EndsShort(s, x)
      BY <2>0, <3>1, PassedOn
    <3>3. After(s, x).seen = sent'
      BY <1>2, <2>1, <2>2, <2>4, <3>1, <3>2
    <3>4. out.tag = "end" /\ s.kind = "exact" => s.seen = s.bound
      BY <3>1, <3>2 DEF EndsShort
    <3>5. out.tag = "end" => sent' = sent
      BY <1>2
    <3> QED BY <2>1, <2>2, <2>4, <3>3, <3>4, <3>5
  <2> QED BY <2>0, <2>1, <2>2, <2>3, <2>4 DEF s
<1>6. stages' \in Seq(Adapters) /\ DOMAIN stages' = 1 .. n
  <2>1. stages' \in [1 .. n -> Adapters]
    BY <1>0, <1>2, <1>5
  <2> QED BY <1>0, <2>1
<1>7. sent' \in Nat /\ produced' \in Nat /\ sent' >= sent /\ produced' >= produced
  BY <1>0, <1>2, <1>3, <1>4
<1>8. /\ out.tag = "end" => ended' = "end"
      /\ out.tag = "error" => ended' = out.error /\ ended' \in BodyErrors
      /\ out.tag \in {"data", "trailers"} => ended' = "open"
  <2>0. out \in Yields
    BY <1>4
  <2> HIDE DEF out
  <2>1. out.tag = "end" => ended' = "end"
    BY <1>2
  <2>2. ASSUME out.tag = "error" PROVE ended' = out.error
    BY <1>2, <2>2
  <2>3. out.tag \in {"data", "trailers"} => ended' = "open"
    BY <1>2
  <2>4. out.tag = "error" => out.error \in BodyErrors
    BY <1>3, <2>0
  <2> QED BY <2>1, <2>2, <2>3, <2>4
<1>9. RequestTypes'
  BY <1>2, <1>3, <1>4, <1>6, <1>7, <1>8 DEF RequestTypes
<1>e. "open" \notin BodyErrors /\ "end" \notin BodyErrors /\ "none" \notin BodyErrors
  BY DEF BodyErrors
<1>10. Counting'
  <2>k. \A i \in 1 .. n : Counts(stages'[i]) <=> Counts(stages[i])
    BY <1>5 DEF Counts
  <2>1. ASSUME NEW i \in 1 .. n, Counts(stages'[i]) PROVE sent' <= stages'[i].seen
    <3>1. CASE out.tag # "error"
      BY <1>5, <1>7, <2>1, <2>k, <3>1
    <3>2. CASE out.tag = "error"
      BY <1>2, <1>5, <2>1, <2>k, <3>2
    <3> QED BY <3>1, <3>2
  <2>2. ASSUME ended' = "open"
        PROVE  produced' = sent' /\ \A i \in 1 .. n : Counts(stages'[i]) => stages'[i].seen = sent'
    <3>1. out.tag # "error"
      BY <1>8, <1>e, <2>2
    <3>2. produced' = sent'
      BY <1>2, <1>4, <3>1 DEF Counting
    <3> QED BY <1>5, <2>k, <3>1, <3>2
  <2>3. ASSUME ended' = "end", NEW i \in 1 .. n, stages'[i].kind = "exact" PROVE sent' = stages'[i].bound
    <3>1. out.tag = "end"
      BY <1>3, <1>4, <1>8, <1>e, <2>3
    <3>2. stages[i].kind = "exact" /\ Counts(stages[i])
      BY <1>5, <2>3 DEF Counts
    <3> QED BY <1>5, <3>1, <3>2
  <2> QED BY <1>6, <2>1, <2>2, <2>3 DEF Counting
<1>11. /\ recorded' \in {"none", ended'} /\ (ended' \in {"open", "end"} => recorded' = "none")
  <2>0. recorded = "none"
    BY <1>2 DEF Reporting
  <2>1. CASE seen = {}
    BY <1>2, <2>0, <2>1
  <2>2. CASE seen # {}
    <3> DEFINE i == CHOOSE i \in seen : TRUE
    <3>1. i \in 1 .. n /\ back[i].tag = "error" /\ i <= n
      BY <1>0, <2>2
    <3> HIDE DEF i
    <3>2. out = back[i]
      BY <1>0, <1>1, <3>1
    <3>3. recorded' = back[i].error
      BY <1>2, <2>0, <2>2 DEF Record, i
    <3>4. out.tag = "error" /\ recorded' = ended' /\ ended' \in BodyErrors
      BY <1>8, <3>1, <3>2, <3>3
    <3> QED BY <1>e, <3>4
  <2> QED BY <2>1, <2>2
<1>12. ended' = "LimitExceeded" =>
         \E i \in DOMAIN stages' : stages'[i].kind = "limited" /\ produced' > stages'[i].bound
  <2> SUFFICES ASSUME ended' = "LimitExceeded"
               PROVE  \E i \in 1 .. n : stages'[i].kind = "limited" /\ produced' > stages'[i].bound
    BY <1>6
  <2>1. out.tag = "error" /\ out.error = "LimitExceeded"
    BY <1>3, <1>4, <1>8
  <2>2. out # r
    BY <2>1
  <2>3. PICK k \in 1 .. n : out = Passed(stages[k], r) /\ Passed(stages[k], r) # r
    BY <1>0, <1>1, <2>2
  <2>4. Refuses(stages[k], r) /\ stages[k].kind = "limited"
    BY <1>0, <2>1, <2>3, PassedOn
  <2>5. r.tag = "data" /\ r.n \in Nat /\ stages[k].seen + r.n > stages[k].bound /\ Counts(stages[k])
    BY <1>3, <2>4 DEF Refuses
  <2>6. stages[k].seen = sent /\ produced = sent
    BY <1>0, <1>2, <2>5 DEF Counting
  <2>7. produced' > stages'[k].bound
    BY <1>2, <1>5, <2>5, <2>6
  <2> QED BY <1>5, <2>4, <2>7
<1>13. Reporting'
  BY <1>11, <1>12 DEF Reporting
<1>14. Progress' /\ RefusalIsJust'
  BY <1>0, <1>2, <1>6 DEF Progress, RefusalIsJust
<1> QED BY <1>9, <1>10, <1>13, <1>14

\* A step that leaves the request body alone
LEMMA BodyUntouched ==
    ASSUME RequestInv, UNCHANGED <<plan, request>>, at' \in Phases, Progress', RefusalIsJust'
    PROVE  RequestInv'
BY DEF RequestInv, request, RequestTypes, Counting, Reporting

\* A step after the request body was sent reports no refusal of it.
LEMMA LaterStep ==
    ASSUME RequestInv, UNCHANGED <<plan, request>>, at \in {"head", "reading"},
           at' \in {"reading", "done"}, outcome' # "RequestBodyLimitExceeded",
           at' # "done" => outcome' = outcome, call' # "none" => at' = "reading"
    PROVE  RequestInv'
<1>1. ended \in {"open", "end"} /\ outcome = "none"
  BY DEF RequestInv, Progress
<1>2. Progress' /\ RefusalIsJust'
  BY <1>1 DEF RequestInv, Progress, RefusalIsJust, request
<1> QED BY <1>2, BodyUntouched DEF Phases

LEMMA RequestInitial == ExchangeInit => RequestInv
BY DEF ExchangeInit, RequestInv, RequestTypes, Counting, Reporting, Progress, RefusalIsJust, Phases

LEMMA MaterialiseStep ==
    ASSUME RequestInv, Materialise
    PROVE  RequestInv'
<1> USE DEF RequestInv
<1>1. /\ at = "build" /\ at' = "limit" /\ ended = "open" /\ sent = 0 /\ produced = 0
      /\ outcome = "none" /\ recorded = "none"
      /\ UNCHANGED <<plan, outcome, produced, sent, ended, recorded, call>>
      /\ plan \in Plans
  BY DEF Materialise, Progress, Counting, Reporting, calls, RequestTypes
<1>2. stages' \in Seq(FreshAdapters) /\ (plan.recipe = "bytes" => stages' = <<>>)
  <2>1. CASE plan.recipe = "bytes"
    BY <2>1 DEF Materialise
  <2>2. CASE plan.recipe # "bytes"
    BY <1>1, <2>2, FreshStages DEF Materialise
  <2> QED BY <2>1, <2>2
<1>3. stages' \in Seq(Adapters)
  BY <1>2 DEF FreshAdapters
<1>4. RequestTypes'
  BY <1>1, <1>3 DEF RequestTypes, Phases
<1>5. Counting'
  <2>1. \A i \in DOMAIN stages' : Counts(stages'[i]) => stages'[i].seen = 0
    BY <1>2 DEF FreshAdapters
  <2> QED BY <1>1, <2>1 DEF Counting
<1>6. Reporting' /\ Progress' /\ RefusalIsJust'
  BY <1>1, <1>2 DEF Reporting, Progress, RefusalIsJust
<1> QED BY <1>4, <1>5, <1>6

LEMMA StartSendingStep ==
    ASSUME RequestInv, StartSending
    PROVE  RequestInv'
<1> USE DEF RequestInv
<1>1. /\ at = "limit" /\ at' = "sending" /\ ended = "open" /\ sent = 0
      /\ outcome = "none" /\ recorded = "none"
      /\ UNCHANGED <<plan, outcome, recorded, call, promised>>
      /\ produced' = sent'
      /\ plan \in Plans
  BY DEF StartSending, Progress, Reporting, calls, RequestTypes
<1>2. plan.limit \in Nat /\ plan.size \in Nat
  <2>1. plan.limit \in Bounds /\ plan.size \in Sizes
    BY <1>1, PlansAssumption DEF Plan
  <2> QED BY <2>1 DEF Bounds, Sizes, NoBound
<1>3. CASE plan.recipe = "bytes"
  <2>1. stages' = stages /\ sent' = plan.size /\ ended' = "end" /\ DOMAIN stages = {}
    BY <1>3 DEF StartSending, Progress
  <2>2. RequestTypes'
    BY <1>1, <1>2, <2>1 DEF RequestTypes, Phases
  <2> QED BY <1>1, <2>1, <2>2 DEF Counting, Reporting, Progress, RefusalIsJust
<1>4. CASE plan.recipe # "bytes"
  <2>1. sent' = 0 /\ produced' = 0 /\ ended' = "open"
    BY <1>1, <1>4 DEF StartSending
  <2>2. LimitedBody(plan.limit) \in Adapters /\ LimitedBody(plan.limit).seen = 0
    BY <1>2 DEF LimitedBody, Adapters, Counters
  <2>3. stages' \in Seq(Adapters) /\ \A i \in DOMAIN stages' : Counts(stages'[i]) => stages'[i].seen = 0
    <3>0. stages \in Seq(Adapters) /\ \A i \in DOMAIN stages : Counts(stages[i]) => stages[i].seen = 0
      BY <1>1 DEF RequestTypes, Counting
    <3>1. CASE stages' = stages
      BY <3>0, <3>1
    <3>2. CASE stages' = Append(stages, LimitedBody(plan.limit))
      BY <2>2, <3>0, <3>2
    <3> QED BY <1>4, <3>1, <3>2 DEF StartSending
  <2>4. RequestTypes'
    BY <1>1, <2>1, <2>3 DEF RequestTypes, Phases
  <2> QED BY <1>1, <1>4, <2>1, <2>3, <2>4 DEF Counting, Reporting, Progress, RefusalIsJust
<1> QED BY <1>3, <1>4

LEMMA RequestInductive ==
    ASSUME RequestInv, [ExchangeNext]_exchangeVars
    PROVE  RequestInv'
<1>1. CASE Materialise
  BY <1>1, MaterialiseStep
<1>2. CASE RejectOversize
  <2>1. UNCHANGED <<plan, request>> /\ at' \in Phases
    BY <1>2 DEF RejectOversize, Finish, Phases
  <2>2. Progress' /\ RefusalIsJust'
    BY <1>2 DEF RequestInv, RejectOversize, Finish, KnownOversize, Progress, RefusalIsJust, request, calls
  <2> QED BY <2>1, <2>2, BodyUntouched
<1>3. CASE StartSending
  BY <1>3, StartSendingStep
<1>4. CASE ProducerYields
  <2>1. Trailers \in Yields /\ End \in Yields /\ Error("Input") \in Yields
    BY DEF Yields, BodyErrors
  <2>2. \A n \in 0 .. MaxFrame : Data(n) \in Yields
    BY DEF Yields
  <2>3. PICK r \in Yields : PollRequest(r) /\ (r.tag = "error" => r.error = "Input")
    BY <1>4, <2>1, <2>2 DEF ProducerYields, Trailers, End, Error, Data
  <2> QED BY <2>3, PollStep
<1>5. CASE ExecuteFails
  <2>1. UNCHANGED <<plan, request>> /\ at' \in Phases
    BY <1>5 DEF ExecuteFails, Finish, Phases
  <2>2. Progress'
    BY <1>5 DEF RequestInv, ExecuteFails, Finish, Progress, request, calls
  <2>3. SendError = "LimitExceeded" <=> ended = "LimitExceeded"
    BY DEF RequestInv, Reporting, SendError
  <2>4. RefusalIsJust'
    BY <1>5, <2>1, <2>3 DEF RequestInv, ExecuteFails, Finish, Reporting, RefusalIsJust, request
  <2> QED BY <2>1, <2>2, <2>4, BodyUntouched
<1>6. CASE Respond
  <2>1. UNCHANGED <<plan, request>> /\ at' \in Phases
    BY <1>6 DEF Respond, Phases
  <2>2. Progress' /\ RefusalIsJust'
    BY <1>6 DEF RequestInv, Respond, Progress, RefusalIsJust, request, calls
  <2> QED BY <2>1, <2>2, BodyUntouched
<1>7. CASE LimitResponseBody
  <2>1. call = "none" /\ outcome = "none" /\ at = "head" /\ UNCHANGED <<plan, request>>
    BY <1>7 DEF LimitResponseBody, RequestInv, Progress
  <2>2. /\ at' \in {"reading", "done"} /\ outcome' # "RequestBodyLimitExceeded"
        /\ (at' # "done" => outcome' = outcome) /\ (call' # "none" => at' = "reading")
    BY <1>7, <2>1 DEF LimitResponseBody, Finish
  <2> QED BY <2>1, <2>2, LaterStep
<1>8. CASE NextChunk \/ WriteToFile
  <2>1. outcome = "none"
    BY <1>8 DEF NextChunk, WriteToFile, RequestInv, Progress
  <2> QED BY <1>8, <2>1, LaterStep DEF NextChunk, WriteToFile
<1>9. CASE NativeYields
  <2>1. PICK r : PollResponse(r)
    BY <1>9 DEF NativeYields
  <2> DEFINE x == Passed(resp, r)
  <2>2. call # "none" /\ Deliver(x) /\ UNCHANGED <<plan, request>>
    BY <2>1 DEF PollResponse
  <2> HIDE DEF x
  <2>3. at = "reading" /\ outcome = "none"
    BY <2>2 DEF RequestInv, Progress
  <2>4. /\ at' \in {"reading", "done"} /\ outcome' # "RequestBodyLimitExceeded"
        /\ at' # "done" => outcome' = outcome
        /\ call' # "none" => at' = "reading"
    <3>1. CASE DataArrives(x)
      <4>1. CASE call = "chunk"
        BY <2>3, <3>1, <4>1 DEF DataArrives, Return, Finish
      <4>2. CASE call = "file"
        BY <2>3, <3>1, <4>2 DEF DataArrives
      <4>3. CASE call \notin {"chunk", "file"}
        BY <2>3, <3>1, <4>3 DEF DataArrives
      <4> QED BY <4>1, <4>2, <4>3
    <3>2. CASE TrailersArrive(x)
      BY <2>3, <3>2 DEF TrailersArrive
    <3>3. CASE BodyEnds(x)
      BY <2>3, <3>3 DEF BodyEnds, Return, Finish
    <3>4. CASE BodyFails(x)
      BY <2>3, <3>4 DEF BodyFails, Return, Finish
    <3> QED BY <2>2, <3>1, <3>2, <3>3, <3>4 DEF Deliver
  <2> QED BY <2>2, <2>3, <2>4, LaterStep
<1>10. CASE PollTerminated
  <2>1. at = "reading" /\ outcome = "none"
    BY <1>10 DEF PollTerminated, RequestInv, Progress
  <2> QED BY <1>10, <2>1, LaterStep DEF PollTerminated, BodyEnds, Return, Finish
<1>11. CASE WriteChunk \/ Flush
  <2>1. at = "reading" /\ outcome = "none" /\ call # "buffer"
    BY <1>11 DEF WriteChunk, Flush, RequestInv, Progress
  <2> QED BY <1>11, <2>1, LaterStep DEF WriteChunk, Flush, Return, Finish
<1>12. CASE Cancel
  <2>1. UNCHANGED <<plan, request>> /\ at' \in Phases
    BY <1>12 DEF Cancel, Finish, Phases, RequestInv, RequestTypes
  <2>2. Progress' /\ RefusalIsJust'
    BY <1>12 DEF RequestInv, Cancel, Finish, Progress, RefusalIsJust, request
  <2> QED BY <2>1, <2>2, BodyUntouched
<1>13. CASE UNCHANGED exchangeVars
  <2>1. UNCHANGED <<plan, request, at, outcome, call>>
    BY <1>13 DEF exchangeVars, calls
  <2>2. Progress' /\ RefusalIsJust' /\ at' \in Phases
    BY <2>1 DEF RequestInv, Progress, RefusalIsJust, request, RequestTypes
  <2> QED BY <2>1, <2>2, BodyUntouched
<1> QED BY <1>1, <1>2, <1>3, <1>4, <1>5, <1>6, <1>7, <1>8, <1>9, <1>10, <1>11, <1>12, <1>13 DEF ExchangeNext

LEMMA RequestSafe == ExchangeSpec => []RequestInv
BY RequestInitial, RequestInductive, PTL DEF ExchangeSpec

\* Nothing beyond the bound of a limiter or a length guard reaches reqwest, however
\* the adapters are stacked: each of them has counted at least what was sent.
THEOREM BodyIsSentAsDeclared == ExchangeSpec => []SentAsDeclared
<1>1. RequestInv => SentAsDeclared
  <2> SUFFICES ASSUME RequestInv PROVE SentAsDeclared
    OBVIOUS
  <2> USE DEF RequestInv
  <2>1. \A a \in Adapters : Counts(a) => a.seen \in Nat /\ a.bound \in Nat /\ a.seen <= a.bound
    BY DEF Adapters, Counters, Counts
  <2>2. \A i \in DOMAIN stages : stages[i] \in Adapters
    BY DEF RequestTypes
  <2>3. sent \in Nat
    BY DEF RequestTypes
  <2>4. \A i \in DOMAIN stages : Counts(stages[i]) => sent <= stages[i].bound
    BY <2>1, <2>2, <2>3 DEF Counting
  <2> QED BY <2>4 DEF SentAsDeclared, Counting
<1> QED BY <1>1, RequestSafe, PTL

\* A request is refused for its size only with cause, and a limiter's refusal is
\* reported as one, whether or not an observer recorded it.
THEOREM RefusalsAreJust == ExchangeSpec => []RefusalIsJust
BY RequestSafe, PTL DEF RequestInv

\* SizeHint::set_upper never panics: whatever an adapter wraps and however much of
\* the body has passed, it computes its bounds in order.
THEOREM HintsStayConsistent == ExchangeSpec => []HintsConsistent
<1>1. RequestInv => HintsConsistent
  <2> SUFFICES ASSUME RequestInv PROVE HintsConsistent
    OBVIOUS
  <2>1. stages \in Seq(Adapters)
    BY DEF RequestInv, RequestTypes
  <2>2. \A i \in 0 .. Len(stages) : HintAt(stages, Unknown)[i] \in GoodHints
    BY <2>1, HintsOfStages
  <2> QED BY <2>2 DEF HintsConsistent, GoodHints
<1> QED BY <1>1, RequestSafe, PTL
-----------------------------------------------------------------------------
(* The response body                                                        *)

ResponseTypes ==
    /\ resp \in Counters /\ resp.kind = "limited"
    /\ announced \in Nat /\ served \in Nat /\ got \in Nat /\ held \in Nat
    /\ call \in {"none", "chunk", "buffer", "file", "write", "flush"}
    /\ fresh \in BOOLEAN

\* Before the head has arrived nothing has been read.
Unread ==
    at \notin {"reading", "done"} =>
        /\ resp = LimitedBody(NoBound) /\ served = 0
        /\ got = 0 /\ held = 0 /\ call = "none" /\ result = "none"

\* A body is read through the limiter of its family, and a buffered one by one call.
Limiting ==
    /\ at = "reading" => /\ resp.bound = plan.responseLimit /\ plan.family # "skip"
                         /\ plan.family = "buffered" <=> call = "buffer"
    /\ plan.family # "skip" => resp.seen <= plan.responseLimit

\* The limiter has counted all that was served, until it stops; what the caller
\* has, in a buffer, a file or a chunk being written, the limiter has counted.
Accounting ==
    /\ resp.seen <= served /\ (~ resp.done => resp.seen = served)
    /\ got + held <= resp.seen /\ (call # "write" => held = 0)

\* A call that began on an unread body has all of it so far.
Complete ==
    /\ call = "buffer" => ~ resp.done /\ got = served
    /\ fresh /\ call \in {"file", "write"} => ~ resp.done /\ got + held = served

ResponseInv == ResponseTypes /\ Unread /\ Limiting /\ Accounting /\ Complete /\ WholeResponse

\* What the limiter of a response does with a frame
LEMMA LimiterFrame ==
    ASSUME NEW s \in Counters, s.kind = "limited", NEW r \in Yields
    PROVE  \/ /\ r.tag = "data" /\ s.seen + r.n > s.bound
              /\ After(s, r) = [s EXCEPT !.done = TRUE] /\ Passed(s, r) = Error("LimitExceeded")
           \/ /\ r.tag = "data" /\ s.seen + r.n <= s.bound
              /\ After(s, r) = [s EXCEPT !.seen = @ + r.n] /\ Passed(s, r) = r
           \/ r.tag = "trailers" /\ After(s, r) = s /\ Passed(s, r) = r
           \/ r.tag \in {"error", "end"} /\ After(s, r) = [s EXCEPT !.done = TRUE] /\ Passed(s, r) = r
<1>0. /\ Counts(s) /\ ~ EndsShort(s, r) /\ s.seen \in Nat /\ s.bound \in Nat
      /\ r.tag \in {"data", "trailers", "error", "end"} /\ (r.tag = "data" => r.n \in Nat)
  BY DEF Counts, EndsShort, Counters, Yields, Data, Trailers, Error, End
<1>1. CASE Refuses(s, r)
  <2>1. r.tag = "data" /\ s.seen + r.n > s.bound
    BY <1>1 DEF Refuses
  <2>2. Passed(s, r) = Error("LimitExceeded")
    BY <1>0, <1>1 DEF Passed
  <2>3. After(s, r) = [s EXCEPT !.done = TRUE]
    BY <1>0, <1>1 DEF After
  <2> QED BY <2>1, <2>2, <2>3
<1>2. CASE ~ Refuses(s, r)
  <2>1. Passed(s, r) = r
    BY <1>0, <1>2 DEF Passed
  <2>2. CASE r.tag = "data"
    <3>1. s.seen + r.n <= s.bound
      BY <1>0, <1>2, <2>2 DEF Refuses
    <3>2. After(s, r) = [s EXCEPT !.seen = @ + r.n]
      BY <1>0, <1>2, <2>2 DEF After
    <3> QED BY <2>1, <2>2, <3>1, <3>2
  <2>3. CASE r.tag = "trailers"
    <3>1. After(s, r) = s
      BY <1>0, <1>2, <2>3 DEF After
    <3> QED BY <2>1, <2>3, <3>1
  <2>4. CASE r.tag \in {"error", "end"}
    <3>1. After(s, r) = [s EXCEPT !.done = TRUE]
      BY <1>0, <1>2, <2>4 DEF After
    <3> QED BY <2>1, <2>4, <3>1
  <2> QED BY <1>0, <2>2, <2>3, <2>4
<1> QED BY <1>1, <1>2

LEMMA ResponseInitial == ExchangeInit => ResponseInv
<1> SUFFICES ASSUME ExchangeInit PROVE ResponseInv
  OBVIOUS
<1>1. plan \in Plan /\ NoBound \in Nat
  BY PlansAssumption DEF ExchangeInit, NoBound
<1>2. plan.responseLimit \in Nat
  BY <1>1 DEF Plan, Bounds, Sizes
<1>3. resp \in Counters /\ resp.kind = "limited" /\ resp.seen = 0 /\ ~ resp.done
  BY <1>1 DEF ExchangeInit, LimitedBody, Counters
<1>4. ResponseTypes
  BY <1>1, <1>3 DEF ExchangeInit, ResponseTypes
<1>5. Unread
  BY DEF ExchangeInit, Unread
<1>6. Limiting /\ Accounting /\ Complete
  BY <1>2, <1>3 DEF ExchangeInit, Limiting, Accounting, Complete
<1>7. WholeResponse
  BY DEF ExchangeInit, WholeResponse
<1> QED BY <1>4, <1>5, <1>6, <1>7 DEF ResponseInv

\* A frame of the response body, or its end
LEMMA PollResponseStep ==
    ASSUME RequestInv, ResponseInv, NEW r \in Yields, PollResponse(r),
           r.tag = "error" => r.error = "Input"
    PROVE  ResponseInv'
<1> DEFINE x == Passed(resp, r)
<1>1. /\ resp \in Counters /\ resp.kind = "limited" /\ resp.seen \in Nat /\ resp.bound \in Nat /\ ~ resp.done
      /\ announced \in Nat /\ served \in Nat /\ got \in Nat /\ held = 0
      /\ call \in {"chunk", "buffer", "file"} /\ fresh \in BOOLEAN /\ resp.seen = served /\ got <= served
  BY DEF ResponseInv, ResponseTypes, Accounting, PollResponse, Counters
<1>2. at = "reading" /\ outcome = "none"
  BY <1>1 DEF RequestInv, Progress
<1>3. plan \in Plan
  BY PlansAssumption DEF RequestInv, RequestTypes
<1>4. /\ plan.responseLimit = resp.bound /\ plan.family # "skip"
      /\ plan.family = "buffered" <=> call = "buffer"
  BY <1>2 DEF ResponseInv, Limiting
<1>5. /\ call = "buffer" => got = served
      /\ fresh /\ call = "file" => got = served
      /\ result = "ResponseBodyLimitExceeded" => served > resp.bound
  BY <1>1, <1>4 DEF ResponseInv, Complete, WholeResponse
<1>6. /\ resp' = After(resp, r) /\ served' = (IF r.tag = "data" THEN served + r.n ELSE served)
      /\ Deliver(x) /\ UNCHANGED <<plan, announced, fresh>>
      /\ x.tag = "end" => native' = "end"
  BY DEF PollResponse
<1> HIDE DEF x
<1>7. CASE /\ r.tag = "data" /\ resp.seen + r.n > resp.bound
           /\ resp' = [resp EXCEPT !.done = TRUE] /\ x = Error("LimitExceeded")
  <2>1. BodyFails(x) /\ x.error = "LimitExceeded"
    BY <1>6, <1>7 DEF Deliver, DataArrives, TrailersArrive, BodyEnds, Error
  <2>2. /\ call' = "none" /\ result' = "ResponseBodyLimitExceeded" /\ got' = got /\ held' = 0
        /\ at' \in {"reading", "done"} /\ outcome' \in {"none", "ResponseBodyLimitExceeded"}
        /\ (at' = "reading" => call # "buffer")
    BY <1>1, <1>2, <2>1 DEF BodyFails, Return, Finish
  <2>3. r.n \in Nat
    BY <1>7 DEF Yields, Data, Trailers, End, Error
  <2>4. /\ resp' \in Counters /\ resp'.kind = "limited" /\ resp'.seen = resp.seen
        /\ resp'.bound = resp.bound /\ resp'.done
    BY <1>1, <1>7 DEF Counters
  <2>5. served' > resp.bound /\ served' >= served /\ served' \in Nat
    BY <1>1, <1>6, <1>7, <2>3
  <2>6. resp.seen <= resp.bound
    BY <1>1 DEF Counters
  <2> QED BY <1>1, <1>4, <1>6, <2>2, <2>4, <2>5, <2>6
          DEF ResponseInv, ResponseTypes, Unread, Limiting, Accounting, Complete, WholeResponse
<1>8. CASE /\ r.tag = "data" /\ resp.seen + r.n <= resp.bound
           /\ resp' = [resp EXCEPT !.seen = @ + r.n] /\ x = r
  <2>1. DataArrives(x) /\ x.n = r.n
    BY <1>6, <1>8 DEF Deliver, TrailersArrive, BodyEnds, BodyFails
  <2>2. r.n \in Nat
    BY <1>8 DEF Yields, Data, Trailers, End, Error
  <2>3. /\ resp' \in Counters /\ resp'.kind = "limited" /\ resp'.seen = resp.seen + r.n
        /\ resp'.bound = resp.bound /\ ~ resp'.done
    BY <1>1, <1>8, <2>2 DEF Counters
  <2>4. served' = served + r.n /\ served' \in Nat
    BY <1>1, <1>6, <1>8, <2>2
  <2>5. /\ UNCHANGED <<at, outcome>>
        /\ \/ call = "chunk" /\ call' = "none" /\ result' = "Ok" /\ got' = got /\ held' = 0
           \/ call = "file" /\ call' = "write" /\ result' = result /\ got' = got /\ held' = r.n
           \/ call = "buffer" /\ call' = "buffer" /\ result' = result /\ got' = got + r.n /\ held' = 0
    <3>1. CASE call = "chunk"
      BY <1>1, <2>1, <3>1 DEF DataArrives, Return
    <3>2. CASE call = "file"
      BY <1>1, <2>1, <3>2 DEF DataArrives
    <3>3. CASE call = "buffer"
      BY <1>1, <2>1, <3>3 DEF DataArrives
    <3> QED BY <1>1, <3>1, <3>2, <3>3
  <2> QED BY <1>1, <1>2, <1>4, <1>5, <1>6, <1>8, <2>2, <2>3, <2>4, <2>5
          DEF ResponseInv, ResponseTypes, Unread, Limiting, Accounting, Complete, WholeResponse
<1>9. CASE r.tag = "trailers" /\ resp' = resp /\ x = r
  <2>1. UNCHANGED <<at, outcome, call, got, held, result, served>>
    BY <1>6, <1>9 DEF Deliver, DataArrives, TrailersArrive, BodyEnds, BodyFails
  <2> QED BY <1>1, <1>2, <1>4, <1>5, <1>6, <1>9, <2>1
          DEF ResponseInv, ResponseTypes, Unread, Limiting, Accounting, Complete, WholeResponse
<1>10. CASE r.tag \in {"error", "end"} /\ resp' = [resp EXCEPT !.done = TRUE] /\ x = r
  <2>1. served' = served /\ resp.seen <= resp.bound
    BY <1>1, <1>6, <1>10 DEF Counters
  <2>2. /\ resp' \in Counters /\ resp'.kind = "limited" /\ resp'.seen = resp.seen
        /\ resp'.bound = resp.bound /\ resp'.done
    BY <1>1, <1>10 DEF Counters
  <2>3. CASE r.tag = "error"
    <3>1. BodyFails(x) /\ x.error # "LimitExceeded"
      BY <1>6, <1>10, <2>3 DEF Deliver, DataArrives, TrailersArrive, BodyEnds
    <3>2. /\ call' = "none" /\ result' = "ResponseBody" /\ got' = got /\ held' = 0
          /\ at' \in {"reading", "done"} /\ outcome' \in {"none", "ResponseBody"}
          /\ (at' = "reading" => call # "buffer")
      BY <1>1, <1>2, <3>1 DEF BodyFails, Return, Finish
    <3> QED BY <1>1, <1>4, <1>6, <2>1, <2>2, <3>2
            DEF ResponseInv, ResponseTypes, Unread, Limiting, Accounting, Complete, WholeResponse
  <2>4. CASE r.tag = "end"
    <3>1. BodyEnds(x) /\ native' = "end"
      BY <1>6, <1>10, <2>4 DEF Deliver, DataArrives, TrailersArrive, BodyFails
    <3>2. /\ got' = got /\ held' = 0
          /\ \/ call = "file" /\ call' = "flush" /\ UNCHANGED <<at, outcome, result>>
             \/ call = "chunk" /\ call' = "none" /\ result' = "Ok" /\ UNCHANGED <<at, outcome>>
             \/ call = "buffer" /\ call' = "none" /\ result' = "Ok" /\ at' = "done" /\ outcome' = "Ok"
      BY <1>1, <1>2, <3>1 DEF BodyEnds, Return, Finish
    <3> QED BY <1>1, <1>2, <1>4, <1>5, <1>6, <2>1, <2>2, <3>1, <3>2
            DEF ResponseInv, ResponseTypes, Unread, Limiting, Accounting, Complete, WholeResponse
  <2> QED BY <1>10, <2>3, <2>4
<1> QED BY <1>1, <1>6, <1>7, <1>8, <1>9, <1>10, LimiterFrame DEF x

\* Before the head of the response there is nothing to account for.
LEMMA RequestPhases ==
    ASSUME RequestInv, ResponseInv, at \in {"build", "limit", "sending"},
           UNCHANGED <<plan, resp, served, native, calls>>, announced' \in Nat,
           at' \in {"limit", "sending", "head", "done"},
           outcome' \in {"none", "RequestBodyLimitExceeded", "RequestExecution"}
    PROVE  ResponseInv'
<1>1. UNCHANGED <<call, got, held, fresh, result>>
  BY DEF calls
<1>2. call = "none" /\ result = "none" /\ got = 0
  BY DEF ResponseInv, Unread
<1>3. plan.family # "skip" => resp.seen <= plan.responseLimit
  BY DEF ResponseInv, Limiting
<1>4. resp.seen \in Nat /\ plan \in Plan
  BY PlansAssumption DEF ResponseInv, ResponseTypes, Counters, RequestInv, RequestTypes
<1>5. plan.responseLimit \in Nat
  BY <1>4 DEF Plan, Bounds, Sizes, NoBound
<1>6. ResponseTypes' /\ Unread'
  BY <1>1, <1>2 DEF ResponseInv, ResponseTypes, Unread
<1>7. Limiting' /\ Accounting' /\ Complete'
  BY <1>1, <1>2, <1>3 DEF ResponseInv, Limiting, Accounting, Complete
<1>8. WholeResponse'
  BY <1>1, <1>2, <1>3, <1>4, <1>5 DEF WholeResponse
<1> QED BY <1>6, <1>7, <1>8 DEF ResponseInv

\* Steps of the caller that read nothing
LEMMA CallerStep ==
    ASSUME RequestInv, ResponseInv, at = "reading",
           NextChunk \/ WriteToFile \/ PollTerminated \/ WriteChunk \/ Flush
    PROVE  ResponseInv'
<1>1. UNCHANGED <<plan, at, outcome, response>> /\ outcome = "none" /\ call # "buffer"
  <2>1. call # "buffer"
    BY DEF NextChunk, WriteToFile, PollTerminated, WriteChunk, Flush, ResponseInv, Complete
  <2> QED BY <2>1 DEF NextChunk, WriteToFile, PollTerminated, WriteChunk, Flush, BodyEnds, Return,
                      End, RequestInv, Progress
<1>2. UNCHANGED <<plan, at, outcome, resp, announced, served, native>>
  BY <1>1 DEF response
<1>3. /\ resp.seen \in Nat /\ served \in Nat /\ got \in Nat /\ held \in Nat /\ resp.seen <= served
      /\ got + held <= resp.seen
  BY DEF ResponseInv, ResponseTypes, Counters, Accounting
<1>4. /\ plan.family # "buffered" /\ plan.family # "skip" /\ plan.responseLimit \in Nat
      /\ plan.responseLimit = resp.bound /\ resp.seen <= plan.responseLimit
  BY <1>1 DEF ResponseInv, ResponseTypes, Limiting, Counters
<1>5. /\ fresh' \in BOOLEAN /\ got' \in Nat /\ held' \in Nat /\ call' \in {"none", "chunk", "file", "write", "flush"}
      /\ result' = "ResponseBodyLimitExceeded" => result' = result
      /\ got' + held' <= got + held
      /\ call' # "write" => held' = 0
      /\ fresh' /\ call' \in {"file", "write"} => ~ resp.done /\ got' + held' = served
      /\ fresh' /\ call' = "flush" => FALSE
  <2>1. CASE NextChunk
    BY <1>3, <2>1 DEF NextChunk, ResponseInv, ResponseTypes, Accounting, Complete
  <2>2. CASE WriteToFile
    <3>1. fresh' => resp.seen = 0 /\ ~ resp.done
      <4>1. fresh' => resp = LimitedBody(resp.bound)
        BY <2>2, Zenon DEF WriteToFile
      <4> QED BY <4>1 DEF LimitedBody
    <3>2. held = 0
      BY <2>2 DEF WriteToFile, ResponseInv, Accounting
    <3> QED BY <1>3, <2>2, <3>1, <3>2 DEF WriteToFile, ResponseInv, Accounting
  <2>3. CASE PollTerminated
    <3>1. call = "file" => ~ fresh
      BY <2>3 DEF PollTerminated, ResponseInv, Complete
    <3> QED BY <1>1, <1>3, <2>3, <3>1 DEF PollTerminated, BodyEnds, Return, ResponseInv, ResponseTypes, Accounting
  <2>4. CASE WriteChunk
    BY <1>3, <2>4 DEF WriteChunk, Return, ResponseInv, ResponseTypes, Complete
  <2>5. CASE Flush
    BY <1>3, <2>5 DEF Flush, Return, ResponseInv, ResponseTypes, Accounting
  <2> QED BY <2>1, <2>2, <2>3, <2>4, <2>5
<1>6. ResponseTypes' /\ Unread'
  BY <1>2, <1>5 DEF ResponseInv, ResponseTypes, Unread
<1>7. got' + held' <= resp.seen /\ got' <= resp.seen /\ call' # "buffer"
  <2>1. got' \in Nat /\ held' \in Nat /\ got' + held' <= got + held /\ call' # "buffer"
    BY <1>5
  <2>2. \A a, b, c, d, e \in Nat : a + b <= c + d /\ c + d <= e => a + b <= e /\ a <= e
    OBVIOUS
  <2> QED BY <1>3, <2>1, <2>2
<1>8. Limiting'
  BY <1>1, <1>2, <1>4, <1>7 DEF Limiting
<1>9. Accounting'
  BY <1>2, <1>5, <1>7 DEF ResponseInv, Accounting
<1>10. Complete'
  BY <1>2, <1>5, <1>7 DEF Complete
<1>11. WholeResponse'
  <2>1. result' = "ResponseBodyLimitExceeded" => served > plan.responseLimit
    BY <1>5 DEF ResponseInv, WholeResponse
  <2>2. got' <= plan.responseLimit
    BY <1>3, <1>4, <1>5, <1>7
  <2> QED BY <1>1, <1>2, <1>4, <1>5, <2>1, <2>2 DEF WholeResponse
<1> QED BY <1>6, <1>8, <1>9, <1>10, <1>11 DEF ResponseInv

LEMMA CancelStep ==
    ASSUME RequestInv, ResponseInv, Cancel
    PROVE  ResponseInv'
<1>1. /\ UNCHANGED <<plan, resp, announced, served, native, got, fresh>>
      /\ held' = 0 /\ call' = "none" /\ result' = "Cancelled"
  BY DEF Cancel, response
<1>2. at \in {"limit", "sending", "head", "reading"} /\ outcome = "none"
  BY DEF Cancel, RequestInv, Progress
<1>3. /\ \/ at' = "done" /\ outcome' = "Cancelled"
         \/ at = "reading" /\ plan.family = "stream" /\ UNCHANGED <<at, outcome>>
  BY DEF Cancel, Finish
<1>4. /\ resp.seen \in Nat /\ got \in Nat /\ held \in Nat /\ got + held <= resp.seen /\ plan \in Plan
      /\ (plan.family # "skip" => resp.seen <= plan.responseLimit)
  BY PlansAssumption DEF ResponseInv, ResponseTypes, Counters, Accounting, Limiting, RequestInv, RequestTypes
<1>5. plan.responseLimit \in Nat
  BY <1>4 DEF Plan, Bounds, Sizes, NoBound
<1>6. ResponseTypes' /\ Unread'
  BY <1>1, <1>2, <1>3 DEF ResponseInv, ResponseTypes, Unread
<1>7. Limiting' /\ Accounting' /\ Complete'
  BY <1>1, <1>2, <1>3, <1>4 DEF ResponseInv, Limiting, Accounting, Complete
<1>8. WholeResponse'
  BY <1>1, <1>2, <1>3, <1>4, <1>5 DEF WholeResponse
<1> QED BY <1>6, <1>7, <1>8 DEF ResponseInv

\* A limiter that has counted nothing takes any bound.
LEMMA Rebound ==
    ASSUME NEW s \in Counters, s.kind = "limited", s.seen = 0, ~ s.done, NEW b \in Nat
    PROVE  LET t == [s EXCEPT !.bound = b]
           IN  t \in Counters /\ t.kind = "limited" /\ t.bound = b /\ t.seen = 0 /\ ~ t.done
BY DEF Counters

LEMMA LimitResponseBodyStep ==
    ASSUME RequestInv, ResponseInv, LimitResponseBody
    PROVE  ResponseInv'
<1>1. /\ at = "head" /\ outcome = "none" /\ call = "none" /\ result = "none"
      /\ resp = LimitedBody(NoBound) /\ served = 0 /\ got = 0 /\ held = 0
      /\ announced \in Nat /\ fresh \in BOOLEAN
      /\ UNCHANGED <<plan, announced, served, native, got, held, fresh, result>>
      /\ plan \in Plan
  BY PlansAssumption DEF LimitResponseBody, RequestInv, RequestTypes, Progress, ResponseInv, ResponseTypes, Unread
<1>2. plan.responseLimit \in Nat /\ plan.family \in Families /\ NoBound \in Nat
  BY <1>1 DEF Plan, Bounds, Sizes, NoBound
<1>3. ResponseLimit \in Nat
  BY <1>2 DEF ResponseLimit
<1>4. resp \in Counters /\ resp.kind = "limited" /\ resp.seen = 0 /\ ~ resp.done
  BY <1>1, <1>2 DEF LimitedBody, Counters
<1>5. resp' = resp \/ resp' = [resp EXCEPT !.bound = ResponseLimit]
  BY DEF LimitResponseBody, SetBodyLimit
<1>6. resp' \in Counters /\ resp'.kind = "limited" /\ resp'.seen = 0 /\ ~ resp'.done
  <2>1. CASE resp' = resp
    BY <1>4, <2>1
  <2>2. CASE resp' = [resp EXCEPT !.bound = ResponseLimit]
    BY <1>3, <1>4, <2>2, Rebound
  <2> QED BY <1>5, <2>1, <2>2
<1>7. /\ call' \in {"none", "buffer"} /\ at' \in {"reading", "done"}
      /\ outcome' = "ResponseTooLarge" => announced > plan.responseLimit
      /\ outcome' # "ResponseBodyLimitExceeded"
      /\ at' = "reading" => /\ resp'.bound = plan.responseLimit /\ plan.family # "skip"
                            /\ plan.family = "buffered" <=> call' = "buffer"
  <2>1. CASE TooLarge /\ Finish("ResponseTooLarge") /\ UNCHANGED <<resp, call>>
    <3>1. announced > plan.responseLimit
      BY <1>1, <1>2, <2>1 DEF TooLarge, ResponseLimit
    <3> QED BY <1>1, <2>1, <3>1 DEF Finish
  <2>2. CASE ~ TooLarge /\ plan.family = "stream" /\ Finish("ResponseContract") /\ UNCHANGED <<resp, call>>
    BY <1>1, <2>2 DEF Finish
  <2>3. CASE /\ resp' = [resp EXCEPT !.bound = SetBodyLimit(ResponseLimit)]
             /\ call' = IF plan.family = "buffered" THEN "buffer" ELSE "none"
             /\ IF plan.family = "skip" THEN Finish("Ok") ELSE at' = "reading" /\ UNCHANGED outcome
    <3>1. CASE plan.family = "skip"
      BY <1>1, <2>3, <3>1 DEF Finish
    <3>2. CASE plan.family # "skip"
      <4>1. resp' = [resp EXCEPT !.bound = plan.responseLimit]
        BY <2>3, <3>2 DEF SetBodyLimit, ResponseLimit
      <4>2. resp'.bound = plan.responseLimit
        BY <1>2, <1>4, <4>1, Rebound
      <4> QED BY <1>1, <2>3, <3>2, <4>2
    <3> QED BY <3>1, <3>2
  <2> QED BY <2>1, <2>2, <2>3 DEF LimitResponseBody
<1>8. ResponseTypes' /\ Unread'
  BY <1>1, <1>6, <1>7 DEF ResponseTypes, Unread
<1>9. Limiting' /\ Accounting' /\ Complete'
  BY <1>1, <1>2, <1>6, <1>7 DEF Limiting, Accounting, Complete
<1>10. WholeResponse'
  BY <1>1, <1>2, <1>6, <1>7 DEF WholeResponse
<1> QED BY <1>8, <1>9, <1>10 DEF ResponseInv

LEMMA ResponseInductive ==
    ASSUME RequestInv, ResponseInv, [ExchangeNext]_exchangeVars
    PROVE  ResponseInv'
<1>0. announced \in Nat /\ Bounds \subseteq Nat
  BY DEF ResponseInv, ResponseTypes, Bounds, Sizes, NoBound
<1>1. CASE Materialise \/ StartSending
  <2>1. outcome = "none"
    BY <1>1 DEF Materialise, StartSending, RequestInv, Progress
  <2> QED BY <1>0, <1>1, <2>1, RequestPhases DEF Materialise, StartSending, response
<1>2. CASE RejectOversize \/ ExecuteFails
  BY <1>0, <1>2, RequestPhases DEF RejectOversize, ExecuteFails, Finish, response
<1>3. CASE ProducerYields
  <2>1. PICK r : PollRequest(r)
    BY <1>3 DEF ProducerYields
  <2>2. /\ at = "sending" /\ outcome = "none"
        /\ UNCHANGED <<plan, at, outcome, resp, announced, served, native, calls>>
    BY <2>1 DEF PollRequest, RequestInv, Progress, response
  <2> QED BY <1>0, <2>2, RequestPhases
<1>4. CASE Respond
  <2>1. outcome = "none"
    BY <1>4 DEF Respond, RequestInv, Progress
  <2> QED BY <1>0, <1>4, <2>1, RequestPhases DEF Respond
<1>5. CASE LimitResponseBody
  BY <1>5, LimitResponseBodyStep
<1>6. CASE NextChunk \/ WriteToFile \/ PollTerminated \/ WriteChunk \/ Flush
  <2>1. at = "reading"
    BY <1>6 DEF NextChunk, WriteToFile, PollTerminated, WriteChunk, Flush, RequestInv, Progress
  <2> QED BY <1>6, <2>1, CallerStep
<1>7. CASE NativeYields
  <2>1. Trailers \in Yields /\ End \in Yields /\ Error("Input") \in Yields
    BY DEF Yields, BodyErrors
  <2>2. \A n \in 0 .. MaxFrame : Data(n) \in Yields
    BY DEF Yields
  <2>3. PICK r \in Yields : PollResponse(r) /\ (r.tag = "error" => r.error = "Input")
    BY <1>7, <2>1, <2>2 DEF NativeYields, Trailers, End, Error, Data
  <2> QED BY <2>3, PollResponseStep
<1>8. CASE Cancel
  BY <1>8, CancelStep
<1>9. CASE UNCHANGED exchangeVars
  <2>1. UNCHANGED <<plan, at, outcome, resp, announced, served, native, call, got, held, fresh, result>>
    BY <1>9 DEF exchangeVars, response, calls
  <2>2. ResponseTypes' /\ Unread' /\ Limiting'
    BY <2>1 DEF ResponseInv, ResponseTypes, Unread, Limiting
  <2>3. Accounting' /\ Complete' /\ WholeResponse'
    BY <2>1 DEF ResponseInv, Accounting, Complete, WholeResponse
  <2> QED BY <2>2, <2>3 DEF ResponseInv
<1> QED BY <1>1, <1>2, <1>3, <1>4, <1>5, <1>6, <1>7, <1>8, <1>9 DEF ExchangeNext

\* All of a response or none of it: the limiter counts every byte on its way, so no
\* announcement gets more than the limit past it; a refusal means that more was sent,
\* and what is reported as complete is complete, whatever calls were dropped before.
THEOREM ResponsesAreWhole == ExchangeSpec => []WholeResponse
<1>1. ResponseInv => WholeResponse
  BY DEF ResponseInv
<1> QED BY <1>1, RequestSafe, ResponseInitial, ResponseInductive, PTL DEF ExchangeSpec

-----------------------------------------------------------------------------
(* CredentialSlot                                                          *)

HIDE BytesAssumption
USE TasksAssumption, BoundsAssumption DEF Credentials

\* What a guard rolls back to is a slot state of the attempt's generation.
LEMMA Rollback ==
    ASSUME NEW p \in PreviousStates, NEW g \in Generations
    PROVE  /\ IntoStateAt(p, g) \in SlotStates
           /\ IntoStateAt(p, g).gen = g
           /\ IntoStateAt(p, g).tag = p.tag
           /\ p.tag = "Valid" => IntoStateAt(p, g).value = p.value
BY DEF IntoStateAt, Empty, Valid, Failed, SlotStates, PreviousStates

\* What the tag of a slot state says about its other fields.
LEMMA Fields ==
    ASSUME state \in SlotStates
    PROVE  /\ state.gen \in Generations
           /\ state.tag \in {"Empty", "Valid", "Failed", "Refreshing"}
           /\ state.tag = "Valid" => state.value \in Credentials
           /\ state.tag = "Failed" => state.backoff \in BOOLEAN
           /\ state.tag = "Refreshing" =>
                state.owner \in Owners /\ state.previous \in PreviousStates
BY DEF SlotStates

\* What an attempt remembers of the state it replaced has its types.
LEMMA PreviousFields ==
    ASSUME NEW p \in PreviousStates
    PROVE  /\ p.tag \in {"Empty", "Valid", "Failed"}
           /\ p.tag = "Valid" => p.value \in Credentials /\ p.gen \in Generations
BY DEF PreviousStates

\* Generations and owners keep to their widths, and the slot, the attempts and
\* the leases of every task stay well formed: each increment is checked.
THEOREM TypeCorrect == Spec => []TypeOK
<1>1. Init => TypeOK
  <2> SUFFICES ASSUME Init PROVE TypeOK
    OBVIOUS
  <2>1. state \in SlotStates
    BY DEF Init, Generations, SlotStates, Empty
  <2> QED
    BY <2>1 DEF Init, TypeOK, NoAttempt, Attempts, Results, NoLease, Lease, Pcs,
                Generations, Owners
<1>2. TypeOK /\ [Next]_vars => TypeOK'
  <2> SUFFICES ASSUME TypeOK, [Next]_vars PROVE TypeOK'
    OBVIOUS
  <2> USE DEF TypeOK, Goto
  <2>f. /\ state.gen \in Generations
        /\ state.tag \in {"Empty", "Valid", "Failed", "Refreshing"}
        /\ state.tag = "Valid" => state.value \in Credentials
        /\ state.tag = "Failed" => state.backoff \in BOOLEAN
        /\ state.tag = "Refreshing" =>
             state.owner \in Owners /\ state.previous \in PreviousStates
    BY Fields
  <2>1. ASSUME NEW t \in Tasks, Request(t) PROVE TypeOK'
    BY <2>1 DEF Request, slotVars, worldVars, history, Pcs
  <2>2. ASSUME NEW t \in Tasks, ServeValid(t) PROVE TypeOK'
    BY <2>2, <2>f DEF ServeValid, Grant, Lease, slotVars, worldVars, Pcs
  <2>3. ASSUME NEW t \in Tasks, NEW p \in PreviousStates, CanAdvance, CanOwn,
               BeginAttempt(t, p)
        PROVE  TypeOK'
    <3>1. state.gen + 1 \in Generations /\ nextOwner + 1 \in Owners
      BY <2>3, <2>f DEF CanAdvance, CanOwn, Generations, Owners
    <3>2. state' \in SlotStates
      BY <2>3, <3>1 DEF BeginAttempt, SlotStates, Refreshing
    <3>3. attempt' \in [Tasks -> Attempts]
      BY <2>3, <3>1 DEF BeginAttempt, Attempts, Results, Owners
    <3> QED
      BY <2>3, <3>1, <3>2, <3>3 DEF BeginAttempt, worldVars, history, Pcs
  <2>4. ASSUME NEW t \in Tasks, BeginRefresh(t) PROVE TypeOK'
    <3>1. [tag |-> "Valid", value |-> state.value, gen |-> state.gen] \in PreviousStates
      BY <2>4, <2>f DEF BeginRefresh, PreviousStates
    <3> QED BY <2>3, <2>4, <3>1 DEF BeginRefresh
  <2>5. ASSUME NEW t \in Tasks, BeginRetry(t) PROVE TypeOK'
    <3>1. [tag |-> "Failed"] \in PreviousStates
      BY DEF PreviousStates
    <3> QED BY <2>3, <2>5, <3>1 DEF BeginRetry
  <2>6. ASSUME NEW t \in Tasks, BeginAcquire(t) PROVE TypeOK'
    <3>1. [tag |-> "Empty"] \in PreviousStates
      BY DEF PreviousStates
    <3> QED BY <2>3, <2>6, <3>1 DEF BeginAcquire
  <2>7. ASSUME NEW t \in Tasks, Join(t) PROVE TypeOK'
    BY <2>7, <2>f DEF Join, slotVars, worldVars, history, Pcs, Owners
  <2>8. ASSUME NEW t \in Tasks, ReturnFailed(t) PROVE TypeOK'
    BY <2>8 DEF ReturnFailed, ReturnErr, NoLease, Lease, slotVars, worldVars, Pcs, Generations
  <2>9. ASSUME NEW t \in Tasks, CounterOverflow(t) PROVE TypeOK'
    <3>1. nextOwner' \in Owners
      BY <2>9 DEF CounterOverflow, CanOwn, Owners
    <3> QED
      BY <2>9, <3>1 DEF CounterOverflow, ReturnErr, NoLease, Lease, worldVars, Pcs, Generations
  <2>10. ASSUME NEW t \in Tasks, ProviderResolves(t) PROVE TypeOK'
    <3>1. PICK r \in Results : ProviderReturns(t, r)
      BY <2>10 DEF ProviderResolves
    <3>2. attempt' \in [Tasks -> Attempts]
      BY <3>1 DEF ProviderReturns, Attempts
    <3> QED
      BY <3>1, <3>2 DEF ProviderReturns, slotVars, worldVars, history, Pcs
  <2>a. NoAttempt \in Attempts
    BY DEF NoAttempt, Attempts, Results, Generations
  <2>n. NoLease \in [value : Nat, gen : Generations]
    BY DEF NoLease, Lease, Generations
  <2>l. ASSUME NEW t \in Tasks, LoseOwnership(t) PROVE TypeOK'
    BY <2>l, <2>a DEF LoseOwnership, slotVars, worldVars, history, Pcs
  <2>11. ASSUME NEW t \in Tasks, CommitCheck(t) PROVE TypeOK'
    BY <2>11, <2>l DEF CommitCheck, slotVars, worldVars, history, Pcs
  <2>w. ASSUME NEW p \in [Tasks -> Pcs], NEW o PROVE Wake(p, o) \in [Tasks -> Pcs]
    BY DEF Wake, Pcs
  <2>12. ASSUME NEW t \in Tasks, CommitStore(t) PROVE TypeOK'
    <3>0. attempt[t].gen \in Generations
      BY DEF Attempts
    <3>w. Wake([pc EXCEPT ![t] = "idle"], attempt[t].owner) \in [Tasks -> Pcs]
      <4>1. [pc EXCEPT ![t] = "idle"] \in [Tasks -> Pcs]
        BY DEF Pcs
      <4> QED BY <4>1, <2>w
    <3>s. CASE /\ StoreOk(t) \/ StoreError(t)
               /\ attempt' = [attempt EXCEPT ![t] = NoAttempt]
               /\ UNCHANGED <<nextOwner, waitOn, notifying, expiring, dropped, rejected>>
      <4>1. attempt' \in [Tasks -> Attempts]
        BY <2>a, <3>s
      <4>2. CASE StoreOk(t)
        <5>1. minted + 1 \in Nat /\ minted + 1 # 0
          OBVIOUS
        <5>2. state' \in SlotStates
          BY <3>0, <4>2, <5>1 DEF StoreOk, Valid, SlotStates
        <5>3. Lease(minted + 1, attempt[t].gen) \in [value : Credentials, gen : Generations]
          BY <3>0, <5>1 DEF Lease
        <5>4. /\ lease' \in [Tasks -> [value : Nat, gen : Generations]]
              /\ leases' \subseteq [value : Credentials, gen : Generations]
          BY <4>2, <5>3 DEF StoreOk
        <5>5. pc' \in [Tasks -> Pcs] /\ minted' \in Nat
          BY <3>w, <4>2, <5>1 DEF StoreOk
        <5> QED BY <3>s, <4>1, <5>2, <5>4, <5>5
      <4>3. CASE StoreError(t)
        <5>1. state' \in SlotStates
          BY <3>0, <4>3 DEF StoreError, Failed, SlotStates
        <5>2. lease' \in [Tasks -> [value : Nat, gen : Generations]]
          BY <2>n, <4>3 DEF StoreError
        <5>3. pc' \in [Tasks -> Pcs] /\ UNCHANGED <<minted, leases>>
          BY <3>w, <4>3 DEF StoreError
        <5> QED BY <3>s, <4>1, <5>1, <5>2, <5>3
      <4> QED BY <3>s, <4>2, <4>3
    <3>u. CASE /\ Goto(t, "unwind")
               /\ UNCHANGED <<slotVars, attempt, waitOn, lease, notifying, worldVars, history>>
      BY <3>u DEF slotVars, worldVars, history, Pcs
    <3> QED BY <2>12, <2>l, <3>s, <3>u DEF CommitStore
  <2>13. ASSUME NEW t \in Tasks, DropGuard(t) PROVE TypeOK'
    <3>1. state' \in SlotStates /\ notifying' \subseteq Owners
      BY <2>13, <2>f, Rollback DEF DropGuard
    <3> QED
      BY <2>13, <2>a, <2>n, <3>1 DEF DropGuard, ReturnErr, worldVars, Pcs
  <2>14. ASSUME NEW t \in Tasks, CancelWait(t) PROVE TypeOK'
    BY <2>14 DEF CancelWait, ReturnErr, NoLease, Lease, slotVars, worldVars, Pcs, Generations
  <2>i. ASSUME NEW m, InvalidateGenerationState(m)
        PROVE  state' \in SlotStates /\ dropped' \subseteq Nat
    <3>1. CASE InvalidateOverflows(m)
      BY <2>i, <3>1 DEF InvalidateGenerationState, InvalidateOverflows
    <3>2. CASE state.tag = "Valid" /\ state.gen \in m /\ CanAdvance
      <4>1. state.gen + 1 \in Generations
        BY <3>2, <2>f DEF CanAdvance, Generations
      <4> QED
        BY <2>i, <3>2, <4>1, <2>f
        DEF InvalidateGenerationState, InvalidateOverflows, Empty, SlotStates
    <3>3. CASE /\ state.tag = "Refreshing" /\ state.previous.tag = "Valid"
               /\ state.previous.gen \in m
      <4>1. /\ state' = [state EXCEPT !.previous = [tag |-> "Empty"]]
            /\ dropped' = dropped \cup {state.previous.value}
        BY <2>i, <3>3 DEF InvalidateGenerationState, InvalidateOverflows
      <4>2. state.previous.value \in Nat
        BY <3>3, <2>f, PreviousFields
      <4>3. [tag |-> "Empty"] \in PreviousStates
        BY DEF PreviousStates
      <4>4. state \in [tag : {"Refreshing"}, gen : Generations, owner : Owners,
                       previous : PreviousStates]
        BY <3>3 DEF SlotStates
      <4>5. state' \in SlotStates
        BY <4>1, <4>3, <4>4 DEF SlotStates
      <4> QED BY <4>1, <4>2, <4>5
    <3>4. CASE /\ ~InvalidateOverflows(m)
               /\ ~(state.tag = "Valid" /\ state.gen \in m /\ CanAdvance)
               /\ ~(/\ state.tag = "Refreshing" /\ state.previous.tag = "Valid"
                    /\ state.previous.gen \in m)
      BY <2>i, <3>4 DEF InvalidateGenerationState
    <3> QED BY <3>1, <3>2, <3>3, <3>4
  <2>15. ASSUME NEW t \in Tasks, Reject(t) PROVE TypeOK'
    <3>1. state' \in SlotStates /\ dropped' \subseteq Nat
      BY <2>15, <2>i DEF Reject
    <3>2. lease[t].value \in Nat
      OBVIOUS
    <3>3. rejected' \subseteq Nat
      BY <2>15, <3>2 DEF Reject
    <3>4. lease' \in [Tasks -> [value : Nat, gen : Generations]]
      BY <2>15, <2>n DEF Reject
    <3> QED
      BY <2>15, <3>1, <3>3, <3>4 DEF Reject, worldVars
  <2>16. ASSUME NEW o \in Owners, NotifyWaiters(o) PROVE TypeOK'
    BY <2>16, <2>w DEF NotifyWaiters, slotVars, worldVars, history
  <2>17. CASE InvalidateAny
    <3>1. state' \in SlotStates /\ dropped' \subseteq Nat
      BY <2>17, <2>i DEF InvalidateAny
    <3> QED BY <2>17, <3>1 DEF InvalidateAny, taskVars, worldVars
  <2>e. EndAttempt => notifying' \subseteq Owners
    BY <2>f DEF EndAttempt
  <2>g. CanAdvance => state.gen + 1 \in Generations
    BY <2>f DEF CanAdvance, Generations
  <2>18. CASE SetManual
    <3>1. state' \in SlotStates /\ minted' \in Nat
      BY <2>18, <2>g DEF SetManual, Valid, SlotStates
    <3> QED BY <2>18, <2>e, <3>1 DEF SetManual, taskVars, history
  <2>19. CASE ClearManual
    <3>1. state' \in SlotStates
      BY <2>19, <2>g DEF ClearManual, Empty, SlotStates
    <3>2. Held \subseteq Nat
      BY <2>f, PreviousFields DEF Held
    <3> QED BY <2>19, <2>e, <3>1, <3>2 DEF ClearManual, taskVars, worldVars
  <2>20. CASE Expire
    BY <2>20, <2>f DEF Expire, slotVars, taskVars, history
  <2>21. CASE BackoffElapses
    <3>1. state' \in SlotStates
      BY <2>21, <2>f DEF BackoffElapses, Failed, SlotStates
    <3> QED BY <2>21, <3>1 DEF BackoffElapses, taskVars, worldVars, history
  <2>22. CASE UNCHANGED vars
    BY <2>22 DEF vars, slotVars, taskVars, worldVars, history
  <2> QED
    BY <2>1, <2>2, <2>4, <2>5, <2>6, <2>7, <2>8, <2>9, <2>10, <2>11, <2>12, <2>13, <2>14,
       <2>15, <2>16, <2>17, <2>18, <2>19, <2>20, <2>21, <2>22
    DEF Next, GetOrRefresh, Commit
<1>3. QED BY <1>1, <1>2, PTL DEF Spec
-----------------------------------------------------------------------------
(* The slot implements LeaseRegister                                       *)

\* The credential the register holds
Cell == IF state.tag = "Valid" THEN state.value ELSE 0

\* A step of the slot is a step of the register, or leaves it alone.  Each
\* action is one of four kinds: it supersedes the generation, fills it, copies
\* it or does not touch what the register shows.
LEMMA RegisterStep ==
    ASSUME TypeOK, [Next]_vars
    PROVE  \/ /\ state'.gen > state.gen /\ leases' = leases
              /\ state'.gen \in Nat /\ Cell' \in Nat
           \/ /\ Cell = 0 /\ Cell' \in Credentials /\ state'.gen = state.gen
              /\ leases' \in {leases, leases \cup {Lease(Cell', state.gen)}}
           \/ /\ Cell # 0 /\ Cell' = Cell /\ state'.gen = state.gen
              /\ leases' = leases \cup {Lease(Cell, state.gen)}
              /\ state' = state
           \/ /\ Cell' = Cell /\ state'.gen = state.gen /\ leases' = leases
              /\ state.tag = "Valid" => state' = state
<1> DEFINE Superseded == /\ state'.gen > state.gen /\ leases' = leases
                         /\ state'.gen \in Nat /\ Cell' \in Nat
           Filled == /\ Cell = 0 /\ Cell' \in Credentials /\ state'.gen = state.gen
                     /\ leases' \in {leases, leases \cup {Lease(Cell', state.gen)}}
           Copied == /\ Cell # 0 /\ Cell' = Cell /\ state'.gen = state.gen
                     /\ leases' = leases \cup {Lease(Cell, state.gen)}
                     /\ state' = state
           Untouched == /\ Cell' = Cell /\ state'.gen = state.gen /\ leases' = leases
                        /\ state.tag = "Valid" => state' = state
           Shape == Superseded \/ Filled \/ Copied \/ Untouched
<1> SUFFICES Shape
  OBVIOUS
<1>f. /\ state.gen \in Nat
      /\ state.tag \in {"Empty", "Valid", "Failed", "Refreshing"}
      /\ state.tag = "Valid" => state.value \in Credentials
      /\ state.tag = "Refreshing" =>
           state.owner \in Owners /\ state.previous \in PreviousStates
  BY Fields DEF TypeOK, Generations
<1>u. state' = state /\ leases' = leases => Shape
  BY DEF Cell
<1>1. ASSUME NEW t \in Tasks, Request(t) \/ Join(t) \/ ReturnFailed(t) \/ CounterOverflow(t)
                              \/ ProviderResolves(t) \/ CancelWait(t) \/ CommitCheck(t)
      PROVE  Shape
  BY <1>1, <1>u DEF Request, Join, ReturnFailed, CounterOverflow, ReturnErr, ProviderResolves,
                    ProviderReturns, CancelWait, CommitCheck, LoseOwnership, slotVars, history
<1>2. ASSUME NEW t \in Tasks, ServeValid(t) PROVE Shape
  BY <1>2, <1>f DEF ServeValid, Grant, Cell, slotVars
<1>3. ASSUME NEW t \in Tasks, NEW p, BeginAttempt(t, p) PROVE Shape
  BY <1>3, <1>f DEF BeginAttempt, Refreshing, Cell, history
<1>4. ASSUME NEW t \in Tasks, BeginRefresh(t) \/ BeginRetry(t) \/ BeginAcquire(t) PROVE Shape
  BY <1>3, <1>4 DEF BeginRefresh, BeginRetry, BeginAcquire
<1>5. ASSUME NEW t \in Tasks, CommitStore(t) PROVE Shape
  <2>1. CASE LoseOwnership(t)
    BY <2>1, <1>u DEF LoseOwnership, slotVars, history
  <2>2. CASE Owns(t) /\ StoreOk(t)
    <3>1. minted + 1 \in Credentials
      BY DEF TypeOK
    <3>2. /\ state.tag = "Refreshing" /\ state.gen = attempt[t].gen
          /\ state' = Valid(minted + 1, state.gen)
          /\ leases' = leases \cup {Lease(minted + 1, state.gen)}
      BY <2>2 DEF Owns, StoreOk
    <3> QED BY <3>1, <3>2 DEF Valid, Cell
  <2>3. CASE Owns(t) /\ StoreError(t)
    BY <2>3, <1>f DEF Owns, StoreError, Failed, Cell
  <2>4. CASE UNCHANGED <<slotVars, history>>
    BY <2>4, <1>u DEF slotVars, history
  <2> QED BY <1>5, <2>1, <2>2, <2>3, <2>4 DEF CommitStore
<1>6. ASSUME NEW t \in Tasks, DropGuard(t) PROVE Shape
  <2>1. leases' = leases
    BY <1>6 DEF DropGuard, ReturnErr
  <2>2. CASE state.tag = "Refreshing" /\ state.owner = attempt[t].owner
    <3>1. state' = IntoStateAt(state.previous, state.gen)
      BY <1>6, <2>2 DEF DropGuard
    <3>2. PICK p \in PreviousStates, g \in Generations : p = state.previous /\ g = state.gen
      BY <1>f, <2>2, Fields DEF TypeOK
    <3>3. /\ state'.gen = state.gen
          /\ state'.tag = "Valid" => state'.value \in Credentials
      BY <3>1, <3>2, Rollback, PreviousFields
    <3> QED BY <2>1, <2>2, <3>3 DEF Cell
  <2>3. CASE ~(state.tag = "Refreshing" /\ state.owner = attempt[t].owner)
    BY <1>6, <1>u, <2>1, <2>3 DEF DropGuard
  <2> QED BY <2>2, <2>3
<1>i. ASSUME NEW m, InvalidateGenerationState(m), leases' = leases PROVE Shape
  <2>1. CASE state.tag = "Valid" /\ state.gen \in m /\ CanAdvance
    BY <1>i, <2>1, <1>f DEF InvalidateGenerationState, InvalidateOverflows, Empty, Cell
  <2>2. CASE state.tag = "Refreshing" /\ state.previous.tag = "Valid"
                                      /\ state.previous.gen \in m
    <3>1. state' = [state EXCEPT !.previous = [tag |-> "Empty"]]
      BY <1>i, <2>2 DEF InvalidateGenerationState, InvalidateOverflows
    <3>2. state'.tag = "Refreshing" /\ state'.gen = state.gen
      BY <2>2, <3>1 DEF TypeOK, SlotStates
    <3> QED BY <1>i, <2>2, <3>2 DEF Cell
  <2>3. CASE /\ ~(state.tag = "Valid" /\ state.gen \in m /\ CanAdvance)
             /\ ~(/\ state.tag = "Refreshing" /\ state.previous.tag = "Valid"
                  /\ state.previous.gen \in m)
    BY <1>i, <2>3, <1>u DEF InvalidateGenerationState, InvalidateOverflows
  <2> QED BY <2>1, <2>2, <2>3
<1>7. ASSUME NEW t \in Tasks, Reject(t) PROVE Shape
  BY <1>7, <1>i DEF Reject
<1>8. CASE InvalidateAny
  BY <1>8, <1>i DEF InvalidateAny
<1>9. ASSUME NEW o \in Owners, NotifyWaiters(o) PROVE Shape
  BY <1>9, <1>u DEF NotifyWaiters, slotVars, history
<1>10. CASE SetManual
  <2>1. minted + 1 \in Nat
    BY DEF TypeOK
  <2> QED BY <1>10, <1>f, <2>1 DEF SetManual, Valid, Cell, history
<1>11. CASE ClearManual
  BY <1>11, <1>f DEF ClearManual, Empty, Cell
<1>12. CASE Expire
  BY <1>12, <1>u DEF Expire, slotVars, history
<1>13. CASE BackoffElapses
  BY <1>13, <1>f DEF BackoffElapses, Failed, Cell, history
<1>14. CASE UNCHANGED vars
  BY <1>14, <1>u DEF vars, slotVars, history
<1> QED
  BY <1>1, <1>2, <1>4, <1>5, <1>6, <1>7, <1>8, <1>9, <1>10, <1>11, <1>12, <1>13, <1>14
  DEF Next, GetOrRefresh, Commit

\* The slot implements LeaseRegister: whatever tasks, cancellations, manual
\* changes and invalidations do, a generation is filled at most once.
THEOREM SlotImplementsRegister == Spec => ImplementsLeaseRegister
<1>1. Init => Register!Init
  BY DEF Init, Register!Init, Empty
<1>2. TypeOK /\ [Next]_vars => [Register!Next]_(Register!registerVars)
  <2> SUFFICES ASSUME TypeOK, [Next]_vars
               PROVE  [Register!Next]_(Register!registerVars)
    OBVIOUS
  <2> QED
    BY RegisterStep
    DEF Cell, Lease, Register!Next, Register!Supersede, Register!Fill, Register!Copy,
        Register!registerVars
<1> QED
  BY <1>1, <1>2, TypeCorrect, PTL DEF Spec, ImplementsLeaseRegister, Register!Spec

\* No step takes the generation back, and a served credential is replaced or
\* removed only under a newer generation.
THEOREM GenerationNeverGoesBack == Spec => GenerationMonotone
<1>1. TypeOK /\ [Next]_vars =>
        [/\ state'.gen >= state.gen
         /\ state.tag = "Valid" /\ state' # state => state'.gen > state.gen]_vars
  <2> SUFFICES ASSUME TypeOK, [Next]_vars
               PROVE  /\ state'.gen >= state.gen
                      /\ state.tag = "Valid" /\ state' # state => state'.gen > state.gen
    OBVIOUS
  <2>1. state.gen \in Nat /\ (state.tag = "Valid" => state.value \in Credentials)
    BY Fields DEF TypeOK, Generations
  <2> QED
    BY <2>1, RegisterStep DEF Cell
<1> QED BY <1>1, TypeCorrect, PTL DEF Spec, GenerationMonotone

\* What makes LeaseIdentity inductive: no lease is ahead of the slot, and a
\* lease of the slot's own generation is a copy of what the slot serves now.
LeaseInv ==
    \A l \in leases :
      /\ l.gen <= state.gen
      /\ l.gen = state.gen => state.tag = "Valid" /\ state.value = l.value
      /\ \A k \in leases : k.gen = l.gen => k.value = l.value

\* A generation names one credential, in every lease handed out and in the slot.
THEOREM LeasesAreIdentified == Spec => []LeaseIdentity
<1>1. Init => LeaseInv
  BY DEF Init, LeaseInv
<1>2. TypeOK /\ LeaseInv /\ [Next]_vars => LeaseInv'
  <2> SUFFICES ASSUME TypeOK, LeaseInv, [Next]_vars
               PROVE  LeaseInv'
    OBVIOUS
  <2>1. /\ state.gen \in Nat
        /\ state.tag = "Valid" => state.value \in Credentials
        /\ leases \subseteq [value : Credentials, gen : Generations]
    BY Fields DEF TypeOK, Generations
  <2>2. CASE state'.gen > state.gen /\ leases' = leases /\ state'.gen \in Nat
    BY <2>1, <2>2 DEF LeaseInv, Generations
  <2>3. CASE /\ Cell = 0 /\ Cell' \in Credentials /\ state'.gen = state.gen
             /\ leases' \in {leases, leases \cup {Lease(Cell', state.gen)}}
    <3>1. \A l \in leases : l.gen # state.gen
      BY <2>1, <2>3 DEF LeaseInv, Cell
    <3>2. state'.tag = "Valid" /\ state'.value = Cell'
      BY <2>3 DEF Cell
    <3> QED BY <2>1, <2>3, <3>1, <3>2 DEF LeaseInv, Lease
  <2>4. CASE /\ Cell # 0 /\ state' = state
             /\ leases' = leases \cup {Lease(Cell, state.gen)}
    <3>1. state.tag = "Valid" /\ state.value = Cell
      BY <2>4 DEF Cell
    <3> QED BY <2>1, <2>4, <3>1 DEF LeaseInv, Lease
  <2>5. CASE Cell' = Cell /\ state'.gen = state.gen /\ leases' = leases
    <3>1. ASSUME state.tag = "Valid"
          PROVE  state'.tag = "Valid" /\ state'.value = state.value
      BY <2>1, <2>5, <3>1 DEF Cell
    <3> QED BY <2>5, <3>1 DEF LeaseInv
  <2> QED BY <2>2, <2>3, <2>4, <2>5, RegisterStep
<1>3. LeaseInv => LeaseIdentity
  BY DEF LeaseInv, LeaseIdentity
<1> QED BY <1>1, <1>2, <1>3, TypeCorrect, PTL DEF Spec
-----------------------------------------------------------------------------
(* Who is behind a refresh, and who is woken                               *)

\* What makes RefreshHasOneOwner inductive: owners are never handed out twice,
\* so two guards never carry the same one.
OwnerInv ==
    /\ \A t \in Tasks : pc[t] \in Guarded => attempt[t].owner < nextOwner
    /\ \A t, u \in Tasks :
         pc[t] \in Guarded /\ pc[u] \in Guarded /\ t # u => attempt[t].owner # attempt[u].owner
    /\ state.tag = "Refreshing" => \E t \in Tasks : pc[t] \in Guarded /\ Owns(t)

\* Invalidation changes neither the tag, the owner nor the generation of a slot
\* that is Refreshing, and starts no attempt.
LEMMA InvalidationKeepsAttempt ==
    ASSUME TypeOK, NEW m, InvalidateGenerationState(m)
    PROVE  /\ state'.tag = "Refreshing" <=> state.tag = "Refreshing"
           /\ state.tag = "Refreshing" => state'.owner = state.owner /\ state'.gen = state.gen
<1>1. CASE state.tag = "Valid"
  BY <1>1 DEF InvalidateGenerationState, InvalidateOverflows, Empty
<1>2. CASE state.tag = "Refreshing" /\ state.previous.tag = "Valid" /\ state.previous.gen \in m
  <2>1. state' = [state EXCEPT !.previous = [tag |-> "Empty"]]
    BY <1>2 DEF InvalidateGenerationState, InvalidateOverflows
  <2>2. state \in [tag : {"Refreshing"}, gen : Generations, owner : Owners,
                   previous : PreviousStates]
    BY <1>2 DEF TypeOK, SlotStates
  <2> QED BY <2>1, <2>2
<1>3. CASE /\ state.tag # "Valid"
           /\ ~(/\ state.tag = "Refreshing" /\ state.previous.tag = "Valid"
                /\ state.previous.gen \in m)
  BY <1>3 DEF InvalidateGenerationState, InvalidateOverflows
<1> QED BY <1>1, <1>2, <1>3

\* Waking tasks takes no guard from anybody.
LEMMA WakeKeepsGuards ==
    ASSUME NEW p \in [Tasks -> Pcs], NEW o, NEW t \in Tasks
    PROVE  Wake(p, o)[t] \in Guarded <=> p[t] \in Guarded
BY DEF Wake, Guarded

\* A slot that is Refreshing always has exactly one task behind it that will
\* commit or roll back, whatever is cancelled, overridden or commits late.
THEOREM RefreshIsOwned == Spec => []RefreshHasOneOwner
<1>1. Init => OwnerInv
  BY DEF Init, OwnerInv, Guarded, Empty
<1>2. TypeOK /\ OwnerInv /\ [Next]_vars => OwnerInv'
  <2> SUFFICES ASSUME TypeOK, OwnerInv, [Next]_vars
               PROVE  OwnerInv'
    OBVIOUS
  <2>f. /\ pc \in [Tasks -> Pcs] /\ attempt \in [Tasks -> Attempts] /\ nextOwner \in Nat
        /\ \A t \in Tasks : attempt[t].owner \in Nat
    BY DEF TypeOK, Owners, Attempts
  <2>u. ASSUME state' = state, attempt' = attempt, nextOwner' \in Nat, nextOwner' >= nextOwner,
               \A t \in Tasks : pc'[t] \in Guarded <=> pc[t] \in Guarded
        PROVE  OwnerInv'
    BY <2>u, <2>f DEF OwnerInv, Owns
  <2>1. ASSUME NEW t \in Tasks, Request(t) \/ Join(t) \/ CancelWait(t) \/ ReturnFailed(t)
                                \/ ServeValid(t) \/ CounterOverflow(t)
        PROVE  OwnerInv'
    BY <2>1, <2>u, <2>f DEF Request, Join, CancelWait, ReturnFailed, ServeValid, CounterOverflow,
                            Grant, ReturnErr, Goto, Guarded, slotVars
  <2>2. ASSUME NEW t \in Tasks, NEW p, state.tag # "Refreshing", pc[t] = "lookup",
               BeginAttempt(t, p)
        PROVE  OwnerInv'
    <3>1. /\ nextOwner' = nextOwner + 1
          /\ attempt'[t].owner = nextOwner /\ attempt'[t].gen = state'.gen
          /\ state'.owner = nextOwner
          /\ pc'[t] = "provider"
          /\ \A u \in Tasks \ {t} : pc'[u] = pc[u] /\ attempt'[u] = attempt[u]
      BY <2>2, <2>f DEF BeginAttempt, Refreshing, Goto
    <3> QED BY <2>f, <3>1 DEF OwnerInv, Owns, Guarded
  <2>3. ASSUME NEW t \in Tasks, BeginRefresh(t) \/ BeginRetry(t) \/ BeginAcquire(t)
        PROVE  OwnerInv'
    BY <2>2, <2>3 DEF BeginRefresh, BeginRetry, BeginAcquire
  <2>4. ASSUME NEW t \in Tasks, ProviderResolves(t)
        PROVE  OwnerInv'
    <3>1. PICK r \in Results : ProviderReturns(t, r)
      BY <2>4 DEF ProviderResolves
    <3>2. /\ UNCHANGED <<state, nextOwner>>
          /\ \A u \in Tasks : /\ attempt'[u].owner = attempt[u].owner
                              /\ attempt'[u].gen = attempt[u].gen
                              /\ pc'[u] \in Guarded <=> pc[u] \in Guarded
      BY <2>f, <3>1 DEF ProviderReturns, Goto, Guarded, slotVars, Attempts
    <3> QED BY <3>2 DEF OwnerInv, Owns
  <2>l. ASSUME NEW t \in Tasks, UNCHANGED <<nextOwner>>, ~Owns(t) \/ state'.tag # "Refreshing",
               state' = state \/ state'.tag # "Refreshing",
               attempt' = [attempt EXCEPT ![t] = NoAttempt],
               \A u \in Tasks : pc'[u] \in Guarded <=> pc[u] \in Guarded /\ u # t
        PROVE  OwnerInv'
    BY <2>l, <2>f DEF OwnerInv, Owns
  <2>5. ASSUME NEW t \in Tasks, pc[t] \in Guarded, LoseOwnership(t)
        PROVE  OwnerInv'
    BY <2>5, <2>l, <2>f DEF LoseOwnership, Goto, Guarded, slotVars
  <2>6. ASSUME NEW t \in Tasks, CommitCheck(t)
        PROVE  OwnerInv'
    BY <2>6, <2>5, <2>u, <2>f DEF CommitCheck, Goto, Guarded, slotVars
  <2>7. ASSUME NEW t \in Tasks, CommitStore(t)
        PROVE  OwnerInv'
    <3>1. CASE LoseOwnership(t)
      BY <2>5, <2>7, <3>1 DEF CommitStore, Guarded
    <3>2. CASE /\ StoreOk(t) \/ StoreError(t)
               /\ attempt' = [attempt EXCEPT ![t] = NoAttempt] /\ UNCHANGED nextOwner
      <4>1. state'.tag # "Refreshing"
        BY <3>2 DEF StoreOk, StoreError, Valid, Failed
      <4>2. [pc EXCEPT ![t] = "idle"] \in [Tasks -> Pcs]
        BY <2>f DEF Pcs
      <4>w. pc' = Wake([pc EXCEPT ![t] = "idle"], attempt[t].owner)
        BY <3>2 DEF StoreOk, StoreError
      <4>3. \A u \in Tasks : pc'[u] \in Guarded <=> [pc EXCEPT ![t] = "idle"][u] \in Guarded
        BY <4>w, <4>2, WakeKeepsGuards
      <4>4. \A u \in Tasks : pc'[u] \in Guarded <=> pc[u] \in Guarded /\ u # t
        BY <2>f, <4>3 DEF Guarded
      <4> QED BY <2>l, <3>2, <4>1, <4>4
    <3>3. CASE Goto(t, "unwind") /\ UNCHANGED <<slotVars, attempt>>
      BY <2>7, <2>u, <2>f, <3>3 DEF CommitStore, Goto, Guarded, slotVars
    <3> QED BY <2>7, <3>1, <3>2, <3>3 DEF CommitStore
  <2>8. ASSUME NEW t \in Tasks, DropGuard(t)
        PROVE  OwnerInv'
    <3>1. \A u \in Tasks : pc'[u] \in Guarded <=> pc[u] \in Guarded /\ u # t
      BY <2>8, <2>f DEF DropGuard, ReturnErr, Goto, Guarded
    <3>2. CASE state.tag = "Refreshing" /\ state.owner = attempt[t].owner
      <4>1. state' = IntoStateAt(state.previous, state.gen) /\ state.previous \in PreviousStates
        BY <2>8, <3>2, Fields DEF DropGuard, TypeOK
      <4>2. state'.tag # "Refreshing"
        BY <4>1, PreviousFields DEF IntoStateAt, Empty, Valid, Failed
      <4> QED BY <2>8, <2>l, <3>1, <4>2 DEF DropGuard
    <3>3. CASE ~(state.tag = "Refreshing" /\ state.owner = attempt[t].owner)
      BY <2>8, <2>l, <3>1, <3>3 DEF DropGuard, Owns
    <3> QED BY <3>2, <3>3
  <2>s. ASSUME UNCHANGED <<nextOwner, attempt, pc>>, state'.tag # "Refreshing"
        PROVE  OwnerInv'
    BY <2>s DEF OwnerInv
  <2>9. ASSUME NEW m, InvalidateGenerationState(m), UNCHANGED <<nextOwner, attempt, pc>>
        PROVE  OwnerInv'
    BY <2>9, InvalidationKeepsAttempt DEF OwnerInv, Owns
  <2>10. ASSUME NEW t \in Tasks, Reject(t)
         PROVE  OwnerInv'
    BY <2>9, <2>10 DEF Reject
  <2>11. CASE InvalidateAny
    BY <2>9, <2>11 DEF InvalidateAny, taskVars
  <2>12. ASSUME NEW o \in Owners, NotifyWaiters(o)
         PROVE  OwnerInv'
    BY <2>12, <2>u, <2>f, WakeKeepsGuards DEF NotifyWaiters, slotVars
  <2>13. CASE SetManual \/ ClearManual \/ BackoffElapses
    BY <2>13, <2>s DEF SetManual, ClearManual, BackoffElapses, taskVars, Valid, Empty, Failed
  <2>14. CASE Expire \/ UNCHANGED vars
    BY <2>14, <2>u, <2>f DEF Expire, vars, slotVars, taskVars
  <2> QED
    BY <2>1, <2>3, <2>4, <2>6, <2>7, <2>8, <2>10, <2>11, <2>12, <2>13, <2>14
    DEF Next, GetOrRefresh, Commit
<1>3. TypeOK /\ OwnerInv => RefreshHasOneOwner
  BY DEF OwnerInv, RefreshHasOneOwner, Owns
<1> QED BY <1>1, <1>2, <1>3, TypeCorrect, PTL DEF Spec

\* A task that waits is woken by the end of the attempt it waits for: no way out
\* of Refreshing and no order of unlock, notify and await leaves it asleep.
THEOREM WakeupsAreNotLost == Spec => []NoLostWakeup
<1>1. Init => NoLostWakeup
  BY DEF Init, NoLostWakeup
<1>2. TypeOK /\ NoLostWakeup /\ [Next]_vars => NoLostWakeup'
  <2> SUFFICES ASSUME TypeOK, NoLostWakeup, [Next]_vars
               PROVE  NoLostWakeup'
    OBVIOUS
  <2>f. pc \in [Tasks -> Pcs]
    BY DEF TypeOK
  <2>k. ASSUME \A t \in Tasks : pc'[t] = "waiting" => pc[t] = "waiting" /\ waitOn'[t] = waitOn[t],
               \/ state' = state /\ notifying' = notifying
               \/ state.tag # "Refreshing" /\ notifying' = notifying
               \/ state.tag = "Refreshing" /\ notifying' = notifying \cup {state.owner}
        PROVE  NoLostWakeup'
    BY <2>k DEF NoLostWakeup
  <2>1. ASSUME NEW t \in Tasks, Request(t) \/ CancelWait(t) \/ ReturnFailed(t) \/ ServeValid(t)
                                \/ CounterOverflow(t) \/ ProviderResolves(t) \/ CommitCheck(t)
        PROVE  NoLostWakeup'
    BY <2>1, <2>k, <2>f
    DEF Request, CancelWait, ReturnFailed, ServeValid, CounterOverflow, ProviderResolves,
        ProviderReturns, CommitCheck, LoseOwnership, Grant, ReturnErr, Goto, slotVars
  <2>2. ASSUME NEW t \in Tasks, Join(t)
        PROVE  NoLostWakeup'
    BY <2>2, <2>f DEF Join, Goto, NoLostWakeup, TypeOK, slotVars
  <2>3. ASSUME NEW t \in Tasks, BeginRefresh(t) \/ BeginRetry(t) \/ BeginAcquire(t)
        PROVE  NoLostWakeup'
    BY <2>3, <2>k, <2>f DEF BeginRefresh, BeginRetry, BeginAcquire, BeginAttempt, Goto
  <2>4. ASSUME NEW t \in Tasks, CommitStore(t)
        PROVE  NoLostWakeup'
    <3>1. CASE LoseOwnership(t) \/ (Goto(t, "unwind") /\ UNCHANGED <<slotVars, waitOn, notifying>>)
      BY <2>f, <2>k, <3>1 DEF LoseOwnership, Goto, slotVars
    <3>2. CASE /\ Owns(t) /\ (StoreOk(t) \/ StoreError(t))
               /\ UNCHANGED <<waitOn, notifying>>
      <4>1. pc' = Wake([pc EXCEPT ![t] = "idle"], state.owner) /\ state.tag = "Refreshing"
        BY <3>2 DEF Owns, StoreOk, StoreError
      <4>2. \A u \in Tasks : pc'[u] = "waiting" => pc[u] = "waiting" /\ waitOn[u] # state.owner
        BY <2>f, <4>1 DEF Wake
      <4> QED BY <3>2, <4>2 DEF NoLostWakeup
    <3> QED BY <2>4, <3>1, <3>2 DEF CommitStore
  <2>5. ASSUME NEW t \in Tasks, DropGuard(t)
        PROVE  NoLostWakeup'
    BY <2>5, <2>k, <2>f DEF DropGuard, ReturnErr, Goto
  <2>6. ASSUME NEW m, InvalidateGenerationState(m), UNCHANGED <<pc, waitOn, notifying>>
        PROVE  NoLostWakeup'
    BY <2>6, InvalidationKeepsAttempt DEF NoLostWakeup
  <2>7. ASSUME NEW t \in Tasks, Reject(t)
        PROVE  NoLostWakeup'
    BY <2>6, <2>7 DEF Reject
  <2>8. CASE InvalidateAny
    BY <2>6, <2>8 DEF InvalidateAny, taskVars
  <2>9. ASSUME NEW o \in Owners, NotifyWaiters(o)
        PROVE  NoLostWakeup'
    <3>1. \A u \in Tasks : pc'[u] = "waiting" => pc[u] = "waiting" /\ waitOn[u] # o
      BY <2>9, <2>f DEF NotifyWaiters, Wake
    <3> QED BY <2>9, <3>1 DEF NotifyWaiters, NoLostWakeup, slotVars
  <2>10. CASE SetManual \/ ClearManual
    BY <2>10, <2>k DEF SetManual, ClearManual, EndAttempt, taskVars
  <2>11. CASE BackoffElapses
    BY <2>11, <2>k DEF BackoffElapses, taskVars
  <2>12. CASE Expire \/ UNCHANGED vars
    BY <2>12, <2>k DEF Expire, vars, slotVars, taskVars
  <2> QED
    BY <2>1, <2>2, <2>3, <2>4, <2>5, <2>7, <2>8, <2>9, <2>10, <2>11, <2>12
    DEF Next, GetOrRefresh, Commit
<1> QED BY <1>1, <1>2, TypeCorrect, PTL DEF Spec
-----------------------------------------------------------------------------
(* What invalidation removes stays away                                    *)

\* The ways a step changes what the slot holds: nothing new, a credential that
\* never existed before, or one less, recorded as dropped or not.
LEMMA HeldStep ==
    ASSUME TypeOK, [Next]_vars
    PROVE  \/ Held' \subseteq Held /\ minted' = minted /\ dropped' \subseteq dropped \cup (Held \ Held')
           \/ Held' = {minted + 1} /\ minted' = minted + 1 /\ dropped' = dropped
<1> DEFINE Less == /\ Held' \subseteq Held /\ minted' = minted
                   /\ dropped' \subseteq dropped \cup (Held \ Held')
           Fresh == Held' = {minted + 1} /\ minted' = minted + 1 /\ dropped' = dropped
<1> SUFFICES Less \/ Fresh
  OBVIOUS
<1>f. /\ state.tag \in {"Empty", "Valid", "Failed", "Refreshing"}
      /\ state.tag = "Refreshing" => state.previous \in PreviousStates
  BY Fields DEF TypeOK
<1>u. UNCHANGED <<state, minted, dropped>> => Less
  BY DEF Held
<1>e. Held' = {} /\ minted' = minted /\ dropped' \in {dropped, dropped \cup Held} => Less
  OBVIOUS
<1>1. ASSUME NEW t \in Tasks, Request(t) \/ Join(t) \/ ReturnFailed(t) \/ CounterOverflow(t)
                              \/ ProviderResolves(t) \/ CancelWait(t) \/ CommitCheck(t)
                              \/ ServeValid(t)
      PROVE  Less \/ Fresh
  BY <1>1, <1>u DEF Request, Join, ReturnFailed, CounterOverflow, ReturnErr, ProviderResolves,
                    ProviderReturns, CancelWait, CommitCheck, LoseOwnership, ServeValid, Grant,
                    slotVars, worldVars, history
<1>2. ASSUME NEW t \in Tasks, BeginRefresh(t) \/ BeginRetry(t) \/ BeginAcquire(t)
      PROVE  Less \/ Fresh
  BY <1>2 DEF BeginRefresh, BeginRetry, BeginAcquire, BeginAttempt, Refreshing, Held,
              worldVars, history
<1>3. ASSUME NEW t \in Tasks, CommitStore(t)
      PROVE  Less \/ Fresh
  <2>1. CASE UNCHANGED <<state, minted, dropped>>
    BY <1>u, <2>1
  <2>2. CASE StoreOk(t) /\ UNCHANGED dropped
    BY <2>2 DEF StoreOk, Valid, Held
  <2>3. CASE StoreError(t) /\ UNCHANGED dropped
    BY <2>3 DEF StoreError, Failed, Held
  <2> QED
    BY <1>3, <2>1, <2>2, <2>3 DEF CommitStore, LoseOwnership, slotVars, worldVars, history
<1>4. ASSUME NEW t \in Tasks, DropGuard(t)
      PROVE  Less \/ Fresh
  <2>1. UNCHANGED <<minted, dropped>>
    BY <1>4 DEF DropGuard, worldVars
  <2>2. CASE state.tag = "Refreshing" /\ state.owner = attempt[t].owner
    <3>1. state' = IntoStateAt(state.previous, state.gen)
      BY <1>4, <2>2 DEF DropGuard
    <3>2. Held' = Held
      BY <1>f, <2>2, <3>1, PreviousFields DEF IntoStateAt, Empty, Valid, Failed, Held
    <3> QED BY <2>1, <3>2
  <2>3. CASE UNCHANGED state
    BY <1>u, <2>1, <2>3
  <2> QED BY <1>4, <2>2, <2>3 DEF DropGuard
<1>i. ASSUME NEW m, InvalidateGenerationState(m), minted' = minted
      PROVE  Less \/ Fresh
  <2>1. CASE state.tag = "Valid" /\ state.gen \in m /\ CanAdvance
    BY <1>i, <2>1 DEF InvalidateGenerationState, InvalidateOverflows, Empty, Held
  <2>2. CASE state.tag = "Refreshing" /\ state.previous.tag = "Valid"
                                      /\ state.previous.gen \in m
    <3>1. /\ state' = [state EXCEPT !.previous = [tag |-> "Empty"]]
          /\ dropped' = dropped \cup {state.previous.value}
      BY <1>i, <2>2 DEF InvalidateGenerationState, InvalidateOverflows
    <3>2. state'.tag = "Refreshing" /\ state'.previous.tag = "Empty"
      BY <2>2, <3>1 DEF TypeOK, SlotStates
    <3> QED BY <1>i, <2>2, <3>1, <3>2 DEF Held
  <2>3. CASE UNCHANGED <<state, dropped>>
    BY <1>i, <1>u, <2>3
  <2> QED BY <1>i, <2>1, <2>2, <2>3 DEF InvalidateGenerationState, InvalidateOverflows
<1>5. ASSUME NEW t \in Tasks, Reject(t)
      PROVE  Less \/ Fresh
  BY <1>5, <1>i DEF Reject, worldVars
<1>6. CASE InvalidateAny
  BY <1>6, <1>i DEF InvalidateAny, worldVars
<1>7. ASSUME NEW o \in Owners, NotifyWaiters(o)
      PROVE  Less \/ Fresh
  BY <1>7, <1>u DEF NotifyWaiters, slotVars, worldVars, history
<1>8. CASE SetManual
  BY <1>8 DEF SetManual, Valid, Held, history
<1>9. CASE ClearManual
  BY <1>9, <1>e DEF ClearManual, Empty, Held, worldVars
<1>10. CASE BackoffElapses
  BY <1>10 DEF BackoffElapses, Failed, Held, worldVars, history
<1>11. CASE Expire \/ UNCHANGED vars
  BY <1>11, <1>u DEF Expire, vars, slotVars, worldVars, history
<1> QED
  BY <1>1, <1>2, <1>3, <1>4, <1>5, <1>6, <1>7, <1>8, <1>9, <1>10, <1>11
  DEF Next, GetOrRefresh, Commit

\* What makes NoResurrection inductive: every credential the slot holds or has
\* dropped is one that was installed, so the next one is none of them.
NamesInv == \A v \in Held \cup dropped : v <= minted

\* Every step keeps the names of removed credentials out of the slot.
LEMMA NamesStep ==
    ASSUME TypeOK, NamesInv, [Next]_vars
    PROVE  NamesInv'
<1>1. minted \in Nat /\ dropped \subseteq Nat
  BY DEF TypeOK
<1>2. CASE /\ Held' \subseteq Held /\ minted' = minted
           /\ dropped' \subseteq dropped \cup (Held \ Held')
  BY <1>2 DEF NamesInv
<1>3. CASE Held' = {minted + 1} /\ minted' = minted + 1 /\ dropped' = dropped
  BY <1>1, <1>3 DEF NamesInv
<1> QED BY <1>2, <1>3, HeldStep

\* A credential that was invalidated or cleared never comes back, not even by
\* the rollback of a refresh that had taken it out of the slot before.
THEOREM RemovedStaysRemoved == Spec => []NoResurrection
<1>1. Init => NamesInv /\ NoResurrection
  BY DEF Init, Empty, Held, NamesInv, NoResurrection
<1>2. TypeOK /\ NamesInv /\ NoResurrection /\ [Next]_vars => NamesInv' /\ NoResurrection'
  <2> SUFFICES ASSUME TypeOK, NamesInv, NoResurrection, [Next]_vars
               PROVE  NoResurrection'
    BY NamesStep
  <2>1. CASE /\ Held' \subseteq Held /\ minted' = minted
             /\ dropped' \subseteq dropped \cup (Held \ Held')
    BY <2>1 DEF NoResurrection
  <2>2. CASE Held' = {minted + 1} /\ minted' = minted + 1 /\ dropped' = dropped
    <3>1. \A v \in dropped : v < minted + 1
      BY DEF NamesInv, TypeOK
    <3> QED BY <2>2, <3>1 DEF TypeOK, NoResurrection
  <2> QED BY <2>1, <2>2, HeldStep
<1> QED BY <1>1, <1>2, TypeCorrect, PTL DEF Spec

\* What makes RejectedNeverServed inductive.  A rejected credential can still be
\* in the slot, after a rollback gave it a newer generation than the lease that
\* was rejected; then it was expiring when the refresh began.
ServedInv ==
    /\ \A v \in rejected : v <= minted
    /\ \A l \in leases : l.value <= minted
    /\ \A t \in Tasks : lease[t] # NoLease => lease[t] \in leases
    /\ state.tag = "Refreshing" /\ state.previous.tag = "Valid" =>
         state.previous.value \in expiring
    /\ state.tag = "Valid" =>
         /\ state.value \in rejected => state.value \in expiring
         /\ \A l \in leases :
              l.value = state.value /\ l.gen # state.gen => state.value \in expiring

\* Every step keeps rejected generations behind what is served.
LEMMA ServedStep ==
    ASSUME TypeOK, NamesInv, ServedInv, [Next]_vars
    PROVE  ServedInv' /\ \A l \in leases' \ leases : l.value \notin rejected
<1> DEFINE Served == \A l \in leases' \ leases : l.value \notin rejected
<1> SUFFICES ServedInv' /\ Served
  OBVIOUS
<1>f. /\ state.tag \in {"Empty", "Valid", "Failed", "Refreshing"}
      /\ state.tag = "Refreshing" => state.previous \in PreviousStates
      /\ minted \in Nat /\ rejected \subseteq Nat
      /\ leases \subseteq [value : Credentials, gen : Generations]
      /\ lease \in [Tasks -> [value : Nat, gen : Generations]]
  BY Fields DEF TypeOK
\* The slot is left alone and no lease is new
<1>u. ASSUME UNCHANGED <<state, minted, leases>>, rejected' = rejected,
             expiring \subseteq expiring',
             \A t \in Tasks : lease'[t] \in {lease[t], NoLease}
      PROVE  ServedInv' /\ Served
  BY <1>u DEF ServedInv
\* The slot holds nothing, or only what it held for a rollback
<1>n. ASSUME UNCHANGED <<minted, leases, expiring>>, state'.tag # "Valid",
             \A v \in rejected' : v <= minted,
             \A t \in Tasks : lease'[t] \in {lease[t], NoLease},
             state'.tag = "Refreshing" /\ state'.previous.tag = "Valid" =>
               state'.previous.value \in expiring
      PROVE  ServedInv' /\ Served
  BY <1>n DEF ServedInv
\* The slot holds a credential that did not exist before
<1>m. ASSUME NEW g, state' = Valid(minted + 1, g), minted' = minted + 1, UNCHANGED rejected,
             leases' \in {leases, leases \cup {Lease(minted + 1, g)}},
             \A t \in Tasks : lease'[t] # NoLease => lease'[t] \in leases'
      PROVE  ServedInv' /\ Served
  <2>1. /\ \A v \in rejected : v < minted + 1
        /\ \A l \in leases : l.value \in Nat /\ l.value < minted + 1
    BY <1>f DEF ServedInv
  <2>2. /\ state'.tag = "Valid" /\ state'.value = minted + 1 /\ state'.gen = g
        /\ \A l \in leases' : l \in leases \/ l = Lease(minted + 1, g)
    BY <1>m DEF Valid
  <2>3. \A l \in leases' : l.value = minted + 1 => l.gen = g
    BY <1>f, <2>1, <2>2 DEF Lease
  <2>4. Served
    BY <1>f, <2>1, <2>2 DEF Lease
  <2>5. \A l \in leases' : l.value <= minted'
    BY <1>f, <1>m, <2>1, <2>2 DEF Lease
  <2>6. \A v \in rejected' : v <= minted' /\ v # minted + 1
    <3>1. minted \in Nat /\ rejected \subseteq Nat
      BY <1>f
    <3> QED BY ONLY <1>m, <2>1, <3>1
  <2> QED BY <1>m, <2>2, <2>3, <2>4, <2>5, <2>6 DEF ServedInv
<1>1. ASSUME NEW t \in Tasks, Request(t) \/ Join(t) \/ ReturnFailed(t) \/ CounterOverflow(t)
                              \/ ProviderResolves(t) \/ CancelWait(t) \/ CommitCheck(t)
      PROVE  ServedInv' /\ Served
  BY <1>1, <1>u, <1>f
  DEF Request, Join, ReturnFailed, CounterOverflow, ReturnErr, ProviderResolves,
      ProviderReturns, CancelWait, CommitCheck, LoseOwnership, slotVars, worldVars, history
<1>2. ASSUME NEW t \in Tasks, ServeValid(t)
      PROVE  ServedInv' /\ Served
  <2>1. /\ state.tag = "Valid" /\ state.value \notin expiring
        /\ leases' = leases \cup {Lease(state.value, state.gen)}
        /\ lease' = [lease EXCEPT ![t] = Lease(state.value, state.gen)]
        /\ UNCHANGED <<state, minted, expiring, rejected>>
    BY <1>2 DEF ServeValid, Grant, slotVars, worldVars
  <2>2. state.value \notin rejected
    BY <2>1 DEF ServedInv
  <2>3. state.value <= minted
    BY <2>1 DEF NamesInv, Held
  <2> QED BY <1>f, <2>1, <2>2, <2>3 DEF ServedInv, Lease
<1>3. ASSUME NEW t \in Tasks, BeginRefresh(t) \/ BeginRetry(t) \/ BeginAcquire(t)
      PROVE  ServedInv' /\ Served
  <2>1. /\ UNCHANGED <<minted, leases, expiring, rejected, lease>>
        /\ state'.tag # "Valid"
        /\ state'.previous.tag = "Valid" => state'.previous.value \in expiring
    BY <1>3 DEF BeginRefresh, BeginRetry, BeginAcquire, BeginAttempt, Refreshing, worldVars, history
  <2> QED BY <1>n, <2>1 DEF ServedInv
<1>4. ASSUME NEW t \in Tasks, CommitStore(t)
      PROVE  ServedInv' /\ Served
  <2>1. CASE UNCHANGED <<state, minted, expiring, leases, rejected, lease>>
    BY <1>u, <2>1
  <2>2. CASE StoreOk(t) /\ UNCHANGED rejected
    <3>1. \A u \in Tasks : lease'[u] # NoLease => lease'[u] \in leases'
      BY <1>f, <2>2 DEF StoreOk, ServedInv
    <3> QED BY <1>m, <2>2, <3>1 DEF StoreOk
  <2>3. CASE StoreError(t) /\ UNCHANGED <<expiring, rejected>>
    BY <1>f, <1>n, <2>3 DEF StoreError, Failed, ServedInv
  <2> QED
    BY <1>4, <2>1, <2>2, <2>3 DEF CommitStore, LoseOwnership, slotVars, worldVars, history
<1>5. ASSUME NEW t \in Tasks, DropGuard(t)
      PROVE  ServedInv' /\ Served
  <2>1. /\ UNCHANGED <<minted, leases, expiring, rejected>>
        /\ \A u \in Tasks : lease'[u] \in {lease[u], NoLease}
    BY <1>5, <1>f DEF DropGuard, ReturnErr, worldVars
  <2>2. CASE state.tag = "Refreshing" /\ state' = IntoStateAt(state.previous, state.gen)
    <3>1. /\ state'.tag # "Refreshing"
          /\ state'.tag = "Valid" => state'.value \in expiring
      BY <1>f, <2>2, PreviousFields DEF IntoStateAt, Empty, Valid, Failed, ServedInv
    <3> QED BY <2>1, <3>1 DEF ServedInv
  <2>3. CASE UNCHANGED state
    BY <1>u, <2>1, <2>3
  <2> QED BY <1>5, <2>2, <2>3 DEF DropGuard
<1>i. ASSUME NEW m, InvalidateGenerationState(m), UNCHANGED <<minted, leases, expiring>>,
             \A v \in rejected' : v <= minted,
             \A t \in Tasks : lease'[t] \in {lease[t], NoLease},
             state' = state /\ state.tag = "Valid" /\ state.value \notin expiring =>
               state.value \notin rejected'
      PROVE  ServedInv' /\ Served
  <2>1. CASE state.tag = "Valid" /\ state.gen \in m /\ CanAdvance
    BY <1>i, <1>n, <2>1 DEF InvalidateGenerationState, InvalidateOverflows, Empty
  <2>2. CASE state.tag = "Refreshing" /\ state.previous.tag = "Valid"
                                      /\ state.previous.gen \in m
    <3>1. state' = [state EXCEPT !.previous = [tag |-> "Empty"]]
      BY <1>i, <2>2 DEF InvalidateGenerationState, InvalidateOverflows
    <3>2. state'.tag = "Refreshing" /\ state'.previous.tag = "Empty"
      BY <2>2, <3>1 DEF TypeOK, SlotStates
    <3> QED BY <1>i, <1>n, <3>2
  <2>3. CASE state' = state
    BY <1>i, <2>3 DEF ServedInv
  <2> QED BY <1>i, <2>1, <2>2, <2>3 DEF InvalidateGenerationState, InvalidateOverflows
<1>6. ASSUME NEW t \in Tasks, Reject(t)
      PROVE  ServedInv' /\ Served
  <2>1. lease[t] \in leases /\ lease[t].value <= minted
    BY <1>6 DEF Reject, ServedInv
  <2>2. \A v \in rejected' : v <= minted
    BY <1>6, <2>1 DEF Reject, ServedInv
  <2>3. ASSUME state' = state, state.tag = "Valid", state.value \in rejected'
        PROVE  state.value \in expiring
    <3>1. CASE state.value \in rejected
      BY <2>3, <3>1 DEF ServedInv
    <3>2. CASE /\ state.value = lease[t].value /\ ~InvalidateOverflows({lease[t].gen})
               /\ state.gen # lease[t].gen
      BY <2>1, <2>3, <3>2 DEF ServedInv
    <3>3. CASE ~InvalidateOverflows({lease[t].gen}) /\ state.gen = lease[t].gen
      <4>1. CanAdvance
        BY <2>3, <3>3 DEF InvalidateOverflows
      <4>2. state' = Empty(state.gen + 1)
        BY <1>6, <2>3, <3>3, <4>1 DEF Reject, InvalidateGenerationState, InvalidateOverflows
      <4> QED BY <2>3, <4>2 DEF Empty
    <3> QED BY <1>6, <2>3, <3>1, <3>2, <3>3 DEF Reject
  <2>4. /\ UNCHANGED <<minted, leases, expiring>> /\ InvalidateGenerationState({lease[t].gen})
        /\ \A u \in Tasks : lease'[u] \in {lease[u], NoLease}
    BY <1>6, <1>f DEF Reject, worldVars
  <2> QED BY <1>i, <2>2, <2>3, <2>4
<1>7. CASE InvalidateAny
  BY <1>7, <1>i DEF InvalidateAny, taskVars, worldVars, ServedInv
<1>8. ASSUME NEW o \in Owners, NotifyWaiters(o)
      PROVE  ServedInv' /\ Served
  BY <1>8, <1>u DEF NotifyWaiters, slotVars, worldVars, history
<1>9. CASE SetManual
  BY <1>9, <1>m DEF SetManual, taskVars, history, ServedInv
<1>10. CASE ClearManual
  BY <1>10, <1>n DEF ClearManual, Empty, taskVars, worldVars, ServedInv
<1>11. CASE BackoffElapses
  BY <1>11, <1>n DEF BackoffElapses, Failed, taskVars, worldVars, history, ServedInv
<1>12. CASE Expire \/ UNCHANGED vars
  BY <1>12, <1>u DEF Expire, vars, slotVars, taskVars, worldVars, history
<1> QED
  BY <1>1, <1>2, <1>3, <1>4, <1>5, <1>6, <1>7, <1>8, <1>9, <1>10, <1>11, <1>12
  DEF Next, GetOrRefresh, Commit

\* Once its lease was presented to invalidation, a credential is never handed
\* out again, although the slot may keep it under a newer generation.
THEOREM RejectedIsNotServed == Spec => RejectedNeverServed
<1>1. Init => ServedInv /\ NamesInv
  BY DEF Init, ServedInv, NamesInv, Held, Empty
<1>2. TypeOK /\ NamesInv /\ ServedInv /\ [Next]_vars => NamesInv' /\ ServedInv'
  BY NamesStep, ServedStep
<1>3. TypeOK /\ NamesInv /\ ServedInv /\ [Next]_vars =>
        [\A l \in leases' \ leases : l.value \notin rejected]_vars
  BY ServedStep
<1> QED BY <1>1, <1>2, <1>3, TypeCorrect, PTL DEF Spec, RejectedNeverServed

=============================================================================
