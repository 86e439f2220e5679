----------------------------- MODULE ClientProofs -----------------------------
(***************************************************************************)
(* What the user of a client relies on: proofs about Pagination, for any    *)
(* server and any policy of termination, and about ClientHandles, for any   *)
(* number of tasks, secrets, settings and operations.                       *)
(*                                                                          *)
(* Whatever the server answers, a collection makes a bounded number of      *)
(* requests, keeps a bounded number of items, and never repeats a request.  *)
(* From an honest server it gets every item it asked for, once.             *)
(***************************************************************************)
EXTENDS Pagination, ClientHandles, TLAPS

-----------------------------------------------------------------------------
(* Pagination                                                               *)

\* Every page that is not the last brings an item, and the loop goes round only
\* while the limit of the termination policy is not reached.
Progress ==
    /\ call.max > 0
    /\ Len(out) = items
    /\ page <= items
    /\ call.mode \in {"HardPageCap", "TakePages"} => page < call.max
    /\ call.mode = "TakeItems" => items < call.max
    /\ call.mode = "HardItemCap" => items <= call.max

\* The inductive invariant
CollectInv ==
    /\ call \in Call
    /\ position \in Positions
    /\ page \in Nat
    /\ items \in Nat
    /\ out \in Seq(Int)
    /\ sent \in Seq(Positions)
    /\ NeverRepeated
    /\ pc \in {"start", "loop", "page", "done"}
    /\ pc = "start" => page = 0 /\ items = 0 /\ out = <<>> /\ sent = <<>>
    /\ pc = "loop" => Progress /\ Len(sent) = page
    /\ pc = "page" => Progress /\ Len(sent) = page + 1
    /\ SendsBounded
    /\ ItemsBounded

\* What a page is made of, whichever server sends it.
LEMMA PageShape ==
    ASSUME call \in Call, sent \in Seq(Positions), Len(sent) > 0, NEW p \in Pages
    PROVE  p.items \in Seq(Int) /\ p.next \in Int
PROOF
<1>1. CASE call.honest
  <2> DEFINE from == PageStart(sent[Len(sent)])
             to == Least(from + call.size, Total)
  <2>1. sent[Len(sent)] \in Int /\ call.size \in Int /\ Total \in Int
    BY BoundsAssumption DEF Positions, Call
  <2>2. from \in Int
    BY <2>1 DEF PageStart
  <2>3. to \in Int
    BY <2>1, <2>2 DEF Least
  <2>4. Numbers(from, to) \in Seq(Int)
    <3>1. ASSUME NEW a \in Int, NEW b \in Int PROVE Numbers(a, b) \in Seq(Int)
      BY DEF Numbers
    <3> QED BY <2>2, <2>3, <3>1
  <2>5. p = [items |-> Numbers(from, to), next |-> IF to < Total THEN to ELSE 0]
    BY <1>1 DEF Pages, HonestPage
  <2> HIDE DEF from, to
  <2> QED BY <2>3, <2>4, <2>5
<1>2. CASE ~call.honest
  <2>1. p \in [items : {[i \in 1 .. n |-> 0] : n \in 0 .. call.size + 1}, next : Positions]
    BY <1>2 DEF Pages
  <2>2. p.next \in Int
    BY <2>1 DEF Positions
  <2>3. PICK n \in 0 .. call.size + 1 : p.items = [i \in 1 .. n |-> 0]
    BY <2>1
  <2>4. n \in Nat
    BY <2>3 DEF Call, Positions
  <2>5. p.items \in Seq(Int)
    BY <2>3, <2>4
  <2> QED BY <2>2, <2>5
<1> QED BY <1>1, <1>2

\* The controller's next position is an integer.
LEMMA AdvancedShape ==
    ASSUME call \in Call, position \in Positions, NEW p, p.next \in Int
    PROVE  Advanced(p) \in Int
PROOF BY BoundsAssumption DEF Advanced, Call, Kinds, Positions

\* A page that is kept is kept whole, or cut to what the quota has left.
LEMMA KeptShape ==
    ASSUME call \in Call, items \in Nat, NEW p, p.items \in Seq(Int),
           call.mode = "TakeItems" => items < call.max
    PROVE  /\ Kept(p) \in Seq(Int)
           /\ Len(Kept(p)) = IF TakeItemsDone(Len(p.items)) THEN call.max - items
                                                            ELSE Len(p.items)
PROOF
<1>1. CASE TakeItemsDone(Len(p.items))
  <2> DEFINE k == call.max - items
  <2>1. k \in Nat /\ k <= Len(p.items)
    BY <1>1, BoundsAssumption DEF TakeItemsDone, Call, Positions
  <2>2. Kept(p) = SubSeq(p.items, 1, k)
    BY <1>1 DEF Kept
  <2> HIDE DEF k
  <2>3. SubSeq(p.items, 1, k) \in Seq(Int) /\ Len(SubSeq(p.items, 1, k)) = k
    BY <2>1
  <2> QED BY <1>1, <2>2, <2>3 DEF k
<1>2. CASE ~TakeItemsDone(Len(p.items))
  BY <1>2 DEF Kept
<1> QED BY <1>1, <1>2

\* A failure collects nothing more.
LEMMA FailKeeps ==
    ASSUME CollectInv, NEW r, Fail(r)
    PROVE  CollectInv'
PROOF BY DEF CollectInv, Fail, Finish, NeverRepeated, SendsBounded, ItemsBounded

\* CollectInv holds initially.
LEMMA CollectInit == PaginationInit => CollectInv
PROOF
<1> SUFFICES ASSUME PaginationInit PROVE CollectInv
  OBVIOUS
<1>1. call \in Call
  BY CallsAssumption DEF PaginationInit
<1>2. call.max \in Nat /\ call.start \in Positions
  BY <1>1, BoundsAssumption DEF Call, Positions
<1> QED BY <1>1, <1>2 DEF PaginationInit, CollectInv, NeverRepeated, SendsBounded, ItemsBounded

\* Every step preserves CollectInv.
LEMMA CollectStep == CollectInv /\ [PaginationNext]_paginationVars => CollectInv'
PROOF
<1> SUFFICES ASSUME CollectInv, [PaginationNext]_paginationVars PROVE CollectInv'
  OBVIOUS
<1>0. call.max \in Nat /\ call.size \in Nat /\ call.start \in Positions /\ call.mode \in TerminationModes
  BY BoundsAssumption DEF CollectInv, Call, Positions
<1>1. CASE RejectCap
  BY <1>1, FailKeeps DEF RejectCap
<1>2. CASE TakeNothing
  BY <1>2, FailKeeps DEF TakeNothing
<1>3. CASE InitRuntime
  BY <1>0, <1>3 DEF InitRuntime, CollectInv, Progress, NeverRepeated, SendsBounded, ItemsBounded
<1>4. CASE DetectLoop
  BY <1>4, FailKeeps DEF DetectLoop
<1>5. CASE RefuseSize
  BY <1>5, FailKeeps DEF RefuseSize
<1>6. CASE RefuseRepeat
  BY <1>6, FailKeeps DEF RefuseRepeat
<1>7. CASE RequestPage
  <2>1. Applied \in Positions /\ Identity \in Positions
    BY <1>0, BoundsAssumption DEF Applied, Identity, CollectInv, Positions
  <2>2. sent' \in Seq(Positions) /\ Len(sent') = Len(sent) + 1
    BY <1>7, <2>1 DEF RequestPage, CollectInv
  <2>3. NeverRepeated'
    <3>1. \A i \in 1 .. Len(sent) : sent'[i] = sent[i] /\ sent[i] # Identity
      BY <1>7, <2>1 DEF RequestPage, CollectInv, Repeated
    <3>2. sent'[Len(sent) + 1] = Identity
      BY <1>7, <2>1 DEF RequestPage, CollectInv
    <3> QED BY <2>2, <3>1, <3>2 DEF NeverRepeated, CollectInv
  <2>4. Progress' /\ Len(sent') = page' + 1
    BY <1>7, <2>2 DEF RequestPage, CollectInv, Progress
  <2>5. SendsBounded' /\ ItemsBounded'
    BY <1>0, <1>7, <2>2 DEF RequestPage, CollectInv, Progress, SendsBounded, ItemsBounded, TerminationModes
  <2> QED BY <1>7, <2>1, <2>2, <2>3, <2>4, <2>5 DEF RequestPage, CollectInv
<1>8. CASE ExecuteFails
  BY <1>8, FailKeeps DEF ExecuteFails
<1>9. CASE ReceivePage
  <2>1. Progress /\ Len(sent) = page + 1
    BY <1>9 DEF ReceivePage, CollectInv
  <2>2. PICK p \in Pages :
          \/ ReceiveTooMany(p)
          \/ /\ items + Len(p.items) <= MaxU64
             /\ ~ItemCapExceeded(Len(p.items))
             /\ ReceiveTooFar(p) \/ ReceiveLast(p) \/ ReceiveMore(p)
    BY <1>9 DEF ReceivePage
  <2>3. p.items \in Seq(Int) /\ p.next \in Int
    BY <2>1, PageShape DEF CollectInv
  <2>4. Advanced(p) \in Int
    BY <2>3, AdvancedShape DEF CollectInv
  <2>5. /\ Kept(p) \in Seq(Int)
        /\ Len(Kept(p)) = IF TakeItemsDone(Len(p.items)) THEN call.max - items
                                                         ELSE Len(p.items)
    BY <2>1, <2>3, KeptShape DEF CollectInv, Progress
  <2>6. CASE ReceiveTooMany(p)
    BY <2>6, FailKeeps DEF ReceiveTooMany
  <2>7. CASE ReceiveTooFar(p)
    BY <2>7, FailKeeps DEF ReceiveTooFar
  <2>8. ASSUME out' = out \o Kept(p)
        PROVE  out' \in Seq(Int) /\ Len(out') = items + Len(Kept(p))
    <3>1. ASSUME NEW s \in Seq(Int), NEW t \in Seq(Int)
          PROVE  s \o t \in Seq(Int) /\ Len(s \o t) = Len(s) + Len(t)
      OBVIOUS
    <3> QED BY <2>1, <2>5, <2>8, <3>1 DEF CollectInv, Progress
  <2>9. Len(p.items) \in Nat
    BY <2>3
  <2>10. ASSUME ~AdvanceOverflows(p), ~Stops(Len(p.items)) PROVE Advanced(p) \in Positions
    <3>1. Advanced(p) >= 0
      <4>1. CASE call.kind = "Cursor"
        <5>1. CASE call.honest
          <6> DEFINE from == PageStart(sent[Len(sent)])
                     to == Least(from + call.size, Total)
          <6>1. p = [items |-> Numbers(from, to), next |-> IF to < Total THEN to ELSE 0]
            BY <5>1 DEF Pages, HonestPage
          <6>0. sent[Len(sent)] \in Positions
            BY <2>1 DEF CollectInv
          <6>2. from \in Nat
            BY <4>1, <6>0, BoundsAssumption DEF PageStart, Positions
          <6>3. to \in Nat
            BY <1>0, <6>2, BoundsAssumption DEF Least
          <6> HIDE DEF from, to
          <6>4. p.next >= 0
            BY <6>1, <6>3
          <6> QED BY <4>1, <6>4 DEF Advanced
        <5>2. CASE ~call.honest
          BY <4>1, <5>2 DEF Advanced, Pages, Positions
        <5> QED BY <5>1, <5>2
      <4>2. CASE call.kind # "Cursor"
        BY <1>0, <4>2 DEF Advanced, CollectInv, Call, Kinds, Positions
      <4> QED BY <4>1, <4>2
    <3> QED BY <2>4, <2>10, <3>1, BoundsAssumption DEF AdvanceOverflows, Positions
  <2>11. CASE ReceiveLast(p) /\ ~ItemCapExceeded(Len(p.items))
    <3>1. position' \in Positions
      BY <2>10, <2>11 DEF ReceiveLast, CollectInv
    <3>2. out' \in Seq(Int) /\ Len(out') = items + Len(Kept(p))
      BY <2>8, <2>11 DEF ReceiveLast
    <3>3. ItemsBounded'
      BY <1>0, <2>1, <2>5, <2>9, <2>11, <3>2
      DEF ReceiveLast, ItemsBounded, CollectInv, Progress, TakeItemsDone, ItemCapExceeded
    <3> QED BY <2>11, <3>1, <3>2, <3>3
            DEF ReceiveLast, Finish, CollectInv, NeverRepeated, SendsBounded
  <2>12. CASE ReceiveMore(p) /\ ~ItemCapExceeded(Len(p.items))
    <3>1. position' \in Positions
      BY <2>10, <2>12 DEF ReceiveMore
    <3>2. out' \in Seq(Int) /\ Len(out') = items + Len(Kept(p))
      BY <2>8, <2>12 DEF ReceiveMore
    <3>3. ~TakeItemsDone(Len(p.items)) /\ Len(p.items) > 0
      BY <2>9, <2>12 DEF ReceiveMore, Stops, CommonContentStop
    <3>a. /\ call' = call /\ page' = page + 1 /\ items' = items + Len(p.items) /\ sent' = sent
          /\ call.mode \in {"HardPageCap", "TakePages"} => page + 1 < call.max
      BY <1>0, <2>1, <2>12 DEF ReceiveMore, LastPage, CollectInv
    <3>b. Progress /\ Len(sent) = page + 1 /\ page \in Nat /\ items \in Nat /\ Len(p.items) \in Nat
      BY <2>1, <2>9 DEF CollectInv
    <3>c. /\ call.mode = "TakeItems" => items + Len(p.items) < call.max
          /\ call.mode = "HardItemCap" => items + Len(p.items) <= call.max
      BY <1>0, <2>12, <3>3, <3>b DEF TakeItemsDone, ItemCapExceeded
    <3>d. Len(out') = items'
      BY <2>5, <3>2, <3>3, <3>a
    <3>4. Progress' /\ Len(sent') = page'
      BY <1>0, <3>3, <3>a, <3>b, <3>c, <3>d DEF Progress
    <3>5. ItemsBounded'
      BY <1>0, <3>4, <2>12, <2>9 DEF ReceiveMore, ItemsBounded, Progress, CollectInv
    <3> QED BY <2>9, <2>12, <3>1, <3>2, <3>4, <3>5
            DEF ReceiveMore, CollectInv, NeverRepeated, SendsBounded
  <2> QED BY <2>2, <2>6, <2>7, <2>11, <2>12
<1>10. CASE UNCHANGED paginationVars
  BY <1>10 DEF paginationVars, CollectInv, Progress, NeverRepeated, SendsBounded, ItemsBounded
<1> QED
  BY <1>1, <1>2, <1>3, <1>4, <1>5, <1>6, <1>7, <1>8, <1>9, <1>10 DEF PaginationNext

\* Any termination policy bounds the number of page requests, for every server
\* and every size of the integers: collect cannot be kept going.
THEOREM RequestsAreBounded == PaginationSpec => []SendsBounded
PROOF
<1>1. CollectInv => SendsBounded
  BY DEF CollectInv
<1> QED BY CollectInit, CollectStep, <1>1, PTL DEF PaginationSpec

\* A hard item cap and a TakeItems quota bound what collect accumulates.
THEOREM ItemsAreBounded == PaginationSpec => []ItemsBounded
PROOF
<1>1. CollectInv => ItemsBounded
  BY DEF CollectInv
<1> QED BY CollectInit, CollectStep, <1>1, PTL DEF PaginationSpec

\* Both bounds at once: no server keeps a collection going, or makes what it
\* accumulates grow, past its termination policy.
THEOREM CollectionsAreBounded == PaginationSpec => []CollectBounded
PROOF
<1>1. CollectInv => CollectBounded
  BY DEF CollectInv, CollectBounded
<1> QED BY CollectInit, CollectStep, <1>1, PTL DEF PaginationSpec

\* collect never makes the same logical request twice.
THEOREM PagesAreRequestedOnce == PaginationSpec => []NeverRepeated
PROOF
<1>1. CollectInv => NeverRepeated
  BY DEF CollectInv
<1> QED BY CollectInit, CollectStep, <1>1, PTL DEF PaginationSpec

-----------------------------------------------------------------------------
(* An honest server's items                                                *)

\* The calls that CollectedExactly is about
Ordinary == call.honest /\ call.rendered /\ call.stopWhenCursorMissing

\* Only full pages were received so far, and the next one continues them.
Collecting ==
    LET reached == FirstItem + items
    IN  /\ items = page * call.size
        /\ out = Numbers(FirstItem, reached)
        /\ page > 0 => reached <= Total
        /\ pc = "loop" => PageStart(Applied) = reached
        /\ pc = "page" => /\ position = sent[Len(sent)] /\ PageStart(position) = reached
                          /\ call.size > 0

ExactInv ==
    /\ pc = "start" => position = call.start
    /\ pc # "done" => result = "none"
    /\ Ordinary /\ pc \in {"loop", "page"} => Collecting
    /\ CollectedExactly

LEMMA NumbersShape ==
    ASSUME NEW a \in Int, NEW b \in Int
    PROVE  /\ Numbers(a, b) \in Seq(Int)
           /\ Len(Numbers(a, b)) = IF a < b THEN b - a ELSE 0
           /\ \A i \in 1 .. Len(Numbers(a, b)) : Numbers(a, b)[i] = a + i
           /\ b <= a => Numbers(a, b) = <<>>
PROOF BY DEF Numbers

\* s counts up n times from a.
Counts(s, a, n) == s \in Seq(Int) /\ Len(s) = n /\ \A i \in 1 .. n : s[i] = a + i

LEMMA NumbersCount ==
    ASSUME NEW a \in Int, NEW b \in Int, a <= b
    PROVE  Counts(Numbers(a, b), a, b - a)
PROOF BY DEF Numbers, Counts

Join(s, t) == s \o t

LEMMA JoinShape ==
    ASSUME NEW s \in Seq(Int), NEW t \in Seq(Int)
    PROVE  /\ Join(s, t) \in Seq(Int) /\ Len(Join(s, t)) = Len(s) + Len(t)
           /\ \A i \in 1 .. Len(s) : Join(s, t)[i] = s[i]
           /\ \A i \in 1 .. Len(t) : Join(s, t)[Len(s) + i] = t[i]
           /\ Join(s, <<>>) = s
PROOF BY DEF Join

LEMMA SameElements ==
    ASSUME NEW s \in Seq(Int), NEW t \in Seq(Int), Len(s) = Len(t), \A i \in 1 .. Len(t) : s[i] = t[i]
    PROVE  s = t
PROOF OBVIOUS

LEMMA NumbersJoin ==
    ASSUME NEW a \in Int, NEW b \in Int, NEW c \in Int, a <= b, b <= c
    PROVE  Join(Numbers(a, b), Numbers(b, c)) = Numbers(a, c)
PROOF
<1> DEFINE s == Numbers(a, b)
           t == Numbers(b, c)
           u == Numbers(a, c)
           v == Join(s, t)
<1>0. a <= c
  OBVIOUS
<1>a. Counts(s, a, b - a) /\ Counts(t, b, c - b) /\ Counts(u, a, c - a)
  BY <1>0, NumbersCount
<1> HIDE DEF s, t, u
<1>1. s \in Seq(Int) /\ Len(s) = b - a /\ \A i \in 1 .. Len(s) : s[i] = a + i
  BY <1>a DEF Counts
<1>2. t \in Seq(Int) /\ Len(t) = c - b /\ \A i \in 1 .. Len(t) : t[i] = b + i
  BY <1>a DEF Counts
<1>3. u \in Seq(Int) /\ Len(u) = c - a /\ \A i \in 1 .. Len(u) : u[i] = a + i
  BY <1>a DEF Counts
<1>4. /\ v \in Seq(Int) /\ Len(v) = Len(s) + Len(t) /\ \A i \in 1 .. Len(s) : v[i] = s[i]
      /\ \A i \in 1 .. Len(t) : v[Len(s) + i] = t[i]
  BY <1>1, <1>2, JoinShape
<1> HIDE DEF v
<1>5. ASSUME NEW i \in 1 .. Len(u) PROVE v[i] = u[i]
  <2>1. CASE i <= Len(s)
    <3>1. i \in 1 .. Len(s)
      BY <1>1, <2>1
    <3> QED BY <1>1, <1>3, <1>4, <3>1
  <2>2. CASE i > Len(s)
    <3> DEFINE j == i - Len(s)
    <3>1. j \in 1 .. Len(t) /\ i = Len(s) + j /\ a + i = b + j
      BY <1>1, <1>2, <1>3, <2>2
    <3> HIDE DEF j
    <3>2. v[i] = t[j] /\ t[j] = b + j /\ u[i] = a + i
      BY <1>2, <1>3, <1>4, <3>1
    <3> QED BY <3>1, <3>2
  <2> QED BY <1>1, <2>1, <2>2
<1>6. Len(v) = Len(u)
  BY <1>1, <1>2, <1>3, <1>4
<1>7. v = u
  BY <1>3, <1>4, <1>5, <1>6, SameElements
<1> QED BY <1>7 DEF s, t, u, v

LEMMA NumbersCut ==
    ASSUME NEW b \in Int, NEW c \in Int, NEW k \in Nat, b + k <= c
    PROVE  SubSeq(Numbers(b, c), 1, k) = Numbers(b, b + k)
PROOF
<1> DEFINE s == Numbers(b, c)
           e == b + k
           t == Numbers(b, e)
           v == SubSeq(s, 1, k)
<1>0. e \in Int /\ b <= e /\ e - b = k /\ b <= c /\ k <= c - b
  OBVIOUS
<1> HIDE DEF e
<1>a. Counts(s, b, c - b) /\ Counts(t, b, e - b)
  BY <1>0, NumbersCount
<1> HIDE DEF s, t
<1>1. s \in Seq(Int) /\ Len(s) = c - b /\ \A i \in 1 .. c - b : s[i] = b + i
  BY <1>a DEF Counts
<1>2. t \in Seq(Int) /\ Len(t) = k /\ \A i \in 1 .. k : t[i] = b + i
  BY <1>0, <1>a DEF Counts
<1>3. v \in Seq(Int) /\ Len(v) = k /\ \A i \in 1 .. k : v[i] = s[i]
  BY <1>0, <1>1
<1> HIDE DEF v
<1>4. ASSUME NEW i \in 1 .. Len(t) PROVE v[i] = t[i]
  <2>1. i \in 1 .. k /\ i \in 1 .. c - b
    BY <1>0, <1>2
  <2> QED BY <1>1, <1>2, <1>3, <2>1
<1>5. Len(v) = Len(t)
  BY <1>0, <1>2, <1>3
<1>6. v = t
  BY <1>2, <1>3, <1>4, <1>5, SameElements
<1> QED BY <1>6 DEF s, t, v, e

\* One page more, and a limit on pages
LEMMA OnePageMore ==
    ASSUME NEW n \in Int, NEW size \in Nat
    PROVE  (n + 1) * size = n * size + size /\ n * size \in Int
PROOF OBVIOUS

LEMMA PagesWithin ==
    ASSUME NEW n \in Nat, NEW max \in Nat, NEW size \in Nat, n < max
    PROVE  n * size + size <= max * size
PROOF
<1> DEFINE d == max - (n + 1)
<1>1. d \in Nat /\ max = (n + 1) + d
  OBVIOUS
<1> HIDE DEF d
<1>2. d * size >= 0 /\ d * size \in Int
  BY <1>1
<1>3. ((n + 1) + d) * size = (n * size + size) + d * size
  BY <1>1
<1> QED BY <1>1, <1>2, <1>3

\* The types that the collection of an honest server's items depends on
LEMMA CallShape ==
    ASSUME CollectInv
    PROVE  /\ call.size \in Nat /\ call.max \in Nat /\ call.start \in Nat /\ position \in Nat
           /\ Total \in Nat /\ page \in Nat /\ items \in Nat /\ FirstItem \in Int
           /\ call.kind \in Kinds /\ call.mode \in TerminationModes
PROOF
<1>1. /\ call.size \in Nat /\ call.max \in Nat /\ call.start \in Nat /\ position \in Nat
      /\ Total \in Nat /\ page \in Nat /\ items \in Nat /\ call.kind \in Kinds /\ call.mode \in TerminationModes
  BY BoundsAssumption DEF CollectInv, Call, Positions
<1>2. (call.start - 1) * call.size \in Int
  BY <1>1
<1>3. FirstItem \in Int
  BY <1>1, <1>2 DEF FirstItem, PageStart
<1> QED BY <1>1, <1>3

\* What an honest server answers to the request for the page from reached on
LEMMA HonestAnswer ==
    ASSUME CollectInv, ExactInv, Ordinary, pc = "page", NEW p \in Pages
    PROVE  LET reached == FirstItem + items
               to == Least(reached + call.size, Total)
           IN  /\ p.items = Numbers(reached, to) /\ p.next = IF to < Total THEN to ELSE 0
               /\ Len(p.items) = IF reached < to THEN to - reached ELSE 0
PROOF
<1> DEFINE reached == FirstItem + items
           to == Least(reached + call.size, Total)
<1>1. PageStart(sent[Len(sent)]) = reached
  BY DEF ExactInv, Collecting
<1>2. p = [items |-> Numbers(reached, to), next |-> IF to < Total THEN to ELSE 0]
  BY <1>1 DEF Pages, HonestPage, Ordinary
<1>3. reached \in Int /\ to \in Int
  BY CallShape DEF Least
<1> HIDE DEF reached, to
<1>4. p.items = Numbers(reached, to) /\ p.next = IF to < Total THEN to ELSE 0
  BY <1>2
<1>5. Len(Numbers(reached, to)) = IF reached < to THEN to - reached ELSE 0
  BY <1>3, NumbersShape
<1> QED BY <1>4, <1>5 DEF reached, to

\* A page that does not stop the collection is full.
LEMMA FullPage ==
    ASSUME CollectInv, ExactInv, Ordinary, pc = "page", NEW p \in Pages, ~CommonContentStop(Len(p.items))
    PROVE  LET reached == FirstItem + items
           IN  /\ reached + call.size <= Total /\ Len(p.items) = call.size
               /\ p.items = Numbers(reached, reached + call.size)
               /\ p.next = IF reached + call.size < Total THEN reached + call.size ELSE 0
               /\ Join(out, p.items) = Numbers(FirstItem, reached + call.size)
PROOF
<1> DEFINE reached == FirstItem + items
           to == Least(reached + call.size, Total)
<1>0. /\ call.size \in Nat /\ Total \in Nat /\ items \in Nat /\ FirstItem \in Int /\ reached \in Int
      /\ FirstItem <= reached
  BY CallShape
<1>1. /\ p.items = Numbers(reached, to) /\ p.next = IF to < Total THEN to ELSE 0
      /\ Len(p.items) = IF reached < to THEN to - reached ELSE 0
  BY HonestAnswer
<1>2. out = Numbers(FirstItem, reached)
  BY DEF ExactInv, Collecting
<1>3. to = IF reached + call.size < Total THEN reached + call.size ELSE Total
  BY DEF Least
<1> HIDE DEF reached, to
<1>4. to = reached + call.size /\ to <= Total /\ reached <= to
  BY <1>0, <1>1, <1>3 DEF CommonContentStop
<1>5. Len(p.items) = call.size
  BY <1>0, <1>1, <1>4
<1>6. Join(out, p.items) = Numbers(FirstItem, to)
  BY <1>0, <1>1, <1>2, <1>4, NumbersJoin
<1> QED BY <1>1, <1>4, <1>5, <1>6 DEF reached

\* A page that is not the last
LEMMA MoreIsExact ==
    ASSUME CollectInv, ExactInv, Ordinary, pc = "page", NEW p \in Pages, ReceiveMore(p)
    PROVE  Collecting'
PROOF
<1> DEFINE F == FirstItem
           reached == F + items
           size == call.size
<1>0. /\ size \in Nat /\ Total \in Nat /\ items \in Nat /\ page \in Nat /\ F \in Int /\ position \in Nat
      /\ call.kind \in Kinds
  BY CallShape
<1>1. ~CommonContentStop(Len(p.items)) /\ ~TakeItemsDone(Len(p.items)) /\ ~ControllerStops(p)
  BY DEF ReceiveMore, Stops
<1>2. /\ reached + size <= Total /\ Len(p.items) = size
      /\ p.next = IF reached + size < Total THEN reached + size ELSE 0
      /\ Join(out, p.items) = Numbers(F, reached + size)
  BY <1>1, FullPage
<1>3. /\ page' = page + 1 /\ items' = items + size /\ call' = call /\ pc' = "loop"
      /\ position' = Advanced(p) /\ out' = Join(out, p.items)
  BY <1>1, <1>2 DEF ReceiveMore, Kept, Join
<1>4. FirstItem' = F
  BY <1>3 DEF FirstItem, PageStart
<1>5. items = page * size /\ PageStart(position) = reached
  BY DEF ExactInv, Collecting
<1>6. items' = page' * call'.size
  <2>1. page \in Int /\ page' = page + 1 /\ items' = items + size /\ call'.size = size
    BY <1>0, <1>3
  <2> HIDE DEF size
  <2>2. (page + 1) * size = page * size + size
    BY <1>0, <2>1, OnePageMore
  <2> QED BY <1>5, <2>1, <2>2
<1>7. FirstItem' + items' = reached + size
  BY <1>0, <1>3, <1>4
<1>8. PageStart(Applied)' = reached + size
  <2>1. Applied' = position'
    BY <1>0, <1>3 DEF Applied
  <2>2. CASE call.kind = "OffsetLimit"
    <3>1. position' = position + size /\ position = reached
      BY <1>3, <1>5, <2>2 DEF Advanced, PageStart
    <3> QED BY <1>3, <2>1, <2>2, <3>1 DEF PageStart
  <2>3. CASE call.kind = "Paged"
    <3>1. position' = position + 1 /\ (position - 1) * size = reached
      BY <1>3, <1>5, <2>3 DEF Advanced, PageStart
    <3>2. PageStart(Applied)' = (position' - 1) * size
      BY <1>3, <2>1, <2>3 DEF PageStart
    <3>3. position' - 1 = (position - 1) + 1 /\ position - 1 \in Int
      BY <1>0, <3>1
    <3>4. ((position - 1) + 1) * size = (position - 1) * size + size
      BY <1>0, <3>3, OnePageMore
    <3> QED BY <3>1, <3>2, <3>3, <3>4
  <2>4. CASE call.kind = "Cursor"
    <3>1. position' = p.next /\ p.next # 0
      BY <1>1, <1>3, <2>4 DEF Advanced, ControllerStops, Ordinary
    <3>2. position' = reached + size
      BY <1>2, <3>1
    <3> QED BY <1>3, <2>1, <2>4, <3>2 DEF PageStart
  <2> QED BY <1>0, <2>2, <2>3, <2>4 DEF Kinds
<1> HIDE DEF F, reached, size
<1> QED BY <1>2, <1>3, <1>4, <1>6, <1>7, <1>8 DEF Collecting, F

\* The last page
LEMMA LastIsExact ==
    ASSUME CollectInv, ExactInv, Ordinary, pc = "page", NEW p \in Pages, ReceiveLast(p)
    PROVE  out \o Kept(p) = Numbers(FirstItem, LastItem)
PROOF
<1> DEFINE F == FirstItem
           reached == F + items
           size == call.size
           max == call.max
           n == Len(p.items)
           to == Least(reached + size, Total)
<1>0. /\ size \in Nat /\ max \in Nat /\ Total \in Nat /\ items \in Nat /\ page \in Nat /\ F \in Int
      /\ position \in Nat /\ call.mode \in TerminationModes
  BY CallShape
<1>1. /\ items = page * size /\ out = Numbers(F, reached) /\ (page > 0 => reached <= Total)
      /\ PageStart(position) = reached /\ size > 0
  BY DEF ExactInv, Collecting
<1>2. /\ call.mode \in {"HardPageCap", "TakePages"} => page < max
      /\ call.mode = "TakeItems" => items < max
  BY DEF CollectInv, Progress
<1>3. /\ p.items = Numbers(reached, to) /\ p.next = IF to < Total THEN to ELSE 0
      /\ n = IF reached < to THEN to - reached ELSE 0
  BY HonestAnswer
<1>4. /\ to = IF reached + size < Total THEN reached + size ELSE Total
      /\ reached \in Int /\ to \in Int /\ F <= reached /\ n \in Nat
  BY <1>0, <1>3 DEF Least
<1>5. call.mode = "TakePages" => /\ reached + size <= F + max * size /\ max * size \in Int
                                 /\ (page + 1 >= max => reached + size = F + max * size)
  <2> SUFFICES ASSUME call.mode = "TakePages"
               PROVE  /\ reached + size <= F + max * size /\ max * size \in Int
                      /\ (page + 1 >= max => reached + size = F + max * size)
    OBVIOUS
  <2>1. page * size + size <= max * size
    BY <1>0, <1>2, PagesWithin
  <2>2. max * size \in Int /\ page * size \in Int
    BY <1>0
  <2>3. page + 1 >= max => max * size = page * size + size
    <3>1. page + 1 >= max => max = page + 1
      BY <1>0, <1>2
    <3>2. (page + 1) * size = page * size + size
      <4>1. page \in Int
        BY <1>0
      <4> HIDE DEF size
      <4> QED BY <1>0, <4>1, OnePageMore
    <3> QED BY <3>1, <3>2
  <2> QED BY <1>0, <1>1, <2>1, <2>2, <2>3
<1>6. LastItem = CASE call.mode = "TakeItems" -> Least(Total, F + max)
                   [] call.mode = "TakePages" -> Least(Total, F + max * size)
                   [] OTHER -> Total
  BY DEF LastItem
<1>7. CASE TakeItemsDone(n)
  <2> DEFINE k == max - items
  <2>1. call.mode = "TakeItems" /\ n >= k /\ k \in Nat /\ k > 0
    BY <1>0, <1>2, <1>7 DEF TakeItemsDone
  <2>2. Kept(p) = SubSeq(Numbers(reached, to), 1, k)
    BY <1>3, <1>7 DEF Kept
  <2>3. reached + k <= to /\ reached + k <= Total /\ reached + k = F + max
    <3> HIDE DEF to, n
    <3> QED BY <1>0, <1>3, <1>4, <2>1
  <2>4. Kept(p) = Numbers(reached, reached + k)
    <3> HIDE DEF to, reached, k
    <3> QED BY <1>4, <2>1, <2>2, <2>3, NumbersCut
  <2>5. Join(out, Kept(p)) = Numbers(F, reached + k)
    <3> DEFINE e == reached + k
    <3>1. e \in Int /\ reached <= e
      BY <1>0, <2>1
    <3> HIDE DEF e, reached, F
    <3>2. Kept(p) = Numbers(reached, e)
      BY <2>4 DEF e
    <3>3. Join(Numbers(F, reached), Numbers(reached, e)) = Numbers(F, e)
      BY <1>0, <1>4, <3>1, NumbersJoin
    <3> QED BY <1>1, <3>2, <3>3 DEF e
  <2>6. LastItem = F + max
    BY <1>0, <1>6, <2>1, <2>3 DEF Least
  <2> QED BY <2>3, <2>5, <2>6 DEF Join
<1>8. CASE ~TakeItemsDone(n) /\ CommonContentStop(n)
  <2>1. to = Total /\ Total < reached + size
    <3>1. n = 0 \/ n < size
      BY <1>8 DEF CommonContentStop
    <3> HIDE DEF to, n, reached, size
    <3>2. reached + size \in Int /\ reached + size > reached
      BY <1>0, <1>1, <1>4
    <3>3. ~(reached + size < Total)
      BY <1>0, <1>1, <1>3, <1>4, <3>1, <3>2
    <3>4. to = Total /\ Total # reached + size
      BY <1>0, <1>1, <1>3, <1>4, <3>1, <3>2, <3>3
    <3> QED BY <1>0, <3>2, <3>3, <3>4
  <2>2. LastItem = Total
    <3>1. CASE call.mode = "TakeItems"
      <4>1. n < max - items
        BY <1>0, <1>4, <1>8, <3>1 DEF TakeItemsDone
      <4>2. Total < F + max
        <5> HIDE DEF to, n
        <5> QED BY <1>0, <1>3, <1>4, <2>1, <4>1
      <4> QED BY <1>6, <3>1, <4>2 DEF Least
    <3>2. CASE call.mode = "TakePages"
      <4>1. Total < F + max * size
        BY <1>0, <1>4, <1>5, <2>1, <3>2
      <4> QED BY <1>6, <3>2, <4>1 DEF Least
    <3>3. CASE call.mode \notin {"TakeItems", "TakePages"}
      BY <1>6, <3>3
    <3> QED BY <3>1, <3>2, <3>3
  <2>3. Kept(p) = Numbers(reached, Total)
    BY <1>3, <1>8, <2>1 DEF Kept
  <2>4. CASE reached <= Total
    <3> HIDE DEF reached, F, to
    <3>1. Join(Numbers(F, reached), Numbers(reached, Total)) = Numbers(F, Total)
      BY <1>0, <1>4, <2>4, NumbersJoin
    <3> QED BY <1>1, <2>2, <2>3, <3>1 DEF Join, F
  <2>5. CASE ~(reached <= Total)
    <3>1. page = 0 /\ items = 0 /\ reached = F
      BY <1>0, <1>1, <2>5
    <3>2. Numbers(F, reached) = <<>> /\ Numbers(reached, Total) = <<>> /\ Numbers(F, Total) = <<>>
      <4>1. F \in Int /\ reached \in Int /\ Total \in Int /\ reached <= F /\ Total <= reached /\ Total <= F
        BY <1>0, <1>4, <2>5, <3>1
      <4> HIDE DEF reached, F
      <4>2. Numbers(F, reached) = <<>>
        BY <4>1, NumbersShape
      <4>3. Numbers(reached, Total) = <<>>
        BY <4>1, NumbersShape
      <4>4. Numbers(F, Total) = <<>>
        BY <4>1, NumbersShape
      <4> QED BY <4>2, <4>3, <4>4
    <3> QED BY <1>1, <2>2, <2>3, <3>2
  <2> QED BY <2>4, <2>5
<1>9. CASE ~TakeItemsDone(n) /\ ~CommonContentStop(n)
  <2>1. /\ reached + size <= Total /\ n = size
        /\ p.next = IF reached + size < Total THEN reached + size ELSE 0
        /\ Join(out, p.items) = Numbers(F, reached + size)
    BY <1>9, FullPage
  <2>2. Kept(p) = p.items
    BY <1>9 DEF Kept
  <2>3. ControllerStops(p) \/ (call.mode = "TakePages" /\ LastPage)
    BY <1>9 DEF ReceiveLast, Stops
  <2>4. LastItem = reached + size
    <3>1. CASE call.mode = "TakePages" /\ LastPage
      <4>1. reached + size = F + max * size
        BY <1>5, <3>1 DEF LastPage
      <4> QED BY <1>0, <1>4, <1>6, <2>1, <3>1, <4>1 DEF Least
    <3>2. CASE ControllerStops(p)
      <4>1. call.kind = "Cursor" /\ p.next = 0 /\ position = reached
        BY <1>1, <3>2 DEF ControllerStops, PageStart
      <4>2. reached + size = Total
        <5>1. size > 0 /\ size \in Nat /\ position \in Nat /\ Total \in Nat
          BY <1>0, <1>1
        <5>2. 0 = IF reached + size < Total THEN reached + size ELSE 0
          BY <2>1, <4>1
        <5> HIDE DEF reached, size
        <5> QED BY <2>1, <4>1, <5>1, <5>2
      <4>3. CASE call.mode = "TakeItems"
        <5>1. Total < F + max
          BY <1>0, <1>4, <1>9, <2>1, <4>2, <4>3 DEF TakeItemsDone
        <5> QED BY <1>6, <4>2, <4>3, <5>1 DEF Least
      <4>4. CASE call.mode = "TakePages"
        <5>1. Total <= F + max * size /\ max * size \in Int
          BY <1>5, <4>2, <4>4
        <5> QED BY <1>0, <1>6, <4>2, <4>4, <5>1 DEF Least
      <4>5. CASE call.mode \notin {"TakeItems", "TakePages"}
        BY <1>6, <4>2, <4>5
      <4> QED BY <4>3, <4>4, <4>5
    <3> QED BY <2>3, <3>1, <3>2
  <2> QED BY <2>1, <2>2, <2>4 DEF Join
<1> QED BY <1>7, <1>8, <1>9

LEMMA ExactInit == PaginationInit => ExactInv
PROOF BY DEF PaginationInit, ExactInv, CollectedExactly

\* A step that ends the collection in an error
LEMMA FailsExactly ==
    ASSUME NEW r, r # "Ok", Fail(r)
    PROVE  ExactInv'
PROOF BY DEF Fail, Finish, ExactInv, CollectedExactly

\* The first request of an honest server's items
LEMMA FirstRequest ==
    ASSUME CollectInv, ExactInv, InitRuntime, Ordinary
    PROVE  Collecting'
PROOF
<1>0. call.size \in Nat /\ FirstItem \in Int
  BY CallShape
<1>1. /\ page' = 0 /\ items' = 0 /\ out' = <<>> /\ call' = call /\ pc' = "loop" /\ position' = call.start
  BY DEF InitRuntime, CollectInv, ExactInv
<1>2. FirstItem' = FirstItem
  BY <1>1 DEF FirstItem, PageStart
<1>3. 0 = 0 * call.size
  BY <1>0
<1>4. FirstItem' + items' = FirstItem
  BY <1>0, <1>1, <1>2
<1>5. Numbers(FirstItem, FirstItem) = <<>>
  BY <1>0, NumbersShape
<1>6. PageStart(Applied)' = FirstItem
  <2>1. CASE call.kind = "Cursor"
    BY <1>1, <2>1 DEF PageStart, Applied, FirstItem
  <2>2. CASE call.kind # "Cursor"
    BY <1>1, <2>2 DEF PageStart, Applied, FirstItem
  <2> QED BY <2>1, <2>2
<1> QED BY <1>1, <1>2, <1>3, <1>4, <1>5, <1>6 DEF Collecting

\* Every later one asks for the page that follows the items received.
LEMMA NextRequest ==
    ASSUME CollectInv, ExactInv, RequestPage, Ordinary
    PROVE  Collecting'
PROOF
<1>0. call.size \in Nat /\ position \in Nat /\ sent \in Seq(Positions) /\ Applied \in Positions
  BY CallShape, BoundsAssumption DEF CollectInv, Applied, Positions
<1>1. /\ page' = page /\ items' = items /\ out' = out /\ call' = call /\ pc' = "page"
      /\ position' = Applied /\ sent' = Append(sent, Applied)
  BY DEF RequestPage, Identity, Ordinary
<1>2. call.size # 0
  BY DEF RequestPage, Refused
<1>3. FirstItem' = FirstItem
  BY <1>1 DEF FirstItem, PageStart
<1>4. Collecting /\ PageStart(Applied) = FirstItem + items
  BY DEF ExactInv, RequestPage, Collecting
<1>5. sent'[Len(sent')] = Applied
  BY <1>0, <1>1
<1>6. PageStart(position)' = PageStart(Applied)
  BY <1>1 DEF PageStart
<1>7. /\ items' = page' * call'.size /\ out' = Numbers(FirstItem', FirstItem' + items')
      /\ (page' > 0 => FirstItem' + items' <= Total)
  BY <1>1, <1>3, <1>4 DEF Collecting
<1> QED BY <1>0, <1>1, <1>2, <1>3, <1>4, <1>5, <1>6, <1>7 DEF Collecting

LEMMA ExactStep == CollectInv /\ ExactInv /\ [PaginationNext]_paginationVars => ExactInv'
PROOF
<1> SUFFICES ASSUME CollectInv, ExactInv, [PaginationNext]_paginationVars PROVE ExactInv'
  OBVIOUS
<1>1. CASE RejectCap
  BY <1>1, FailsExactly DEF RejectCap
<1>2. CASE TakeNothing
  <2>1. /\ call' = call /\ out' = <<>> /\ pc' = "done" /\ call.max = 0
        /\ call.mode \in {"TakePages", "TakeItems"}
    BY <1>2 DEF TakeNothing, Fail, Finish, CollectInv
  <2>2. FirstItem \in Int /\ Total \in Nat /\ call.size \in Nat
    BY CallShape
  <2>3. LastItem \in Int /\ LastItem <= FirstItem
    <3>1. 0 * call.size = 0
      BY <2>2
    <3>2. LastItem = Least(Total, FirstItem + 0)
      BY <2>1, <3>1 DEF LastItem
    <3> QED BY <2>2, <3>2 DEF Least
  <2>4. Numbers(FirstItem, LastItem) = <<>>
    BY <2>2, <2>3, NumbersShape
  <2>5. Numbers(FirstItem, LastItem)' = Numbers(FirstItem, LastItem)
    BY <2>1 DEF FirstItem, LastItem, PageStart, Numbers
  <2> QED BY <2>1, <2>4, <2>5 DEF ExactInv, CollectedExactly
<1>3. CASE InitRuntime
  <2>1. pc' = "loop" /\ result' = "none" /\ Ordinary' = Ordinary
    BY <1>3 DEF InitRuntime, ExactInv, Ordinary
  <2> QED BY <1>3, <2>1, FirstRequest DEF ExactInv, CollectedExactly
<1>4. CASE DetectLoop
  BY <1>4, FailsExactly DEF DetectLoop
<1>5. CASE RefuseSize
  BY <1>5, FailsExactly DEF RefuseSize
<1>6. CASE RefuseRepeat
  BY <1>6, FailsExactly DEF RefuseRepeat
<1>7. CASE RequestPage
  <2>1. pc' = "page" /\ result' = "none" /\ Ordinary' = Ordinary
    BY <1>7 DEF RequestPage, ExactInv, Ordinary
  <2> QED BY <1>7, <2>1, NextRequest DEF ExactInv, CollectedExactly
<1>8. CASE ExecuteFails
  BY <1>8, FailsExactly DEF ExecuteFails
<1>9. CASE ReceivePage
  <2>1. PICK p \in Pages : ReceiveTooMany(p) \/ ReceiveTooFar(p) \/ ReceiveLast(p) \/ ReceiveMore(p)
    BY <1>9 DEF ReceivePage
  <2>2. pc = "page" /\ result = "none"
    BY <1>9 DEF ReceivePage, ExactInv
  <2>3. CASE ReceiveTooMany(p)
    BY <2>3, FailsExactly DEF ReceiveTooMany
  <2>4. CASE ReceiveTooFar(p)
    BY <2>4, FailsExactly DEF ReceiveTooFar
  <2>5. CASE ReceiveLast(p)
    <3>1. pc' = "done" /\ call' = call /\ out' = out \o Kept(p)
      BY <2>5 DEF ReceiveLast, Finish
    <3>2. Numbers(FirstItem, LastItem)' = Numbers(FirstItem, LastItem)
      BY <3>1 DEF FirstItem, LastItem, PageStart, Numbers
    <3>3. Ordinary => out' = Numbers(FirstItem, LastItem)
      BY <2>2, <2>5, <3>1, LastIsExact
    <3> QED BY <3>1, <3>2, <3>3 DEF ExactInv, CollectedExactly, Ordinary
  <2>6. CASE ReceiveMore(p)
    <3>1. pc' = "loop" /\ result' = "none" /\ Ordinary' = Ordinary
      BY <2>2, <2>6 DEF ReceiveMore, Ordinary
    <3> QED BY <2>2, <2>6, <3>1, MoreIsExact DEF ExactInv, CollectedExactly
  <2> QED BY <2>1, <2>3, <2>4, <2>5, <2>6
<1>10. CASE UNCHANGED paginationVars
  <2>1. /\ call' = call /\ out' = out /\ pc' = pc /\ result' = result /\ page' = page /\ items' = items
        /\ position' = position /\ sent' = sent
    BY <1>10 DEF paginationVars
  <2>2. FirstItem' = FirstItem /\ LastItem' = LastItem
    BY <2>1 DEF FirstItem, LastItem, PageStart
  <2>3. Collecting' = Collecting /\ Ordinary' = Ordinary
    BY <2>1, <2>2 DEF Collecting, Ordinary, PageStart, Applied
  <2>4. CollectedExactly' = CollectedExactly
    BY <2>1, <2>2 DEF CollectedExactly
  <2> QED BY <2>1, <2>3, <2>4 DEF ExactInv
<1> QED
  BY <1>1, <1>2, <1>3, <1>4, <1>5, <1>6, <1>7, <1>8, <1>9, <1>10 DEF PaginationNext

\* From an honest server, for every list and page size, collect returns all of
\* the items its termination policy allows from where it started, each once and
\* in order: none is lost or repeated where one page meets the next.
THEOREM CollectionsAreExact == PaginationSpec => []CollectedExactly
PROOF
<1>1. CollectInv /\ ExactInv => CollectedExactly
  BY DEF ExactInv
<1> QED BY CollectInit, CollectStep, ExactInit, ExactStep, <1>1, PTL DEF PaginationSpec

-----------------------------------------------------------------------------
(* ClientHandles                                                            *)

USE HandleConstants

-----------------------------------------------------------------------------
(* Handles and their configuration                                          *)

Runtimes == [RuntimeFields -> Settings]
Owned == [OwnFields -> Settings]

\* What makes ConfigIsolation inductive: the shapes of handles and settings.
ConfigInv ==
  /\ handle \in [Tasks -> {None} \cup [own : Owned, rt : Refs]]
  /\ asked \in [Tasks -> {None} \cup [own : Owned, runtime : Runtimes]]
  /\ heap \in [Refs -> Runtimes]
  /\ \A t \in Tasks : Held(t) =>
       /\ asked[t] \in [own : Owned, runtime : Runtimes]
       /\ handle[t].own = asked[t].own
       /\ heap[handle[t].rt] = asked[t].runtime

\* What a fresh client starts from has its types.
LEMMA Defaults == DefaultOwn \in Owned /\ DefaultRuntime \in Runtimes
BY DEF DefaultOwn, DefaultRuntime, DefaultSetting, Owned, Runtimes

\* A change of the runtime state, in place or in a copy, reaches the handle that
\* asked for it and no other.
LEMMA WriteIsPrivate ==
  ASSUME ConfigInv, NEW t \in Tasks, Held(t), NEW own \in Owned, NEW runtime \in Runtimes,
         make_mut(t, own, runtime)
  PROVE  /\ handle' \in [Tasks -> {None} \cup [own : Owned, rt : Refs]]
         /\ heap' \in [Refs -> Runtimes]
         /\ handle'[t].own = own /\ heap'[handle'[t].rt] = runtime
         /\ \A u \in Tasks \ {t} :
              /\ handle'[u] = handle[u]
              /\ Held(u) => heap'[handle[u].rt] = heap[handle[u].rt]
<1>1. handle[t] \in [own : Owned, rt : Refs]
  BY DEF ConfigInv, Held
<1>2. CASE Sharers(t) = {}
  <2>1. /\ heap' = [heap EXCEPT ![handle[t].rt] = runtime]
        /\ handle' = [handle EXCEPT ![t].own = own]
    BY <1>2 DEF make_mut
  <2>2. \A u \in Tasks \ {t} : Held(u) => handle[u].rt # handle[t].rt
    BY <1>2 DEF Sharers
  <2>3. handle'[t] = [own |-> own, rt |-> handle[t].rt] /\ \A u \in Tasks \ {t} : handle'[u] = handle[u]
    BY <1>1, <2>1 DEF ConfigInv
  <2>4. handle' \in [Tasks -> {None} \cup [own : Owned, rt : Refs]]
    BY <1>1, <2>1, <2>3 DEF ConfigInv
  <2> QED BY <1>1, <2>1, <2>2, <2>3, <2>4 DEF ConfigInv, Held
<1>3. CASE Sharers(t) # {}
  <2>1. PICK r \in FreeRefs : /\ heap' = [heap EXCEPT ![r] = runtime]
                              /\ handle' = [handle EXCEPT ![t] = [own |-> own, rt |-> r]]
    BY <1>3 DEF make_mut
  <2>2. r \in Refs /\ \A u \in Tasks : Held(u) => handle[u].rt # r
    BY DEF FreeRefs
  <2> QED BY <2>1, <2>2 DEF ConfigInv, Held
<1> QED BY <1>2, <1>3

\* docs/design_invariants.md: a change on one clone never shows in another, for
\* any number of clones, made and dropped in any order.
THEOREM ClonesAreIsolated == Spec => []ConfigIsolation
<1>1. Init => ConfigInv
  BY Defaults DEF Init, ConfigInv, Held
<1>2. ConfigInv /\ [Next]_vars => ConfigInv'
  <2> SUFFICES ASSUME ConfigInv, [Next]_vars
               PROVE  ConfigInv'
    OBVIOUS
  <2>u. ASSUME UNCHANGED <<handle, heap, asked>>
        PROVE  ConfigInv'
    BY <2>u DEF ConfigInv, Held
  <2>1. ASSUME NEW t \in Tasks, Construct(t)
        PROVE  ConfigInv'
    <3>1. /\ handle' = [handle EXCEPT ![t] = [own |-> DefaultOwn, rt |-> t]]
          /\ asked' = [asked EXCEPT ![t] = [own |-> DefaultOwn, runtime |-> DefaultRuntime]]
          /\ heap' = [heap EXCEPT ![t] = DefaultRuntime] /\ \A u \in Tasks : ~ Held(u)
      BY <2>1 DEF Construct
    <3> QED BY <3>1, Defaults DEF ConfigInv, Held, Refs
  <2>2. ASSUME NEW t \in Tasks, DropHandle(t)
        PROVE  ConfigInv'
    BY <2>2 DEF DropHandle, ConfigInv, Held
  <2>3. ASSUME NEW t \in Tasks, NEW u \in Tasks, Clone(t, u)
        PROVE  ConfigInv'
    BY <2>3 DEF Clone, ConfigInv, Held
  <2>4. ASSUME NEW t \in Tasks, SetOwn(t)
        PROVE  ConfigInv'
    <3>1. PICK f \in OwnFields, v \in Settings :
            /\ handle' = [handle EXCEPT ![t].own[f] = v]
            /\ asked' = [asked EXCEPT ![t].own[f] = v]
      BY <2>4 DEF SetOwn
    <3>2. /\ handle[t] \in [own : Owned, rt : Refs] /\ Held(t) /\ heap' = heap
          /\ asked[t] \in [own : Owned, runtime : Runtimes] /\ handle[t].own = asked[t].own
          /\ heap[handle[t].rt] = asked[t].runtime
      BY <2>4 DEF SetOwn, Configuring, ConfigInv, Held
    <3>3. /\ handle'[t] = [own |-> [handle[t].own EXCEPT ![f] = v], rt |-> handle[t].rt]
          /\ asked'[t] = [own |-> [asked[t].own EXCEPT ![f] = v], runtime |-> asked[t].runtime]
          /\ \A u \in Tasks \ {t} : handle'[u] = handle[u] /\ asked'[u] = asked[u]
      BY <3>1, <3>2 DEF ConfigInv
    <3>4. [handle[t].own EXCEPT ![f] = v] \in Owned
      BY <3>2 DEF Owned
    <3>5. /\ handle' \in [Tasks -> {None} \cup [own : Owned, rt : Refs]]
          /\ asked' \in [Tasks -> {None} \cup [own : Owned, runtime : Runtimes]]
      BY <3>1, <3>2, <3>3, <3>4 DEF ConfigInv
    <3> QED BY <3>2, <3>3, <3>4, <3>5 DEF ConfigInv, Held
  <2>m. ASSUME NEW t \in Tasks, Held(t), NEW own \in Owned, NEW runtime \in Runtimes,
               make_mut(t, own, runtime),
               asked' \in [Tasks -> {None} \cup [own : Owned, runtime : Runtimes]],
               asked'[t] = [own |-> own, runtime |-> runtime],
               \A u \in Tasks \ {t} : asked'[u] = asked[u]
        PROVE  ConfigInv'
    BY <2>m, WriteIsPrivate DEF ConfigInv, Held
  <2>5. ASSUME NEW t \in Tasks, SetRuntime(t)
        PROVE  ConfigInv'
    <3>1. PICK f \in RuntimeFields, v \in Settings :
            /\ make_mut(t, handle[t].own, [heap[handle[t].rt] EXCEPT ![f] = v])
            /\ asked' = [asked EXCEPT ![t].runtime[f] = v]
      BY <2>5 DEF SetRuntime, RuntimeFields
    <3>2. /\ handle[t] \in [own : Owned, rt : Refs] /\ Held(t)
          /\ asked[t] \in [own : Owned, runtime : Runtimes] /\ handle[t].own = asked[t].own
          /\ heap[handle[t].rt] = asked[t].runtime
      BY <2>5 DEF SetRuntime, Configuring, ConfigInv, Held
    <3>3. [asked[t].runtime EXCEPT ![f] = v] \in Runtimes
      BY <3>2 DEF Runtimes
    <3>4. /\ asked'[t] = [own |-> asked[t].own, runtime |-> [asked[t].runtime EXCEPT ![f] = v]]
          /\ \A u \in Tasks \ {t} : asked'[u] = asked[u]
      BY <3>1, <3>2 DEF ConfigInv
    <3>5. asked' \in [Tasks -> {None} \cup [own : Owned, runtime : Runtimes]]
      BY <3>1, <3>2, <3>3, <3>4 DEF ConfigInv
    <3> QED BY <2>m, <3>1, <3>2, <3>3, <3>4, <3>5
  <2>6. ASSUME NEW t \in Tasks, Configure(t)
        PROVE  ConfigInv'
    <3>1. PICK own \in Owned, runtime \in Runtimes :
            /\ asked' = [asked EXCEPT ![t] = [own |-> own, runtime |-> runtime]]
            /\ make_mut(t, own, runtime)
      BY <2>6 DEF Configure, Owned, Runtimes
    <3>2. Held(t)
      BY <2>6 DEF Configure, Configuring
    <3> QED BY <2>m, <3>1, <3>2 DEF ConfigInv
  <2>7. ASSUME NEW t \in Tasks,
               \/ WriteSecret(t) \/ ReadOldState(t) \/ RebuildState(t) \/ InstallState(t)
               \/ ManualChange(t) \/ ApplyManual(t) \/ StartLogin(t) \/ LoginAnswered(t)
        PROVE  ConfigInv'
    BY <2>7, <2>u DEF WriteSecret, ReadOldState, RebuildState, InstallState, ManualChange,
                      ApplyManual, StartLogin, LoginAnswered
  <2>8. ASSUME NEW t \in Tasks,
               \/ StartRequest(t) \/ TakeSnapshot(t) \/ PrepareAuth(t) \/ HiddenResend(t)
               \/ Answered(t) \/ ChallengedKey(t) \/ ChallengedSession(t) \/ Cancel(t)
        PROVE  ConfigInv'
    BY <2>8, <2>u DEF StartRequest, TakeSnapshot, PrepareAuth, HiddenResend, Answered,
                      ChallengedKey, ChallengedSession, Cancel
  <2>9. CASE Rest \/ UNCHANGED vars
    BY <2>9, <2>u DEF Rest, vars
  <2> QED
    BY <2>1, <2>2, <2>3, <2>4, <2>5, <2>6, <2>7, <2>8, <2>9 DEF Next
<1>3. ConfigInv => ConfigIsolation
  BY DEF ConfigInv, ConfigIsolation
<1> QED BY <1>1, <1>2, <1>3, PTL DEF Spec
-----------------------------------------------------------------------------
(* The auth state, the session slot and the tasks                           *)

\* Every auth state that was ever built has the same session slot: the rebuild
\* takes it over from the state it replaces.
AuthStates == [key : [CredSecrets -> Nat], session : {0}]
Values == Nat \cup {None}

Rebuilds ==
  [pc : {"read_old"}, solo : BOOLEAN]
    \cup [pc : {"init"}, solo : BOOLEAN, old : AuthStates]
    \cup [pc : {"install"}, solo : BOOLEAN, new : AuthStates]

Logins ==
  [pc : {"login"}, value : Values] \cup [pc : {"apply"}, state : AuthStates, value : Values]

Starting ==
  [pc : {"snapshot"}, method : {"GET", "POST"}, body : Bodies, use : Uses,
   began : [CredSecrets -> Nat]]

Running ==
  [pc : {"prepare", "sent"}, method : {"GET", "POST"}, body : Bodies, use : Uses,
   began : [CredSecrets -> Nat], snap : AuthStates, gen : Values,
   visible : Nat, hidden : Nat, sends : Nat]

TaskStates == {Idle} \cup Rebuilds \cup Logins \cup Starting \cup Running

RetryPolicies ==
  {[t |-> "Default"], [t |-> "Never"]}
    \cup [t : {"Custom"}, max : 1..2, statuses : SUBSET ApprovedStatuses]

AuthTypes ==
  /\ secrets \in [Secrets -> Nat]
  /\ floor \in [CredSecrets -> Nat]
  /\ current \in AuthStates
  /\ slots \in [DOMAIN slots -> [value : Values, gen : Nat]] /\ 0 \in DOMAIN slots
  /\ fresh \in Nat \ {0}
  /\ task \in [Tasks -> TaskStates]
  /\ budget \in [configs : Nat, sets : Nat, logins : Nat, requests : Nat]

\* What a task is doing determines the fields of its record.
LEMMA TaskFields ==
  ASSUME NEW k \in TaskStates
  PROVE  /\ k.pc = "read_old" => k \in [pc : {"read_old"}, solo : BOOLEAN]
         /\ k.pc = "init" => k \in [pc : {"init"}, solo : BOOLEAN, old : AuthStates]
         /\ k.pc = "install" => k \in [pc : {"install"}, solo : BOOLEAN, new : AuthStates]
         /\ k.pc = "login" => k \in [pc : {"login"}, value : Values]
         /\ k.pc = "apply" => k \in [pc : {"apply"}, state : AuthStates, value : Values]
         /\ k.pc = "snapshot" => k \in Starting
         /\ k.pc \in {"prepare", "sent"} => k \in Running
BY DEF TaskStates, Idle, Rebuilds, Logins, Starting, Running

\* The state that construct leaves behind has its types.
LEMMA AuthTypesInit == Init => AuthTypes
<1> SUFFICES ASSUME Init PROVE AuthTypes
  OBVIOUS
<1>1. current \in AuthStates /\ task \in [Tasks -> TaskStates]
  BY DEF Init, AuthStates, TaskStates
<1>2. slots \in [DOMAIN slots -> [value : Values, gen : Nat]] /\ 0 \in DOMAIN slots
  BY DEF Init, Empty, Values
<1> QED BY <1>1, <1>2 DEF Init, AuthTypes, Secrets

\* One task moves on, and the slots are written only where they exist.
LEMMA AuthTypesStep == AuthTypes /\ [Next]_vars => AuthTypes'
<1> SUFFICES ASSUME AuthTypes, [Next]_vars
             PROVE  AuthTypes'
  OBVIOUS
<1>0. Idle \in TaskStates
  BY DEF TaskStates
<1>t. ASSUME NEW t \in Tasks, NEW k \in TaskStates, task' = [task EXCEPT ![t] = k],
             UNCHANGED <<secrets, floor, current, slots, fresh, budget>>
      PROVE  AuthTypes'
  BY <1>t DEF AuthTypes
<1>b. ASSUME NEW t \in Tasks, NEW k \in TaskStates, task' = [task EXCEPT ![t] = k],
             budget' \in [configs : Nat, sets : Nat, logins : Nat, requests : Nat],
             UNCHANGED <<secrets, floor, current, slots, fresh>>
      PROVE  AuthTypes'
  BY <1>b DEF AuthTypes
<1>1. ASSUME NEW t \in Tasks, Construct(t) \/ DropHandle(t) \/ (\E u \in Tasks : Clone(t, u))
      PROVE  AuthTypes'
  BY <1>1 DEF Construct, DropHandle, Clone, AuthTypes
<1>2. ASSUME NEW t \in Tasks, Configuring(t)
      PROVE  AuthTypes'
  <2>1. budget' \in [configs : Nat, sets : Nat, logins : Nat, requests : Nat]
    BY <1>2 DEF Configuring, AuthTypes
  <2> QED BY <1>2, <2>1 DEF Configuring, AuthTypes
<1>3. ASSUME NEW t \in Tasks, WriteSecret(t)
      PROVE  AuthTypes'
  <2>1. PICK s \in Secrets :
          /\ secrets' = [secrets EXCEPT ![s] = @ + 1]
          /\ task' = IF s \notin CredSecrets THEN task
                     ELSE [u \in Tasks |->
                             IF u = t THEN [pc |-> "read_old",
                                            solo |-> \A w \in Tasks : ~ Exclusive(w)]
                             ELSE IF Exclusive(u) THEN [task[u] EXCEPT !.solo = FALSE]
                             ELSE task[u]]
    BY <1>3 DEF WriteSecret
  <2>2. secrets' \in [Secrets -> Nat]
    BY <2>1 DEF AuthTypes
  <2>3. [pc |-> "read_old", solo |-> \A w \in Tasks : ~ Exclusive(w)] \in TaskStates
    BY DEF TaskStates, Rebuilds
  <2>4. ASSUME NEW u \in Tasks, Exclusive(u)
        PROVE  [task[u] EXCEPT !.solo = FALSE] \in TaskStates
    <3>1. task[u] \in Rebuilds
      BY <2>4, TaskFields DEF Exclusive, AuthTypes, Rebuilds
    <3>2. [task[u] EXCEPT !.solo = FALSE] \in Rebuilds
      BY <3>1 DEF Rebuilds
    <3> QED BY <3>2 DEF TaskStates
  <2>5. task' \in [Tasks -> TaskStates]
    BY <2>1, <2>3, <2>4 DEF AuthTypes
  <2>6. budget' \in [configs : Nat, sets : Nat, logins : Nat, requests : Nat]
    BY <1>3 DEF WriteSecret, AuthTypes
  <2> QED BY <1>3, <2>2, <2>5, <2>6 DEF WriteSecret, AuthTypes
<1>4. ASSUME NEW t \in Tasks, ReadOldState(t)
      PROVE  AuthTypes'
  <2>1. [pc |-> "init", solo |-> task[t].solo, old |-> current] \in TaskStates
    BY <1>4, TaskFields DEF ReadOldState, AuthTypes, TaskStates, Rebuilds
  <2> QED BY <1>4, <1>t, <2>1 DEF ReadOldState
<1>5. ASSUME NEW t \in Tasks, RebuildState(t)
      PROVE  AuthTypes'
  <2>1. task[t].solo \in BOOLEAN /\ task[t].old \in AuthStates
    BY <1>5, TaskFields DEF RebuildState, AuthTypes
  <2>2. [init_auth_state(fresh) EXCEPT !.session = task[t].old.session] \in AuthStates
    BY <2>1 DEF init_auth_state, AuthStates, AuthTypes, Secrets
  <2>3. [pc |-> "install", solo |-> task[t].solo,
         new |-> [init_auth_state(fresh) EXCEPT !.session = task[t].old.session]] \in TaskStates
    BY <2>1, <2>2 DEF TaskStates, Rebuilds
  <2>4. task' \in [Tasks -> TaskStates]
    BY <1>5, <2>3 DEF RebuildState, AuthTypes
  <2>5. /\ slots' \in [DOMAIN slots' -> [value : Values, gen : Nat]] /\ 0 \in DOMAIN slots'
        /\ fresh' \in Nat \ {0}
    BY <1>5 DEF RebuildState, AuthTypes, Empty, Values
  <2> QED BY <1>5, <2>4, <2>5 DEF RebuildState, AuthTypes
<1>6. ASSUME NEW t \in Tasks, InstallState(t)
      PROVE  AuthTypes'
  <2>1. current' \in AuthStates
    BY <1>6, TaskFields DEF InstallState, AuthTypes
  <2>2. floor' \in [CredSecrets -> Nat]
    BY <1>6 DEF InstallState, AuthTypes, Secrets
  <2> QED BY <1>0, <1>6, <2>1, <2>2 DEF InstallState, AuthTypes
<1>7. ASSUME NEW t \in Tasks, ManualChange(t)
      PROVE  AuthTypes'
  <2>1. PICK value \in {budget.logins, None} : ManualReads(t, value)
    BY <1>7 DEF ManualChange
  <2>2. [pc |-> "apply", state |-> current, value |-> value] \in TaskStates
    BY <2>1 DEF AuthTypes, Values, TaskStates, Logins
  <2>3. budget' \in [configs : Nat, sets : Nat, logins : Nat, requests : Nat]
    BY <1>7 DEF ManualChange, AuthTypes
  <2> QED BY <1>7, <1>b, <2>1, <2>2, <2>3 DEF ManualChange, ManualReads
<1>8. ASSUME NEW t \in Tasks, ApplyManual(t)
      PROVE  AuthTypes'
  <2>1. task[t].state.session = 0 /\ task[t].value \in Values
    BY <1>8, TaskFields DEF ApplyManual, AuthTypes, AuthStates
  <2>2. slots' = [slots EXCEPT ![0] = [value |-> task[t].value, gen |-> slots[0].gen + 1]]
    BY <1>8, <2>1 DEF ApplyManual
  <2>3. slots' \in [DOMAIN slots' -> [value : Values, gen : Nat]] /\ 0 \in DOMAIN slots'
    BY <2>1, <2>2 DEF AuthTypes
  <2> QED BY <1>0, <1>8, <2>3 DEF ApplyManual, AuthTypes
<1>9. ASSUME NEW t \in Tasks, StartLogin(t)
      PROVE  AuthTypes'
  <2>1. [pc |-> "login", value |-> budget.logins] \in TaskStates
    BY DEF AuthTypes, Values, TaskStates, Logins
  <2>2. budget' \in [configs : Nat, sets : Nat, logins : Nat, requests : Nat]
    BY <1>9 DEF StartLogin, AuthTypes
  <2> QED BY <1>9, <1>b, <2>1, <2>2 DEF StartLogin
<1>10. ASSUME NEW t \in Tasks, LoginAnswered(t)
       PROVE  AuthTypes'
  <2>1. [pc |-> "apply", state |-> current, value |-> task[t].value] \in TaskStates
    BY <1>10, TaskFields DEF LoginAnswered, AuthTypes, TaskStates, Logins
  <2> QED BY <1>10, <1>t, <2>1 DEF LoginAnswered, ManualReads
<1>11. ASSUME NEW t \in Tasks, StartRequest(t)
       PROVE  AuthTypes'
  <2>1. PICK method \in {"GET", "POST"}, body \in Bodies, use \in Uses :
          task' = [task EXCEPT ![t] = [pc |-> "snapshot", method |-> method, body |-> body,
                                       use |-> use, began |-> floor]]
    BY <1>11 DEF StartRequest
  <2>2. [pc |-> "snapshot", method |-> method, body |-> body, use |-> use, began |-> floor]
          \in TaskStates
    BY DEF AuthTypes, TaskStates, Starting
  <2>3. budget' \in [configs : Nat, sets : Nat, logins : Nat, requests : Nat]
    BY <1>11 DEF StartRequest, AuthTypes
  <2> QED BY <1>11, <1>b, <2>1, <2>2, <2>3 DEF StartRequest
<1>12. ASSUME NEW t \in Tasks, TakeSnapshot(t)
       PROVE  AuthTypes'
  <2>1. task[t] \in Starting
    BY <1>12, TaskFields DEF TakeSnapshot, AuthTypes
  <2>2. [pc |-> "prepare", method |-> task[t].method, body |-> task[t].body,
         use |-> task[t].use, began |-> task[t].began, snap |-> current,
         gen |-> None, visible |-> 0, hidden |-> 0, sends |-> 0] \in TaskStates
    BY <2>1 DEF AuthTypes, Values, TaskStates, Starting, Running
  <2> QED BY <1>12, <1>t, <2>2 DEF TakeSnapshot
<1>r. ASSUME NEW k \in Running, NEW p \in {"prepare", "sent"}, NEW g \in Values, NEW v \in Nat,
             NEW h \in Nat, NEW n \in Nat
      PROVE  [k EXCEPT !.pc = p, !.gen = g, !.visible = v, !.hidden = h, !.sends = n] \in TaskStates
  BY DEF Running, TaskStates
<1>13. ASSUME NEW t \in Tasks, PrepareAuth(t)
       PROVE  AuthTypes'
  <2>1. task[t] \in Running /\ slots[task[t].snap.session].gen \in Values
    BY <1>13, TaskFields DEF PrepareAuth, AuthTypes, Running, AuthStates, Values
  <2>2. [task[t] EXCEPT !.pc = "sent", !.gen = slots[task[t].snap.session].gen,
           !.visible = @ + 1, !.hidden = 0, !.sends = @ + 1] \in TaskStates
    <3>1. task[t].visible + 1 \in Nat /\ task[t].sends + 1 \in Nat
      BY <2>1 DEF Running
    <3> QED BY <1>r, <2>1, <3>1
  <2> QED BY <1>0, <1>13, <1>t, <2>2 DEF PrepareAuth
<1>14. ASSUME NEW t \in Tasks, HiddenResend(t)
       PROVE  AuthTypes'
  <2>1. task[t] \in Running
    BY <1>14, TaskFields DEF HiddenResend, AuthTypes
  <2>2. [task[t] EXCEPT !.hidden = @ + 1, !.sends = @ + 1] \in TaskStates
    <3>1. task[t].hidden + 1 \in Nat /\ task[t].sends + 1 \in Nat
      BY <2>1 DEF Running
    <3> QED BY <2>1, <3>1 DEF Running, TaskStates
  <2>3. task' = [task EXCEPT ![t] = [task[t] EXCEPT !.hidden = @ + 1, !.sends = @ + 1]]
    BY <1>14, <2>1 DEF HiddenResend, AuthTypes, Running
  <2> QED BY <1>14, <1>t, <2>2, <2>3 DEF HiddenResend
<1>15. ASSUME NEW t \in Tasks, Answered(t) \/ Cancel(t)
       PROVE  AuthTypes'
  BY <1>0, <1>15, <1>t DEF Answered, Cancel
<1>16. ASSUME NEW t \in Tasks, ChallengedKey(t)
       PROVE  AuthTypes'
  <2>1. task[t] \in Running
    BY <1>16, TaskFields DEF ChallengedKey, AuthTypes
  <2>2. [task[t] EXCEPT !.pc = "prepare"] \in TaskStates
    BY <2>1 DEF Running, TaskStates
  <2> QED BY <1>0, <1>16, <1>t, <2>2 DEF ChallengedKey
<1>17. ASSUME NEW t \in Tasks, ChallengedSession(t)
       PROVE  AuthTypes'
  <2>1. task[t].snap.session = 0
    BY <1>17, TaskFields DEF ChallengedSession, AuthTypes, Running, AuthStates
  <2>2. slots' \in {slots, [slots EXCEPT ![0] = [value |-> None, gen |-> slots[0].gen + 1]]}
    BY <1>17, <2>1 DEF ChallengedSession
  <2>3. slots' \in [DOMAIN slots' -> [value : Values, gen : Nat]] /\ 0 \in DOMAIN slots'
    BY <2>2 DEF AuthTypes, Values
  <2> QED BY <1>0, <1>17, <2>3 DEF ChallengedSession, AuthTypes
<1>18. CASE Rest \/ UNCHANGED vars
  BY <1>18 DEF Rest, vars, AuthTypes
<1> QED
  BY <1>1, <1>2, <1>3, <1>4, <1>5, <1>6, <1>7, <1>8, <1>9, <1>10, <1>11, <1>12, <1>13, <1>14,
     <1>15, <1>16, <1>17, <1>18
  DEF Next, SetOwn, SetRuntime, Configure

\* No rebuild of the auth state, and no late login, loses the session that was
\* stored last, for any number of clones that set secrets and log in.
THEOREM LoginsAreKept == Spec => []LoginNotLost
<1>1. Init => LoginNotLost
  BY DEF Init, LoginNotLost, Empty
<1>2. AuthTypes /\ AuthTypes' /\ LoginNotLost /\ [Next]_vars => LoginNotLost'
  <2> SUFFICES ASSUME AuthTypes, AuthTypes', LoginNotLost, [Next]_vars
               PROVE  slots'[0].value = stored'
    BY DEF LoginNotLost, AuthTypes, AuthStates
  <2>0. slots[0].value = stored /\ 0 \in DOMAIN slots
    BY DEF LoginNotLost, AuthTypes, AuthStates
  <2>1. CASE UNCHANGED <<slots, stored>>
    BY <2>0, <2>1
  <2>2. ASSUME NEW t \in Tasks, RebuildState(t)
        PROVE  slots'[0].value = stored'
    BY <2>0, <2>2 DEF RebuildState, AuthTypes
  <2>3. ASSUME NEW t \in Tasks, ApplyManual(t)
        PROVE  slots'[0].value = stored'
    <3>1. task[t].state.session = 0
      BY <2>3, TaskFields DEF ApplyManual, AuthTypes, AuthStates
    <3> QED BY <2>0, <2>3, <3>1 DEF ApplyManual, AuthTypes
  <2>4. ASSUME NEW t \in Tasks, ChallengedSession(t)
        PROVE  slots'[0].value = stored'
    <3>1. task[t].snap.session = 0
      BY <2>4, TaskFields DEF ChallengedSession, AuthTypes, Running, AuthStates
    <3> QED BY <2>0, <2>4, <3>1 DEF ChallengedSession, AuthTypes
  <2>5. ASSUME NEW t \in Tasks,
               \/ Construct(t) \/ DropHandle(t) \/ Configuring(t) \/ WriteSecret(t)
               \/ ReadOldState(t) \/ InstallState(t) \/ ManualChange(t) \/ StartLogin(t)
               \/ LoginAnswered(t)
        PROVE  UNCHANGED <<slots, stored>>
    BY <2>5 DEF Construct, DropHandle, Configuring, WriteSecret, ReadOldState, InstallState,
                ManualChange, StartLogin, LoginAnswered
  <2>6. ASSUME NEW t \in Tasks,
               \/ StartRequest(t) \/ TakeSnapshot(t) \/ PrepareAuth(t) \/ HiddenResend(t)
               \/ Answered(t) \/ ChallengedKey(t) \/ Cancel(t)
        PROVE  UNCHANGED <<slots, stored>>
    BY <2>6 DEF StartRequest, TakeSnapshot, PrepareAuth, HiddenResend, Answered, ChallengedKey,
                Cancel
  <2>7. CASE Rest \/ UNCHANGED vars \/ \E t, u \in Tasks : Clone(t, u)
    BY <2>1, <2>7 DEF Rest, vars, Clone
  <2> QED
    BY <2>1, <2>2, <2>3, <2>4, <2>5, <2>6, <2>7 DEF Next, SetOwn, SetRuntime, Configure
<1> QED BY <1>1, <1>2, AuthTypesInit, AuthTypesStep, PTL DEF Spec

-----------------------------------------------------------------------------
(* Secrets                                                                  *)

\* What makes FreshSecrets inductive: a setter that no other overlapped installs
\* the secrets as they are, and no rebuild that began after it returned can have
\* read older ones.
FreshInv ==
  /\ \A s \in CredSecrets : floor[s] <= secrets[s] /\ floor[s] <= current.key[s]
  /\ \A t \in Tasks :
       /\ Exclusive(t) /\ task[t].solo => \A u \in Tasks \ {t} : ~ Exclusive(u)
       /\ task[t].pc = "install" =>
            \A s \in CredSecrets : /\ floor[s] <= task[t].new.key[s]
                                   /\ task[t].solo => task[t].new.key[s] = secrets[s]
       /\ task[t].pc = "snapshot" => \A s \in CredSecrets : task[t].began[s] <= floor[s]
       /\ task[t].pc \in {"prepare", "sent"} =>
            \A s \in CredSecrets : task[t].began[s] <= task[t].snap.key[s]

\* A request presents secrets at least as recent as those of every setter that
\* had returned before it began and that no other setter overlapped.
THEOREM SecretsAreFresh == Spec => []FreshSecrets
<1>1. Init => FreshInv
  BY DEF Init, FreshInv, Secrets, Idle, Exclusive
<1>2. AuthTypes /\ FreshInv /\ [Next]_vars => FreshInv'
  <2> SUFFICES ASSUME AuthTypes, FreshInv, [Next]_vars
               PROVE  FreshInv'
    OBVIOUS
  <2>f. /\ task \in [Tasks -> TaskStates] /\ CredSecrets \subseteq Secrets
        /\ secrets \in [Secrets -> Nat] /\ floor \in [CredSecrets -> Nat]
        /\ current.key \in [CredSecrets -> Nat]
    BY DEF AuthTypes, AuthStates, Secrets
  <2>u. CASE UNCHANGED <<secrets, current, floor, task>>
    BY <2>u DEF FreshInv, Exclusive
  \* A task moves to a state that is no rebuild
  <2>t. ASSUME NEW t \in Tasks, UNCHANGED <<secrets, current, floor>>, NEW k,
               task' = [task EXCEPT ![t] = k],
               k.pc \notin {"read_old", "init", "install"},
               k.pc = "snapshot" => \A s \in CredSecrets : k.began[s] <= floor[s],
               k.pc \in {"prepare", "sent"} =>
                 \A s \in CredSecrets : k.began[s] <= k.snap.key[s]
        PROVE  FreshInv'
    BY <2>f, <2>t DEF FreshInv, Exclusive
  <2>1. ASSUME NEW t \in Tasks, Construct(t) \/ DropHandle(t) \/ Configuring(t)
                                \/ (\E u \in Tasks : Clone(t, u))
        PROVE  FreshInv'
    BY <2>1, <2>u DEF Construct, DropHandle, Configuring, Clone
  <2>2. ASSUME NEW t \in Tasks, WriteSecret(t)
        PROVE  FreshInv'
    <3>1. PICK z \in Secrets :
            /\ secrets' = [secrets EXCEPT ![z] = @ + 1]
            /\ task' = IF z \notin CredSecrets THEN task
                       ELSE [u \in Tasks |->
                               IF u = t THEN [pc |-> "read_old",
                                              solo |-> \A w \in Tasks : ~ Exclusive(w)]
                               ELSE IF Exclusive(u) THEN [task[u] EXCEPT !.solo = FALSE]
                               ELSE task[u]]
      BY <2>2 DEF WriteSecret
    <3>2. UNCHANGED <<current, floor>> /\ \A s \in CredSecrets : floor[s] <= secrets'[s]
      BY <2>2, <2>f, <3>1 DEF WriteSecret, FreshInv
    <3>3. CASE z \notin CredSecrets
      <4>1. task' = task /\ \A s \in CredSecrets : secrets'[s] = secrets[s]
        BY <2>f, <3>1, <3>3
      <4> QED BY <3>2, <4>1 DEF FreshInv, Exclusive
    <3>4. CASE z \in CredSecrets
      <4>1. task'[t] = [pc |-> "read_old", solo |-> \A w \in Tasks : ~ Exclusive(w)]
        BY <3>1, <3>4
      <4>2. ASSUME NEW u \in Tasks \ {t}, Exclusive(u)
            PROVE  /\ task'[u].pc = task[u].pc /\ task'[u].solo = FALSE
                   /\ task[u].pc = "install" => task'[u].new = task[u].new
        <5>1. task[u] \in Rebuilds
          BY <2>f, <4>2, TaskFields DEF Exclusive, Rebuilds
        <5>2. task'[u] = [task[u] EXCEPT !.solo = FALSE]
          BY <3>1, <3>4, <4>2
        <5> QED BY <5>1, <5>2 DEF Rebuilds
      <4>3. ASSUME NEW u \in Tasks \ {t}, ~ Exclusive(u)
            PROVE  task'[u] = task[u]
        BY <3>1, <3>4, <4>3
      <4>4. \A u \in Tasks \ {t} : task'[u].pc = task[u].pc
        BY <4>2, <4>3
      <4>5. ASSUME NEW u \in Tasks \ {t}
            PROVE  /\ Exclusive(u)' <=> Exclusive(u)
                   /\ Exclusive(u) => task'[u].solo = FALSE
        BY <4>2, <4>4 DEF Exclusive
      <4>6. \A u \in Tasks : Exclusive(u)' /\ task'[u].solo =>
                               \A w \in Tasks \ {u} : ~ Exclusive(w)'
        <5> SUFFICES ASSUME NEW u \in Tasks, Exclusive(u)', task'[u].solo,
                            NEW w \in Tasks \ {u}
                     PROVE  ~ Exclusive(w)'
          OBVIOUS
        <5>1. u = t
          BY <4>5
        <5>2. ~ Exclusive(w)
          BY <4>1, <5>1
        <5> QED BY <4>5, <5>1, <5>2
      <4>7. ASSUME NEW u \in Tasks
            PROVE  /\ task'[u].pc = "install" =>
                        \A s \in CredSecrets : /\ floor[s] <= task'[u].new.key[s]
                                               /\ task'[u].solo => task'[u].new.key[s] = secrets'[s]
                   /\ task'[u].pc = "snapshot" => \A s \in CredSecrets : task'[u].began[s] <= floor[s]
                   /\ task'[u].pc \in {"prepare", "sent"} =>
                        \A s \in CredSecrets : task'[u].began[s] <= task'[u].snap.key[s]
        <5>1. CASE u = t
          BY <4>1, <5>1
        <5>2. CASE u # t /\ Exclusive(u)
          BY <4>2, <5>2 DEF FreshInv, Exclusive
        <5>3. CASE u # t /\ ~ Exclusive(u)
          BY <4>3, <5>3 DEF FreshInv, Exclusive
        <5> QED BY <5>1, <5>2, <5>3
      <4> QED BY <3>2, <4>6, <4>7 DEF FreshInv
    <3> QED BY <3>3, <3>4
  \* A rebuild moves on
  <2>r. ASSUME NEW t \in Tasks, Exclusive(t), UNCHANGED <<secrets, current, floor>>, NEW k,
               task' = [task EXCEPT ![t] = k], k.pc \in {"init", "install"},
               k.solo = task[t].solo,
               k.pc = "install" => \A s \in CredSecrets : k.new.key[s] = secrets[s]
        PROVE  FreshInv'
    BY <2>f, <2>r DEF FreshInv, Exclusive
  <2>3. ASSUME NEW t \in Tasks, ReadOldState(t)
        PROVE  FreshInv'
    <3> DEFINE k == [pc |-> "init", solo |-> task[t].solo, old |-> current]
    <3>1. k.pc = "init" /\ k.solo = task[t].solo /\ Exclusive(t)
      BY <2>3 DEF ReadOldState, Exclusive
    <3>2. task' = [task EXCEPT ![t] = k] /\ UNCHANGED <<secrets, current, floor>>
      BY <2>3 DEF ReadOldState
    <3> QED BY <2>r, <3>1, <3>2
  <2>4. ASSUME NEW t \in Tasks, RebuildState(t)
        PROVE  FreshInv'
    <3> DEFINE k == [pc |-> "install", solo |-> task[t].solo,
                     new |-> [init_auth_state(fresh) EXCEPT !.session = task[t].old.session]]
    <3>1. k.pc = "install" /\ k.solo = task[t].solo /\ Exclusive(t)
      BY <2>4 DEF RebuildState, Exclusive
    <3>2. \A s \in CredSecrets : k.new.key[s] = secrets[s]
      BY <2>f DEF init_auth_state
    <3>3. task' = [task EXCEPT ![t] = k] /\ UNCHANGED <<secrets, current, floor>>
      BY <2>4 DEF RebuildState
    <3> HIDE DEF k
    <3> QED BY <2>r, <3>1, <3>2, <3>3
  <2>5. ASSUME NEW t \in Tasks, InstallState(t)
        PROVE  FreshInv'
    <3>1. /\ task[t].pc = "install" /\ current' = task[t].new /\ UNCHANGED secrets
          /\ floor' = IF task[t].solo THEN [s \in CredSecrets |-> secrets[s]] ELSE floor
          /\ task' = [task EXCEPT ![t] = Idle] /\ Exclusive(t)
      BY <2>5 DEF InstallState, Exclusive
    <3>2. \A s \in CredSecrets : /\ floor[s] <= floor'[s] /\ floor'[s] <= secrets'[s]
                                 /\ floor'[s] <= current'.key[s]
      BY <2>f, <3>1 DEF FreshInv
    <3>3. \A u \in Tasks \ {t} : task'[u] = task[u]
      BY <2>f, <3>1
    <3>4. ASSUME NEW u \in Tasks, task'[u].pc = "install"
          PROVE  /\ u # t /\ floor' = floor
                 /\ \A s \in CredSecrets : floor[s] <= task[u].new.key[s]
      <4>1. u # t /\ Exclusive(u)
        BY <2>f, <3>1, <3>3, <3>4 DEF Idle, Exclusive
      <4>2. ~ task[t].solo
        BY <3>1, <4>1 DEF FreshInv
      <4> QED BY <3>1, <3>3, <3>4, <4>1, <4>2 DEF FreshInv
    <3>5. \A u \in Tasks : Exclusive(u)' => u # t /\ Exclusive(u)
      BY <2>f, <3>1, <3>3 DEF Idle, Exclusive
    <3>6. \A u \in Tasks : Exclusive(u)' /\ task'[u].solo => \A w \in Tasks \ {u} : ~ Exclusive(w)'
      BY <3>3, <3>5 DEF FreshInv
    <3>7. ASSUME NEW u \in Tasks, task'[u].pc \in {"snapshot", "prepare", "sent"}
          PROVE  u # t
      BY <2>f, <3>1, <3>7 DEF Idle
    <3>8. ASSUME NEW u \in Tasks, task'[u].pc = "snapshot", NEW s \in CredSecrets
          PROVE  task'[u].began[s] <= floor'[s]
      <4>1. task'[u] = task[u] /\ task[u].began[s] <= floor[s]
        BY <3>3, <3>7, <3>8 DEF FreshInv
      <4>2. task[u].began[s] \in Nat /\ floor[s] \in Nat /\ floor'[s] \in Nat
        BY <2>f, <3>1, <3>8, <4>1, TaskFields DEF Starting
      <4> QED BY <3>2, <4>1, <4>2
    <3> QED BY <3>1, <3>2, <3>3, <3>4, <3>6, <3>7, <3>8 DEF FreshInv
  <2>6. ASSUME NEW t \in Tasks, ManualChange(t) \/ LoginAnswered(t)
        PROVE  FreshInv'
    <3>1. PICK v : task' = [task EXCEPT ![t] = [pc |-> "apply", state |-> current, value |-> v]]
      BY <2>6 DEF ManualChange, LoginAnswered, ManualReads
    <3> QED BY <2>6, <2>t, <3>1 DEF ManualChange, LoginAnswered
  <2>7. ASSUME NEW t \in Tasks, ApplyManual(t) \/ Answered(t) \/ Cancel(t) \/ ChallengedSession(t)
        PROVE  FreshInv'
    BY <2>7, <2>t DEF ApplyManual, Answered, Cancel, ChallengedSession, Idle
  <2>8. ASSUME NEW t \in Tasks, StartLogin(t)
        PROVE  FreshInv'
    BY <2>8, <2>t DEF StartLogin
  <2>9. ASSUME NEW t \in Tasks, StartRequest(t)
        PROVE  FreshInv'
    <3>1. PICK method \in {"GET", "POST"}, body \in Bodies, use \in Uses :
            task' = [task EXCEPT ![t] = [pc |-> "snapshot", method |-> method, body |-> body,
                                         use |-> use, began |-> floor]]
      BY <2>9 DEF StartRequest
    <3>2. \A s \in CredSecrets : floor[s] <= floor[s]
      BY <2>f
    <3> QED BY <2>9, <2>t, <3>1, <3>2 DEF StartRequest
  <2>10. ASSUME NEW t \in Tasks, TakeSnapshot(t)
         PROVE  FreshInv'
    <3> DEFINE k == [pc |-> "prepare", method |-> task[t].method, body |-> task[t].body,
                     use |-> task[t].use, began |-> task[t].began, snap |-> current,
                     gen |-> None, visible |-> 0, hidden |-> 0, sends |-> 0]
    <3>1. task[t] \in Starting /\ task[t].pc = "snapshot"
      BY <2>10, <2>f, TaskFields DEF TakeSnapshot
    <3>2. ASSUME NEW s \in CredSecrets PROVE task[t].began[s] <= current.key[s]
      <4>1. task[t].began[s] <= floor[s] /\ floor[s] <= current.key[s]
        BY <3>1 DEF FreshInv
      <4> QED BY <2>f, <3>1, <4>1 DEF Starting
    <3>3. k.pc = "prepare" /\ k.began = task[t].began /\ k.snap = current
      OBVIOUS
    <3>4. task' = [task EXCEPT ![t] = k] /\ UNCHANGED <<secrets, current, floor>>
      BY <2>10 DEF TakeSnapshot
    <3> HIDE DEF k
    <3> QED BY <2>t, <3>2, <3>3, <3>4
  \* A request moves on, with its snapshot
  <2>s. ASSUME NEW t \in Tasks, UNCHANGED <<secrets, current, floor>>, NEW k,
               task' = [task EXCEPT ![t] = k], task[t].pc \in {"prepare", "sent"},
               k = Idle \/ (/\ k.pc \in {"prepare", "sent"} /\ k.began = task[t].began
                            /\ k.snap = task[t].snap)
        PROVE  FreshInv'
    BY <2>t, <2>s DEF FreshInv, Idle
  <2>11. ASSUME NEW t \in Tasks, PrepareAuth(t)
         PROVE  FreshInv'
    <3> DEFINE j == [task[t] EXCEPT !.pc = "sent", !.gen = slots[task[t].snap.session].gen,
                       !.visible = @ + 1, !.hidden = 0, !.sends = @ + 1]
    <3>1. task[t] \in Running /\ task[t].pc = "prepare"
      BY <2>11, <2>f, TaskFields DEF PrepareAuth
    <3>2. j.pc = "sent" /\ j.began = task[t].began /\ j.snap = task[t].snap
      BY <3>1 DEF Running
    <3> HIDE DEF j
    <3>3. task' = [task EXCEPT ![t] = Idle] \/ task' = [task EXCEPT ![t] = j]
      BY <2>11 DEF PrepareAuth, j
    <3> QED BY <2>11, <2>s, <3>1, <3>2, <3>3 DEF PrepareAuth
  <2>12. ASSUME NEW t \in Tasks, HiddenResend(t)
         PROVE  FreshInv'
    <3> DEFINE j == [task[t] EXCEPT !.hidden = @ + 1, !.sends = @ + 1]
    <3>1. task[t] \in Running /\ task[t].pc = "sent"
      BY <2>12, <2>f, TaskFields DEF HiddenResend
    <3>2. j.pc = "sent" /\ j.began = task[t].began /\ j.snap = task[t].snap
      BY <3>1 DEF Running
    <3>3. task' = [task EXCEPT ![t] = j]
      BY <2>12, <2>f, <3>1 DEF HiddenResend, Running
    <3> HIDE DEF j
    <3> QED BY <2>12, <2>s, <3>1, <3>2, <3>3 DEF HiddenResend
  <2>13. ASSUME NEW t \in Tasks, ChallengedKey(t)
         PROVE  FreshInv'
    <3> DEFINE j == [task[t] EXCEPT !.pc = "prepare"]
    <3>1. task[t] \in Running /\ task[t].pc = "sent"
      BY <2>13, <2>f, TaskFields DEF ChallengedKey
    <3>2. j.pc = "prepare" /\ j.began = task[t].began /\ j.snap = task[t].snap
      BY <3>1 DEF Running
    <3> HIDE DEF j
    <3>3. task' = [task EXCEPT ![t] = Idle] \/ task' = [task EXCEPT ![t] = j]
      BY <2>13 DEF ChallengedKey, j
    <3> QED BY <2>13, <2>s, <3>1, <3>2, <3>3 DEF ChallengedKey
  <2>14. CASE Rest \/ UNCHANGED vars
    BY <2>14, <2>u DEF Rest, vars
  <2> QED
    BY <2>1, <2>2, <2>3, <2>4, <2>5, <2>6, <2>7, <2>8, <2>9, <2>10, <2>11, <2>12, <2>13, <2>14
    DEF Next, SetOwn, SetRuntime, Configure
<1>3. AuthTypes /\ FreshInv => FreshSecrets
  <2> SUFFICES ASSUME AuthTypes, FreshInv, NEW t \in Tasks, task[t].pc \in {"prepare", "sent"},
                      NEW s \in CredSecrets
               PROVE  task[t].snap.key[s] >= task[t].began[s]
    BY DEF FreshSecrets
  <2>1. task[t] \in Running
    BY TaskFields DEF AuthTypes
  <2> QED BY <2>1 DEF FreshInv, Running, AuthStates
<1> QED BY <1>1, <1>2, <1>3, AuthTypesInit, AuthTypesStep, PTL DEF Spec

-----------------------------------------------------------------------------
(* Physical sends                                                           *)

\* What one visible execution of a request may send
PerExecution(k) ==
  IF client.retry.t = "Custom" /\ Cloneable(k.body) /\ k.method = "GET"
  THEN 1 + client.retry.max ELSE 1

\* A request that is between two executions, or in its only one, or in its second
Counted(k) ==
  \/ k.pc = "prepare" /\ k.visible = 0 /\ k.sends = 0
  \/ k.pc = "prepare" /\ k.visible = 1 /\ k.sends <= PerExecution(k) /\ Rebuildable(k.body)
  \/ /\ k.pc = "sent" /\ k.visible = 1
     /\ k.hidden < PerExecution(k) /\ k.sends <= 1 + k.hidden
  \/ /\ k.pc = "sent" /\ k.visible = 2 /\ Rebuildable(k.body)
     /\ k.hidden < PerExecution(k) /\ k.sends <= PerExecution(k) + 1 + k.hidden

\* What makes SendsWithinMode inductive: nobody uses a client before it exists,
\* so its policy is fixed, and the sends of each execution are accounted for.
SendInv ==
  /\ client # None => client.retry \in RetryPolicies
  /\ \A t \in Tasks : Held(t) => client # None
  /\ \A t \in Tasks :
       /\ task[t].pc \in {"snapshot", "prepare", "sent"} => client # None
       /\ task[t].pc \in {"prepare", "sent"} /\ client.retry.t # "Default" => Counted(task[t])

\* The retry policy that any constructor installs is one of three, and a status
\* policy allows one or two resends.
LEMMA InstalledPolicy ==
  ASSUME NEW t \in Tasks, Construct(t)
  PROVE  client'.retry \in RetryPolicies /\ client' # None
<1>1. PICK mode \in Modes, origin \in Origins, tls \in BOOLEAN :
        client' \in {NewClient(origin, tls), with_retry_mode(mode, origin, tls),
                     create_generated_client(mode, origin, tls)} \ {None}
  BY DEF Construct
<1>2. ASSUME NEW o, resolve(mode, o) # None
      PROVE  resolve(mode, o) \in RetryPolicies
  BY <1>2 DEF resolve, StatusRetryConfig, RetryPolicies
<1>3. ASSUME NEW i, NEW s
      PROVE  ManagedClient(i, s, tls).retry = i
  BY DEF ManagedClient
<1>4. [t |-> "Default"] \in RetryPolicies
  BY DEF RetryPolicies
<1> QED BY <1>1, <1>2, <1>3, <1>4 DEF NewClient, with_retry_mode, create_generated_client

\* Under every mode but reqwest's own protocol recovery, a request is physically
\* sent at most as often as its visible executions times what the mode allows.
THEOREM SendsAreBounded == Spec => []SendsWithinMode
<1>1. Init => SendInv
  BY DEF Init, SendInv, Held, Idle
<1>2. AuthTypes /\ SendInv /\ [Next]_vars => SendInv'
  <2> SUFFICES ASSUME AuthTypes, SendInv, [Next]_vars
               PROVE  SendInv'
    OBVIOUS
  <2>f. task \in [Tasks -> TaskStates]
    BY DEF AuthTypes
  \* The client exists and one task moves on
  <2>t. ASSUME client # None, client' = client, NEW t \in Tasks, NEW k,
               task' = [task EXCEPT ![t] = k],
               k.pc \in {"prepare", "sent"} /\ client.retry.t # "Default" => Counted(k)
        PROVE  SendInv'
    BY <2>f, <2>t DEF SendInv, Counted, PerExecution
  \* No request moves on
  <2>n. ASSUME client' = client, handle' = handle \/ client # None,
               \A t \in Tasks : /\ task'[t].pc = task[t].pc
                                /\ task[t].pc \in {"prepare", "sent"} => task'[t] = task[t]
        PROVE  SendInv'
    BY <2>n DEF SendInv, Counted, PerExecution, Held
  <2>i. ASSUME client' = client, handle' = handle, NEW t \in Tasks, NEW k,
               task' = [task EXCEPT ![t] = k], k.pc \notin {"snapshot", "prepare", "sent"}
        PROVE  SendInv'
    BY <2>f, <2>i DEF SendInv, Counted, PerExecution, Held
  <2>1. ASSUME NEW t \in Tasks, Construct(t)
        PROVE  SendInv'
    <3>1. client = None /\ task' = task
      BY <2>1 DEF Construct
    <3> QED BY <2>1, <3>1, InstalledPolicy DEF SendInv
  <2>2. ASSUME NEW t \in Tasks, DropHandle(t) \/ Configuring(t) \/ (\E u \in Tasks : Clone(t, u))
        PROVE  SendInv'
    <3>1. client # None /\ client' = client /\ task' = task
      BY <2>2 DEF DropHandle, Configuring, Clone, SendInv
    <3> QED BY <2>n, <3>1
  <2>3. ASSUME NEW t \in Tasks, WriteSecret(t)
        PROVE  SendInv'
    <3> DEFINE alone == \A w \in Tasks : ~ Exclusive(w)
    <3>1. /\ client # None /\ client' = client /\ task[t] = Idle
          /\ \/ task' = task
             \/ task' = [u \in Tasks |->
                           IF u = t THEN [pc |-> "read_old", solo |-> alone]
                           ELSE IF Exclusive(u) THEN [task[u] EXCEPT !.solo = FALSE]
                           ELSE task[u]]
      BY <2>3 DEF WriteSecret, SendInv
    <3> HIDE DEF alone
    <3>2. ASSUME NEW u \in Tasks, Exclusive(u)
          PROVE  [task[u] EXCEPT !.solo = FALSE].pc = task[u].pc
      <4>1. task[u] \in Rebuilds
        BY <2>f, <3>2, TaskFields DEF Exclusive, Rebuilds
      <4> QED BY <4>1 DEF Rebuilds
    <3>3. ASSUME NEW u \in Tasks, task'[u].pc \in {"prepare", "sent"}
          PROVE  task'[u] = task[u]
      <4>1. CASE task' = task
        BY <4>1
      <4>2. CASE u = t /\ task'[u].pc = "read_old"
        BY <3>3, <4>2
      <4>3. CASE Exclusive(u) /\ task'[u] = [task[u] EXCEPT !.solo = FALSE]
        BY <3>2, <3>3, <4>3 DEF Exclusive
      <4>4. CASE /\ ~ Exclusive(u) /\ u # t /\ task'[u] = task[u]
        BY <4>4
      <4>5. ASSUME task' # task, u = t PROVE task'[u].pc = "read_old"
        BY <3>1, <4>5
      <4>6. ASSUME task' # task, u # t
            PROVE  task'[u] = IF Exclusive(u) THEN [task[u] EXCEPT !.solo = FALSE] ELSE task[u]
        BY <3>1, <4>6
      <4> QED BY <4>1, <4>2, <4>3, <4>4, <4>5, <4>6
    <3> QED BY <3>1, <3>3 DEF SendInv, Counted, PerExecution
  <2>4. ASSUME NEW t \in Tasks, ReadOldState(t)
        PROVE  SendInv'
    BY <2>4, <2>i DEF ReadOldState
  <2>5. ASSUME NEW t \in Tasks, RebuildState(t)
        PROVE  SendInv'
    BY <2>5, <2>i DEF RebuildState
  <2>6. ASSUME NEW t \in Tasks, \/ InstallState(t) \/ ApplyManual(t) \/ Answered(t) \/ Cancel(t)
                                \/ ChallengedSession(t)
        PROVE  SendInv'
    BY <2>6, <2>i DEF InstallState, ApplyManual, Answered, Cancel, ChallengedSession, Idle
  <2>7. ASSUME NEW t \in Tasks, ManualChange(t) \/ LoginAnswered(t)
        PROVE  SendInv'
    <3>1. PICK v : task' = [task EXCEPT ![t] = [pc |-> "apply", state |-> current, value |-> v]]
      BY <2>7 DEF ManualChange, LoginAnswered, ManualReads
    <3> QED BY <2>7, <2>i, <3>1 DEF ManualChange, LoginAnswered
  <2>8. ASSUME NEW t \in Tasks, StartLogin(t)
        PROVE  SendInv'
    BY <2>8, <2>i DEF StartLogin
  <2>9. ASSUME NEW t \in Tasks, StartRequest(t)
        PROVE  SendInv'
    <3>1. PICK method \in {"GET", "POST"}, body \in Bodies, use \in Uses :
            task' = [task EXCEPT ![t] = [pc |-> "snapshot", method |-> method, body |-> body,
                                         use |-> use, began |-> floor]]
      BY <2>9 DEF StartRequest
    <3>2. client # None /\ client' = client
      BY <2>9 DEF StartRequest, SendInv
    <3> QED BY <2>t, <3>1, <3>2
  <2>10. ASSUME NEW t \in Tasks, TakeSnapshot(t)
         PROVE  SendInv'
    <3> DEFINE k == [pc |-> "prepare", method |-> task[t].method, body |-> task[t].body,
                     use |-> task[t].use, began |-> task[t].began, snap |-> current,
                     gen |-> None, visible |-> 0, hidden |-> 0, sends |-> 0]
    <3>1. client # None /\ client' = client /\ task' = [task EXCEPT ![t] = k]
      BY <2>10 DEF TakeSnapshot, SendInv
    <3>2. Counted(k)
      BY DEF Counted
    <3> QED BY <2>t, <3>1, <3>2
  <2>e. ASSUME NEW k PROVE client # None => PerExecution(k) \in 1..3
    BY DEF SendInv, PerExecution, RetryPolicies
  <2>11. ASSUME NEW t \in Tasks, PrepareAuth(t)
         PROVE  SendInv'
    <3> DEFINE j == [task[t] EXCEPT !.pc = "sent", !.gen = slots[task[t].snap.session].gen,
                       !.visible = @ + 1, !.hidden = 0, !.sends = @ + 1]
    <3>1. /\ task[t] \in Running /\ task[t].pc = "prepare"
          /\ client # None /\ client' = client
      BY <2>11, <2>f, TaskFields DEF PrepareAuth, SendInv
    <3>2. /\ j.pc = "sent" /\ j.visible = task[t].visible + 1 /\ j.hidden = 0
          /\ j.sends = task[t].sends + 1 /\ j.body = task[t].body /\ j.method = task[t].method
          /\ task[t].sends \in Nat
      BY <3>1 DEF Running
    <3>3. task' = [task EXCEPT ![t] = Idle] \/ task' = [task EXCEPT ![t] = j]
      BY <2>11 DEF PrepareAuth
    <3> HIDE DEF j
    <3>4. PerExecution(j) = PerExecution(task[t]) /\ PerExecution(j) \in 1..3
      BY <2>e, <3>1, <3>2 DEF PerExecution
    <3>5. client.retry.t # "Default" => Counted(j)
      BY <3>1, <3>2, <3>4 DEF SendInv, Counted
    <3> QED BY <2>t, <3>1, <3>3, <3>5 DEF Idle
  <2>12. ASSUME NEW t \in Tasks, HiddenResend(t)
         PROVE  SendInv'
    <3> DEFINE j == [task[t] EXCEPT !.hidden = @ + 1, !.sends = @ + 1]
    <3>1. /\ task[t] \in Running /\ task[t].pc = "sent"
          /\ client # None /\ client' = client
      BY <2>12, <2>f, TaskFields DEF HiddenResend, SendInv
    <3>2. /\ j.pc = "sent" /\ j.visible = task[t].visible /\ j.hidden = task[t].hidden + 1
          /\ j.sends = task[t].sends + 1 /\ j.body = task[t].body /\ j.method = task[t].method
          /\ task[t].sends \in Nat /\ task[t].hidden \in Nat
      BY <3>1 DEF Running
    <3>3. task' = [task EXCEPT ![t] = j]
      BY <2>12, <2>f, <3>1 DEF HiddenResend, Running
    <3> HIDE DEF j
    <3>4. PerExecution(j) = PerExecution(task[t]) /\ PerExecution(j) \in 1..3
      BY <2>e, <3>1, <3>2 DEF PerExecution
    <3>5. ASSUME client.retry.t # "Default"
          PROVE  task[t].hidden + 1 < PerExecution(task[t])
      <4>0. client.retry.t \in {"Custom", "Never"}
        BY <3>1, <3>5 DEF SendInv, RetryPolicies
      <4>1. /\ client.retry.t = "Custom" /\ Cloneable(task[t].body)
            /\ method_is_eligible(task[t].method) /\ task[t].hidden < client.retry.max
        BY <2>12, <4>0 DEF HiddenResend, Resendable
      <4>2. task[t].method = "GET" /\ client.retry.max \in Nat
        BY <3>1, <4>1 DEF method_is_eligible, Running, SendInv, RetryPolicies
      <4> QED BY <3>2, <4>1, <4>2 DEF PerExecution
    <3>6. client.retry.t # "Default" => Counted(j)
      BY <3>1, <3>2, <3>4, <3>5 DEF SendInv, Counted
    <3> QED BY <2>t, <3>1, <3>3, <3>6
  <2>13. ASSUME NEW t \in Tasks, ChallengedKey(t)
         PROVE  SendInv'
    <3> DEFINE j == [task[t] EXCEPT !.pc = "prepare"]
    <3>1. /\ task[t] \in Running /\ task[t].pc = "sent"
          /\ client # None /\ client' = client
      BY <2>13, <2>f, TaskFields DEF ChallengedKey, SendInv
    <3>2. /\ j.pc = "prepare" /\ j.visible = task[t].visible /\ j.hidden = task[t].hidden
          /\ j.sends = task[t].sends /\ j.body = task[t].body /\ j.method = task[t].method
          /\ task[t].sends \in Nat /\ task[t].hidden \in Nat
      BY <3>1 DEF Running
    <3>3. \/ task' = [task EXCEPT ![t] = Idle]
          \/ task' = [task EXCEPT ![t] = j] /\ task[t].visible = 1 /\ Rebuildable(task[t].body)
      BY <2>13 DEF ChallengedKey
    <3> HIDE DEF j
    <3>4. PerExecution(j) = PerExecution(task[t]) /\ PerExecution(j) \in 1..3
      BY <2>e, <3>1, <3>2 DEF PerExecution
    <3>5. client.retry.t # "Default" /\ task[t].visible = 1 /\ Rebuildable(task[t].body) => Counted(j)
      BY <3>1, <3>2, <3>4 DEF SendInv, Counted
    <3> QED BY <2>t, <3>1, <3>3, <3>5 DEF Idle
  <2>14. CASE Rest \/ UNCHANGED vars
    BY <2>14, <2>n DEF Rest, vars
  <2> QED
    BY <2>1, <2>2, <2>3, <2>4, <2>5, <2>6, <2>7, <2>8, <2>9, <2>10, <2>11, <2>12, <2>13, <2>14
    DEF Next, SetOwn, SetRuntime, Configure
<1>3. AuthTypes /\ SendInv => SendsWithinMode
  <2> SUFFICES ASSUME AuthTypes, SendInv, NEW t \in Tasks, task[t].pc = "sent",
                      client.retry.t # "Default"
               PROVE  LET visible == IF Rebuildable(task[t].body) THEN 2 ELSE 1
                      IN  /\ task[t].visible <= visible
                          /\ task[t].sends <= task[t].visible * PerExecution(task[t])
    BY DEF SendsWithinMode, PerExecution
  <2>1. task[t] \in Running /\ Counted(task[t])
    BY TaskFields DEF AuthTypes, SendInv
  <2>2. PerExecution(task[t]) \in 1..3
    BY DEF SendInv, PerExecution, RetryPolicies
  <2> QED BY <2>1, <2>2 DEF Counted, Running
<1> QED BY <1>1, <1>2, <1>3, AuthTypesInit, AuthTypesStep, PTL DEF Spec
===============================================================================
