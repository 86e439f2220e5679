------------------------ MODULE AuthRecursionProofs ------------------------
(***************************************************************************)
(* Proofs about AuthRecursion, for any tasks, credentials and providers    *)
(***************************************************************************)
EXTENDS AuthRecursion, SequenceTheorems, TLAPS

USE SendsAssumption, NoTaskAssumption, BoundsAssumption

Pcs == {"idle", "lookup", "waiting", "acquire", "http", "dropped"}

Types ==
    /\ slot \in [Credentials -> {"Empty", "Valid", "Refreshing"}]
    /\ owner \in [Credentials -> Tasks \cup {NoTask}]
    /\ pc \in [Tasks -> Pcs]
    /\ frames \in [Tasks -> Seq(Credentials)]
    /\ stack \in [Tasks -> Seq(Keys)]
    /\ entry \in [Tasks -> {"request", "invalidate"}]

Distinct(s) == \A i, j \in 1 .. Len(s) : s[i] = s[j] => i = j

\* Some send carries credential c under key k.
SentAs(k, c) == [key |-> k, credential |-> c] \in AllSends

\* AUTH_INTERNAL_STACK holds a key for each call under way, under which its
\* credential was sent with, but none for the one that a protected request itself
\* prepares; it holds no key twice.
StackOf(f, s, e) ==
    /\ Len(f) = 0 => Len(s) = 0
    /\ Len(f) > 0 /\ e = "request" =>
         Len(f) = Len(s) + 1 /\ \A i \in 1 .. Len(s) : SentAs(s[i], f[i + 1])
    /\ e = "invalidate" => Len(f) = Len(s) /\ \A i \in 1 .. Len(s) : SentAs(s[i], f[i])
    /\ Distinct(s)

\* Each call under way is one that the provider around it needs, and the calls
\* inside one stay within any set that has what its provider needs and is closed.
Chain(f, e) ==
    /\ Len(f) > 0 /\ e = "request" => f[1] \in Protected
    /\ \A i \in 1 .. Len(f) : i + 1 \in 1 .. Len(f) => f[i + 1] \in Needs(f[i])
    /\ \A i \in 1 .. Len(f) : \A R \in SUBSET Credentials : Closed(R, f[i]) =>
         \A j \in 1 .. Len(f) : i < j => f[j] \in R

Nesting ==
    \A t \in Tasks :
      /\ pc[t] = "idle" <=> Len(frames[t]) = 0
      /\ StackOf(frames[t], stack[t], entry[t])
      /\ Chain(frames[t], entry[t])

\* An attempt is owned by a task that is inside it: not before its innermost
\* call has begun one.
HeldAt(c, i) ==
    LET t == owner[c] IN
    /\ frames[t][i] = c
    /\ pc[t] \in {"lookup", "waiting"} => i < Len(frames[t])

Ownership ==
    \A c \in Credentials :
      /\ slot[c] = "Refreshing" <=> owner[c] \in Tasks
      /\ owner[c] \in Tasks => \E i \in 1 .. Len(frames[owner[c]]) : HeldAt(c, i)

IInv == Types /\ Nesting /\ Ownership
-----------------------------------------------------------------------------
(* Starting, sending and returning, on the frames and the stack of a task  *)

\* What popping leaves of a sequence.
LEMMA PopProperties ==
    ASSUME NEW S, NEW s \in Seq(S), Len(s) > 0
    PROVE  /\ Pop(s) \in Seq(S)
           /\ Len(Pop(s)) = Len(s) - 1
           /\ \A i \in 1 .. Len(s) - 1 : Pop(s)[i] = s[i]
<1>1. PICK n \in Nat : n = Len(s) /\ n > 0
  OBVIOUS
<1>2. \A i \in 1 .. n - 1 : s[i] \in S
  BY <1>1
<1>3. Pop(s) = SubSeq(s, 1, n - 1)
  BY <1>1 DEF Pop
<1>4. n - 1 \in Int /\ 1 \in Int
  BY <1>1
<1>5. /\ SubSeq(s, 1, n - 1) \in Seq(S)
      /\ Len(SubSeq(s, 1, n - 1)) = IF 1 <= n - 1 THEN n - 1 - 1 + 1 ELSE 0
      /\ \A i \in 1 .. n - 1 - 1 + 1 : SubSeq(s, 1, n - 1)[i] = s[1 + i - 1]
  BY <1>2, <1>4, SubSeqProperties
<1>6. Len(Pop(s)) = n - 1
  BY <1>1, <1>3, <1>5
<1>7. \A i \in 1 .. n - 1 : Pop(s)[i] = s[i]
  BY <1>1, <1>3, <1>5
<1> QED BY <1>1, <1>3, <1>5, <1>6, <1>7

\* A call that starts from outside is nested in nothing.
LEMMA StartNests ==
    ASSUME NEW c \in Credentials
    PROVE  /\ c \in Protected => Chain(<<c>>, "request") /\ StackOf(<<c>>, <<>>, "request")
           /\ Chain(<<c>>, "invalidate")
           /\ \A k \in Keys : SentAs(k, c) => StackOf(<<c>>, <<k>>, "invalidate")
BY DEF Chain, StackOf, Distinct

\* What UseAuth is made of.
LEMMA UseAuthFields ==
    ASSUME NEW u \in UseAuth
    PROVE  /\ u.key \in Keys /\ u.credential \in Credentials
           /\ u = [key |-> u.key, credential |-> u.credential]
           /\ u \in InvalidateSends => SentAs(u.key, u.credential)
           /\ \A c \in Credentials : u \in Sends[c] => SentAs(u.key, u.credential)
                                                       /\ u.credential \in Needs(c)
<1>1. /\ u.key \in Keys /\ u.credential \in Credentials
      /\ u = [key |-> u.key, credential |-> u.credential]
  BY DEF UseAuth
<1>2. ASSUME NEW c \in Credentials, u \in Sends[c] PROVE u \in AllSends /\ u.credential \in Needs(c)
  BY <1>2 DEF AllSends, Needs
<1>3. u \in InvalidateSends => u \in AllSends
  BY DEF AllSends
<1> QED BY <1>1, <1>2, <1>3 DEF SentAs

\* A send under a key that the stack does not hold nests in the innermost call.
LEMMA SendNests ==
    ASSUME NEW f \in Seq(Credentials), NEW s \in Seq(Keys),
           NEW e \in {"request", "invalidate"}, Len(f) > 0,
           StackOf(f, s, e), Chain(f, e),
           NEW d \in Credentials, d \in Needs(InnermostOf(f)),
           NEW k \in Keys, SentAs(k, d), ~ Contains(s, k)
    PROVE  /\ Append(f, d) \in Seq(Credentials)
           /\ Append(s, k) \in Seq(Keys)
           /\ StackOf(Append(f, d), Append(s, k), e)
           /\ Chain(Append(f, d), e)
<1> DEFINE f2 == Append(f, d)
           s2 == Append(s, k)
<1>1. Len(f) \in Nat /\ Len(s) \in Nat
  OBVIOUS
<1>f. /\ f2 \in Seq(Credentials) /\ Len(f2) = Len(f) + 1
      /\ \A i \in 1 .. Len(f) : f2[i] = f[i]
      /\ f2[Len(f) + 1] = d
  OBVIOUS
<1>s. /\ s2 \in Seq(Keys) /\ Len(s2) = Len(s) + 1
      /\ \A i \in 1 .. Len(s) : s2[i] = s[i]
      /\ s2[Len(s) + 1] = k
  OBVIOUS
<1> HIDE DEF f2, s2
<1>3. Distinct(s2)
  <2>1. \A i \in 1 .. Len(s) : s2[i] = s[i] /\ s2[i] # k
    BY <1>s DEF Contains
  <2>2. \A i, j \in 1 .. Len(s) : s[i] = s[j] => i = j
    BY DEF StackOf, Distinct
  <2>3. \A i \in 1 .. Len(s2) : i \in 1 .. Len(s) \/ i = Len(s) + 1
    BY <1>1, <1>s
  <2> QED BY <1>s, <2>1, <2>2, <2>3 DEF Distinct
<1>4. StackOf(f2, s2, e)
  <2>1. CASE e = "request"
    <3>1. Len(f) = Len(s) + 1 /\ \A i \in 1 .. Len(s) : SentAs(s[i], f[i + 1])
      BY <2>1 DEF StackOf
    <3>2. ASSUME NEW i \in 1 .. Len(s2) PROVE SentAs(s2[i], f2[i + 1])
      <4>1. CASE i \in 1 .. Len(s)
        <5>1. i + 1 \in 1 .. Len(f)
          BY <1>1, <3>1, <4>1
        <5> QED BY <1>f, <1>s, <3>1, <4>1, <5>1
      <4>2. CASE i = Len(s) + 1
        BY <1>f, <1>s, <3>1, <4>2
      <4>3. i \in 1 .. Len(s) \/ i = Len(s) + 1
        BY <1>1, <1>s
      <4> QED BY <4>1, <4>2, <4>3
    <3>3. Len(f2) > 0 /\ Len(f2) = Len(s2) + 1
      BY <1>1, <1>f, <1>s, <3>1
    <3> QED BY <1>3, <2>1, <3>2, <3>3 DEF StackOf
  <2>2. CASE e = "invalidate"
    <3>1. Len(f) = Len(s) /\ \A i \in 1 .. Len(s) : SentAs(s[i], f[i])
      BY <2>2 DEF StackOf
    <3>2. ASSUME NEW i \in 1 .. Len(s2) PROVE SentAs(s2[i], f2[i])
      <4>1. CASE i \in 1 .. Len(s)
        BY <1>f, <1>s, <3>1, <4>1
      <4>2. CASE i = Len(s) + 1
        BY <1>f, <1>s, <3>1, <4>2
      <4>3. i \in 1 .. Len(s) \/ i = Len(s) + 1
        BY <1>1, <1>s
      <4> QED BY <4>1, <4>2, <4>3
    <3>3. Len(f2) > 0 /\ Len(f2) = Len(s2)
      BY <1>1, <1>f, <1>s, <3>1
    <3> QED BY <1>3, <2>2, <3>2, <3>3 DEF StackOf
  <2> QED BY <2>1, <2>2
<1>5. f2[1] = f[1]
  BY <1>1, <1>f
<1>6. \A i \in 1 .. Len(f2) : i + 1 \in 1 .. Len(f2) => f2[i + 1] \in Needs(f2[i])
  BY <1>1, <1>f DEF Chain, InnermostOf
<1>7. ASSUME NEW i \in 1 .. Len(f2), NEW R \in SUBSET Credentials, Closed(R, f2[i]),
             NEW j \in 1 .. Len(f2), i < j
      PROVE  f2[j] \in R
  <2>1. i \in 1 .. Len(f) /\ f2[i] = f[i] /\ Len(f) \in 1 .. Len(f)
    BY <1>1, <1>f, <1>7
  <2>2. CASE j \in 1 .. Len(f)
    BY <1>f, <1>7, <2>1, <2>2 DEF Chain
  <2>3. CASE j = Len(f) + 1
    <3>1. CASE i = Len(f)
      BY <1>f, <1>7, <2>1, <2>3, <3>1 DEF Closed, InnermostOf
    <3>2. CASE i < Len(f)
      <4>1. f[Len(f)] \in R
        BY <1>7, <2>1, <3>2 DEF Chain
      <4> QED BY <1>f, <1>7, <2>3, <4>1 DEF Closed, InnermostOf
    <3> QED BY <1>1, <2>1, <3>1, <3>2
  <2> QED BY <1>1, <1>f, <2>2, <2>3
<1>8. Chain(f2, e)
  BY <1>5, <1>6, <1>7 DEF Chain
<1> QED BY <1>f, <1>s, <1>4, <1>8 DEF f2, s2

\* A call that returns leaves the calls around it as they are.
LEMMA ReturnNests ==
    ASSUME NEW f \in Seq(Credentials), NEW s \in Seq(Keys),
           NEW e \in {"request", "invalidate"}, Len(f) > 0,
           StackOf(f, s, e), Chain(f, e),
           NEW s2, s2 = IF s = <<>> THEN s ELSE Pop(s)
    PROVE  /\ s2 \in Seq(Keys)
           /\ StackOf(Pop(f), s2, e)
           /\ Chain(Pop(f), e)
<1>1. Len(f) \in Nat /\ Len(s) \in Nat
  OBVIOUS
<1> DEFINE f2 == Pop(f)
<1>f. /\ f2 \in Seq(Credentials) /\ Len(f2) = Len(f) - 1
      /\ \A i \in 1 .. Len(f) - 1 : f2[i] = f[i]
  BY PopProperties
<1> HIDE DEF f2
<1>s. /\ s2 \in Seq(Keys)
      /\ Len(s) = 0 => Len(s2) = 0
      /\ Len(s) > 0 => Len(s2) = Len(s) - 1 /\ \A i \in 1 .. Len(s) - 1 : s2[i] = s[i]
  <2>1. CASE s = <<>>
    BY <2>1
  <2>2. CASE s # <<>>
    BY <1>1, <2>2, PopProperties, EmptySeq
  <2> QED BY <2>1, <2>2
<1>2. Distinct(s2)
  <2>1. \A i \in 1 .. Len(s2) : i \in 1 .. Len(s) /\ s2[i] = s[i]
    BY <1>1, <1>s
  <2>2. \A i, j \in 1 .. Len(s) : s[i] = s[j] => i = j
    BY DEF StackOf, Distinct
  <2> QED BY <2>1, <2>2 DEF Distinct
<1>3. StackOf(f2, s2, e)
  <2>1. CASE e = "request"
    <3>1. Len(f) = Len(s) + 1 /\ \A i \in 1 .. Len(s) : SentAs(s[i], f[i + 1])
      BY <2>1 DEF StackOf
    <3>2. \A i \in 1 .. Len(s2) : SentAs(s2[i], f2[i + 1])
      BY <1>1, <1>f, <1>s, <3>1
    <3>3. (Len(f2) > 0 => Len(f2) = Len(s2) + 1) /\ (Len(f2) = 0 => Len(s2) = 0)
      BY <1>1, <1>f, <1>s, <3>1
    <3> QED BY <1>2, <2>1, <3>2, <3>3 DEF StackOf
  <2>2. CASE e = "invalidate"
    <3>1. Len(f) = Len(s) /\ \A i \in 1 .. Len(s) : SentAs(s[i], f[i])
      BY <2>2 DEF StackOf
    <3>2. Len(f2) = Len(s2) /\ \A i \in 1 .. Len(s2) : SentAs(s2[i], f2[i])
      BY <1>1, <1>f, <1>s, <3>1
    <3> QED BY <1>2, <2>2, <3>2 DEF StackOf
  <2> QED BY <2>1, <2>2
<1>4. Len(f2) > 0 => f2[1] = f[1]
  BY <1>1, <1>f
<1>5. ASSUME NEW i \in 1 .. Len(f2), NEW R \in SUBSET Credentials, Closed(R, f2[i]),
             NEW j \in 1 .. Len(f2), i < j
      PROVE  f2[j] \in R
  <2>1. \A n \in 1 .. Len(f2) : n \in 1 .. Len(f) /\ f2[n] = f[n]
    BY <1>1, <1>f
  <2> QED BY <1>5, <2>1 DEF Chain
<1>6. Chain(f2, e)
  BY <1>1, <1>f, <1>4, <1>5 DEF Chain
<1> QED BY <1>s, <1>3, <1>6 DEF f2
-----------------------------------------------------------------------------
(* The inductive invariant                                                 *)

\* The end of an attempt sends its waiters back to look the slot up.
LEMMA WokenProperties ==
    ASSUME pc \in [Tasks -> Pcs], NEW c
    PROVE  /\ Woken(c) \in [Tasks -> Pcs]
           /\ \A u \in Tasks :
                Woken(c)[u] = pc[u] \/ (pc[u] = "waiting" /\ Woken(c)[u] = "lookup")
BY DEF Woken, Pcs

\* What a task's own innermost call is.
LEMMA InnermostTyped ==
    ASSUME IInv, NEW t \in Tasks, pc[t] # "idle"
    PROVE  /\ Len(frames[t]) \in Nat /\ Len(frames[t]) > 0
           /\ Innermost(t) = frames[t][Len(frames[t])]
           /\ Innermost(t) \in Credentials
<1>1. frames[t] \in Seq(Credentials) /\ Len(frames[t]) # 0
  BY DEF IInv, Types, Nesting
<1> QED BY <1>1 DEF Innermost, InnermostOf

\* What a return leaves, whatever becomes of the attempt that it may end.
Returned(t) ==
    /\ pc' \in [Tasks -> Pcs]
    /\ frames' \in [Tasks -> Seq(Credentials)]
    /\ stack' \in [Tasks -> Seq(Keys)]
    /\ entry' = entry
    /\ Nesting'
    /\ pc'[t] \in {"idle", "http", "acquire", "dropped"}
    /\ Len(frames'[t]) = Len(frames[t]) - 1
    /\ \A i \in 1 .. Len(frames[t]) - 1 : frames'[t][i] = frames[t][i]
    /\ \A u \in Tasks \ {t} :
         /\ frames'[u] = frames[u]
         /\ pc'[u] = pc[u] \/ (pc[u] = "waiting" /\ pc'[u] = "lookup")

\* A return keeps types and nesting, whether or not it ends an attempt.
LEMMA ReturnKeeps ==
    ASSUME IInv, NEW t \in Tasks, pc[t] # "idle",
           NEW p \in [Tasks -> Pcs], NEW l \in {"http", "acquire", "dropped"},
           \A u \in Tasks : p[u] = pc[u] \/ (pc[u] = "waiting" /\ p[u] = "lookup"),
           Return(t, p, l)
    PROVE  Returned(t)
<1>1. /\ frames[t] \in Seq(Credentials) /\ stack[t] \in Seq(Keys)
      /\ entry[t] \in {"request", "invalidate"}
      /\ Len(frames[t]) \in Nat /\ Len(frames[t]) > 0
      /\ StackOf(frames[t], stack[t], entry[t]) /\ Chain(frames[t], entry[t])
  BY InnermostTyped DEF IInv, Types, Nesting
<1> DEFINE s2 == IF stack[t] = <<>> THEN stack[t] ELSE Pop(stack[t])
<1>2. /\ frames'[t] = Pop(frames[t]) /\ stack'[t] = s2 /\ entry' = entry
      /\ pc'[t] = IF Len(frames[t]) = 1 THEN "idle" ELSE l
      /\ \A u \in Tasks \ {t} : frames'[u] = frames[u] /\ stack'[u] = stack[u] /\ pc'[u] = p[u]
      /\ frames' = [frames EXCEPT ![t] = Pop(frames[t])]
      /\ stack' = [stack EXCEPT ![t] = s2]
      /\ pc' \in [Tasks -> Pcs]
  BY DEF Return, IInv, Types, Pcs
<1>3. s2 \in Seq(Keys) /\ StackOf(Pop(frames[t]), s2, entry[t]) /\ Chain(Pop(frames[t]), entry[t])
  BY <1>1, ReturnNests
<1>4. /\ Pop(frames[t]) \in Seq(Credentials) /\ Len(Pop(frames[t])) = Len(frames[t]) - 1
      /\ \A i \in 1 .. Len(frames[t]) - 1 : Pop(frames[t])[i] = frames[t][i]
  BY <1>1, PopProperties
<1> HIDE DEF s2
<1>5. frames' \in [Tasks -> Seq(Credentials)] /\ stack' \in [Tasks -> Seq(Keys)]
  BY <1>2, <1>3, <1>4 DEF IInv, Types
<1>6. Nesting'
  <2> SUFFICES ASSUME NEW u \in Tasks
               PROVE  /\ pc'[u] = "idle" <=> Len(frames'[u]) = 0
                      /\ StackOf(frames'[u], stack'[u], entry'[u])
                      /\ Chain(frames'[u], entry'[u])
    BY DEF Nesting, StackOf, SentAs, Chain, Closed, Needs, Distinct
  <2>1. CASE u = t
    <3>1. pc'[t] = "idle" <=> Len(frames'[t]) = 0
      BY <1>1, <1>2, <1>4
    <3>2. StackOf(frames'[t], stack'[t], entry'[t]) /\ Chain(frames'[t], entry'[t])
      BY <1>2, <1>3
    <3> QED BY <2>1, <3>1, <3>2
  <2>2. CASE u # t
    BY <1>2, <2>2 DEF IInv, Nesting
  <2> QED BY <2>1, <2>2
<1> QED BY <1>2, <1>4, <1>5, <1>6 DEF Returned

\* What remains owned after a return: the attempts of the calls around it.
LEMMA ReturnOwns ==
    ASSUME IInv, NEW t \in Tasks, pc[t] # "idle", Returned(t),
           NEW c \in Credentials, owner[c] \in Tasks, owner'[c] = owner[c],
           owner[c] = t => c # Innermost(t) \/ pc[t] \in {"lookup", "waiting"}
    PROVE  \E i \in 1 .. Len(frames'[owner[c]]) : HeldAt(c, i)'
<1>1. PICK i \in 1 .. Len(frames[owner[c]]) : HeldAt(c, i)
  BY DEF IInv, Ownership
<1>2. CASE owner[c] = t
  <2>1. Len(frames[t]) \in Nat /\ Innermost(t) = frames[t][Len(frames[t])]
    BY InnermostTyped
  <2>2. i \in 1 .. Len(frames[t]) - 1
    BY <1>1, <1>2, <2>1 DEF HeldAt
  <2>3. i \in 1 .. Len(frames'[t]) /\ frames'[t][i] = c
    BY <1>1, <1>2, <2>2 DEF HeldAt, Returned
  <2>4. pc'[t] \notin {"lookup", "waiting"}
    BY DEF Returned
  <2> QED BY <1>2, <2>3, <2>4 DEF HeldAt
<1>3. CASE owner[c] # t
  BY <1>1, <1>3 DEF HeldAt, Returned
<1> QED BY <1>2, <1>3

\* The end of a preparation, with the attempt of t on it committed or rolled back.
LEMMA EndAttemptKeeps ==
    ASSUME IInv, NEW t \in Tasks, pc[t] # "idle", NEW s \in {"Empty", "Valid"},
           NEW l \in {"http", "acquire", "dropped"}, EndAttempt(t, s, l)
    PROVE  IInv'
<1> DEFINE c == Innermost(t)
<1>c. c \in Credentials
  BY InnermostTyped
<1>1. /\ slot' = [slot EXCEPT ![c] = s]
      /\ owner' = [owner EXCEPT ![c] = NoTask]
      /\ Return(t, Woken(c), l)
  BY DEF EndAttempt
<1>2. /\ Woken(c) \in [Tasks -> Pcs]
      /\ \A u \in Tasks : Woken(c)[u] = pc[u] \/ (pc[u] = "waiting" /\ Woken(c)[u] = "lookup")
  BY WokenProperties DEF IInv, Types
<1> DEFINE p == Woken(c)
<1> HIDE DEF c, p
<1>3. Returned(t)
  BY <1>1, <1>2, ReturnKeeps DEF p
<1>4. Types'
  BY <1>c, <1>1, <1>3 DEF IInv, Types, Returned
<1>5. ASSUME NEW d \in Credentials
      PROVE  /\ slot'[d] = "Refreshing" <=> owner'[d] \in Tasks
             /\ owner'[d] \in Tasks => \E i \in 1 .. Len(frames'[owner'[d]]) : HeldAt(d, i)'
  <2>1. CASE d = c
    BY <1>c, <1>1, <2>1 DEF IInv, Types
  <2>2. CASE d # c
    <3>1. slot'[d] = slot[d] /\ owner'[d] = owner[d]
      BY <1>c, <1>1, <2>2 DEF IInv, Types
    <3>2. owner[d] \in Tasks => \E i \in 1 .. Len(frames'[owner[d]]) : HeldAt(d, i)'
      BY <1>3, <2>2, <3>1, ReturnOwns DEF c
    <3> QED BY <3>1, <3>2 DEF IInv, Ownership
  <2> QED BY <2>1, <2>2
<1> QED BY <1>3, <1>4, <1>5 DEF IInv, Ownership, Returned

\* The end of a preparation that t has no attempt of its own on.
LEMMA ReturnKeepsAttempts ==
    ASSUME IInv, NEW t \in Tasks, pc[t] \in {"lookup", "waiting"},
           NEW l \in {"http", "dropped"}, Return(t, pc, l), UNCHANGED <<slot, owner>>
    PROVE  IInv'
<1>1. Returned(t)
  BY ReturnKeeps DEF IInv, Types
<1>2. Ownership'
  BY <1>1, ReturnOwns DEF IInv, Ownership
<1> QED BY <1>1, <1>2 DEF Returned, IInv, Types

\* Every reachable state: nested calls follow the needs of providers, the stack
\* mirrors them, and an attempt under way belongs to a call that is under way.
LEMMA Inductive == Spec => []IInv
<1>1. Init => IInv
  <2> SUFFICES ASSUME Init PROVE IInv
    OBVIOUS
  <2>1. Types
    BY DEF Init, Types, Pcs
  <2>2. \A t \in Tasks : frames[t] = <<>> /\ stack[t] = <<>> /\ pc[t] = "idle"
    BY DEF Init
  <2>3. \A e : StackOf(<<>>, <<>>, e) /\ Chain(<<>>, e)
    BY DEF StackOf, Chain, Distinct
  <2>4. Nesting
    BY <2>2, <2>3 DEF Nesting
  <2>5. Ownership
    BY DEF Init, Ownership
  <2> QED BY <2>1, <2>4, <2>5 DEF IInv
<1>2. IInv /\ [Next]_vars => IInv'
  <2> SUFFICES ASSUME IInv, [Next]_vars PROVE IInv'
    OBVIOUS
  <2>n. ASSUME UNCHANGED <<frames, stack, entry>>, NEW t \in Tasks, pc[t] # "idle",
               NEW l \in Pcs \ {"idle"}, pc' = [pc EXCEPT ![t] = l]
        PROVE  Nesting' /\ pc' \in [Tasks -> Pcs]
    <3>1. pc' \in [Tasks -> Pcs] /\ \A u \in Tasks : pc'[u] = "idle" <=> pc[u] = "idle"
      BY <2>n DEF IInv, Types
    <3> SUFFICES ASSUME NEW u \in Tasks
                 PROVE  /\ pc'[u] = "idle" <=> Len(frames[u]) = 0
                        /\ StackOf(frames[u], stack[u], entry[u])
                        /\ Chain(frames[u], entry[u])
      BY <2>n, <3>1 DEF Nesting, StackOf, SentAs, Chain, Closed, Needs, Distinct
    <3> QED BY <3>1 DEF IInv, Nesting
  <2>u. ASSUME UNCHANGED <<slot, owner, pc, frames, stack, entry>> PROVE IInv'
    <3>1. Nesting'
      BY <2>u DEF IInv, Nesting, StackOf, SentAs, Chain, Closed, Needs, Distinct
    <3>2. Types' /\ Ownership'
      BY <2>u DEF IInv, Types, Ownership, HeldAt
    <3> QED BY <3>1, <3>2 DEF IInv
  <2>s. ASSUME NEW t \in Tasks, NEW c \in Credentials, NEW e \in {"request", "invalidate"},
               NEW s \in Seq(Keys), StackOf(<<c>>, s, e), Chain(<<c>>, e), Start(t, e, c, s)
        PROVE  IInv'
    <3>0. /\ pc[t] = "idle" /\ UNCHANGED <<slot, owner>>
          /\ frames' = [frames EXCEPT ![t] = <<c>>] /\ stack' = [stack EXCEPT ![t] = s]
          /\ entry' = [entry EXCEPT ![t] = e] /\ pc' = [pc EXCEPT ![t] = "lookup"]
      BY <2>s DEF Start
    <3>2. Types'
      BY <2>s, <3>0 DEF IInv, Types, Pcs
    <3>3. Chain(<<c>>, e) /\ Len(<<c>>) = 1
      BY <2>s
    <3>4. Nesting'
      <4> SUFFICES ASSUME NEW u \in Tasks
                   PROVE  /\ pc'[u] = "idle" <=> Len(frames'[u]) = 0
                          /\ StackOf(frames'[u], stack'[u], entry'[u])
                          /\ Chain(frames'[u], entry'[u])
        BY DEF Nesting, StackOf, SentAs, Chain, Closed, Needs, Distinct
      <4>1. CASE u = t
        <5>1. frames'[t] = <<c>> /\ stack'[t] = s /\ entry'[t] = e /\ pc'[t] = "lookup"
          BY <3>0 DEF IInv, Types
        <5>2. pc'[t] # "idle" /\ Len(frames'[t]) # 0
          BY <3>3, <5>1
        <5> QED BY <2>s, <3>3, <4>1, <5>1, <5>2
      <4>2. CASE u # t
        <5>1. frames'[u] = frames[u] /\ stack'[u] = stack[u] /\ entry'[u] = entry[u] /\ pc'[u] = pc[u]
          BY <3>0, <4>2 DEF IInv, Types
        <5> QED BY <5>1 DEF IInv, Nesting
      <4> QED BY <4>1, <4>2
    <3>5. Ownership'
      <4>1. \A d \in Credentials : owner[d] # t
        BY <3>0 DEF IInv, Nesting, Ownership
      <4>2. \A u \in Tasks \ {t} : frames'[u] = frames[u] /\ pc'[u] = pc[u]
        BY <3>0 DEF IInv, Types
      <4> QED BY <3>0, <4>1, <4>2 DEF IInv, Ownership, HeldAt
    <3> QED BY <3>2, <3>4, <3>5 DEF IInv
  <2>1. ASSUME NEW t \in Tasks, NEW c \in Credentials, StartRequest(t, c) PROVE IInv'
    <3>1. StackOf(<<c>>, <<>>, "request") /\ Chain(<<c>>, "request")
      BY <2>1, StartNests DEF StartRequest
    <3>2. <<>> \in Seq(Keys)
      OBVIOUS
    <3> QED BY <2>1, <2>s, <3>1, <3>2 DEF StartRequest
  <2>2. ASSUME NEW t \in Tasks, NEW u \in UseAuth, StartInvalidate(t, u) PROVE IInv'
    <3>1. u.credential \in Credentials /\ u.key \in Keys /\ SentAs(u.key, u.credential)
      BY <2>2, UseAuthFields DEF StartInvalidate
    <3>2. /\ StackOf(<<u.credential>>, <<u.key>>, "invalidate")
          /\ Chain(<<u.credential>>, "invalidate")
      BY <3>1, StartNests
    <3>3. <<u.key>> \in Seq(Keys)
      BY <3>1
    <3> QED BY <2>2, <2>s, <3>1, <3>2, <3>3 DEF StartInvalidate
  <2>3. ASSUME NEW t \in Tasks, Join(t) PROVE IInv'
    <3>1. Nesting' /\ pc' \in [Tasks -> Pcs]
      BY <2>3, <2>n DEF Join, Pcs
    <3>2. Ownership'
      BY <2>3 DEF Join, IInv, Types, Ownership, HeldAt
    <3> QED BY <2>3, <3>1, <3>2 DEF Join, IInv, Types
  <2>4. ASSUME NEW t \in Tasks, BeginAttempt(t) PROVE IInv'
    <3>0. /\ Innermost(t) \in Credentials /\ Len(frames[t]) \in Nat /\ Len(frames[t]) > 0
          /\ Innermost(t) = frames[t][Len(frames[t])]
      BY <2>4, InnermostTyped DEF BeginAttempt
    <3>1. Nesting' /\ pc' \in [Tasks -> Pcs]
      BY <2>4, <2>n DEF BeginAttempt, Pcs
    <3>2. ASSUME NEW d \in Credentials
          PROVE  /\ slot'[d] = "Refreshing" <=> owner'[d] \in Tasks
                 /\ owner'[d] \in Tasks => \E i \in 1 .. Len(frames'[owner'[d]]) : HeldAt(d, i)'
      <4>1. CASE d = Innermost(t)
        <5>1. slot'[d] = "Refreshing" /\ owner'[d] = t /\ frames' = frames /\ pc'[t] = "acquire"
          BY <2>4, <3>0, <4>1 DEF BeginAttempt, IInv, Types
        <5> QED BY <3>0, <4>1, <5>1 DEF HeldAt
      <4>2. CASE d # Innermost(t)
        <5>1. slot'[d] = slot[d] /\ owner'[d] = owner[d] /\ frames' = frames
          BY <2>4, <4>2 DEF BeginAttempt, IInv, Types
        <5>2. \A u \in Tasks : pc'[u] = pc[u] \/ pc'[u] = "acquire"
          BY <2>4 DEF BeginAttempt, IInv, Types
        <5> QED BY <5>1, <5>2 DEF IInv, Ownership, HeldAt
      <4> QED BY <4>1, <4>2
    <3> QED BY <2>4, <3>0, <3>1, <3>2 DEF BeginAttempt, IInv, Types, Ownership
  <2>5. ASSUME NEW t \in Tasks, ReturnLease(t) PROVE IInv'
    BY <2>5, ReturnKeepsAttempts DEF ReturnLease
  <2>6. ASSUME NEW t \in Tasks, NEW u \in UseAuth, SendUseAuth(t, u) PROVE IInv'
    <3> DEFINE d == u.credential
               k == u.key
    <3>0. pc[t] = "acquire" /\ u \in Sends[Innermost(t)] /\ ~ Contains(stack[t], k)
      BY <2>6 DEF SendUseAuth, Sending
    <3>1. /\ frames[t] \in Seq(Credentials) /\ stack[t] \in Seq(Keys)
          /\ entry[t] \in {"request", "invalidate"} /\ Len(frames[t]) > 0 /\ Len(frames[t]) \in Nat
          /\ StackOf(frames[t], stack[t], entry[t]) /\ Chain(frames[t], entry[t])
          /\ Innermost(t) \in Credentials
      BY <3>0, InnermostTyped DEF IInv, Types, Nesting
    <3>k. d \in Credentials /\ k \in Keys /\ SentAs(k, d) /\ d \in Needs(InnermostOf(frames[t]))
      BY <3>0, <3>1, UseAuthFields DEF Innermost
    <3> HIDE DEF d, k
    <3>2. /\ Append(frames[t], d) \in Seq(Credentials) /\ Append(stack[t], k) \in Seq(Keys)
          /\ StackOf(Append(frames[t], d), Append(stack[t], k), entry[t])
          /\ Chain(Append(frames[t], d), entry[t])
      BY <3>0, <3>1, <3>k, SendNests
    <3>3. /\ frames' = [frames EXCEPT ![t] = Append(frames[t], d)]
          /\ stack' = [stack EXCEPT ![t] = Append(stack[t], k)]
          /\ pc' = [pc EXCEPT ![t] = "lookup"] /\ UNCHANGED <<slot, owner, entry>>
      BY <2>6 DEF SendUseAuth, Sending, d, k
    <3>4. /\ frames'[t] = Append(frames[t], d) /\ stack'[t] = Append(stack[t], k)
          /\ pc'[t] = "lookup" /\ entry'[t] = entry[t]
          /\ \A v \in Tasks \ {t} : /\ frames'[v] = frames[v] /\ stack'[v] = stack[v]
                                   /\ pc'[v] = pc[v] /\ entry'[v] = entry[v]
      BY <3>3 DEF IInv, Types
    <3>5. Types'
      BY <3>2, <3>3 DEF IInv, Types, Pcs
    <3>6. /\ Len(Append(frames[t], d)) = Len(frames[t]) + 1
          /\ \A i \in 1 .. Len(frames[t]) : Append(frames[t], d)[i] = frames[t][i]
      BY <3>1
    <3>7. Nesting'
      <4> SUFFICES ASSUME NEW v \in Tasks
                   PROVE  /\ pc'[v] = "idle" <=> Len(frames'[v]) = 0
                          /\ StackOf(frames'[v], stack'[v], entry'[v])
                          /\ Chain(frames'[v], entry'[v])
        BY DEF Nesting, StackOf, SentAs, Chain, Closed, Needs, Distinct
      <4>1. CASE v = t
        <5>1. pc'[t] # "idle" /\ Len(frames'[t]) # 0
          BY <3>1, <3>4, <3>6
        <5> QED BY <3>2, <3>4, <4>1, <5>1
      <4>2. CASE v # t
        BY <3>4, <4>2 DEF IInv, Nesting
      <4> QED BY <4>1, <4>2
    <3>8. Ownership'
      <4> SUFFICES ASSUME NEW c \in Credentials, owner[c] \in Tasks
                   PROVE  \E i \in 1 .. Len(frames'[owner[c]]) : HeldAt(c, i)'
        BY <3>3 DEF IInv, Ownership
      <4>1. PICK i \in 1 .. Len(frames[owner[c]]) : HeldAt(c, i)
        BY DEF IInv, Ownership
      <4>2. CASE owner[c] = t
        <5>1. i \in 1 .. Len(frames'[t]) /\ i < Len(frames'[t]) /\ frames'[t][i] = c
          BY <3>1, <3>4, <3>6, <4>1, <4>2 DEF HeldAt
        <5> QED BY <3>3, <4>2, <5>1 DEF HeldAt
      <4>3. CASE owner[c] # t
        BY <3>3, <3>4, <4>1, <4>3 DEF HeldAt
      <4> QED BY <4>2, <4>3
    <3> QED BY <3>5, <3>7, <3>8 DEF IInv
  <2>7. ASSUME NEW t \in Tasks, NEW u \in UseAuth, DetectRecursion(t, u) PROVE IInv'
    BY <2>7, <2>u DEF DetectRecursion, Sending
  <2>8. ASSUME NEW t \in Tasks, SendSkipAuth(t) PROVE IInv'
    <3>1. pc[t] = "acquire" /\ pc' = [pc EXCEPT ![t] = "http"]
          /\ UNCHANGED <<slot, owner, frames, stack, entry>>
      BY <2>8 DEF SendSkipAuth, Sending
    <3>2. Nesting' /\ pc' \in [Tasks -> Pcs]
      BY <3>1, <2>n DEF Pcs
    <3>3. Ownership'
      BY <3>1 DEF IInv, Types, Ownership, HeldAt
    <3> QED BY <3>1, <3>2, <3>3 DEF IInv, Types
  <2>9. ASSUME NEW t \in Tasks, HttpDone(t) PROVE IInv'
    <3>1. Nesting' /\ pc' \in [Tasks -> Pcs]
      BY <2>9, <2>n DEF HttpDone, Pcs
    <3>2. Ownership'
      BY <2>9 DEF HttpDone, IInv, Types, Ownership, HeldAt
    <3> QED BY <2>9, <3>1, <3>2 DEF HttpDone, IInv, Types
  <2>10. ASSUME NEW t \in Tasks, AcquireOk(t) \/ AcquireErr(t) PROVE IInv'
    BY <2>10, EndAttemptKeeps DEF AcquireOk, AcquireErr
  <2>11. ASSUME NEW t \in Tasks, Unwind(t) PROVE IInv'
    BY <2>11, EndAttemptKeeps DEF Unwind
  <2>12. ASSUME NEW t \in Tasks, Cancel(t) PROVE IInv'
    BY <2>12, EndAttemptKeeps, ReturnKeepsAttempts DEF Cancel
  <2>13. ASSUME NEW c \in Credentials, Invalidate(c) PROVE IInv'
    <3>1. Nesting'
      BY <2>13 DEF Invalidate, IInv, Nesting, StackOf, SentAs, Chain, Closed, Needs, Distinct
    <3>2. Types' /\ Ownership'
      BY <2>13 DEF Invalidate, IInv, Types, Ownership, HeldAt
    <3> QED BY <3>1, <3>2 DEF IInv
  <2>14. CASE UNCHANGED vars
    BY <2>14, <2>u DEF vars
  <2> QED
    BY <2>1, <2>2, <2>3, <2>4, <2>5, <2>6, <2>7, <2>8, <2>9, <2>10, <2>11, <2>12, <2>13, <2>14
    DEF Next, Step
<1> QED BY <1>1, <1>2, PTL DEF Spec
-----------------------------------------------------------------------------
(* What the invariant gives                                                *)

\* Which flows AUTH_INTERNAL_STACK lets recur, whatever providers need: that of the
\* credential which a protected request itself prepares, and that of a credential
\* which is sent with under two ids.
RecursionUnseen ==
    \A t \in Tasks : \A i, j \in 1 .. Len(frames[t]) :
      i < j /\ frames[t][i] = frames[t][j] =>
        (i = 1 /\ entry[t] = "request") \/ ~ OneKey(frames[t][i])

\* Two calls within an auth-internal send have different keys on its stack.
LEMMA RepetitionIsUnseen == IInv => RecursionUnseen
<1> SUFFICES ASSUME IInv, NEW t \in Tasks, NEW i \in 1 .. Len(frames[t]), NEW j \in 1 .. Len(frames[t]),
                    i < j, frames[t][i] = frames[t][j], OneKey(frames[t][i]),
                    ~ (i = 1 /\ entry[t] = "request")
             PROVE  FALSE
  BY DEF RecursionUnseen
<1>1. /\ Len(frames[t]) \in Nat /\ Len(stack[t]) \in Nat /\ entry[t] \in {"request", "invalidate"}
      /\ StackOf(frames[t], stack[t], entry[t])
  BY DEF IInv, Types, Nesting
<1>2. ASSUME NEW k, NEW l, NEW c, OneKey(c), SentAs(k, c), SentAs(l, c) PROVE k = l
  <2> DEFINE u == [key |-> k, credential |-> c]
             v == [key |-> l, credential |-> c]
  <2>1. u \in AllSends /\ v \in AllSends
    BY <1>2 DEF SentAs
  <2>2. u.credential = c /\ v.credential = c /\ u.key = k /\ v.key = l
    OBVIOUS
  <2> HIDE DEF u, v
  <2> QED BY <1>2, <2>1, <2>2 DEF OneKey
<1>3. CASE entry[t] = "invalidate"
  <2>1. /\ i \in 1 .. Len(stack[t]) /\ j \in 1 .. Len(stack[t])
        /\ SentAs(stack[t][i], frames[t][i]) /\ SentAs(stack[t][j], frames[t][j])
    BY <1>1, <1>3 DEF StackOf
  <2>2. stack[t][i] = stack[t][j]
    BY <1>2, <2>1
  <2> QED BY <1>1, <2>1, <2>2 DEF StackOf, Distinct
<1>4. CASE entry[t] = "request" /\ i # 1
  <2>1. Len(frames[t]) = Len(stack[t]) + 1 /\ \A n \in 1 .. Len(stack[t]) : SentAs(stack[t][n], frames[t][n + 1])
    BY <1>1, <1>4 DEF StackOf
  <2>2. i - 1 \in 1 .. Len(stack[t]) /\ j - 1 \in 1 .. Len(stack[t])
    BY <1>1, <1>4, <2>1
  <2>3. SentAs(stack[t][i - 1], frames[t][i]) /\ SentAs(stack[t][j - 1], frames[t][j])
    <3>1. (i - 1) + 1 = i /\ (j - 1) + 1 = j
      OBVIOUS
    <3>2. SentAs(stack[t][i - 1], frames[t][(i - 1) + 1]) /\ SentAs(stack[t][j - 1], frames[t][(j - 1) + 1])
      BY <2>1, <2>2
    <3> QED BY <3>1, <3>2
  <2>4. stack[t][i - 1] = stack[t][j - 1]
    BY <1>2, <2>3
  <2> QED BY <1>1, <2>2, <2>4 DEF StackOf, Distinct
<1> QED BY <1>1, <1>3, <1>4

\* auth_http.rs, for any providers: a flow that recurs within its own task is that
\* of the credential of a protected request, or it was sent with under two ids.
THEOREM UnseenRecursions == Spec => []RecursionUnseen
BY Inductive, RepetitionIsUnseen, PTL

\* Where each credential that its provider comes back to is never prepared by a
\* protected request and is sent with under one id, no auth refresh triggers the
\* same auth flow within its task.
THEOREM NoFlowRecurs ==
    ASSUME CyclesSeen
    PROVE  Spec => []NoRecursiveFlow
<1>1. IInv => NoRecursiveFlow
  <2> SUFFICES ASSUME IInv, NEW t \in Tasks, NEW i \in 1 .. Len(frames[t]), NEW j \in 1 .. Len(frames[t]),
                      i < j, frames[t][i] = frames[t][j]
               PROVE  FALSE
    BY DEF NoRecursiveFlow
  <2> DEFINE c == frames[t][i]
  <2>1. c \in Credentials /\ Len(frames[t]) \in Nat /\ Len(frames[t]) > 0 /\ Chain(frames[t], entry[t])
    BY DEF IInv, Types, Nesting
  <2>2. CASE Acyclic(c)
    <3>1. PICK R \in SUBSET Credentials : Closed(R, c) /\ c \notin R
      BY <2>2 DEF Acyclic
    <3>2. frames[t][j] \in R
      BY <2>1, <3>1 DEF Chain
    <3> QED BY <3>1, <3>2
  <2>3. CASE Seen(c)
    <3>1. i = 1 /\ entry[t] = "request"
      BY <2>3, RepetitionIsUnseen DEF RecursionUnseen, Seen
    <3>2. c \in Protected
      BY <2>1, <3>1 DEF Chain
    <3> QED BY <2>3, <3>2 DEF Seen
  <2> QED BY <2>1, <2>2, <2>3 DEF CyclesSeen
<1> QED BY <1>1, Inductive, PTL

\* Where an id stands for one credential, a send is refused as a recursion only
\* if its credential is being prepared by the calls around it.
THEOREM RefusalsAreRecursions ==
    ASSUME KeysIdentify
    PROVE  Spec => []OnlyRecursionRefused
<1>1. IInv => OnlyRecursionRefused
  <2> SUFFICES ASSUME IInv, NEW t \in Tasks, pc[t] = "acquire", NEW u \in Sends[Innermost(t)],
                      NEW n \in 1 .. Len(stack[t]), stack[t][n] = u.key
               PROVE  \E i \in 1 .. Len(frames[t]) : frames[t][i] = u.credential
    BY DEF OnlyRecursionRefused, Contains
  <2>1. /\ Len(frames[t]) \in Nat /\ Len(stack[t]) \in Nat /\ entry[t] \in {"request", "invalidate"}
        /\ StackOf(frames[t], stack[t], entry[t]) /\ Innermost(t) \in Credentials /\ Len(frames[t]) > 0
    BY InnermostTyped DEF IInv, Types, Nesting
  <2>2. u \in AllSends
    BY <2>1 DEF AllSends
  <2>3. ASSUME NEW d, SentAs(u.key, d) PROVE d = u.credential
    <3> DEFINE v == [key |-> u.key, credential |-> d]
    <3>1. v \in AllSends /\ v.key = u.key /\ v.credential = d
      BY <2>3 DEF SentAs
    <3> HIDE DEF v
    <3> QED BY <2>2, <3>1 DEF KeysIdentify
  <2>4. CASE entry[t] = "request"
    <3>1. n + 1 \in 1 .. Len(frames[t]) /\ SentAs(stack[t][n], frames[t][n + 1])
      BY <2>1, <2>4 DEF StackOf
    <3>2. frames[t][n + 1] = u.credential
      BY <2>3, <3>1
    <3> QED BY <3>1, <3>2
  <2>5. CASE entry[t] = "invalidate"
    <3>1. n \in 1 .. Len(frames[t]) /\ SentAs(stack[t][n], frames[t][n])
      BY <2>1, <2>5 DEF StackOf
    <3>2. frames[t][n] = u.credential
      BY <2>3, <3>1
    <3> QED BY <3>1, <3>2
  <2> QED BY <2>1, <2>4, <2>5
<1> QED BY <1>1, Inductive, PTL

\* Where providers do not need one another in a circle, and one that needs itself is
\* seen by the guard, tasks that prepare credentials
\* never wait for one another in a circle, however their attempts interleave.
THEOREM NoTasksWaitInACircle ==
    ASSUME NeedsAcyclic
    PROVE  Spec => []NoWaitCycle
<1>1. IInv => NoWaitCycle
  <2> SUFFICES ASSUME IInv, NEW S \in SUBSET Tasks \ {{}},
                      \A t \in S : pc[t] = "waiting" /\ owner[Innermost(t)] \in S
               PROVE  FALSE
    BY DEF NoWaitCycle
  <2> DEFINE T == {c \in Credentials : \E t \in S : \E i \in 1 .. Len(frames[t]) : frames[t][i] = c}
  <2>1. \A t \in S : /\ t \in Tasks /\ Innermost(t) \in T
                     /\ Len(frames[t]) \in Nat /\ Innermost(t) = frames[t][Len(frames[t])]
    <3> SUFFICES ASSUME NEW t \in S
                 PROVE  /\ t \in Tasks /\ Innermost(t) \in T
                        /\ Len(frames[t]) \in Nat /\ Innermost(t) = frames[t][Len(frames[t])]
      OBVIOUS
    <3>1. /\ t \in Tasks /\ Len(frames[t]) \in Nat /\ Len(frames[t]) > 0
          /\ Innermost(t) = frames[t][Len(frames[t])] /\ Innermost(t) \in Credentials
      BY InnermostTyped
    <3>2. Len(frames[t]) \in 1 .. Len(frames[t])
      BY <3>1
    <3> QED BY <3>1, <3>2
  <2>2. PICK c \in T : \A d \in Needs(c) \cap T : d = c /\ Seen(c)
    BY <2>1 DEF NeedsAcyclic
  <2>3. ASSUME NEW t \in S, NEW i \in 1 .. Len(frames[t]), i < Len(frames[t]), frames[t][i] = c
        PROVE  FALSE
    <3>1. /\ t \in Tasks /\ i + 1 \in 1 .. Len(frames[t]) /\ Len(frames[t]) > 0
          /\ frames[t] \in Seq(Credentials)
      <4>1. t \in Tasks /\ Len(frames[t]) \in Nat
        BY <2>1
      <4>2. i + 1 \in 1 .. Len(frames[t]) /\ Len(frames[t]) > 0
        BY <2>3, <4>1
      <4> QED BY <4>1, <4>2 DEF IInv, Types
    <3>2. frames[t][i + 1] \in Needs(c) /\ frames[t][i + 1] \in Credentials
      BY <2>3, <3>1 DEF IInv, Nesting, Chain
    <3>3. frames[t][i + 1] = c /\ Seen(c)
      BY <2>2, <3>1, <3>2
    <3>4. i = 1 /\ entry[t] = "request"
      BY <2>3, <3>1, <3>3, RepetitionIsUnseen DEF RecursionUnseen, Seen
    <3>5. frames[t][1] \in Protected
      BY <3>1, <3>4 DEF IInv, Nesting, Chain
    <3> QED BY <2>3, <3>3, <3>4, <3>5 DEF Seen
  <2>4. PICK t \in S : \E i \in 1 .. Len(frames[t]) : frames[t][i] = c
    OBVIOUS
  <2>5. c = Innermost(t)
    BY <2>1, <2>3, <2>4
  <2>6. owner[c] \in S /\ c \in Credentials /\ owner[c] \in Tasks
    BY <2>1, <2>4, <2>5
  <2>7. PICK k \in 1 .. Len(frames[owner[c]]) : HeldAt(c, k)
    BY <2>6 DEF IInv, Ownership
  <2>8. frames[owner[c]][k] = c /\ k < Len(frames[owner[c]])
    BY <2>6, <2>7 DEF HeldAt
  <2> QED BY <2>3, <2>6, <2>8
<1> QED BY <1>1, Inductive, PTL
=============================================================================
