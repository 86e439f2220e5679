---------------------------- MODULE AuthRecursion ----------------------------
(***************************************************************************)
(* Providers that authenticate their own requests: the auth-internal HTTP  *)
(* executor of concord_core/src/client/auth_http.rs over the credential    *)
(* slots.                                                                  *)
(*                                                                         *)
(* To acquire or refresh credential c, a provider may send auth-internal   *)
(* requests that carry a credential (AuthMode::UseAuth).  Such a request   *)
(* prepares that credential, whose provider may send in turn, all within   *)
(* one task: a task's calls nest.  While a provider runs, the slot of its  *)
(* credential is Refreshing, and everybody who needs it waits.             *)
(*                                                                         *)
(* UseAuth names the credential and, apart from it, an AuthRequirementId   *)
(* that the provider makes up.  AUTH_INTERNAL_STACK, a task-local list,    *)
(* holds the keys of the ids in use, and a send whose key is on it is      *)
(* refused as a recursion.                                                 *)
(*                                                                         *)
(* A slot is seen as Empty (Failed without backoff is no different here),  *)
(* Valid, or Refreshing with the task that owns the attempt; that the end  *)
(* of an attempt wakes its waiters is CredentialSlot's NoLostWakeup.       *)
(***************************************************************************)
EXTENDS Integers, Sequences, FiniteSets

CONSTANTS
    Tasks,
    NoTask,          \* the owner of a slot that no attempt is under way on
    Credentials,
    Keys,            \* what AuthRequirementId::safe_fragment makes of the ids
    Sends,           \* Sends[c]: what acquire and refresh of c's provider send with
    InvalidateSends, \* what provider.invalidate, of any provider, sends with
    Protected,       \* the credentials that protected requests prepare
    MaxCalls,        \* bound on the number of calls that a task starts
    MaxSends         \* bound on the number of sends within one call

\* AuthMode::UseAuth { id, requirement }: what is pushed, and what is prepared
UseAuth == [key : Keys, credential : Credentials]

ASSUME SendsAssumption ==
    /\ Sends \in [Credentials -> SUBSET UseAuth]
    /\ InvalidateSends \in SUBSET UseAuth
    /\ Protected \in SUBSET Credentials
ASSUME NoTaskAssumption == NoTask \notin Tasks
ASSUME BoundsAssumption == MaxCalls \in Nat /\ MaxSends \in Nat

VARIABLES
    slot,   \* slot[c]: Empty, Valid or Refreshing
    owner,  \* owner[c]: the task behind the attempt of a Refreshing slot
    pc,     \* pc[t]: where the innermost call of t is
    frames, \* frames[t]: the credentials being prepared by t, innermost last
    stack,  \* stack[t]: AUTH_INTERNAL_STACK in the task of t
    entry,  \* entry[t]: what the outermost call of t is
    calls,  \* calls[t]: calls started so far
    sent    \* sent[t]: sends so far within the call under way

vars == <<slot, owner, pc, frames, stack, entry, calls, sent>>
-----------------------------------------------------------------------------
Init ==
    /\ slot = [c \in Credentials |-> "Empty"]
    /\ owner = [c \in Credentials |-> NoTask]
    /\ pc = [t \in Tasks |-> "idle"]
    /\ frames = [t \in Tasks |-> <<>>]
    /\ stack = [t \in Tasks |-> <<>>]
    /\ entry = [t \in Tasks |-> "request"]
    /\ calls = [t \in Tasks |-> 0]
    /\ sent = [t \in Tasks |-> 0]

InnermostOf(s) == s[Len(s)]
Innermost(t) == InnermostOf(frames[t])
Pop(s) == SubSeq(s, 1, Len(s) - 1)
Contains(s, x) == \E i \in 1 .. Len(s) : s[i] = x
-----------------------------------------------------------------------------
\* An outermost call prepares c with the keys s on the stack
Start(t, e, c, s) ==
    /\ pc[t] = "idle"
    /\ calls[t] < MaxCalls
    /\ frames' = [frames EXCEPT ![t] = <<c>>]
    /\ stack' = [stack EXCEPT ![t] = s]
    /\ entry' = [entry EXCEPT ![t] = e]
    /\ pc' = [pc EXCEPT ![t] = "lookup"]
    /\ calls' = [calls EXCEPT ![t] = @ + 1]
    /\ sent' = [sent EXCEPT ![t] = 0]
    /\ UNCHANGED <<slot, owner>>

\* A protected request prepares c: no auth-internal request is under way
StartRequest(t, c) ==
    /\ c \in Protected
    /\ Start(t, "request", c, <<>>)

\* provider.invalidate, called outside the slot, sends in a scope of its own,
\* whose stack is empty: AuthInternalStackGuard::push, then prepare
StartInvalidate(t, u) ==
    /\ u \in InvalidateSends
    /\ Start(t, "invalidate", u.credential, <<u.key>>)

\* The pcs after the attempt on credential c is over
Woken(c) ==
    [t \in Tasks |-> IF pc[t] = "waiting" /\ Innermost(t) = c THEN "lookup" ELSE pc[t]]

\* get_or_refresh on the innermost credential
Join(t) ==
    /\ pc[t] = "lookup"
    /\ slot[Innermost(t)] = "Refreshing"
    /\ pc' = [pc EXCEPT ![t] = "waiting"]
    /\ UNCHANGED <<slot, owner, frames, stack, entry, calls, sent>>

BeginAttempt(t) ==
    /\ pc[t] = "lookup"
    /\ slot[Innermost(t)] = "Empty"
    /\ slot' = [slot EXCEPT ![Innermost(t)] = "Refreshing"]
    /\ owner' = [owner EXCEPT ![Innermost(t)] = t]
    /\ pc' = [pc EXCEPT ![t] = "acquire"]
    /\ UNCHANGED <<frames, stack, entry, calls, sent>>

\* Mutant: the key of a send that is over stays on the stack
ReturnUnpopped(t, p, l) ==
    /\ pc' = [p EXCEPT ![t] = IF Len(frames[t]) = 1 THEN "idle" ELSE l]
    /\ frames' = [frames EXCEPT ![t] = Pop(@)]
    /\ UNCHANGED <<stack, entry, calls, sent>>

\* The innermost preparation is over.  Around it there is an auth-internal
\* send, whose stack guard is dropped, or nothing.
Return(t, p, l) ==
    /\ pc' = [p EXCEPT ![t] = IF Len(frames[t]) = 1 THEN "idle" ELSE l]
    /\ frames' = [frames EXCEPT ![t] = Pop(@)]
    /\ stack' = [stack EXCEPT ![t] = IF @ = <<>> THEN @ ELSE Pop(@)]
    /\ UNCHANGED <<entry, calls, sent>>

\* A credential is there: the send around goes on with it
ReturnLease(t) ==
    /\ pc[t] = "lookup"
    /\ slot[Innermost(t)] = "Valid"
    /\ Return(t, pc, "http")
    /\ UNCHANGED <<slot, owner>>

\* The innermost provider sends another request
Sending(t) ==
    /\ pc[t] = "acquire"
    /\ sent[t] < MaxSends
    /\ sent' = [sent EXCEPT ![t] = @ + 1]
    /\ UNCHANGED <<slot, owner, entry, calls>>

\* Mutant: the stack is not consulted
SendUseAuthUnguarded(t, u) ==
    /\ Sending(t)
    /\ u \in Sends[Innermost(t)]
    /\ stack' = [stack EXCEPT ![t] = Append(@, u.key)]
    /\ frames' = [frames EXCEPT ![t] = Append(@, u.credential)]
    /\ pc' = [pc EXCEPT ![t] = "lookup"]

\* AuthMode::UseAuth, with a key that is not in use: AuthInternalStackGuard::push
\* of the key, then prepare of the credential
SendUseAuth(t, u) ==
    /\ Sending(t)
    /\ u \in Sends[Innermost(t)]
    /\ ~Contains(stack[t], u.key)
    /\ stack' = [stack EXCEPT ![t] = Append(@, u.key)]
    /\ frames' = [frames EXCEPT ![t] = Append(@, u.credential)]
    /\ pc' = [pc EXCEPT ![t] = "lookup"]

\* AuthErrorKind::RecursionDetected, which the provider gets as the send's result
DetectRecursion(t, u) ==
    /\ Sending(t)
    /\ u \in Sends[Innermost(t)]
    /\ Contains(stack[t], u.key)
    /\ UNCHANGED <<pc, frames, stack>>

\* AuthMode::SkipAuth
SendSkipAuth(t) ==
    /\ Sending(t)
    /\ pc' = [pc EXCEPT ![t] = "http"]
    /\ UNCHANGED <<frames, stack>>

\* The request is over, with a response or an error for the provider
HttpDone(t) ==
    /\ pc[t] = "http"
    /\ pc' = [pc EXCEPT ![t] = "acquire"]
    /\ UNCHANGED <<slot, owner, frames, stack, entry, calls, sent>>

\* The attempt of t on its innermost credential ends in state s
EndAttempt(t, s, l) ==
    LET c == Innermost(t) IN
    /\ slot' = [slot EXCEPT ![c] = s]
    /\ owner' = [owner EXCEPT ![c] = NoTask]
    /\ Return(t, Woken(c), l)

\* The provider has a credential, and the send around goes on with it
AcquireOk(t) == pc[t] = "acquire" /\ EndAttempt(t, "Valid", "http")

\* The provider fails.  The send around fails too, and its provider goes on as
\* it likes.
AcquireErr(t) == pc[t] = "acquire" /\ EndAttempt(t, "Empty", "acquire")

\* The future of the outermost call is dropped at an await, and with it the
\* calls inside, innermost first
Cancel(t) ==
    /\ pc[t] \in {"waiting", "acquire", "http"}
    /\ IF pc[t] = "waiting"
       THEN Return(t, pc, "dropped") /\ UNCHANGED <<slot, owner>>
       ELSE EndAttempt(t, "Empty", "dropped")

\* Mutant: a dropped attempt leaves its slot Refreshing
UnwindUnguarded(t) ==
    /\ pc[t] = "dropped"
    /\ Return(t, pc, "dropped")
    /\ UNCHANGED <<slot, owner>>

\* RefreshGuard::drop of an attempt around a call that was dropped
Unwind(t) == pc[t] = "dropped" /\ EndAttempt(t, "Empty", "dropped")

\* A request elsewhere has the credential rejected
Invalidate(c) ==
    /\ slot[c] = "Valid"
    /\ slot' = [slot EXCEPT ![c] = "Empty"]
    /\ UNCHANGED <<owner, pc, frames, stack, entry, calls, sent>>
-----------------------------------------------------------------------------
Step(t) ==
    \/ Join(t)
    \/ BeginAttempt(t)
    \/ ReturnLease(t)
    \/ \E u \in UseAuth : SendUseAuth(t, u) \/ DetectRecursion(t, u)
    \/ SendSkipAuth(t)
    \/ HttpDone(t)
    \/ AcquireOk(t)
    \/ AcquireErr(t)
    \/ Unwind(t)

Next ==
    \/ \E t \in Tasks :
         \/ \E c \in Credentials : StartRequest(t, c)
         \/ \E u \in UseAuth : StartInvalidate(t, u)
         \/ Step(t)
         \/ Cancel(t)
    \/ \E c \in Credentials : Invalidate(c)

Spec == Init /\ [][Next]_vars

\* A task runs to its next await, and a request of a provider ends: the
\* provider client has timeouts.
FairSpec == Spec /\ \A t \in Tasks : WF_vars(Step(t))
-----------------------------------------------------------------------------
(* What the providers of a client may be like                              *)

\* The credentials that c's provider sends with
Needs(c) == {u.credential : u \in Sends[c]}

\* R holds all that is sent with on the way from c's provider
Closed(R, c) == Needs(c) \subseteq R /\ \A d \in R : Needs(d) \subseteq R

\* No chain of providers leads from c back to c.
Acyclic(c) == \E R \in SUBSET Credentials : Closed(R, c) /\ c \notin R

AllSends == InvalidateSends \cup UNION {Sends[c] : c \in Credentials}

\* Whoever sends with c does so under one id.
OneKey(c) == \A u, v \in AllSends : u.credential = c /\ v.credential = c => u.key = v.key

\* The guard sees every repetition of c: no protected request prepares c, which
\* would leave it off the stack, and c has one key.
Seen(c) == c \notin Protected /\ OneKey(c)

\* A credential that its own provider comes back to is one whose repetition
\* the guard sees.
CyclesSeen == \A c \in Credentials : Acyclic(c) \/ Seen(c)

\* Providers do not need one another in a circle, but for a provider that sends
\* with its own credential where the guard sees it.
NeedsAcyclic ==
    \A T \in SUBSET Credentials \ {{}} :
      \E c \in T : \A d \in Needs(c) \cap T : d = c /\ Seen(c)

\* An id is not used for two credentials.
KeysIdentify == \A u, v \in AllSends : u.key = v.key => u.credential = v.credential
-----------------------------------------------------------------------------
(* Properties                                                              *)

\* An auth refresh never triggers the same auth flow again within its own
\* task: the credentials being prepared by nested calls are all different.
NoRecursiveFlow ==
    \A t \in Tasks : \A i, j \in 1 .. Len(frames[t]) :
      i # j => frames[t][i] # frames[t][j]

\* A send is refused as a recursion only when its task is really preparing
\* the credential it names: keys go from the stack with the send that pushed
\* them, also when it failed.
OnlyRecursionRefused ==
    \A t \in Tasks : pc[t] = "acquire" =>
      \A u \in Sends[Innermost(t)] :
        Contains(stack[t], u.key) => Contains(frames[t], u.credential)

\* No task waits, through the attempts of others, on itself: in every set of
\* tasks one is not waiting for an attempt of the set.
NoWaitCycle ==
    \A S \in SUBSET Tasks \ {{}} :
      \E t \in S : ~(pc[t] = "waiting" /\ owner[Innermost(t)] \in S)

\* Every call ends, also when its provider's provider fails or is cancelled.
CallReturns == \A t \in Tasks : pc[t] # "idle" ~> pc[t] = "idle"
=============================================================================
