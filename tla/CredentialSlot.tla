--------------------------- MODULE CredentialSlot ---------------------------
(***************************************************************************)
(* The credential cache of one auth credential: CredentialSlot in          *)
(* concord_core/src/auth/credentials.rs.                                   *)
(*                                                                         *)
(* Any number of tasks call get_or_refresh on a shared slot.  The first to *)
(* find no usable credential becomes the owner of an attempt: it marks the *)
(* slot Refreshing, releases the lock and awaits the provider.  The others *)
(* wait on that attempt's Notify.  The owner then commits its result in    *)
(* two critical sections, or its RefreshGuard is dropped (cancellation,    *)
(* panic, early error) and puts back what the attempt replaced.            *)
(* Meanwhile anybody may invalidate a generation, or set or clear the      *)
(* credential by hand.                                                     *)
(*                                                                         *)
(* Every action is one critical section of the slot's mutex, or one step   *)
(* between two of them that another thread can see.                        *)
(***************************************************************************)
EXTENDS Integers, FiniteSets

CONSTANTS
    Tasks,          \* the tasks that call get_or_refresh
    MaxGeneration,  \* u64::MAX in the code: checked_add fails beyond it
    MaxOwner        \* u64::MAX in the code, for the attempt owner counter

ASSUME TasksAssumption == Tasks # {}
ASSUME BoundsAssumption == MaxGeneration \in Nat /\ MaxOwner \in Nat \ {0}

VARIABLES
    state,      \* CredentialSlotInner.state
    nextOwner,  \* CredentialSlotInner.next_owner
    pc,         \* pc[t]: where t is in get_or_refresh
    attempt,    \* attempt[t]: generation, owner and result of t's own attempt
    waitOn,     \* waitOn[t]: the attempt whose Notify t awaits
    lease,      \* lease[t]: the CredentialLease t was given last
    notifying,  \* attempts that ended, whose notify_waiters() is still to run
    minted,     \* number of credentials installed so far; names each of them
    expiring,   \* credentials whose expires_at is within refresh_skew of now
    leases,     \* history: every lease handed out
    dropped,    \* history: credentials that invalidation or clear_manual removed
    rejected    \* history: credentials whose lease was presented to invalidation

slotVars == <<state, nextOwner>>
taskVars == <<pc, attempt, waitOn, lease>>
worldVars == <<minted, expiring>>
history == <<leases, dropped, rejected>>
vars == <<slotVars, taskVars, notifying, worldVars, history>>
-----------------------------------------------------------------------------
(* CredentialSlotState and RefreshPrevious.  A credential is named by the  *)
(* order in which it was installed; an AuthError is not told apart from    *)
(* another, a retry_after is the fact that it still lies in the future.    *)

Empty(g) == [tag |-> "Empty", gen |-> g]
Valid(v, g) == [tag |-> "Valid", gen |-> g, value |-> v]
Failed(g, b) == [tag |-> "Failed", gen |-> g, backoff |-> b]
Refreshing(g, o, p) ==
    [tag |-> "Refreshing", gen |-> g, owner |-> o, previous |-> p]

Generations == 0 .. MaxGeneration
Credentials == Nat \ {0}
Owners == 1 .. MaxOwner

PreviousStates ==
    [tag : {"Empty"}]
      \cup [tag : {"Valid"}, value : Credentials, gen : Generations]
      \cup [tag : {"Failed"}]

SlotStates ==
    [tag : {"Empty"}, gen : Generations]
      \cup [tag : {"Valid"}, gen : Generations, value : Credentials]
      \cup [tag : {"Failed"}, gen : Generations, backoff : BOOLEAN]
      \cup [tag : {"Refreshing"}, gen : Generations, owner : Owners,
            previous : PreviousStates]

\* RefreshPrevious::into_state_at
IntoStateAt(p, g) ==
    CASE p.tag = "Empty"  -> Empty(g)
      [] p.tag = "Valid"  -> Valid(p.value, g)
      [] p.tag = "Failed" -> Failed(g, FALSE)

\* next_generation: checked_add(1) on the generation of any state
CanAdvance == state.gen < MaxGeneration

\* next_refresh_owner: the counter must be able to move past the owner
CanOwn == nextOwner < MaxOwner

Lease(v, g) == [value |-> v, gen |-> g]
NoLease == Lease(0, 0)

\* What a provider call, or its cancellation, can produce
Results == {"pending", "ok", "error", "backoff", "backoffOverflow"}
Attempts == [gen : Generations, owner : 0 .. MaxOwner, result : Results]
NoAttempt == [gen |-> 0, owner |-> 0, result |-> "pending"]

Pcs == {"idle", "lookup", "waiting", "provider", "commit", "store", "unwind"}

\* The pcs at which a task carries an armed RefreshGuard
Guarded == {"provider", "commit", "store", "unwind"}

Init ==
    /\ state = Empty(0)
    /\ nextOwner = 1
    /\ pc = [t \in Tasks |-> "idle"]
    /\ attempt = [t \in Tasks |-> NoAttempt]
    /\ waitOn = [t \in Tasks |-> 0]
    /\ lease = [t \in Tasks |-> NoLease]
    /\ notifying = {}
    /\ minted = 0
    /\ expiring = {}
    /\ leases = {}
    /\ dropped = {}
    /\ rejected = {}
-----------------------------------------------------------------------------
(* get_or_refresh: the critical section at the head of its loop            *)

Goto(t, l) == pc' = [pc EXCEPT ![t] = l]

Request(t) ==
    /\ pc[t] = "idle"
    /\ Goto(t, "lookup")
    /\ UNCHANGED <<slotVars, attempt, waitOn, lease, notifying, worldVars, history>>

\* The call returns Ok(CredentialLease { value, generation })
Grant(t, v, g) ==
    /\ lease' = [lease EXCEPT ![t] = Lease(v, g)]
    /\ leases' = leases \cup {Lease(v, g)}
    /\ Goto(t, "idle")

\* The call returns Err: the task has no lease to present
ReturnErr(t) ==
    /\ lease' = [lease EXCEPT ![t] = NoLease]
    /\ Goto(t, "idle")
    /\ UNCHANGED leases

\* Mutant: expires_at is not looked at
ServeUnchecked(t) ==
    /\ pc[t] = "lookup"
    /\ state.tag = "Valid"
    /\ Grant(t, state.value, state.gen)
    /\ UNCHANGED <<slotVars, attempt, waitOn, notifying, worldVars, dropped, rejected>>

\* Valid, and credential_refresh_reason is None
ServeValid(t) ==
    /\ pc[t] = "lookup"
    /\ state.tag = "Valid"
    /\ state.value \notin expiring
    /\ Grant(t, state.value, state.gen)
    /\ UNCHANGED <<slotVars, attempt, waitOn, notifying, worldVars, dropped, rejected>>

\* Mutant: the attempt runs under the generation it replaces
BeginAttemptSameGeneration(t, p) ==
    /\ state' = Refreshing(state.gen, nextOwner, p)
    /\ nextOwner' = nextOwner + 1
    /\ attempt' = [attempt EXCEPT
         ![t] = [gen |-> state.gen, owner |-> nextOwner, result |-> "pending"]]
    /\ Goto(t, "provider")
    /\ UNCHANGED <<waitOn, lease, notifying, worldVars, history>>

\* t owns a new attempt, which replaces p
BeginAttempt(t, p) ==
    /\ state' = Refreshing(state.gen + 1, nextOwner, p)
    /\ nextOwner' = nextOwner + 1
    /\ attempt' = [attempt EXCEPT
         ![t] = [gen |-> state.gen + 1, owner |-> nextOwner, result |-> "pending"]]
    /\ Goto(t, "provider")
    /\ UNCHANGED <<waitOn, lease, notifying, worldVars, history>>

\* Valid, but expired or expiring soon: provider.refresh is called
BeginRefresh(t) ==
    /\ pc[t] = "lookup"
    /\ state.tag = "Valid"
    /\ state.value \in expiring
    /\ CanAdvance /\ CanOwn
    /\ BeginAttempt(t, [tag |-> "Valid", value |-> state.value, gen |-> state.gen])

\* Failed, and retry_after is None or has passed: provider.acquire is called
BeginRetry(t) ==
    /\ pc[t] = "lookup"
    /\ state.tag = "Failed"
    /\ ~state.backoff
    /\ CanAdvance /\ CanOwn
    /\ BeginAttempt(t, [tag |-> "Failed"])

BeginAcquire(t) ==
    /\ pc[t] = "lookup"
    /\ state.tag = "Empty"
    /\ CanAdvance /\ CanOwn
    /\ BeginAttempt(t, [tag |-> "Empty"])

\* Refreshing: the Notified future is enabled under the lock
Join(t) ==
    /\ pc[t] = "lookup"
    /\ state.tag = "Refreshing"
    /\ waitOn' = [waitOn EXCEPT ![t] = state.owner]
    /\ Goto(t, "waiting")
    /\ UNCHANGED <<slotVars, attempt, lease, notifying, worldVars, history>>

\* Failed, and retry_after lies in the future: the stored error is returned
ReturnFailed(t) ==
    /\ pc[t] = "lookup"
    /\ state.tag = "Failed"
    /\ state.backoff
    /\ ReturnErr(t)
    /\ UNCHANGED <<slotVars, attempt, waitOn, notifying, worldVars, dropped, rejected>>

\* Mutant: an exhausted counter is retried instead of reported
CounterOverflowRetries(t) ==
    /\ pc[t] = "lookup"
    /\ ~(CanAdvance /\ CanOwn)
    /\ UNCHANGED vars

\* A counter is exhausted.  Empty takes the owner before it looks at the
\* generation, so an exhausted generation still costs an owner there.
CounterOverflow(t) ==
    /\ pc[t] = "lookup"
    /\ \/ state.tag = "Empty"
       \/ state.tag = "Valid" /\ state.value \in expiring
       \/ state.tag = "Failed" /\ ~state.backoff
    /\ ~(CanAdvance /\ CanOwn)
    /\ nextOwner' = IF state.tag = "Empty" /\ CanOwn THEN nextOwner + 1 ELSE nextOwner
    /\ ReturnErr(t)
    /\ UNCHANGED <<state, attempt, waitOn, notifying, worldVars, dropped, rejected>>
-----------------------------------------------------------------------------
(* The owner: provider call, commit_slot_result, RefreshGuard::drop        *)

ProviderReturns(t, r) ==
    /\ pc[t] = "provider"
    /\ attempt' = [attempt EXCEPT ![t].result = r]
    /\ Goto(t, "commit")
    /\ UNCHANGED <<slotVars, waitOn, lease, notifying, worldVars, history>>

\* The test both critical sections of commit_slot_result make
Owns(t) ==
    /\ state.tag = "Refreshing"
    /\ state.owner = attempt[t].owner
    /\ state.gen = attempt[t].gen

\* CommitOutcome::StaleOwner: the guard is disarmed and the loop goes round
LoseOwnership(t) ==
    /\ ~Owns(t)
    /\ attempt' = [attempt EXCEPT ![t] = NoAttempt]
    /\ Goto(t, "lookup")
    /\ UNCHANGED <<slotVars, waitOn, lease, notifying, worldVars, history>>

\* First critical section: it only fetches the Notify
CommitCheck(t) ==
    /\ pc[t] = "commit"
    /\ \/ LoseOwnership(t)
       \/ /\ Owns(t)
          /\ Goto(t, "store")
          /\ UNCHANGED <<slotVars, attempt, waitOn, lease, notifying, worldVars, history>>

\* Tasks that wait on attempt o are woken and go round the loop
Wake(p, o) ==
    [t \in Tasks |-> IF p[t] = "waiting" /\ waitOn[t] = o THEN "lookup" ELSE p[t]]

\* Second critical section; notify_waiters() runs before it ends
StoreOk(t) ==
    /\ attempt[t].result = "ok"
    /\ minted' = minted + 1
    /\ state' = Valid(minted + 1, attempt[t].gen)
    /\ lease' = [lease EXCEPT ![t] = Lease(minted + 1, attempt[t].gen)]
    /\ leases' = leases \cup {Lease(minted + 1, attempt[t].gen)}
    /\ pc' = Wake([pc EXCEPT ![t] = "idle"], attempt[t].owner)

StoreError(t) ==
    /\ attempt[t].result \in {"error", "backoff"}
    /\ state' = Failed(attempt[t].gen, attempt[t].result = "backoff")
    /\ lease' = [lease EXCEPT ![t] = NoLease]
    /\ pc' = Wake([pc EXCEPT ![t] = "idle"], attempt[t].owner)
    /\ UNCHANGED <<minted, leases>>

CommitStore(t) ==
    /\ pc[t] = "store"
    /\ \/ LoseOwnership(t)
       \/ /\ Owns(t)
          /\ StoreOk(t) \/ StoreError(t)
          /\ attempt' = [attempt EXCEPT ![t] = NoAttempt]
          /\ UNCHANGED <<nextOwner, waitOn, notifying, expiring, dropped, rejected>>
       \/ \* now + retry_after overflows: `?` returns before the guard is disarmed
          /\ Owns(t)
          /\ attempt[t].result = "backoffOverflow"
          /\ Goto(t, "unwind")
          /\ UNCHANGED <<slotVars, attempt, waitOn, lease, notifying, worldVars, history>>

\* Mutant: no guard, a cancelled owner just goes away
DropNothing(t) ==
    /\ pc[t] \in {"provider", "unwind"}
    /\ attempt' = [attempt EXCEPT ![t] = NoAttempt]
    /\ ReturnErr(t)
    /\ UNCHANGED <<slotVars, notifying, waitOn, worldVars, dropped, rejected>>

\* RefreshGuard::drop, when the owner's future is dropped at the provider
\* await or commit_slot_result returned early
DropGuard(t) ==
    /\ pc[t] \in {"provider", "unwind"}
    /\ IF state.tag = "Refreshing" /\ state.owner = attempt[t].owner
       THEN /\ state' = IntoStateAt(state.previous, state.gen)
            /\ notifying' = notifying \cup {state.owner}
       ELSE UNCHANGED <<state, notifying>>
    /\ attempt' = [attempt EXCEPT ![t] = NoAttempt]
    /\ ReturnErr(t)
    /\ UNCHANGED <<nextOwner, waitOn, worldVars, dropped, rejected>>

\* A waiting task's future is dropped
CancelWait(t) ==
    /\ pc[t] = "waiting"
    /\ ReturnErr(t)
    /\ UNCHANGED <<slotVars, attempt, waitOn, notifying, worldVars, dropped, rejected>>

\* notify_waiters() of drop, set_manual and clear_manual: after the unlock
NotifyWaiters(o) ==
    /\ o \in notifying
    /\ notifying' = notifying \ {o}
    /\ pc' = Wake(pc, o)
    /\ UNCHANGED <<slotVars, attempt, waitOn, lease, worldVars, history>>
-----------------------------------------------------------------------------
(* Invalidation and manual changes                                         *)

\* The one error of invalidate_generation_state: nothing is changed
InvalidateOverflows(matching) ==
    state.tag = "Valid" /\ state.gen \in matching /\ ~CanAdvance

\* Mutant: the credential kept for a rollback is reported but not removed
InvalidateKeepsPrevious(matching) ==
    CASE InvalidateOverflows(matching) -> UNCHANGED <<state, dropped>>
      [] state.tag = "Valid" /\ state.gen \in matching /\ CanAdvance ->
           /\ state' = Empty(state.gen + 1)
           /\ dropped' = dropped \cup {state.value}
      [] state.tag = "Refreshing" /\ state.previous.tag = "Valid"
                                  /\ state.previous.gen \in matching ->
           /\ dropped' = dropped \cup {state.previous.value}
           /\ UNCHANGED state
      [] OTHER -> UNCHANGED <<state, dropped>>

\* invalidate_generation_state; `matching` holds the generations that the
\* argument accepts: the one given, or every one when it is None
InvalidateGenerationState(matching) ==
    CASE InvalidateOverflows(matching) -> UNCHANGED <<state, dropped>>
      [] state.tag = "Valid" /\ state.gen \in matching /\ CanAdvance ->
           /\ state' = Empty(state.gen + 1)
           /\ dropped' = dropped \cup {state.value}
      [] state.tag = "Refreshing" /\ state.previous.tag = "Valid"
                                  /\ state.previous.gen \in matching ->
           /\ state' = [state EXCEPT !.previous = [tag |-> "Empty"]]
           /\ dropped' = dropped \cup {state.previous.value}
      [] OTHER -> UNCHANGED <<state, dropped>>

\* invalidate_generation(Some(g)) / invalidate_generation_local(Some(g)) by
\* a task whose lease the server rejected
Reject(t) ==
    /\ pc[t] = "idle"
    /\ lease[t] # NoLease
    /\ InvalidateGenerationState({lease[t].gen})
    /\ rejected' = IF InvalidateOverflows({lease[t].gen})
                   THEN rejected ELSE rejected \cup {lease[t].value}
    /\ lease' = [lease EXCEPT ![t] = NoLease]
    /\ UNCHANGED <<nextOwner, pc, attempt, waitOn, notifying, worldVars, leases>>

\* invalidate_generation(None)
InvalidateAny ==
    /\ InvalidateGenerationState(Generations)
    /\ UNCHANGED <<nextOwner, taskVars, notifying, worldVars, leases, rejected>>

\* Mutant: a manual change forgets the waiters of the attempt it ends
EndAttemptSilently == UNCHANGED notifying

\* set_manual and clear_manual end the attempt in flight, if there is one
EndAttempt ==
    notifying' = IF state.tag = "Refreshing" THEN notifying \cup {state.owner}
                                             ELSE notifying

\* Mutant: a manual credential reuses the current generation
SetManualSameGeneration ==
    /\ minted' = minted + 1
    /\ state' = Valid(minted + 1, state.gen)
    /\ EndAttempt
    /\ UNCHANGED <<nextOwner, taskVars, expiring, history>>

SetManual ==
    /\ CanAdvance
    /\ minted' = minted + 1
    /\ state' = Valid(minted + 1, state.gen + 1)
    /\ EndAttempt
    /\ UNCHANGED <<nextOwner, taskVars, expiring, history>>

\* The credentials the slot holds, served or kept for a rollback
Held ==
    CASE state.tag = "Valid" -> {state.value}
      [] state.tag = "Refreshing" /\ state.previous.tag = "Valid" -> {state.previous.value}
      [] OTHER -> {}

ClearManual ==
    /\ CanAdvance
    /\ state' = Empty(state.gen + 1)
    /\ EndAttempt
    /\ dropped' = dropped \cup Held
    /\ UNCHANGED <<nextOwner, taskVars, worldVars, leases, rejected>>
-----------------------------------------------------------------------------
(* Time                                                                    *)

\* now + refresh_skew passes expires_at of the cached credential
Expire ==
    /\ state.tag = "Valid"
    /\ state.value \notin expiring
    /\ expiring' = expiring \cup {state.value}
    /\ UNCHANGED <<slotVars, taskVars, notifying, minted, history>>

\* now passes the retry_after of the stored failure
BackoffElapses ==
    /\ state.tag = "Failed"
    /\ state.backoff
    /\ state' = Failed(state.gen, FALSE)
    /\ UNCHANGED <<nextOwner, taskVars, notifying, worldVars, history>>
-----------------------------------------------------------------------------
\* One iteration of get_or_refresh's loop
GetOrRefresh(t) ==
    \/ ServeValid(t)
    \/ BeginRefresh(t)
    \/ BeginRetry(t)
    \/ BeginAcquire(t)
    \/ Join(t)
    \/ ReturnFailed(t)
    \/ CounterOverflow(t)

Commit(t) == CommitCheck(t) \/ CommitStore(t)

ProviderResolves(t) == \E r \in Results \ {"pending"} : ProviderReturns(t, r)

Next ==
    \/ \E t \in Tasks :
         \/ Request(t)
         \/ GetOrRefresh(t)
         \/ ProviderResolves(t)
         \/ Commit(t)
         \/ DropGuard(t)
         \/ CancelWait(t)
         \/ Reject(t)
    \/ \E o \in Owners : NotifyWaiters(o)
    \/ InvalidateAny
    \/ SetManual
    \/ ClearManual
    \/ Expire
    \/ BackoffElapses

Spec == Init /\ [][Next]_vars

\* A task that was polled runs on to its next await, and a provider call
\* ends: its HTTP executor is bounded by the transport's timeouts.
Fairness ==
    /\ \A t \in Tasks :
         /\ WF_vars(GetOrRefresh(t))
         /\ WF_vars(ProviderResolves(t))
         /\ WF_vars(Commit(t))
         /\ WF_vars(pc[t] = "unwind" /\ DropGuard(t))
    /\ \A o \in Owners : WF_vars(NotifyWaiters(o))

FairSpec == Spec /\ Fairness
-----------------------------------------------------------------------------
(* Properties                                                              *)

\* Every variable keeps its type: in particular the generation and the owner
\* stay within the counters' width, because each increment is checked.
TypeOK ==
    /\ state \in SlotStates
    /\ nextOwner \in Owners
    /\ pc \in [Tasks -> Pcs]
    /\ attempt \in [Tasks -> Attempts]
    /\ waitOn \in [Tasks -> 0 .. MaxOwner]
    /\ lease \in [Tasks -> [value : Nat, gen : Generations]]
    /\ notifying \subseteq Owners
    /\ minted \in Nat
    /\ expiring \subseteq Nat
    /\ leases \subseteq [value : Credentials, gen : Generations]
    /\ dropped \subseteq Nat
    /\ rejected \subseteq Nat

\* A generation names one credential: two leases of the same generation hold
\* the same credential, and the slot never offers another one under it.  This
\* is what lets invalidate_generation compare generations only.
LeaseIdentity ==
    /\ \A k, l \in leases : k.gen = l.gen => k.value = l.value
    /\ \A l \in leases : state.tag = "Valid" /\ state.gen = l.gen => state.value = l.value

\* The slot's generation never decreases, whoever wrote last, and a credential
\* that is being served is never replaced or removed without a newer one: a
\* stale commit, rollback or invalidation cannot take the slot back.
GenerationMonotone ==
    [][ /\ state'.gen >= state.gen
        /\ state.tag = "Valid" /\ state' # state => state'.gen > state.gen
      ]_vars

\* A slot that is Refreshing always has exactly one task behind it that will
\* commit or whose guard will roll back: an orphaned Refreshing state would
\* block every later caller.  Owners that lost the slot are never it.
RefreshHasOneOwner ==
    state.tag = "Refreshing" =>
      \E t \in Tasks :
        /\ pc[t] \in Guarded /\ Owns(t)
        /\ \A u \in Tasks \ {t} :
             pc[u] \in Guarded => attempt[u].owner # state.owner

\* No lost wake-up: a waiting task waits on the attempt that is in flight, or
\* the end of its attempt is about to be notified.  The Notified future is
\* enabled under the lock, and every way out of Refreshing notifies.
NoLostWakeup ==
    \A t \in Tasks :
      pc[t] = "waiting" =>
        \/ state.tag = "Refreshing" /\ state.owner = waitOn[t]
        \/ waitOn[t] \in notifying

\* A credential that invalidation or clear_manual removed never comes back,
\* not even through the rollback of a refresh that was under way.
NoResurrection == Held \cap dropped = {}

\* Once a lease was presented to invalidation, its credential is never handed
\* out again.  After a rolled-back refresh the slot holds the credential under
\* a newer generation and ignores the invalidation; what keeps it from being
\* served is that it was already expiring when the refresh began.
RejectedNeverServed ==
    [][\A l \in leases' \ leases : l.value \notin rejected]_vars

\* What the slot does, seen through its leases, is what LeaseRegister promises.
Register == INSTANCE LeaseRegister WITH
    gen <- state.gen,
    cell <- IF state.tag = "Valid" THEN state.value ELSE 0

\* The slot implements LeaseRegister: a generation reserved by an attempt is
\* filled at most once, by its commit or its rollback, and superseded after.
ImplementsLeaseRegister == Register!Spec

\* Every call of get_or_refresh returns, with a lease or an error.
CallReturns == \A t \in Tasks : pc[t] # "idle" ~> pc[t] = "idle"
=============================================================================
