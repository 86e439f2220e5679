# TLA+ verification of concord

Concord is a Rust toolkit for typed HTTP API clients. The macro `api!`
(`concord_macros`) compiles an API description into a client; `concord_core` is the
runtime of that client: credentials, rate limits, recovery from auth challenges,
pagination, bodies. This project models both: the runtime as concurrent state
machines, and the compiler as the state machine of its passes, followed by a call of
the client it generated. Paths below are relative to `concord_core/src/` unless they
start with a crate or `docs/`.

## 1. Inventory

| Component | State | Operations | Hard behaviour |
| --- | --- | --- | --- |
| Credential slot (`auth/credentials.rs`) | `CredentialSlotState` (Empty, Valid, Failed, Refreshing) with a generation, an attempt owner counter, a `Notify` per attempt | `get_or_refresh`, `invalidate_generation`, `set_manual`, `clear_manual`, `has_value`, `get_cached` | many tasks, a lock released across the provider await, commit in two critical sections, cancellation at any await, wake-ups after the unlock, counter overflow |
| Protected request driver (`client/execute.rs`, `client/send_flow.rs`, `client/build.rs`, `auth/plan.rs`, `auth/orchestrator.rs`) | per request: recovery budget, body recipe, applied credential generations, rejection plan; shared: the slots | `drive_executions` with preparation, body production, permit, hooks, send, classification, `apply_auth_rejection_plan` | several requests share slots; late challenges; partial application of a plan; bodies that can be produced only once |
| Auth-internal HTTP executor (`client/auth_http.rs`) | the task-local `AUTH_INTERNAL_STACK`; the slots it prepares | `send` with `UseAuth` or `SkipAuth` | providers that need other credentials, recursion, waits across tasks |
| Rate limiter (`rate_limit/*.rs`) | cooldown table, window table (governor, last use), next prune time | `acquire`, `on_response` with its response policies, pruning, eviction; the limiter of a build without governor | callers that sleep while others extend cooldowns; keys that have to match; caps; time |
| Pagination (`request.rs`, `pagination.rs`, `pagination/*.rs`) | controller position, seen progress keys, seen request identities, page and item counts | `collect` with offset/limit, page number and cursor controllers and four termination policies | a server that never stops or loops; limits; integer overflow |
| Bodies and streams (`body.rs`, `io.rs`, `stream_body.rs`, `stream_response.rs`, `transport.rs`) | byte counts, one-shot flags, the error slot | produce, poll, read with a limit, write to a file | limits and early end of streams, attribution of errors |
| Client handles (`client/api.rs`, `runtime_state.rs`, `runtime/config.rs`, `__private/mod.rs`, `concord_macros` `codegen/client.rs`, `codegen/endpoints/wrapper.rs`) | shared secrets and auth state, runtime state copied on write, own fields of a handle | construct, clone, drop, configure, secret setters, manual credentials, logins, requests | what clones share; a rebuild of the auth state in three critical sections |
| Transport and retry mode (`transport.rs`, `retry_mode.rs`) | the retry policy and TLS capability of the managed client | construct, preflight, execute | hidden resends multiplied by visible ones |
| Development executor (`development_executor.rs`) | scripts, captures, observer, gates with one waker each | script, execute, poll, release, wait | concurrent executions, frames cut anywhere, drops, wakers handed between tasks |
| Macro compiler (`concord_macros/src/parse`, `sema`, `codegen`, `model`) | the raw tree, layers, ancestry, resolved endpoints | parse, normalize, resolve, walk, validate, generate | many rules over nested scopes that only meet in the request on the wire |
| Codecs, redaction, errors, hooks, built-in providers | none | pure functions, single steps | none |

How they interact: `api!` generates a client over an `ApiClient` handle. An endpoint
method builds a request plan, and the request runs `drive_executions`. It asks the
orchestrator for every credential its plan requires; the orchestrator calls
`get_or_refresh` on the slot, and the slot's provider may send requests of its own
through the auth-internal executor, which prepares further credentials. Then it
produces the body, asks the rate limiter for a permit and sends through the managed
reqwest client (or the development executor). The response goes to the rate limiter
(cooldowns) and to the auth classification, which may build a rejection plan,
invalidate generations in the slots and allow one resend. `collect` calls the driver
once per page. All slots, and the limiter, are shared by all requests of a client and
of its clones.

What makes each part correct:

* slot: a generation names one credential; nothing stale ever overwrites something
  newer; a removed or rejected credential is not served again; no caller waits for
  ever, whoever is cancelled when;
* driver: at most one recovery, with a fresh body and fresh credentials; only
  challenged generations are removed, and those stay gone;
* auth-internal executor: no credential flow inside itself, no cycle of waits;
* limiter: quotas hold in every interval, a cooldown holds back everybody it was
  stored for, tables stay within their caps;
* pagination: bounded requests and items, no page twice, an exact result from a
  server that behaves, and an end;
* bodies: no byte past a limit or a declared length, a part never taken for the
  whole, a refusal always told from a failure;
* handles: clones do not see each other's configuration, no login or secret is lost
  to a concurrent rebuild, physical sends keep to the retry mode;
* development executor: an outcome goes to the request it was scripted for, one
  terminal observation, the scripted bytes, no body stranded at a gate;
* compiler: the request on the wire is what the source text asks for and what the
  generated documentation describes.

The hazards behind these are listed in `PROJECT.json`, each at its line.

## 2. Modules

| Module | Models | Checked by |
| --- | --- | --- |
| `LeaseRegister` | abstract: what a slot promises its lessees | refinement target |
| `CredentialSlot` | `auth/credentials.rs` | run `slot`; `RequestProofs` |
| `DriveExecutions` | the driver over shared slots | runs `drive`, `two_refreshable`; `ExecutorProofs` |
| `AuthRecursion` | nested preparation and the task-local stack | runs `recursion`, `self_recursion`; `AuthRecursionProofs` |
| `RateLimitKeys` | keys, windows and response policies, as operators | through `RateLimiter` |
| `RateLimiter` | the limiter with and without governor | run `rate`; `RateLimiterProofs` |
| `Pagination` | `collect` | run `pagination`; `ClientProofs` |
| `BodyExchange` | the bytes of one request and its response | run `bodies`; `RequestProofs` |
| `ApiSyntax` | what a text consists of; the parser: what each block of clauses becomes, or that it is refused | through `CompileApi` |
| `ApiSema` | the semantic rules and what declarations resolve to | through `CompileApi` |
| `GeneratedClient` | names, handles and request construction of the generated client, its documentation | through `CompileApi` |
| `CompileApi` | the passes of the compiler in order, and a caller of the result | runs `compile`, `timeout_clear`; `CompileApiProofs`, `GeneratedClientProofs` |
| `ClientHandles` | handles, auth state, retry mode | run `handles`; `ClientProofs` |
| `DevelopmentExecutor` | the scripted executor | run `devexec`; `ExecutorProofs` |
| `LeftFolds` | what a left fold computes, for a step operator that is a constant | instantiated by the proofs about `CompileApi` |
| `MC*` | small instances | |

`ApiSyntax`, `ApiSema` and `GeneratedClient` extend one another in this order and
`CompileApi` composes them; `RateLimiter` extends `RateLimitKeys`; `CredentialSlot`
instantiates `LeaseRegister`. Definitions that a comment calls a mutant are not used by the
specifications. Each is a plausible slip in the definition that follows it, kept to
show that some property notices it (`mutants` in `PROJECT.json`).

### CredentialSlot

`state` and `nextOwner` are `CredentialSlotInner`. A credential is the number of
its installation, so that two credentials are never confused; errors are not told
apart; a `retry_after` is the fact that it lies in the future. `pc[t]` is where
task `t` is in `get_or_refresh`:

| Action | Code |
| --- | --- |
| `ServeValid`, `BeginRefresh`, `BeginRetry`, `BeginAcquire`, `Join`, `ReturnFailed`, `CounterOverflow` | the match under the lock in `get_or_refresh`, one arm each |
| `ProviderReturns` | the await of `acquire` or `refresh` |
| `CommitCheck`, `CommitStore` | the two critical sections of `commit_slot_result` |
| `DropGuard` | `RefreshGuard::drop`, on cancellation and on every early error |
| `NotifyWaiters` | `notify_waiters()` after the unlock, where it is not under the lock |
| `CancelWait` | a waiter's future is dropped |
| `Reject`, `InvalidateAny` | `invalidate_generation` with and without a generation |
| `SetManual`, `ClearManual` | the same names |
| `Expire`, `BackoffElapses` | time, as `credential_refresh_reason` and the retry test see it |

`leases`, `dropped` and `rejected` are history. Overflow is modelled with
counters of small width; `MaxGeneration` and `MaxOwner` stand for `u64::MAX`.

`LeaseRegister` has no tasks, attempts or wake-ups: a register stamped with a
generation, which is superseded by a newer generation, filled at most once, and
copied into leases. The refinement mapping takes the slot's generation, and its
credential while it is Valid.

### DriveExecutions

One `pc` per request follows `drive_executions` through one execution
(`Preflight`, `PrepareBinding` once per requirement, `ProduceBody`,
`AcquirePermit`, `SendBuiltRequest`, `Respond`, `Observe`, `ClassifyChallenge`,
`ClassifyStatus`, `ReadBody`), and through the rejection plan (`ApplyAction` per
action, `ProviderInvalidated` after its await, then `Resend` or
`ConcludePlan`). Every step that can fail has its failing twin, and `Cancel` drops
the future wherever it is suspended. The slot of a credential is its generation
and whether it holds a credential: the actions `Supersede` and `Fill` are what
other users of the slot may do to it, in the way `LeaseRegister` allows.
Requirements keep their order and their challenge policy; the plan is the set of
indices that `append_validated` keeps.

### AuthRecursion

A task has a chain of credentials under preparation (`frames`) and the task-local
`stack`. A `UseAuth` send names a credential, which is prepared, and a requirement id
that the provider makes up, whose key (`AuthRequirementId::safe_fragment`) is what the
stack holds and what the guard compares: the two are independent in the code and in the
model. `Sends` gives for each credential what its provider sends with, `InvalidateSends`
what `provider.invalidate` does. `StartRequest` enters from a protected request, which
pushes nothing; `StartInvalidate` is the first send of an invalidation, which pushes its
key on an empty stack. `SendUseAuth`, `DetectRecursion` and `SendSkipAuth` are the send's
alternatives. A provider may send several times, up to `MaxSends` in a call, and goes on
after an error of a send, the refusal included, or fails in turn. `Return` drops the
stack guard; `AcquireOk`, `AcquireErr`, `Cancel` and `Unwind` end the attempt and wake
its waiters. Slots are reduced to Empty, Valid and Refreshing: what `CredentialSlot`
checks about their internals is not repeated.

What a client's providers may be like are definitions of the module, and hypotheses of
theorems: `Seen(c)` (no protected request prepares `c`, and whoever sends with it uses
one id), `CyclesSeen` (a credential that its own provider leads back to is seen),
`NeedsAcyclic` (providers do not need one another in a circle, but for one that sends
with its own credential where that is seen) and `KeysIdentify` (an id does not stand
for two credentials). The code asks none of them of its users. The instance of
`recursion` satisfies the three, as its MC module states; that of `self_recursion`
breaks `Seen` twice, by its protected request and by its two ids.

### RateLimitKeys and RateLimiter

`RateLimitKeys` holds what a request is known by and what is read in a response: the
cooldown keys (client, endpoint, request, host, bucket kind, bucket), the windows of a
plan, `Retry-After` as seconds or as a date, and the default, the scoped and the
observing policy with the targets they choose. `cooldown_keys_for_acquire` and the keys
of a target are written apart, as in the code, so that they can disagree.

In `RateLimiter`, `cooldown` and `windows` are the two tables, in time units. A caller
goes through the cooldown check, its sleep, its windows one after the other and its
permit; then a response of `Responses` goes through the policy into the table. The
housekeeping that `limiter_for` does in the same critical section (pruning, the next
prune time, eviction) is part of that action. The cell algorithm of the `governor`
crate is external: GCRA, with the arrival time of each governor in `arrival`. A caller
keeps the governor it was given even when the table drops it, as the `Arc` does. A
scenario without governor is the limiter of `no_governor_default.rs`. `Setup` collects
the keys and windows of a scenario once, so that the tables are functions on them. A
response stores nothing (`Storable`) when it is not limited, its delay is zero, or its
target comes to no key, where `on_response` returns early. What a scenario and a
response may be is stated in `ScenariosAssumption` and `ResponsesAssumption`.

### Pagination

`call` is the controller, the termination policy and the flags. `position` is an
offset, a page number or a cursor. `Identity` is the request identity that the
runtime remembers; `call.rendered` says whether the endpoint renders the position
at all. The server is either honest, a fixed list of `Total` items, or answers any
page it likes.

### BodyExchange

A body is what its adapters make of the frames a producer yields, and only the
length of a frame matters. `stages` are the adapters of the native request body
from the inside out: those of an `AdvancedRequestBody`, the exact-length guard if
the declared hint is exact, the observer that fills the error slot, and the
client's limiter. `Passed`, `After` and `Through` say what an adapter returns,
becomes and hints when its inner body returned something; `PollRequest` runs a
frame through all of them. Then `Materialise`, `RejectOversize` and `StartSending`
are the way from the recipe to `reqwest`, `ExecuteFails` the attribution of an
error. On the way back `resp` is `BoundedResponseStream`, which counts like a
limiter; `LimitResponseBody` sets it up, and `NextChunk`, `WriteToFile`,
`PollResponse`, `WriteChunk` and `Flush` are what a caller can do with it, as often
as it likes, dropping any call midway (`Cancel`). Authentication, hooks and status
errors between the two are the subject of `DriveExecutions`. `Hints` are the size hints
that `http_body` lets anyone construct and `Stages` the adapters that a caller can have
put around a body (`PlansAssumption`).

The producer is any user code: it may deliver more or less than it hinted, fail, or
send empty frames. `reqwest` may answer before the body has ended; it does not poll
a body after its end or its error, and in the model no longer polls the request
body once the head of the response is there.

### ApiSyntax, ApiSema, GeneratedClient, CompileApi

A program is a client block and a tree of scopes and endpoints, each a sequence of
clauses: records whose field `c` is the keyword. The author picks the blocks from a
vocabulary, and the stages follow the compiler:

| Action | Code |
| --- | --- |
| `ParseClient`, `ParseScope`, `ParseEndpoint`, `ParseScopeEnd`, `EndOfInput` | `parse/`: one block at a time, `DslScopeDepthGuard`, the first error ends it |
| `NormalizeApi`, `CollectEndpointOutputTypes`, `AnalyzeAuthCredentials`, `ResolveProfiles`, `ResolveClientPolicy` | the passes of `sema/mod.rs`, `resolve`, in their order |
| `WalkLayer`, `WalkEndpoint`, `WalkLayerEnd` | `walk_items`, with the ancestry pushed and popped |
| `ValidateGeneratedPublicApi` | the check of the public namespace over the facade |
| `RustCompiles` | rustc on the generated code: two items of one name in a namespace that the macro does not check are its error |
| `Construct`, `EditClientVar`, `EnterScope`, `EditScopeParam`, `CallEndpoint`, `EditParam`, `StorePagination`, `OverrideTimeout`, `Execute` | a caller of the generated client, from its constructor to the resolved request |

`ApiSema` keeps the compiler's names; a declaration is refused when its `Faults` are
not empty, in the order of the calls, and nothing after the first refusal happens.
Identifiers, types and literals are members of small sets; a generated name is the
sequence of its words, so that names that meet after case conversion are equal; a
value is the sequence of the texts it is made of. Secrets have no
values here: `Execute` sends nothing when one does not fit its place (no material, the
wrong kind, no header value), which may happen to any request with credentials.
`source` keeps the text as the author
wrote it. The properties read the program from there, by an independent and simpler
route than the compiler's layers: `InnermostWins`, `AuthFollowsNesting`.

### ClientHandles

A task holds at most one handle. `secrets` are the auth vars behind the shared lock, by
version; `current` is the installed auth state, made of the key built from the secrets
and the identity of the session's slot; `heap` holds the runtime states by the identity
of their `Arc`. `WriteSecret`, `ReadOldState`, `RebuildState` and `InstallState` are the
critical sections of a secret setter; `ManualChange` then `ApplyManual`, and
`StartLogin` then `LoginAnswered` then `ApplyManual`, read an auth state and later act
on the slot they found. A request takes one snapshot (`TakeSnapshot`), prepares, is sent, is
resent by reqwest (`HiddenResend`, external) as the retry policy allows, and by the
driver after a challenge. `Construct` covers the constructors with their validation of
the retry mode, the origin and TLS. `asked`, `stored` and `floor` are history.

### DevelopmentExecutor

Executions share the queue of outcomes and the repeating one. `Begin` to `DrainEnd`
follow `execute_native`; `CancelExecution` drops it at its only await; `StartPoll`,
`PollGate` and `PollStep` are `poll_frame` of the scripted body, which any reader may
call; `Release`, `NotifyEntered`, `WaitUntilEntered` are the gate as the test's thread
sees it. `RequestFrame` and `ScriptedOutcome` say what a request body and a script can
consist of; bytes keep their width.

## 3. Runs

| Run | Instance | Shows |
| --- | --- | --- |
| `slot` | 2 tasks, generations to 3, owners to 4, fairness | the safety properties, the refinement of `LeaseRegister` and that calls return, over all interleavings |
| `drive` | 2 requests sharing `session`, one of them also with a manual `apiKey`, generations to 2, replayable and one-shot bodies | recovery is bounded and fresh, removals are deserved and last |
| `recursion` | 3 tasks, 3 credentials, each with its id: `mid` needs `leaf`, `self` needs itself and is entered by an invalidation; 1 call of up to 2 sends each, fairness | no recursive flow, nothing else refused, no wait cycle, calls return |
| `rate` | 4 callers in five scenarios, time to 4: one window for all with a caller that costs two cells; two windows in tables with room for one; URLs without a host and costs no window can hold; a target that comes to no key; no governor | quota in every interval, cooldowns honoured whatever their target, caps of both tables |
| `pagination` | all controllers, policies and flags, sizes 0 to 3, limits 0 to 6, 3 items; widths 7 and 3 | bounds, no page twice, exact collection, termination |
| `bodies` | every recipe under up to 2 adapters of its own and several request limits; every response family under several limits; frames to 3 bytes, producers to 4 | limits, lengths and hints hold byte for byte, refusals are reported as such, a response is whole or an error |
| `compile` | four vocabularies (policy; auth and rate limits; hosts and pagination; blocks that some pass refuses), programs of up to 4 items at depth 2, one edit by the caller | the request is what the text says and what the documentation says |
| `handles` | 3 interchangeable tasks; a budget of 3 configurations, or of 2 secret changes, a login and a request; 5 retry modes, 3 origins, with and without TLS | isolation of clones, no lost login, fresh secrets, bounded sends |
| `devexec` | 2 executions, 2 readers, 1 gate, 2 scripted outcomes of 5 kinds, 4 kinds of request | just results, the scripted bytes, no lost wake-up |
| `two_refreshable` | 1 request with two refreshable credentials | violation, see below |
| `self_recursion` | 1 task whose provider needs its own credential, entered by a request, and by an invalidation under another id | violation, see below |
| `timeout_clear` | the policy vocabulary of `compile`, 3 items | violation, see below |

Why the bounds are enough to be interesting. `slot`: while one task owns an attempt the
other waits, supersedes it or interferes; four owners allow an attempt, a superseding
attempt, another one and an overflow; generations to 3 let a rejected lease meet a
newer credential and still reach the limit. What the bound on tasks could hide is
covered by the proofs, which hold for any number. `drive`: two requests let a late
challenge meet the credential that another request reacquired; `MaxGeneration` 2
allows one replacement and the overflow after it. `recursion`: three tasks are
enough for one to own `mid`, one to own `leaf` and one to wait; with two sends in a call
a provider sends again after a send that failed, was refused or returned. `rate`: the window
refills twice within the time horizon, a caller can be asleep when a longer cooldown
arrives, and a table with room for one entry evicts on every second use. `bodies`: the
limits lie within, at and beyond what a producer can make, and a frame can straddle each
of them. `pagination`: a list that ends in a full page for some sizes and in a short
page for others, limits below, at and above it, positions that reach the width.
`compile`: `maxItems` is 3 for the vocabulary of policies, enough for two nested
scopes, or a closed one and an open one, around an endpoint, and 4 for the others: a
login in its own scope and an endpoint in another that presents what it returns; each vocabulary makes its sites speak about the same keys,
so that every order of override, removal and inheritance occurs; the depth limit is
met. `handles`: three tasks are a setter, a login and a request, or a handle shared by
two while the third changes and drops its own. `devexec`: two bodies at one gate, and two
readers of one body.

Deadlock is checked for `slot`, which always has something to do, and for `compile`
and `handles`, where the end of a run is an explicit stuttering step (`Ended`,
`Rest`), so that any other stop would be reported. The other models stop: a request is
done, a task has made its `MaxCalls` calls, time has reached `MaxTime`, a collection or
an exchange is over, the scripts are used up. There `CHECK_DEADLOCK` is off.
Symmetry is used in `rate`, `handles` and `devexec`, which check invariants only.

### Fairness

* `slot`: a task that can run `get_or_refresh` to its next await does so; a
  provider call ends (the executor a provider gets is bounded by the transport's
  timeouts); an owner commits or its guard is dropped; a pending `notify_waiters` is
  the next statement of a running thread. Nothing is assumed of callers, of
  expiry, of invalidation or of cancellation.
* `recursion`: weak fairness of each task's steps, as for the slot. A provider stops
  sending and answers: that it sends without end is ruled out by `MaxSends`.
* `pagination`: the one task that collects keeps running.

No strong fairness is used. `wait_cooldown` can in principle be extended for ever
by other callers, and no liveness is claimed for the limiter.

### Disagreements between code and documentation

1. `two_refreshable`. `docs/auth.md:165` lists a 401 as invalidating the
   credential, but `AuthRejectionPlan::append_validated` (`auth/plan.rs:578`) keeps
   only the first `Recover`, so a second refreshable credential on the same request
   is left in its slot, even after the terminal challenge.
2. `self_recursion`. `dev_doc/auth_runtime.md:73` says that an auth refresh does not
   recursively trigger the same flow. A protected request pushes nothing on the
   stack, so a provider that uses its own credential is stopped one level too late: by
   then the task waits for its own attempt.
   There is a second way around the guard: it compares the requirement id
   (`client/auth_http.rs:170`), which the provider makes up apart from the credential. A
   provider that sends with its own credential under two ids, one when it invalidates and
   one when it acquires, prepares the credential inside its own attempt. The instance has
   both; each alone violates the property as well (`Protected = {}`, or
   `InvalidateSends = {}`).
3. `timeout_clear`. `timeout.rs:6` says that `TimeoutOverride::Clear` removes any
   configured timeout for the request. `RequestOptions::apply_to` turns it into "no
   override", and `client/build.rs:112` then falls back to the endpoint's timeout.

Behaviours that the models follow and that no property contradicts:

* `docs/advanced_endpoints.md:105` says that explicit size hints are enforced by the
  exact-length guard. For a body factory the guard follows the hint given to
  `PreparedBody::factory` and not that of the body the factory returns
  (`terminal_exact_length`, `io.rs:629`), while reqwest follows the latter.
  `SentAsDeclared` is about the declared hint.
* A cooldown stored while a caller waits for its windows is not seen by that call;
  `StoredCooldownHonoured` says exactly which ones are.
* A window that is evicted or pruned starts again with a full burst; `QuotaRespected`
  is about the windows that stayed (`dropped` is history).
* A second `write_to_file` after a failed one truncates the file and reports success,
  because the stream is terminal.
* A controller advances also after the last page that `TakePages` or a page cap admits,
  so that an overflow there fails a collection that was complete (`ReceiveTooFar`).
* Of two secret setters that overlap, the one that installs its auth state last decides,
  also with the older secrets; `FreshSecrets` speaks of setters that ran alone.
* `clear_x` on a scope handle, for an optional parameter with a default, hands the
  parameter on as not set and the endpoint takes the default; `AskedFieldsSent` leaves
  such parameters out.
* `rate_limit off` in a bundle drops what was gathered before it and not what follows
  (`concord_macros/src/sema/profile.rs:195`), so the order of bundles matters;
  `DocumentedRequest` shows that the documentation says the same.
* Of two bodies at one gate of the development executor only the one that polled last
  is woken; `GateWakes` is about that one.

## 4. Proofs

All theorems hold for every value of the constants that satisfies the named assumptions
of the modules. The runs above check the same formulas first. `RequestProofs` holds the
proofs of two components (`CredentialSlot` and `BodyExchange`), and so do `ClientProofs`
(`Pagination`, `ClientHandles`) and `ExecutorProofs` (`DriveExecutions`,
`DevelopmentExecutor`); the two have nothing in common but the module. The proofs about
`CompileApi` are in two modules.

### CredentialSlot (`RequestProofs`)

For every nonempty set of tasks, every generation width and
every positive owner width:

* `TypeCorrect`: `TypeOK` is inductive by itself. What needs thought is that every
  increment is guarded and that a rollback (`IntoStateAt`, lemma `Rollback`) gives a
  well-formed state at the attempt's generation.
* `RegisterStep`, a lemma: every step, seen through generation, credential and
  leases, supersedes, fills, copies or stutters. `SlotImplementsRegister` and
  `GenerationNeverGoesBack` follow from it.
* `LeasesAreIdentified`: `LeaseIdentity` is not inductive, because an attempt that
  fills a generation could meet an earlier lease of it. `LeaseInv` adds that no lease is
  ahead of the slot, and that leases of the current generation exist only while the slot
  serves the credential they name.
* `RefreshIsOwned`, by `OwnerInv`: owners are handed out once, so two guards never carry
  the same one, and a Refreshing slot has one that carries its own.
* `WakeupsAreNotLost`: `NoLostWakeup` is inductive given `TypeOK`; every way out of
  Refreshing notifies under the lock or leaves the owner in `notifying`.
* `RemovedStaysRemoved`, by `NamesInv` (no credential that the slot holds or dropped is
  newer than the last one installed) and the lemma `HeldStep`, which says for every
  step what enters and what leaves the slot.
* `RejectedIsNotServed`, by `ServedInv`: a rejected credential that is still in the
  slot, after a rollback gave it a newer generation, was expiring when its refresh began,
  and an expiring credential is not served.

### Pagination (`ClientProofs`)

For every set of calls, list length and integer width:
`RequestsAreBounded`, `ItemsAreBounded`, both together in `CollectionsAreBounded`, and
`PagesAreRequestedOnce`, all from the inductive invariant `CollectInv`. It ties the
number of requests sent to the page index, and its part `Progress` says that every page
but the last brought an item and that a collection that goes on is still below its
limit; without it a request could not be known to be the last one allowed.
`CollectionsAreExact` needs `ExactInv` besides: while an honest server is being read,
every page before the one in flight was full, so that what was collected are the items
from the first one to `page * size` beyond it, and the position about to be asked for
begins right there, whichever controller computed it. The lemmas `NumbersJoin` and
`NumbersCut` put pages together and truncate the last one; `MoreIsExact` and
`LastIsExact` treat the page that is not the last and the one that is, the latter for
each reason there is to stop. The theorem covers lists that end in a full page, start
positions beyond the end of the list, and quotas within a page.

### DriveExecutions (`ExecutorProofs`)

For any requests, credentials, requirements and generation
width. So every property of the run `drive` is proved:

* `ExecutionsAreBounded`, by `PhaseInv`: where a request is determines what it has
  leased, planned, built and sent; a resend is owed only with the budget spent and at
  most one body built.
* `SettledIsGone` and `ResendsAreFresh`, by `LeasedInv`: leases are of the slot's
  generation or of an older one, and what a plan has dealt with lies strictly behind the
  slot. The lemma `ForwardStep` says that slots only move forward, which carries all
  this through the steps of other requests.
* `RemovalsWereChallenged`, by `AccusedInv`: a plan, and a challenge in hand, is about
  generations that were challenged.

### ClientHandles (`ClientProofs`)

For any number of tasks, secrets, settings, modes, origins and
budgets. So every property of the run `handles` is proved:

* `ClonesAreIsolated`, by `ConfigInv`: the settings behind a handle's `Arc` are those the
  handle was given. The lemma about `make_mut` shows that a change in place happens only
  without sharers.
* `LoginsAreKept`: `LoginNotLost` with the types `AuthTypes`; all auth states share the
  slot of the session, so it does not matter which of them a login read.
* `SecretsAreFresh`, by `FreshInv`: a setter that nothing overlapped installs the secrets
  as they are, and no rebuild that began after it returned can have read older ones.
* `SendsAreBounded`, by `SendInv`: the policy is fixed at construction and each
  execution's sends are accounted for.

### AuthRecursion (`AuthRecursionProofs`)

For any tasks, credentials, ids and providers, from the inductive invariant `IInv`: the
frames of a task are a chain of credentials each needed by the one around it; the stack
has, in the same order, a key for each of them under which some provider sends with it,
none for the credential that a protected request prepares itself, and no key twice; and
a Refreshing slot is owned by a task that is inside the attempt.

* `UnseenRecursions` has no hypothesis: a flow that starts inside itself is that of the
  credential a protected request prepares, or that of a credential that is sent with under
  two ids. Disagreement 2 above has an instance of each, and there is no third.
* `NoFlowRecurs`, under `CyclesSeen`: there is none at all, although providers may
  need one another in any way, as long as what they come back to has one id and is not
  prepared by a protected request.
* `RefusalsAreRecursions`, under `KeysIdentify`: what the guard refuses is a recursion,
  whatever sends succeeded, failed or were dropped before.
* `NoTasksWaitInACircle`, under `NeedsAcyclic`: among the credentials under preparation
  in a circle of waits one would need no other of them, so the task that owns its attempt
  does not wait. It holds for any number of tasks, where the run has three.

### RateLimiter (`RateLimiterProofs`)

For any finite set of callers, any scenario, responses and time:

* `CooldownsAreHonoured`, by `CooldownInv`: a cooldown that a caller has to sit out and
  that is not over is in the table, at least as long, under a key that the caller looks
  up before it goes on (`Guarded`). `TargetKeysAreAcquired` is the lemma about the two
  functions that build keys: whatever target a policy chooses, the request that was
  answered looks one of its keys up.
* `QuotaIsRespected`, by `WindowInv`: a cached governor belongs to one window, a caller
  that waits for a window whose entry was never dropped waits for that governor
  (`Exclusive`, `Held`), and the arrival time accounts for every cell admitted since any
  admission (`Paced`). `AdmitStep` carries this through an admission.
* `TablesStayBounded`, from both invariants: eviction makes room before a window is
  cached (`RoomIsMade`), and a response with more new keys than there is room for is
  refused as a whole.

### BodyExchange (`RequestProofs`)

For any stack of adapters, frames of any length and any limits:

* `BodyIsSentAsDeclared`, `RefusalsAreJust` and `HintsStayConsistent`, by `RequestInv`:
  as long as the body is open, every adapter that counts has counted exactly what was
  sent, and all that was produced was sent; at the end every exact length is reached
  (`Counting`). The error slot holds the error that ended the body or nothing, and a
  limiter's error has a limiter that was exceeded (`Reporting`). `ReturnedByStages` says what a
  frame becomes on its way through all adapters, `HintsOfStages` what their hints do.
* `ResponsesAreWhole`, by `ResponseInv`: the limiter has counted all that was served
  until it stops, the caller has no more than was counted (`Accounting`), and a call that
  began on an unread body has all of it so far (`Complete`).

### DevelopmentExecutor (`ExecutorProofs`)

For any executions, readers and gates, and scripts and
bodies of any length. So every property of the run `devexec` is proved, and
that each execution makes one terminal observation (`OneTerminal`), which is stated only here:

* `ResultsAreJust` and `OneObservation`, by `ExecInv`: an execution that drains has read
  some first frames of its request body without an error, and the bytes in them are the
  expected ones up to its offset (`ReadUpTo`). Comparing frame by frame then comes to
  comparing the whole.
* `NoBodyIsStranded`, by `WakeInv`: the body that polled a gate last has its waker there,
  or the gate was released and the waker is on its way; an entered gate with a sleeping
  thread still has to notify it.
* `BodiesFollowTheScript`, by `ScriptInv`: a body has delivered exactly the chunks among
  its first so many steps, all gates among them are released, and what is left of its
  steps is what is left of the script.

### CompileApi (`CompileApiProofs`, `GeneratedClientProofs`, `LeftFolds`)

For any vocabularies that the grammar can read, that is texts of the shapes of `ast/`
(`CompileTexts`: lists are lists, the type of a parameter is one the caller has values of,
a value is a list of texts), any number of items, any depth limit, any client-wide headers
and any number of calls and edits by the caller:

* `CompileApiInv`: `CompileInv` is inductive. It says, pass by pass, what is known of the
  program. What was read is well formed (`SourceRead`, `RawClientOK`); closes match
  opens, before and after a scope is split in two layers (`ItemsHeld`); a layer that
  `walk_items` has open was resolved against the innermost declarations around it and
  mentions only those, in the shape they have (`Walked`); so do the resolved endpoints
  (`EndpointOK`), for which the same declarations were merged outermost first; the called
  endpoint is one of them and the request was built for it (`Called`).
* `CompileFieldsAgree` follows: that the two directions of merging agree is what the
  refusal of conflicting declarations (`DeclFaults`) is for, and `EndpointOK` is where it
  is used.
* `CompileOriginPinned`: the host of a request is made of the base's labels and of the
  prefix pieces; if all of them are static for every endpoint (`classify_endpoint_origin`),
  rendering them with any values gives the classified host.
* `CompileCallerInv`: `CallerInv` needs `CompileInv` and what rustc checked of the
  generated structs (`Compiled`). A handle holds a value for each parameter of its scope,
  what it captured from the handles before it included, and the pending request for each
  field of its endpoint; a parameter that has no default or is not optional has the value
  that was asked for last. `CompileAskedFieldsSent` is its last part.
* `CompileCredentialsPlaced`: materialising the credentials one after the other
  (`PlacedFold`) keeps what is public and what was placed before, because the placements
  differ from one another (`from_auth_plan_fails`) and from all public names
  (`validate_public_request_with_reserved_headers`); a request for which this is not so
  is an error and not sent. That the public part is a list of pairs at all needs
  `CallerInv`.
* `CompileDocumentedRequest`: the generated code folds `emit_policy_apply_fn` over client,
  scopes and endpoint; the documentation folds `apply_rate_limit_layer`, takes the
  last timeout and unions the keys over its own list of blocks. `LayerApplied` says what
  one layer does to a policy in the terms of the documentation (`PolicyDocumented`),
  `MergedLayer` carries it over all layers, and `SentRequest` from the merged policy to
  the wire.

Most steps of the compiler are folds. `LeftFolds` proves once, for a step operator and a
predicate that are constants of the module, that a fold has a sequence of intermediate
results (`FoldRuns`) and that what each step keeps the fold keeps (`FoldKeeps`); every
fold of the compiler instantiates it with its own step and invariant.

### Induction

Five of these developments reason by induction on data: over the adapters of a body, the
chunks of a sequence (`FlattenSeq`), the cells of an interval (the sums of
`FiniteSetsExt`) and the elements of a fold. The induction theorems of the library take a predicate as a parameter
and cannot be used; induction is stated as a fact about sets instead (a set of naturals
has a least element, a family of subsets of a finite set has a smallest one: `Climb`,
`LeastNatural`, `SmallestSet`), from the well-foundedness theorems, and what a recursive
function or a fold computes is proved through the sequence of its intermediate values
(`Iteration`, `Joins`, `SumExists` with `SumUnique`, `FoldExists`).

The inductive invariants were model-checked on the instances of the runs before they
were proved.

### Only model-checked

Liveness (`CallReturns`, `CollectEnds`), which is beyond the prover's reach, and two
properties of `CompileApi`, `InnermostWins` and `AuthFollowsNesting`. They compare the
request, or the resolved auth, with the source text, found again by the names around an
endpoint (`ItemOf`). `CompileInv` says that a program's parts fit one another and not
which clause each part came from; these two would need every pass to be restated as a
function of the text. All other safety properties of the runs are theorems.

## 5. What the models leave out

* A slot whose construction failed (`init_error` is returned by every operation and
  nothing else happens), poisoned locks, a `refresh_skew` that overflows `Instant`, the
  `Instant::now()` taken just before a lock.
* The identity and text of errors, hooks other than their refusal, debug output,
  lifecycle observations (test builds only), redaction.
* In `AuthRecursion`, the building of an internal request and its response limits. The
  sends of one task follow or nest in one another: a provider that polls several at
  once, for which `AuthInternalStackGuard::drop` searches below the top of the stack, is
  not there. A slot that is set, cleared or invalidated while an attempt is under way,
  which supersedes the attempt, is left to `CredentialSlot`.
* In `BodyExchange`, the width of byte counts (`u64`, which the code saturates or
  checks), a lock poisoned by a producer that panics, multipart forms, which reqwest
  frames, and an error of kind `LimitExceeded` that a producer makes up itself.
* In the compiler: tokens, spans and diagnostics; the Rust types and expressions inside
  clauses, which syn parses and rustc checks (an expression is the set of names it
  mentions); raw identifiers (`r#..`), which `reject_raw_ident` refuses; the length of a
  host (253 in `classify_endpoint_origin`), as texts have none; the layout of generated modules (`codegen/endpoints/modules.rs`), whose only
  effect is visibility.
* The hardening of the reqwest builder in `transport.rs` (proxies, redirects, default
  headers): single-step configuration without state. Redirects and connection handling
  inside reqwest are one step.

Not modelled, with the reason of each in `components` of `PROJECT.json`: built-in
credential providers (values, and acquisitions that are a single step; the slot lets a
provider answer anything), response classification and execution metadata, codecs and
media types, hooks, debug output, redaction and errors, and the examples, test support
and benchmarks.

## 6. Possible extensions

1. Proofs of `AuthFollowsNesting` and `InnermostWins`: an invariant that ties the layers
   that are open in `walk_items` to the scopes that are open in the text, clause by
   clause, through the split of a scope in two layers.
2. Multipart recipes in `BodyExchange`.
3. A composition of `RateLimiter` with `DriveExecutions`, in which the permit is
   acquired from the limiter's tables rather than granted.
