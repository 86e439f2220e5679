---------------------------- MODULE ClientHandles ----------------------------
(***************************************************************************)
(* A generated client and its clones.  Clones share the secrets (an        *)
(* Arc<RwLock> of the auth vars) and the handle to the auth state; the      *)
(* runtime state is an Arc that is copied on write, and the rest is copied  *)
(* by clone().  A setter of a secret writes it and then rebuilds the auth   *)
(* state in three critical sections; logins store into the slot of the auth *)
(* state that they read; a request works on one snapshot of the auth state  *)
(* and hands each visible execution to reqwest, which may resend it as the  *)
(* retry mode allows.                                                       *)
(*                                                                          *)
(* A task holds at most one handle and runs one operation at a time on it:  *)
(* concurrent &self calls on one handle are those of a clone, which differs *)
(* in nothing they touch.                                                   *)
(***************************************************************************)
EXTENDS Integers, FiniteSets

CONSTANTS
  Tasks,          \* users of the client, at most one handle each
  CredSecrets,    \* secrets that a credential is made of
  OtherSecrets,   \* secrets that no credential names
  Settings,       \* values of a runtime setting
  Modes,          \* RetryMode values that the application asks for
  Origins,        \* ApiOriginDescriptor values of the generated API
  Budgets,        \* bounds: [configs, sets, logins, requests], one is chosen
  ProtocolResends,\* bound on the resends of reqwest's own protocol recovery
  None

ASSUME HandleConstants ==
  /\ CredSecrets \cap OtherSecrets = {}
  /\ None \notin Settings
  /\ None \notin Tasks
  /\ ProtocolResends \in Nat
  /\ Settings # {}
  /\ \A m \in Modes : m.t \in {"ProtocolRecovery", "Disabled", "Status"}
  /\ Budgets \subseteq [configs : Nat, sets : Nat, logins : Nat, requests : Nat]

VARIABLES
  client,     \* the managed client: its retry policy, and whether it can serve the scheme
  secrets,    \* version of each secret behind the shared lock
  current,    \* the installed auth state
  slots,      \* slots of the session credential, by identity
  fresh,      \* identity of the next slot that init_auth_state makes
  handle,     \* [Tasks -> None or the handle's own fields and its Arc]
  heap,       \* runtime states, by identity of the Arc
  task,       \* what each task is doing
  budget,     \* what the environment may still do
  asked,      \* ghost: the configuration that each handle was given
  stored,     \* ghost: the session credential that was stored last
  floor       \* ghost: secret versions whose setter ran alone and returned

vars == <<client, secrets, current, slots, fresh, handle, heap, task, budget, asked, stored, floor>>

Secrets == CredSecrets \cup OtherSecrets
Refs == Tasks                     \* identities of runtime-state Arcs
RuntimeFields == {"hooks", "limiter", "limits"}
OwnFields == {"debug", "loops"}

Held(t) == handle[t] # None
Empty == [value |-> None, gen |-> 0]
Idle == [pc |-> "idle"]

(* ------------------------------ retry modes ------------------------------ *)

ApprovedStatuses == {"502", "503", "504"}

\* StatusRetryConfig::new.
StatusRetryConfig(mode) ==
  /\ mode.max \in 1..2
  /\ mode.statuses # {}
  /\ mode.statuses \subseteq ApprovedStatuses

\* RetryMode::resolve: status retry needs a fixed origin whose authority is sound.
resolve(mode, origin) ==
  CASE mode.t = "ProtocolRecovery" -> [t |-> "Default"]
    [] mode.t = "Disabled" -> [t |-> "Never"]
    [] mode.t = "Status" ->
         IF StatusRetryConfig(mode) /\ origin.t = "FixedSingle" /\ origin.sound
         THEN [t |-> "Custom", max |-> mode.max, statuses |-> mode.statuses]
         ELSE None

\* TlsCapability::preflight_scheme.
preflight_scheme(scheme, tls) == scheme = "https" => tls

preflight_generated_origin(origin, tls) ==
  origin.t = "FixedSingle" => preflight_scheme(origin.scheme, tls)

(* ------------------------------ construction ----------------------------- *)

DefaultSetting == CHOOSE s \in Settings : TRUE
DefaultRuntime == [f \in RuntimeFields |-> DefaultSetting]
DefaultOwn == [f \in OwnFields |-> DefaultSetting]

\* init_auth_state: the credentials as the secrets are now, and an empty slot.
init_auth_state(slot) == [key |-> [s \in CredSecrets |-> secrets[s]], session |-> slot]

Init ==
  /\ client = None
  /\ secrets = [s \in Secrets |-> 0]
  /\ current = [key |-> [s \in CredSecrets |-> 0], session |-> 0]
  /\ slots = [i \in {0} |-> Empty]
  /\ fresh = 1
  /\ handle = [t \in Tasks |-> None]
  /\ heap = [r \in Refs |-> DefaultRuntime]
  /\ task = [t \in Tasks |-> Idle]
  /\ budget \in Budgets
  /\ asked = [t \in Tasks |-> None]
  /\ stored = None
  /\ floor = [s \in CredSecrets |-> 0]

\* ManagedReqwestClient: what it retries, and whether it can serve the scheme at all.
ManagedClient(install, scheme, tls) ==
  [retry |-> install, reachable |-> preflight_scheme(scheme, tls)]

\* new(): the default mode, and no preflight.
NewClient(origin, tls) == ManagedClient([t |-> "Default"], origin.scheme, tls)

\* The generic constructors know no origin.
with_retry_mode(mode, origin, tls) ==
  LET install == resolve(mode, [t |-> "None"])
  IN  IF install = None THEN None ELSE ManagedClient(install, origin.scheme, tls)

\* The generated ones pass the origin of the API descriptor.
create_generated_client(mode, origin, tls) ==
  LET install == resolve(mode, origin)
  IN  IF install = None \/ ~ preflight_generated_origin(origin, tls) THEN None
      ELSE ManagedClient(install, origin.scheme, tls)

\* with_managed_client: the first handle.  The secrets and the auth state are those
\* of Init; a constructor that fails leaves nothing.
Construct(t) ==
  /\ client = None /\ \A u \in Tasks : ~ Held(u)
  /\ \E mode \in Modes, origin \in Origins, tls \in BOOLEAN :
       client' \in {NewClient(origin, tls), with_retry_mode(mode, origin, tls),
                   create_generated_client(mode, origin, tls)} \ {None}
  /\ handle' = [handle EXCEPT ![t] = [own |-> DefaultOwn, rt |-> t]]
  /\ heap' = [heap EXCEPT ![t] = DefaultRuntime]
  /\ asked' = [asked EXCEPT ![t] = [own |-> DefaultOwn, runtime |-> DefaultRuntime]]
  /\ UNCHANGED <<secrets, current, slots, fresh, task, budget, stored, floor>>

(* -------------------------------- handles -------------------------------- *)

\* Operations that borrow the handle exclusively.
Exclusive(t) == task[t].pc \in {"read_old", "init", "install"}

\* #[derive(Clone)]: the Arcs are shared, the other fields copied.
Clone(t, u) ==
  /\ Held(t) /\ ~ Exclusive(t) /\ ~ Held(u)
  /\ handle' = [handle EXCEPT ![u] = handle[t]]
  /\ asked' = [asked EXCEPT ![u] = asked[t]]
  /\ UNCHANGED <<client, secrets, current, slots, fresh, heap, task, budget, stored, floor>>

DropHandle(t) ==
  /\ Held(t) /\ task[t] = Idle
  /\ handle' = [handle EXCEPT ![t] = None]
  /\ asked' = [asked EXCEPT ![t] = None]
  /\ UNCHANGED <<client, secrets, current, slots, fresh, heap, task, budget, stored, floor>>

Sharers(t) == {u \in Tasks \ {t} : Held(u) /\ handle[u].rt = handle[t].rt}
FreeRefs == {r \in Refs : \A u \in Tasks : Held(u) => handle[u].rt # r}

\* Mutant: the shared runtime state is written in place
make_mut_in_place(t, own, runtime) ==
  /\ heap' = [heap EXCEPT ![handle[t].rt] = runtime]
  /\ handle' = [handle EXCEPT ![t].own = own]

\* The handle's own fields are written; the runtime state through Arc::make_mut: in
\* place when no other handle holds the Arc, otherwise in a copy.
make_mut(t, own, runtime) ==
  IF Sharers(t) = {}
  THEN /\ heap' = [heap EXCEPT ![handle[t].rt] = runtime]
       /\ handle' = [handle EXCEPT ![t].own = own]
  ELSE \E r \in FreeRefs : /\ heap' = [heap EXCEPT ![r] = runtime]
                           /\ handle' = [handle EXCEPT ![t] = [own |-> own, rt |-> r]]

Configuring(t) ==
  /\ Held(t) /\ task[t] = Idle /\ budget.configs > 0
  /\ budget' = [budget EXCEPT !.configs = @ - 1]
  /\ UNCHANGED <<client, secrets, current, slots, fresh, task, stored, floor>>

\* set_debug_level, set_debug_sink, set_pagination_detect_loops, set_api_headers, vars_mut.
SetOwn(t) ==
  /\ Configuring(t)
  /\ \E f \in OwnFields, v \in Settings :
       /\ handle' = [handle EXCEPT ![t].own[f] = v]
       /\ asked' = [asked EXCEPT ![t].own[f] = v]
  /\ UNCHANGED heap

\* set_runtime_hooks, set_rate_limiter.
SetRuntime(t) ==
  /\ Configuring(t)
  /\ \E f \in {"hooks", "limiter"}, v \in Settings :
       /\ make_mut(t, handle[t].own, [heap[handle[t].rt] EXCEPT ![f] = v])
       /\ asked' = [asked EXCEPT ![t].runtime[f] = v]

\* configure(f): the closure gets all settings, everything is written back.  The
\* own fields of the handle are written first, then the runtime state is replaced.
Configure(t) ==
  /\ Configuring(t)
  /\ \E own \in [OwnFields -> Settings], runtime \in [RuntimeFields -> Settings] :
       /\ asked' = [asked EXCEPT ![t] = [own |-> own, runtime |-> runtime]]
       /\ make_mut(t, own, runtime)

(* -------------------------------- secrets -------------------------------- *)

\* set_x and clear_x of a secret: the write lock is held for the assignment only.
\* A secret of a credential is followed by the rebuild; solo is a ghost that
\* says that no other rebuild has overlapped this one.
WriteSecret(t) ==
  /\ Held(t) /\ task[t] = Idle /\ budget.sets > 0
  /\ budget' = [budget EXCEPT !.sets = @ - 1]
  /\ \E s \in Secrets :
       /\ secrets' = [secrets EXCEPT ![s] = @ + 1]
       /\ task' = IF s \notin CredSecrets THEN task
                  ELSE [u \in Tasks |->
                          IF u = t THEN [pc |-> "read_old",
                                         solo |-> \A w \in Tasks : ~ Exclusive(w)]
                          ELSE IF Exclusive(u) THEN [task[u] EXCEPT !.solo = FALSE]
                          ELSE task[u]]
  /\ UNCHANGED <<client, current, slots, fresh, handle, heap, asked, stored, floor>>

\* __concord_rebuild_auth_state_preserving_manual: try_auth_state.
ReadOldState(t) ==
  /\ task[t].pc = "read_old"
  /\ task' = [task EXCEPT ![t] = [pc |-> "init", solo |-> task[t].solo, old |-> current]]
  /\ UNCHANGED <<client, secrets, current, slots, fresh, handle, heap, budget, asked, stored, floor>>

\* Mutant: the manual slots are not carried over
RebuildForgetting(t) ==
  /\ task[t].pc = "init"
  /\ slots' = [i \in DOMAIN slots \cup {fresh} |-> IF i = fresh THEN Empty ELSE slots[i]]
  /\ fresh' = fresh + 1
  /\ task' = [task EXCEPT ![t] = [pc |-> "install", solo |-> task[t].solo,
                                  new |-> init_auth_state(fresh)]]
  /\ UNCHANGED <<client, secrets, current, handle, heap, budget, asked, stored, floor>>

\* Mutant: the credentials are copied from the state that is to be replaced
RebuildFromOld(t) ==
  /\ task[t].pc = "init"
  /\ slots' = [i \in DOMAIN slots \cup {fresh} |-> IF i = fresh THEN Empty ELSE slots[i]]
  /\ fresh' = fresh + 1
  /\ task' = [task EXCEPT ![t] = [pc |-> "install", solo |-> task[t].solo, new |-> task[t].old]]
  /\ UNCHANGED <<client, secrets, current, handle, heap, budget, asked, stored, floor>>

\* init_auth_state under the read lock of the secrets; the slots of endpoint-backed
\* credentials are then taken from the old state, the new empty ones are dropped.
RebuildState(t) ==
  /\ task[t].pc = "init"
  /\ slots' = [i \in DOMAIN slots \cup {fresh} |-> IF i = fresh THEN Empty ELSE slots[i]]
  /\ fresh' = fresh + 1
  /\ task' = [task EXCEPT ![t] =
                [pc |-> "install", solo |-> task[t].solo,
                 new |-> [init_auth_state(fresh) EXCEPT !.session = task[t].old.session]]]
  /\ UNCHANGED <<client, secrets, current, handle, heap, budget, asked, stored, floor>>

\* try_set_auth_state; the setter returns.
InstallState(t) ==
  /\ task[t].pc = "install"
  /\ current' = task[t].new
  /\ floor' = IF task[t].solo THEN [s \in CredSecrets |-> secrets[s]] ELSE floor
  /\ task' = [task EXCEPT ![t] = Idle]
  /\ UNCHANGED <<client, secrets, slots, fresh, handle, heap, budget, asked, stored>>

(* --------------------------- the session credential ---------------------- *)

\* set(value), clear() and the end of a login read the installed state first.
ManualReads(t, value) ==
  task' = [task EXCEPT ![t] = [pc |-> "apply", state |-> current, value |-> value]]

ManualChange(t) ==
  /\ Held(t) /\ task[t] = Idle /\ budget.logins > 0
  /\ budget' = [budget EXCEPT !.logins = @ - 1]
  /\ \E value \in {budget.logins, None} : ManualReads(t, value)
  /\ UNCHANGED <<client, secrets, current, slots, fresh, handle, heap, asked, stored, floor>>

\* set_manual and clear_manual: the generation advances with the change.
ApplyManual(t) ==
  /\ task[t].pc = "apply"
  /\ slots' = [slots EXCEPT ![task[t].state.session] =
                 [value |-> task[t].value, gen |-> @.gen + 1]]
  /\ stored' = task[t].value
  /\ task' = [task EXCEPT ![t] = Idle]
  /\ UNCHANGED <<client, secrets, current, fresh, handle, heap, budget, asked, floor>>

\* acquire: execute_and_store_manual, and the handle's acquire(request).
StartLogin(t) ==
  /\ Held(t) /\ task[t] = Idle /\ budget.logins > 0
  /\ budget' = [budget EXCEPT !.logins = @ - 1]
  /\ task' = [task EXCEPT ![t] = [pc |-> "login", value |-> budget.logins]]
  /\ UNCHANGED <<client, secrets, current, slots, fresh, handle, heap, asked, stored, floor>>

LoginAnswered(t) ==
  /\ task[t].pc = "login"
  /\ ManualReads(t, task[t].value)
  /\ UNCHANGED <<client, secrets, current, slots, fresh, handle, heap, budget, asked, stored, floor>>

(* -------------------------------- requests ------------------------------- *)

\* Whether reqwest can clone the materialized body, and whether Concord can open
\* its recipe again.
Bodies == {"bytes", "factory", "one_shot"}
Cloneable(body) == body = "bytes"
Rebuildable(body) == body # "one_shot"

Uses == {"key", "session"}

\* drive_executions up to the snapshot of the auth state, taken once per request;
\* preflight_url refuses HTTPS without TLS before that.
StartRequest(t) ==
  /\ Held(t) /\ task[t] = Idle /\ budget.requests > 0
  /\ client.reachable
  /\ budget' = [budget EXCEPT !.requests = @ - 1]
  /\ \E method \in {"GET", "POST"}, body \in Bodies, use \in Uses :
       task' = [task EXCEPT ![t] =
                  [pc |-> "snapshot", method |-> method, body |-> body, use |-> use,
                   began |-> floor]]
  /\ UNCHANGED <<client, secrets, current, slots, fresh, handle, heap, asked, stored, floor>>

TakeSnapshot(t) ==
  /\ task[t].pc = "snapshot"
  /\ task' = [task EXCEPT ![t] =
                [pc |-> "prepare", method |-> task[t].method, body |-> task[t].body,
                 use |-> task[t].use, began |-> task[t].began, snap |-> current,
                 gen |-> None, visible |-> 0, hidden |-> 0, sends |-> 0]]
  /\ UNCHANGED <<client, secrets, current, slots, fresh, handle, heap, budget, asked, stored, floor>>

\* prepare_auth on the snapshot: a session that was never stored, or was cleared,
\* ends the request before anything is sent.  Then one visible execution.
PrepareAuth(t) ==
  /\ task[t].pc = "prepare"
  /\ LET slot == slots[task[t].snap.session]
     IN  task' = [task EXCEPT ![t] =
                    IF task[t].use = "session" /\ slot.value = None THEN Idle
                    ELSE [task[t] EXCEPT !.pc = "sent", !.gen = slot.gen,
                            !.visible = @ + 1, !.hidden = 0, !.sends = @ + 1]]
  /\ UNCHANGED <<client, secrets, current, slots, fresh, handle, heap, budget, asked, stored, floor>>

\* Mutant: any method may be sent again
AnyMethodEligible(method) == TRUE

\* StatusRetryConfig::method_is_eligible.
method_is_eligible(method) == method \in {"GET", "HEAD", "OPTIONS"}

\* The classifier of build_reqwest_policy, and reqwest's bounds: its budget may
\* withhold a resend that the policy allows.
Resendable(t, status) ==
  /\ Cloneable(task[t].body)
  /\ CASE client.retry.t = "Custom" -> /\ method_is_eligible(task[t].method)
                                       /\ status \in client.retry.statuses
                                       /\ task[t].hidden < client.retry.max
       [] client.retry.t = "Default" -> /\ status = "nack"
                                        /\ task[t].hidden < ProtocolResends
       [] client.retry.t = "Never" -> FALSE

\* reqwest sends the materialized request again: no hook, no permit, no
\* preparation of credentials.
HiddenResend(t) ==
  /\ task[t].pc = "sent"
  /\ \E status \in ApprovedStatuses \cup {"nack"} : Resendable(t, status)
  /\ task' = [task EXCEPT ![t].hidden = @ + 1, ![t].sends = @ + 1]
  /\ UNCHANGED <<client, secrets, current, slots, fresh, handle, heap, budget, asked, stored, floor>>

\* Any other answer, or an error: the request is over.
Answered(t) ==
  /\ task[t].pc = "sent"
  /\ task' = [task EXCEPT ![t] = Idle]
  /\ UNCHANGED <<client, secrets, current, slots, fresh, handle, heap, budget, asked, stored, floor>>

\* A challenge against a credential of secrets: its slot, which only this auth
\* state has, is refreshed, and a body that can be opened again is sent once more.
ChallengedKey(t) ==
  /\ task[t].pc = "sent" /\ task[t].use = "key"
  /\ task' = [task EXCEPT ![t] =
                IF task[t].visible = 1 /\ Rebuildable(task[t].body)
                THEN [task[t] EXCEPT !.pc = "prepare"] ELSE Idle]
  /\ UNCHANGED <<client, secrets, current, slots, fresh, handle, heap, budget, asked, stored, floor>>

\* A challenge against the session: InvalidateOnly, if the slot still holds the
\* generation that was sent.
ChallengedSession(t) ==
  /\ task[t].pc = "sent" /\ task[t].use = "session"
  /\ LET id == task[t].snap.session
     IN  IF slots[id].gen = task[t].gen /\ slots[id].value # None
         THEN /\ slots' = [slots EXCEPT ![id] = [value |-> None, gen |-> @.gen + 1]]
              /\ stored' = None
         ELSE UNCHANGED <<slots, stored>>
  /\ task' = [task EXCEPT ![t] = Idle]
  /\ UNCHANGED <<client, secrets, current, fresh, handle, heap, budget, asked, floor>>

\* The future of a login, a manual change or a request is dropped at an await.
Cancel(t) ==
  /\ task[t].pc \in {"login", "apply", "snapshot", "prepare", "sent"}
  /\ task' = [task EXCEPT ![t] = Idle]
  /\ UNCHANGED <<client, secrets, current, slots, fresh, handle, heap, budget, asked, stored, floor>>

\* Nobody has to use the client any further.
Rest == (\A t \in Tasks : task[t] = Idle) /\ UNCHANGED vars

Next ==
  \/ \E t \in Tasks :
       \/ Construct(t) \/ DropHandle(t) \/ SetOwn(t) \/ SetRuntime(t) \/ Configure(t)
       \/ WriteSecret(t) \/ ReadOldState(t) \/ RebuildState(t) \/ InstallState(t)
       \/ ManualChange(t) \/ ApplyManual(t) \/ StartLogin(t) \/ LoginAnswered(t)
       \/ StartRequest(t) \/ TakeSnapshot(t) \/ PrepareAuth(t) \/ HiddenResend(t)
       \/ Answered(t) \/ ChallengedKey(t) \/ ChallengedSession(t) \/ Cancel(t)
  \/ \E t, u \in Tasks : Clone(t, u)
  \/ Rest

Spec == Init /\ [][Next]_vars

(* ------------------------------- properties ------------------------------ *)

\* docs/design_invariants.md: "Changing runtime configuration on one clone does not
\* retroactively change another clone".  Each handle runs under the settings that
\* it was given: those of the handle it was cloned from, at that time, and its own
\* later changes, whichever handles share its Arc and in whatever order they are
\* cloned, changed and dropped.
ConfigIsolation ==
  \A t \in Tasks : Held(t) =>
    /\ handle[t].own = asked[t].own
    /\ heap[handle[t].rt] = asked[t].runtime

\* A session that a login or set() stored is what the next request finds, until it
\* is replaced, cleared or rejected: no rebuild of the auth state that another
\* clone's secret setter runs in between drops it, whichever state the login read.
LoginNotLost == slots[current.session].value = stored

\* A request presents secrets at least as recent as every setter that had returned
\* before it began and that no other setter overlapped.  (Of two setters that
\* overlap, the one that installs last decides, also with the older secrets.)
FreshSecrets ==
  \A t \in Tasks : task[t].pc \in {"prepare", "sent"} =>
    \A s \in CredSecrets : task[t].snap.key[s] >= task[t].began[s]

\* The bounds of docs/retry_and_rate_limit.md on physical sends: at most two
\* visible executions, one if the body cannot be opened again, and within each no
\* resend unless status retry is installed, the method is safe and reqwest can
\* clone the body.
SendsWithinMode ==
  \A t \in Tasks : task[t].pc = "sent" /\ client.retry.t # "Default" =>
    LET tk == task[t]
        visible == IF Rebuildable(tk.body) THEN 2 ELSE 1
        each == IF client.retry.t = "Custom" /\ Cloneable(tk.body) /\ tk.method = "GET"
                THEN 1 + client.retry.max ELSE 1
    IN  tk.visible <= visible /\ tk.sends <= tk.visible * each
==============================================================================
