--------------------------- MODULE DriveExecutions ---------------------------
(***************************************************************************)
(* Protected requests over shared credentials: drive_executions in         *)
(* concord_core/src/client/execute.rs with the send flow it calls          *)
(* (client/send_flow.rs) and the authentication orchestrator               *)
(* (auth/orchestrator.rs, auth/plan.rs).                                   *)
(*                                                                         *)
(* A request leases one credential per auth requirement, produces its      *)
(* body, takes a rate-limit permit, sends once, observes the response and  *)
(* classifies it.  A 401 or 403 becomes a rejection plan: the credentials  *)
(* it names are invalidated by generation, and at most once the request is *)
(* prepared and sent again.                                                *)
(*                                                                         *)
(* The slot of a credential is seen through LeaseRegister, which           *)
(* CredentialSlot implements: a generation, and whether it holds a         *)
(* credential.  An action runs from one await, or one slot's critical      *)
(* section, to the next; a request's future can be dropped at an await     *)
(* and nowhere else.                                                       *)
(***************************************************************************)
EXTENDS Integers, Sequences, FiniteSets

CONSTANTS
    DriveRequests,  \* the requests in flight
    Credentials,    \* the credentials they share
    Refreshable,    \* those whose binding has AuthChallengeMode::Refresh
    Requirements,   \* Requirements[r]: the auth requirements of r, in order
    MaxGeneration   \* u64::MAX in the code: checked_add fails beyond it

AuthChallengePolicy == {"NeverRecover", "Unauthorized", "UnauthorizedOrForbidden"}
AuthRequirement == [credential : Credentials, challenge : AuthChallengePolicy]

ASSUME RequirementsAssumption == Requirements \in [DriveRequests -> Seq(AuthRequirement)]
ASSUME RefreshableAssumption == Refreshable \subseteq Credentials
ASSUME GenerationAssumption == MaxGeneration \in Nat

VARIABLES
    slot,       \* slot[c]: generation, and whether a credential is held under it
    recipe,     \* recipe[r]: the request's RequestBodyRecipe
    pc,         \* pc[r]: where r is in drive_executions
    outcome,    \* outcome[r]: how the request ended
    applied,    \* applied[r]: generation leased for each requirement so far
    status,     \* status[r]: status of the response in hand
    plan,       \* plan[r]: the requirements that the rejection plan acts on
    todo,       \* todo[r]: the part of plan[r] not applied yet
    then,       \* then[r]: what follows the application of the plan
    budget,     \* AuthenticationRecoveryBudget.initiated
    count,      \* count[r]: bodies produced and executions sent
    first,      \* history: the uses dealt with before r was sent again
    challenged, \* history: credential generations a 401 or 403 came back for
    removed,    \* history: credential generations removed by a rejection
    settled     \* history: credential generations a plan has dealt with

localVars == <<applied, status, plan, todo, then>>
requestVars == <<recipe, pc, outcome, localVars, budget, count, first>>
history == <<challenged, removed, settled>>
driveVars == <<slot, requestVars, history>>
-----------------------------------------------------------------------------
Uses(r) == 1 .. Len(Requirements[r])
CredentialOf(r, i) == Requirements[r][i].credential
Use(c, g) == [credential |-> c, gen |-> g]

Generations == 0 .. MaxGeneration
Recipes == {"Replayable", "OneShot"}
Statuses == {"Success", "Unauthorized", "Forbidden", "OtherError"}
\* PreparedBody::is_replayable
IsReplayable(r) == recipe[r] = "Replayable"

DriveInit ==
    /\ slot = [c \in Credentials |-> [gen |-> 0, live |-> FALSE]]
    /\ recipe \in [DriveRequests -> Recipes]
    /\ pc = [r \in DriveRequests |-> "preflight"]
    /\ outcome = [r \in DriveRequests |-> "none"]
    /\ applied = [r \in DriveRequests |-> <<>>]
    /\ status = [r \in DriveRequests |-> "Success"]
    /\ plan = [r \in DriveRequests |-> {}]
    /\ todo = [r \in DriveRequests |-> {}]
    /\ then = [r \in DriveRequests |-> "none"]
    /\ budget = [r \in DriveRequests |-> FALSE]
    /\ count = [r \in DriveRequests |-> [bodies |-> 0, sends |-> 0]]
    /\ first = [r \in DriveRequests |-> {}]
    /\ challenged = {}
    /\ removed = {}
    /\ settled = {}
-----------------------------------------------------------------------------
(* Leaving an action: at another point of drive_executions, or out of it   *)

Goto(r, l) == pc' = [pc EXCEPT ![r] = l] /\ UNCHANGED outcome

\* drive_executions returns, and its locals are gone
Finish(r, result) ==
    /\ pc' = [pc EXCEPT ![r] = "done"]
    /\ outcome' = [outcome EXCEPT ![r] = result]
    /\ applied' = [applied EXCEPT ![r] = <<>>]
    /\ status' = [status EXCEPT ![r] = "Success"]
    /\ plan' = [plan EXCEPT ![r] = {}]
    /\ todo' = [todo EXCEPT ![r] = {}]
    /\ then' = [then EXCEPT ![r] = "none"]
    /\ UNCHANGED <<recipe, budget, count, first>>

Continue(r, l) == Goto(r, l) /\ UNCHANGED <<recipe, localVars, budget, count, first>>

\* A `?` on a call that fails
Fail(r) == Finish(r, "error")
-----------------------------------------------------------------------------
(* Before the send                                                         *)

\* The public head, the placement plan and the URL are checked and the auth
\* state is read.  The checks see nothing that changes between two
\* iterations, so only the first one fails.
PreflightFails(r) ==
    /\ pc[r] = "preflight"
    /\ ~budget[r]
    /\ Fail(r)
    /\ UNCHANGED <<slot, history>>

\* A pending challenge is applied before the next preparation
Preflight(r) ==
    /\ pc[r] = "preflight"
    /\ Continue(r, IF then[r] = "resend" THEN "apply" ELSE "prepare")
    /\ UNCHANGED <<slot, history>>

NextUse(r) == Len(applied[r]) + 1

\* prepare_binding for the next requirement.  get_or_refresh returns the
\* credential it finds, or one that it acquires under a new generation.
PrepareBinding(r) ==
    /\ pc[r] = "prepare"
    /\ NextUse(r) \in Uses(r)
    /\ LET c == CredentialOf(r, NextUse(r))
           g == IF slot[c].live THEN slot[c].gen ELSE slot[c].gen + 1
       IN  /\ g <= MaxGeneration
           /\ slot' = [slot EXCEPT ![c] = [gen |-> g, live |-> TRUE]]
           /\ applied' = [applied EXCEPT ![r] = Append(@, g)]
    /\ UNCHANGED <<recipe, pc, outcome, status, plan, todo, then, budget, count, first, history>>

\* The provider fails, a stored failure is returned, or the credential cannot
\* be materialised for its placement
PrepareFails(r) ==
    /\ pc[r] = "prepare"
    /\ NextUse(r) \in Uses(r)
    /\ LET c == CredentialOf(r, NextUse(r)) IN
         \/ UNCHANGED slot
         \/ /\ slot[c].gen < MaxGeneration
            /\ slot' = [slot EXCEPT ![c] = [gen |-> @.gen + 1, live |-> FALSE]]
    /\ Fail(r)
    /\ UNCHANGED history

\* Counts a body or a send of r, which goes on at l
Tick(r, field, l) ==
    /\ count' = [count EXCEPT ![r][field] = @ + 1]
    /\ Goto(r, l)
    /\ UNCHANGED <<recipe, localVars, budget, first>>

\* produce_execution_body: a one-shot body is taken out of its recipe
ProduceBody(r) ==
    /\ pc[r] = "prepare"
    /\ NextUse(r) \notin Uses(r)
    /\ IF ~IsReplayable(r) /\ count[r].bodies > 0
       THEN Finish(r, "consumed")
       ELSE Tick(r, "bodies", "permit")
    /\ UNCHANGED <<slot, history>>

\* The factory fails, or PublicRequestHead::finish cannot build the request
ProduceFails(r) ==
    /\ pc[r] = "prepare"
    /\ NextUse(r) \notin Uses(r)
    /\ Fail(r)
    /\ UNCHANGED <<slot, history>>

\* acquire_rate_limit_and_send: the limiter's acquire
AcquirePermit(r) ==
    /\ pc[r] = "permit"
    /\ Continue(r, "preSend") \/ Fail(r)
    /\ UNCHANGED <<slot, history>>

\* The body is within the limit as far as its length is known, the pre_send
\* hook agrees, the credentials are placed and Client::execute is called; or
\* one of these fails
SendBuiltRequest(r) ==
    /\ pc[r] = "preSend"
    /\ Tick(r, "sends", "send") \/ Fail(r)
    /\ UNCHANGED <<slot, history>>
-----------------------------------------------------------------------------
(* After the send                                                          *)

AllUses(r) == {Use(CredentialOf(r, i), applied[r][i]) : i \in Uses(r)}

\* The response head arrives
Respond(r, s) ==
    /\ pc[r] = "send"
    /\ status' = [status EXCEPT ![r] = s]
    /\ challenged' = IF s \in {"Unauthorized", "Forbidden"}
                     THEN challenged \cup AllUses(r) ELSE challenged
    /\ Goto(r, "observe")
    /\ UNCHANGED <<slot, recipe, applied, plan, todo, then, budget, count, first, removed, settled>>

\* No general retry: a transport failure is terminal
TransportFails(r) ==
    /\ pc[r] = "send"
    /\ Fail(r)
    /\ UNCHANGED <<slot, history>>

\* observe_transport_response: the post_response hook, then the limiter's
\* on_response.  When that fails the response is never classified.
Observe(r) ==
    /\ pc[r] = "observe"
    /\ Continue(r, "classify") \/ Fail(r)
    /\ UNCHANGED <<slot, history>>

\* auth_decision_for_status with the default AuthStepPolicy: the credential is
\* to be invalidated, and to be recovered if it can be
Decides(r, i) ==
    \/ /\ status[r] = "Unauthorized"
       /\ Requirements[r][i].challenge # "NeverRecover"
    \/ /\ status[r] = "Forbidden"
       /\ Requirements[r][i].challenge = "UnauthorizedOrForbidden"

\* plan_binding_rejection: AuthRejectionAction::Recover rather than Terminal
Recovers(r, i) == Decides(r, i) /\ CredentialOf(r, i) \in Refreshable

\* classify_auth_rejection: nothing for an unprotected request or another
\* status; else an action per use, of which append_validated keeps every
\* Terminal and the first Recover
RejectionPlan(r) ==
    IF status[r] \in {"Unauthorized", "Forbidden"}
    THEN {i \in Uses(r) : Recovers(r, i) => \A j \in 1 .. i - 1 : ~Recovers(r, j)}
    ELSE {}

RequestsRecovery(r) == \E i \in Uses(r) : Recovers(r, i)

\* Mutant: the recovery budget is not consulted
AfterRejectionUnbounded(r) ==
    CASE ~RequestsRecovery(r)                     -> "rejected"
      [] RequestsRecovery(r) /\ ~IsReplayable(r)  -> "status"
      [] RequestsRecovery(r) /\ IsReplayable(r)   -> "resend"

\* What the application of the plan is followed by
AfterRejection(r) ==
    CASE ~RequestsRecovery(r)                                  -> "rejected"
      [] RequestsRecovery(r) /\ ~IsReplayable(r)               -> "status"
      [] RequestsRecovery(r) /\ IsReplayable(r) /\ ~budget[r]  -> "resend"
      [] RequestsRecovery(r) /\ IsReplayable(r) /\ budget[r]   -> "rejected"

\* The challenged response is dropped unread before any credential is touched.
\* A resend first goes through the checks at the head of the loop.
ClassifyChallenge(r) ==
    /\ pc[r] = "classify"
    /\ RejectionPlan(r) # {}
    /\ plan' = [plan EXCEPT ![r] = RejectionPlan(r)]
    /\ todo' = [todo EXCEPT ![r] = RejectionPlan(r)]
    /\ then' = [then EXCEPT ![r] = AfterRejection(r)]
    /\ budget' = [budget EXCEPT ![r] = @ \/ AfterRejection(r) = "resend"]
    /\ Goto(r, IF AfterRejection(r) = "resend" THEN "preflight" ELSE "apply")
    /\ UNCHANGED <<slot, recipe, applied, status, count, first, history>>

\* classify_observed_transport_response: an error status is terminal
ClassifyStatus(r) ==
    /\ pc[r] = "classify"
    /\ RejectionPlan(r) = {}
    /\ IF status[r] = "Success" THEN Continue(r, "readBody") ELSE Finish(r, "status")
    /\ UNCHANGED <<slot, history>>

\* limit_response_body and buffer_response: the body is read up to its limit
ReadBody(r) ==
    /\ pc[r] = "readBody"
    /\ Finish(r, "ok") \/ Fail(r)
    /\ UNCHANGED <<slot, history>>
-----------------------------------------------------------------------------
(* apply_auth_rejection_plan                                               *)

NextAction(r, i) == i \in todo[r] /\ \A j \in todo[r] : i <= j

\* Mutant: whatever the slot holds is taken for what was applied
MatchesAny(r, i) == slot[CredentialOf(r, i)].live

\* The slot holds exactly the generation that was applied
Matches(r, i) ==
    LET c == CredentialOf(r, i) IN slot[c].live /\ slot[c].gen = applied[r][i]

\* The uses that the part of the plan applied so far must have dealt with
Dealt(r) ==
    {Use(CredentialOf(r, i), applied[r][i]) : i \in {j \in plan[r] \ todo[r] : Decides(r, j)}}

\* Mutant: a challenge that ends the request leaves the slot alone
ApplyActionOnResendOnly(r, i) ==
    /\ pc[r] = "apply"
    /\ NextAction(r, i)
    /\ LET c == CredentialOf(r, i) IN
       IF Decides(r, i) /\ Matches(r, i) /\ then[r] = "resend"
       THEN /\ slot[c].gen < MaxGeneration
            /\ slot' = [slot EXCEPT ![c] = [gen |-> @.gen + 1, live |-> FALSE]]
            /\ removed' = removed \cup {Use(c, slot[c].gen)}
       ELSE UNCHANGED <<slot, removed>>
    /\ todo' = [todo EXCEPT ![r] = @ \ {i}]
    /\ Goto(r, IF Recovers(r, i) /\ then[r] = "resend" THEN "providerInvalidate" ELSE "apply")
    /\ UNCHANGED <<recipe, applied, status, plan, then, budget, count, first, challenged, settled>>

\* Mutant: a Recover action does not clear the generation it is about
ApplyActionKeepsRecovered(r, i) ==
    /\ pc[r] = "apply"
    /\ NextAction(r, i)
    /\ LET c == CredentialOf(r, i) IN
       IF Decides(r, i) /\ Matches(r, i) /\ ~Recovers(r, i)
       THEN /\ slot[c].gen < MaxGeneration
            /\ slot' = [slot EXCEPT ![c] = [gen |-> @.gen + 1, live |-> FALSE]]
            /\ removed' = removed \cup {Use(c, slot[c].gen)}
       ELSE UNCHANGED <<slot, removed>>
    /\ todo' = [todo EXCEPT ![r] = @ \ {i}]
    /\ Goto(r, IF Recovers(r, i) /\ then[r] = "resend" THEN "providerInvalidate" ELSE "apply")
    /\ UNCHANGED <<recipe, applied, status, plan, then, budget, count, first, challenged, settled>>

\* apply_binding_rejection and apply_binding_rejection_invalidation_only: the
\* slot drops the applied generation, if it still holds it.  Only a Recover
\* action on the resend path goes on to await provider.invalidate.
ApplyAction(r, i) ==
    /\ pc[r] = "apply"
    /\ NextAction(r, i)
    /\ LET c == CredentialOf(r, i) IN
       IF Decides(r, i) /\ Matches(r, i)
       THEN /\ slot[c].gen < MaxGeneration
            /\ slot' = [slot EXCEPT ![c] = [gen |-> @.gen + 1, live |-> FALSE]]
            /\ removed' = removed \cup {Use(c, slot[c].gen)}
       ELSE UNCHANGED <<slot, removed>>
    /\ todo' = [todo EXCEPT ![r] = @ \ {i}]
    /\ Goto(r, IF Recovers(r, i) /\ then[r] = "resend" THEN "providerInvalidate" ELSE "apply")
    /\ UNCHANGED <<recipe, applied, status, plan, then, budget, count, first, challenged, settled>>

\* The generation counter is exhausted: the slot is left as it is
ApplyOverflows(r, i) ==
    /\ pc[r] = "apply"
    /\ NextAction(r, i)
    /\ Decides(r, i) /\ Matches(r, i)
    /\ slot[CredentialOf(r, i)].gen = MaxGeneration
    /\ Fail(r)
    /\ settled' = settled \cup Dealt(r)
    /\ UNCHANGED <<slot, challenged, removed>>

ProviderInvalidated(r) ==
    /\ pc[r] = "providerInvalidate"
    /\ Continue(r, "apply")
    /\ UNCHANGED <<slot, history>>

\* The actions after this one are not applied
ProviderInvalidateFails(r) ==
    /\ pc[r] = "providerInvalidate"
    /\ Fail(r)
    /\ settled' = settled \cup Dealt(r)
    /\ UNCHANGED <<slot, challenged, removed>>

\* The plan is applied.  AuthRejectionStep::Retry prepares everything again
Resend(r) ==
    /\ Goto(r, "prepare")
    /\ applied' = [applied EXCEPT ![r] = <<>>]
    /\ plan' = [plan EXCEPT ![r] = {}]
    /\ then' = [then EXCEPT ![r] = "none"]
    /\ first' = [first EXCEPT ![r] = Dealt(r)]
    /\ UNCHANGED <<recipe, status, todo, budget, count>>

\* Resend, or return the status of the challenged response, or report that
\* the challenge was rejected
ConcludePlan(r) ==
    /\ pc[r] = "apply"
    /\ todo[r] = {}
    /\ settled' = settled \cup Dealt(r)
    /\ IF then[r] = "resend" THEN Resend(r) ELSE Finish(r, then[r])
    /\ UNCHANGED <<slot, challenged, removed>>
-----------------------------------------------------------------------------
(* The caller and the other users of the credentials                       *)

\* Where the future of a request is suspended
Suspended(r) ==
    \/ pc[r] \in {"permit", "preSend", "send", "observe", "providerInvalidate", "readBody"}
    \/ pc[r] = "prepare" /\ NextUse(r) \in Uses(r)

\* The caller drops it there
Cancel(r) ==
    /\ Suspended(r)
    /\ Finish(r, "cancelled")
    /\ settled' = settled \cup Dealt(r)
    /\ UNCHANGED <<slot, challenged, removed>>

\* Another task refreshes, sets or clears the credential (LeaseRegister!Supersede)
Supersede(c) ==
    /\ slot[c].gen < MaxGeneration
    /\ \E live \in BOOLEAN : slot' = [slot EXCEPT ![c] = [gen |-> @.gen + 1, live |-> live]]
    /\ UNCHANGED <<requestVars, history>>

\* Another task's attempt ends with a credential (LeaseRegister!Fill)
Fill(c) ==
    /\ ~slot[c].live
    /\ slot' = [slot EXCEPT ![c].live = TRUE]
    /\ UNCHANGED <<requestVars, history>>
-----------------------------------------------------------------------------
\* One visible execution, up to the classification of its response
Execution(r) ==
    \/ PreflightFails(r)
    \/ Preflight(r)
    \/ PrepareBinding(r)
    \/ PrepareFails(r)
    \/ ProduceBody(r)
    \/ ProduceFails(r)
    \/ AcquirePermit(r)
    \/ SendBuiltRequest(r)
    \/ \E s \in Statuses : Respond(r, s)
    \/ TransportFails(r)
    \/ Observe(r)
    \/ ClassifyChallenge(r)
    \/ ClassifyStatus(r)
    \/ ReadBody(r)

ApplyRejectionPlan(r) ==
    \/ \E i \in Uses(r) : ApplyAction(r, i) \/ ApplyOverflows(r, i)
    \/ ProviderInvalidated(r)
    \/ ProviderInvalidateFails(r)
    \/ ConcludePlan(r)

DriveExecutions(r) == Execution(r) \/ ApplyRejectionPlan(r)

DriveNext ==
    \/ \E r \in DriveRequests : DriveExecutions(r) \/ Cancel(r)
    \/ \E c \in Credentials : Supersede(c) \/ Fill(c)

DriveSpec == DriveInit /\ [][DriveNext]_driveVars

-----------------------------------------------------------------------------
(* Properties                                                              *)

\* At most one recovery, only of a request whose body can be built again, and
\* a fresh body for each execution.  A one-shot body is never asked for twice: a
\* challenge ends the request with its status, so the error for a consumed body
\* is unreachable.
BoundedExecutions ==
    \A r \in DriveRequests :
      /\ count[r].sends <= count[r].bodies
      /\ count[r].bodies <= IF budget[r] /\ IsReplayable(r) THEN 2 ELSE 1
      /\ ~IsReplayable(r) => outcome[r] # "consumed" /\ ~budget[r]

\* A credential generation that a rejection plan has dealt with is out of its
\* slot for good, however the request then ended (resend, error, cancellation)
\* and whatever the other requests did meanwhile.
SettledStaysGone ==
    \A u \in settled : ~(slot[u.credential].live /\ slot[u.credential].gen = u.gen)

\* Only a generation that the server challenged is ever removed: a late
\* challenge cannot remove the credential that replaced the one it is about.
RemovalWasChallenged == removed \subseteq challenged

\* The second execution carries a newer generation of every credential that
\* the challenge to the first one dealt with.
ResendIsFresh ==
    \A r \in DriveRequests :
      \A u \in first[r], i \in 1 .. Len(applied[r]) :
        CredentialOf(r, i) = u.credential => applied[r][i] > u.gen

\* After a rejected challenge every credential for which the challenge policy
\* decides on invalidation is out of its slot.
RejectionInvalidatesAll ==
    [][\A r \in DriveRequests :
         outcome[r] = "none" /\ outcome'[r] = "rejected" =>
           \A i \in Uses(r) : Decides(r, i) => ~Matches(r, i)]_driveVars

=============================================================================
