---------------------------- MODULE RateLimitKeys ----------------------------
(***************************************************************************)
(* What the rate limiter knows a request by, and what it reads in a         *)
(* response: the cooldown keys of RateLimitCooldownKey, the windows of a    *)
(* plan, the response policies of concord_core/src/rate_limit/response.rs.  *)
(*                                                                          *)
(* A request (RateLimitContext) is a record of endpoint, method, url, host, *)
(* or NoHost, and a plan: a sequence of buckets, each with kind, name, key, *)
(* windows and cost.  A part of a key is "endpoint", "method", "host" or a  *)
(* static value.                                                            *)
(***************************************************************************)
EXTENDS Integers, Sequences, SequencesExt

NoHost == "no host"

(* ---------------------------------- keys --------------------------------- *)

resolve_key_part_value(ctx, part) ==
  CASE part = "endpoint" -> ctx.endpoint
    [] part = "method" -> ctx.method
    [] part = "host" -> ctx.host
    [] OTHER -> part

\* ResolvedRateLimitKey: each part with its name.
resolve_key(ctx, key) == [i \in DOMAIN key |-> <<key[i], resolve_key_part_value(ctx, key[i])>>]

\* missing_host_key_error: a bucket has `[host]` in its key, the URL has no host.
MissingHost(ctx) ==
  /\ ctx.host = NoHost
  /\ \E i \in DOMAIN ctx.plan : \E j \in DOMAIN ctx.plan[i].key : ctx.plan[i].key[j] = "host"

client_cooldown_key == [t |-> "Client"]
request_cooldown_key(ctx) ==
  [t |-> "Request", method |-> ctx.method, endpoint |-> ctx.endpoint, url |-> ctx.url]
endpoint_cooldown_key(ctx) == [t |-> "Endpoint", method |-> ctx.method, endpoint |-> ctx.endpoint]
host_cooldown_key(ctx) == [t |-> "Host", host |-> ctx.host]
bucket_kind_cooldown_key(ctx, b) ==
  [t |-> "BucketKind", kind |-> b.kind, key |-> resolve_key(ctx, b.key)]
bucket_cooldown_key(ctx, b) ==
  [t |-> "Bucket", kind |-> b.kind, name |-> b.name, key |-> resolve_key(ctx, b.key)]

Buckets(ctx) == {ctx.plan[i] : i \in DOMAIN ctx.plan}

\* The types that matter of a RateLimitContext: costs and window sizes are NonZeroU32.
IsContext(ctx) ==
  /\ ctx.plan \in Seq(Buckets(ctx))
  /\ \A b \in Buckets(ctx) : /\ b.cost \in Nat \ {0}
                             /\ b.windows \in Seq([max : Nat \ {0}, per : Nat])

\* Mutant: the keys of bucket kinds are not looked up
AcquireKeysWithoutKinds(ctx) ==
  {client_cooldown_key, endpoint_cooldown_key(ctx), request_cooldown_key(ctx)}
  \cup (IF ctx.host = NoHost THEN {} ELSE {host_cooldown_key(ctx)})
  \cup {bucket_cooldown_key(ctx, b) : b \in Buckets(ctx)}

cooldown_keys_for_acquire(ctx) ==
  {client_cooldown_key, endpoint_cooldown_key(ctx), request_cooldown_key(ctx)}
  \cup (IF ctx.host = NoHost THEN {} ELSE {host_cooldown_key(ctx)})
  \cup {bucket_kind_cooldown_key(ctx, b) : b \in Buckets(ctx)}
  \cup {bucket_cooldown_key(ctx, b) : b \in Buckets(ctx)}

(* --------------------------------- targets ------------------------------- *)

\* A RateLimitTarget with its fallbacks, as the sequence of the alternatives.
Target(t) == <<[t |-> t]>>
current_plan_or(fallback) == Target("CurrentPlan") \o fallback
current_plan_or_endpoint == current_plan_or(Target("Endpoint"))
bucket_kind(kind, fallback) == <<[t |-> "BucketKind", kind |-> kind]>> \o fallback
bucket(id, fallback) == <<[t |-> "Bucket", id |-> id]>> \o fallback

\* The buckets of the plan that an alternative names; none for the other ones.
Named(ctx, target) ==
  {b \in Buckets(ctx) : CASE target.t = "CurrentPlan" -> TRUE
                          [] target.t = "BucketKind" -> b.kind = target.kind
                          [] target.t = "Bucket" -> <<b.kind, b.name>> = target.id
                          [] OTHER -> FALSE}

HasFallback(target) == target.t \in {"CurrentPlan", "BucketKind", "Bucket"}

\* A RateLimitTarget is finite: its last alternative has no fallback.
IsTarget(targets) ==
  /\ Len(targets) \in Nat \ {0} /\ DOMAIN targets = 1 .. Len(targets)
  /\ ~ HasFallback(targets[Len(targets)])

\* The first alternative that does not give way to its fallback.
Effective(ctx, targets) ==
  targets[CHOOSE i \in DOMAIN targets :
            LET decides(j) == ~ HasFallback(targets[j]) \/ Named(ctx, targets[j]) # {}
            IN  decides(i) /\ \A j \in 1 .. i - 1 : ~ decides(j)]

\* Keys, or an error for the host of a URL that has none.
cooldown_keys_for_target(ctx, targets) ==
  LET target == Effective(ctx, targets)
  IN  CASE target.t = "None" -> {}
        [] target.t = "Request" -> {request_cooldown_key(ctx)}
        [] target.t = "Endpoint" -> {endpoint_cooldown_key(ctx)}
        [] target.t = "Host" -> {host_cooldown_key(ctx)}
        [] target.t = "Client" -> {client_cooldown_key}
        [] target.t = "BucketKind" -> {bucket_kind_cooldown_key(ctx, b) : b \in Named(ctx, target)}
        [] OTHER -> {bucket_cooldown_key(ctx, b) : b \in Named(ctx, target)}

TargetFails(ctx, targets) == Effective(ctx, targets).t = "Host" /\ ctx.host = NoHost

(* --------------------------------- windows ------------------------------- *)

\* The GovernorWindowSpecs of a plan in the order in which acquire visits them, each
\* with the cost of its bucket.
PlanWindows(ctx) ==
  FlattenSeq([i \in DOMAIN ctx.plan |->
    LET b == ctx.plan[i]
    IN  [j \in DOMAIN b.windows |->
           [spec |-> [kind |-> b.kind, name |-> b.name, key |-> resolve_key(ctx, b.key),
                      window |-> b.windows[j]],
            cost |-> b.cost]]])

\* quota_for_window: per_cell is not zero.
UsableWindow(window) == window.per > 0 /\ window.per \div window.max > 0

(* -------------------------------- responses ------------------------------ *)

IsRetryAfter(header) == header.t \in {"seconds", "date"} => header.value \in Nat
IsPolicy(policy) ==
  \/ policy.t \in {"Default", "Scoped"}
  \/ policy.t = "Observer" /\ IsTarget(policy.target)

\* parse_retry_after_value: seconds, or a date that may have passed; anything else
\* is as if there were no header.
parse_retry_after(header, now) ==
  CASE header.t = "seconds" -> <<header.value>>
    [] header.t = "date" -> <<IF header.value > now THEN header.value - now ELSE 0>>
    [] OTHER -> <<>>

Continue_ == [limited |-> FALSE, delay |-> <<>>, target |-> Target("None")]
Limited == [limited |-> TRUE, delay |-> <<>>, target |-> current_plan_or_endpoint]

with_delay(o, delay) == [o EXCEPT !.delay = <<delay>>]
with_target(o, target) == [o EXCEPT !.target = target]
on_429(response) == IF response.status = "429" THEN Limited ELSE Continue_

\* An empty header says nothing.
scope_header(o, response) ==
  IF response.scope = "" THEN o
  ELSE with_target(o, bucket_kind(response.scope, current_plan_or_endpoint))

retry_after_header(o, response, now) ==
  LET delay == parse_retry_after(response.retryAfter, now)
  IN  IF delay = <<>> THEN o ELSE with_delay(o, delay[1])

\* DefaultRateLimitResponsePolicy; the builder ctx.on_429().scope_header(..).retry_after();
\* and observers that name a target of their own.
observe(policy, response, now) ==
  CASE policy.t = "Default" -> IF response.status # "429" THEN Continue_
                               ELSE retry_after_header(Limited, response, now)
    [] policy.t = "Scoped" -> retry_after_header(scope_header(on_429(response), response), response, now)
    [] policy.t = "Observer" -> IF response.status # "429" THEN Continue_
                                ELSE with_target(retry_after_header(Limited, response, now), policy.target)
==============================================================================
