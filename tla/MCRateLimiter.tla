--------------------------- MODULE MCRateLimiter ---------------------------
(* Five scenarios: callers that share one window and are answered for its    *)
(* bucket or its kind; callers with several windows in tables that have room *)
(* for one; callers without a host; a target that comes to no key; and a     *)
(* build without the governor.                                               *)
EXTENDS RateLimiter, TLC

CONSTANTS c1, c2, c3, c4

Per(max, per) == [max |-> max, per |-> per]
Bucket(kind, name, key, list, cost) ==
    [kind |-> kind, name |-> name, key |-> key, windows |-> list, cost |-> cost]
Get(url, host, plan) ==
    [endpoint |-> "List", method |-> "GET", url |-> url, host |-> host, plan |-> plan]

App(cost) == Bucket("app", "burst", <<"host">>, <<Per(2, 2)>>, cost)

\* One bucket for everybody; c2 costs two cells
Shared ==
    [governed |-> TRUE, policy |-> [t |-> "Scoped"],
     requests |-> (c1 :> Get("/a", "h", <<App(1)>>)) @@ (c2 :> Get("/b", "h", <<App(2)>>))
                  @@ (c3 :> Get("/a", "h", <<App(1)>>)),
     maxCooldown |-> [c \in {c1, c2, c3} |-> IF c = c2 THEN 1 ELSE 2],
     cooldownEntries |-> 1, windowEntries |-> 1, idleTtl |-> 0,
     calls |-> [c \in {c1, c2, c3} |-> IF c = c2 THEN 1 ELSE 2]]

Method == Bucket("method", "list", <<"endpoint", "method">>, <<Per(1, 1)>>, 1)
Slow == Bucket("app", "slow", <<"v1">>, <<Per(1, 2)>>, 1)
Unusable == Bucket("app", "none", <<>>, <<Per(2, 0)>>, 1)
Costly == Bucket("app", "slow", <<"v1">>, <<Per(1, 2)>>, 2)

\* c1 and c3 go through two windows and are answered for the whole plan, c2 meets a
\* window without a quota
Split ==
    [governed |-> TRUE, policy |-> [t |-> "Default"],
     requests |-> (c1 :> Get("/a", "h", <<Method, Slow>>)) @@ (c3 :> Get("/a", "h", <<Method, Slow>>))
                  @@ (c2 :> Get("/b", "i", <<Unusable>>)),
     maxCooldown |-> [c \in {c1, c2, c3} |-> IF c = c2 THEN 1 ELSE 3],
     cooldownEntries |-> 3, windowEntries |-> 1, idleTtl |-> 1,
     calls |-> [c \in {c1, c2, c3} |-> 1]]

\* c1 and c3 cost more than their window holds; the others have URLs without a host,
\* under a policy that wants to cool the host down
Hostless ==
    [governed |-> TRUE, policy |-> [t |-> "Observer", target |-> Target("Host")],
     requests |-> (c2 :> Get("/a", NoHost, <<>>)) @@ (c4 :> Get("/a", NoHost, <<App(1)>>))
                  @@ (c1 :> Get("/c", "i", <<Costly>>)) @@ (c3 :> Get("/c", "i", <<Costly>>)),
     maxCooldown |-> [c \in {c1, c2, c3, c4} |-> 2],
     cooldownEntries |-> 1, windowEntries |-> 1, idleTtl |-> 1,
     calls |-> [c \in {c1, c2, c3, c4} |-> 1]]

\* No governor: one plan is empty
Disabled ==
    [governed |-> FALSE, policy |-> [t |-> "Default"],
     requests |-> (c2 :> Get("/a", "h", <<>>)) @@ (c4 :> Get("/a", "h", <<App(1)>>)),
     maxCooldown |-> [c \in {c2, c4} |-> 2],
     cooldownEntries |-> 1, windowEntries |-> 1, idleTtl |-> 1,
     calls |-> [c \in {c2, c4} |-> 1]]

\* The plan that the policy wants to cool down is empty, and there is no fallback
Silent ==
    [governed |-> TRUE, policy |-> [t |-> "Observer", target |-> current_plan_or(Target("None"))],
     requests |-> c2 :> Get("/a", "h", <<>>), maxCooldown |-> c2 :> 2,
     cooldownEntries |-> 1, windowEntries |-> 1, idleTtl |-> 1, calls |-> c2 :> 2]

MCScenarios == {Shared, Split, Hostless, Disabled, Silent}
MCResponses ==
    {[status |-> "200", retryAfter |-> [t |-> "seconds", value |-> 1], scope |-> "app"],
     [status |-> "429", retryAfter |-> [t |-> "seconds", value |-> 1], scope |-> "app"],
     [status |-> "429", retryAfter |-> [t |-> "date", value |-> 4], scope |-> "other"],
     [status |-> "429", retryAfter |-> [t |-> "absent"], scope |-> ""]}

\* c1 and c3 are alike in every scenario
Twins == Permutations({c1, c3})
============================================================================
