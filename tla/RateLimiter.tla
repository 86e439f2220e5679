----------------------------- MODULE RateLimiter -----------------------------
(***************************************************************************)
(* The default rate limiter: GovernorRateLimiter in                        *)
(* concord_core/src/rate_limit/governor_runtime.rs.                        *)
(*                                                                         *)
(* Callers share two tables.  The cooldown table maps a key (the client, a *)
(* host, an endpoint, a request, a bucket) to the instant before which     *)
(* nobody whose request has that key may be admitted; a limited response   *)
(* extends it.  The window table caches one governor per window of a       *)
(* bucket, is pruned of idle entries and evicts the oldest ones at its     *)
(* limit.  acquire waits for the cooldowns, then for each window in turn.  *)
(*                                                                         *)
(* A scenario is a configuration of the limiter and the requests that each  *)
(* caller makes.  Without the rate-limit-governor feature the limiter only  *)
(* tells empty plans from others (no_governor_default.rs).                  *)
(***************************************************************************)
EXTENDS RateLimitKeys, FiniteSets, FiniteSetsExt, Functions

CONSTANTS
    Callers,            \* concurrent executions
    Scenarios,          \* set of [governed, requests, policy, maxCooldown,
                        \*   cooldownEntries, windowEntries, idleTtl, calls]
    Responses,          \* [status, retryAfter, scope]: what a server may answer
    MaxTime             \* bound on the clock

ASSUME ScenariosAssumption ==
    \A x \in Scenarios :
      /\ x.governed \in BOOLEAN /\ DOMAIN x.requests \subseteq Callers
      /\ \A c \in DOMAIN x.requests : IsContext(x.requests[c])
      /\ IsPolicy(x.policy)
      /\ x.maxCooldown \in [DOMAIN x.requests -> Nat]
      /\ x.cooldownEntries \in Nat \ {0} /\ x.windowEntries \in Nat \ {0}
      /\ x.idleTtl \in Nat /\ x.calls \in [DOMAIN x.requests -> Nat]
ASSUME ResponsesAssumption == \A r \in Responses : IsRetryAfter(r.retryAfter)
ASSUME BoundsAssumption == MaxTime \in Nat \ {0} /\ IsFiniteSet(Callers)

VARIABLES
    setup,      \* the scenario, and what its requests come to
    now,        \* Instant::now()
    cooldown,   \* cooldown[k]: `until` of the entry of k, 0 when there is none
    windows,    \* windows[s]: the cached governor of s, NoEntry when there is none
    nextPrune,  \* next_prune_at, Never when it is None
    arrival,    \* arrival[n]: theoretical arrival time of governor n
    pc,         \* pc[c]: where c is in acquire, or between acquire and on_response
    wake,       \* wake[c]: when c's sleep ends
    step,       \* step[c]: the window of the plan that c is at
    governor,   \* governor[c]: the governor that c waits for, or 0
    calls,      \* calls[c]: executions of c so far
    seen,       \* history: when the cooldowns end that c's wait has to sit out
    admitted,   \* history: admitted[s][t]: cells of s taken at time t
    dropped     \* history: windows that were pruned or evicted

tableVars == <<cooldown, windows, nextPrune, arrival>>
callerVars == <<pc, wake, step, governor, calls, seen>>
vars == <<setup, now, tableVars, callerVars, admitted, dropped>>
-----------------------------------------------------------------------------
\* The keys of a scenario's requests and of the targets that its responses can
\* have, its windows, and what of them is each caller's.
Setup(x) ==
    LET actors == DOMAIN x.requests
        targets == {observe(x.policy, r, 0).target : r \in Responses}
        keysFor(c, t) == cooldown_keys_for_target(x.requests[c], t)
        specs == UNION {{w.spec : w \in ToSet(PlanWindows(x.requests[c]))} : c \in actors}
    IN  [config |-> x,
         keys |-> UNION {cooldown_keys_for_acquire(x.requests[c])
                         \cup UNION {keysFor(c, t) : t \in targets} : c \in actors},
         windows |-> [s \in specs |-> s.window],
         acquireKeys |-> [c \in actors |-> cooldown_keys_for_acquire(x.requests[c])],
         targetKeys |-> [c \in actors |-> [t \in targets |-> keysFor(c, t)]],
         plan |-> [c \in actors |-> PlanWindows(x.requests[c])]]

Config == setup.config
Active == DOMAIN Config.requests
Request(c) == Config.requests[c]
Plan(c) == setup.plan[c]
MaxCooldown(c) == Config.maxCooldown[c]
IdleTtl == Config.idleTtl
Keys == setup.keys
Specs == DOMAIN setup.windows
Window(s) == setup.windows[s]

Times == 0 .. MaxTime
Governors == 1 .. Cardinality(Specs) + Cardinality(Callers)
NoEntry == [governor |-> 0, lastUsed |-> 0]
Never == MaxTime + 1

Init ==
    /\ setup \in {Setup(x) : x \in Scenarios}
    /\ now = 1
    /\ cooldown = [k \in Keys |-> 0]
    /\ windows = [s \in Specs |-> NoEntry]
    /\ nextPrune = Never
    /\ arrival = [n \in Governors |-> 0]
    /\ pc = [c \in Callers |-> "idle"]
    /\ wake = [c \in Callers |-> 0]
    /\ step = [c \in Callers |-> 1]
    /\ governor = [c \in Callers |-> 0]
    /\ calls = [c \in Callers |-> 0]
    /\ seen = [c \in Callers |-> 0]
    /\ admitted = [s \in Specs |-> [t \in Times |-> 0]]
    /\ dropped = {}

Larger(a, b) == IF a > b THEN a ELSE b
Smaller(a, b) == IF a < b THEN a ELSE b
Still(end) == IF end > now THEN end ELSE 0
Goto(c, l) == pc' = [pc EXCEPT ![c] = l]

\* The acquire or the execution of c is over and its local state is gone
Leave(c) ==
    /\ Goto(c, "idle")
    /\ wake' = [wake EXCEPT ![c] = 0]
    /\ step' = [step EXCEPT ![c] = 1]
    /\ governor' = [governor EXCEPT ![c] = 0]
-----------------------------------------------------------------------------
(* Cooldowns                                                               *)

\* prune_cooldowns: an entry that has ended is dropped
PruneCooldowns(m) == [k \in Keys |-> IF m[k] > now THEN m[k] ELSE 0]

\* The end of the longest cooldown on the keys of c, or 0
CooldownEnd(c, m) == Max({m[k] : k \in setup.acquireKeys[c]} \cup {0})

\* acquire begins.  A key that needs a host fails on a URL without one.
Acquire(c) ==
    /\ Config.governed
    /\ pc[c] = "idle"
    /\ calls[c] < Config.calls[c]
    /\ calls' = [calls EXCEPT ![c] = @ + 1]
    /\ \/ /\ ~ MissingHost(Request(c))
          /\ seen' = [seen EXCEPT ![c] = Larger(@, CooldownEnd(c, cooldown))]
          /\ Goto(c, "cooldown")
       \/ /\ MissingHost(Request(c))
          /\ UNCHANGED <<pc, seen>>
    /\ UNCHANGED <<setup, now, tableVars, wake, step, governor, admitted, dropped>>

\* acquire without the governor: a plan that is not empty is an error
AcquireDisabled(c) ==
    /\ ~ Config.governed
    /\ pc[c] = "idle"
    /\ calls[c] < Config.calls[c]
    /\ calls' = [calls EXCEPT ![c] = @ + 1]
    /\ Goto(c, IF Request(c).plan = <<>> THEN "permitted" ELSE "idle")
    /\ UNCHANGED <<setup, now, tableVars, wake, step, governor, seen, admitted, dropped>>

\* wait_cooldown: an iteration that finds no cooldown
CooldownOver(c) ==
    /\ pc[c] = "cooldown"
    /\ CooldownEnd(c, PruneCooldowns(cooldown)) = 0
    /\ cooldown' = PruneCooldowns(cooldown)
    /\ Goto(c, "window")
    /\ UNCHANGED <<setup, now, windows, nextPrune, arrival, wake, step, governor, calls, seen, admitted, dropped>>

\* wait_cooldown: an iteration that finds one and sleeps, or fails if it is
\* longer than this client's maximum
WaitCooldown(c) ==
    LET live == PruneCooldowns(cooldown)
        delay == CooldownEnd(c, live) - now
    IN  /\ pc[c] = "cooldown"
        /\ delay > 0
        /\ cooldown' = live
        /\ \/ /\ delay > MaxCooldown(c)
              /\ Leave(c)
              /\ seen' = [seen EXCEPT ![c] = Still(@)]
           \/ /\ delay <= MaxCooldown(c)
              /\ Goto(c, "sleep")
              /\ wake' = [wake EXCEPT ![c] = now + delay]
              /\ UNCHANGED <<step, governor, seen>>
        /\ UNCHANGED <<setup, now, windows, nextPrune, arrival, calls, admitted, dropped>>

\* tokio::time::sleep ends, and the loop of wait_cooldown goes round
SleepEnds(c) ==
    /\ pc[c] = "sleep"
    /\ now >= wake[c]
    /\ Goto(c, "cooldown")
    /\ wake' = [wake EXCEPT ![c] = 0]
    /\ UNCHANGED <<setup, now, tableVars, step, governor, calls, seen, admitted, dropped>>

\* on_response and store_observation: the observation with its delay capped
Observed(c, response) ==
    LET o == observe(Config.policy, response, now)
    IN  IF o.delay = <<>> THEN o ELSE with_delay(o, Smaller(o.delay[1], MaxCooldown(c)))

\* The observation asks for a cooldown: it is limited, has a positive delay and a
\* target that is not the host of a URL without one, an error, and comes to a key
Storable(c, o) ==
    /\ o.limited /\ o.delay \notin {<<>>, <<0>>} /\ o.target # Target("None")
    /\ ~ TargetFails(Request(c), o.target)
    /\ setup.targetKeys[c][o.target] # {}

\* Nothing is stored
ObserveUnlimited(c) ==
    /\ pc[c] = "permitted" /\ Config.governed
    /\ \E response \in Responses : ~ Storable(c, Observed(c, response))
    /\ Leave(c)
    /\ seen' = [seen EXCEPT ![c] = Still(@)]
    /\ UNCHANGED <<setup, now, tableVars, calls, admitted, dropped>>

\* on_response without the governor, where only an empty plan was admitted
ObserveDisabled(c) ==
    /\ pc[c] = "permitted" /\ ~ Config.governed
    /\ Leave(c)
    /\ UNCHANGED <<setup, now, tableVars, calls, seen, admitted, dropped>>

\* store_cooldown: every target key is extended to the end of the new
\* cooldown, unless its own is later
Extended(keys, delay, live) ==
    [k \in Keys |-> IF k \in keys THEN Larger(live[k], now + delay) ELSE live[k]]

\* Mutant: the cap looks at what is there, not at what is added
CapExceededLate(keys, live) == Cardinality({k \in Keys : live[k] > 0}) > Config.cooldownEntries

\* The table would grow past max_cooldown_entries
CapExceeded(keys, live) ==
    Cardinality({k \in Keys : live[k] > 0} \cup keys) > Config.cooldownEntries

\* store_observation and store_cooldown for a limited response: ended entries are
\* dropped, and all target keys are stored or, at the cap, none.  The error at the
\* cap ends the request like the 429 does.  The history takes note of who has to sit
\* this one out: the callers that are waiting, and this one when it comes back.
StoreCooldown(c, response) ==
    LET o == Observed(c, response)
        keys == setup.targetKeys[c][o.target]
        live == PruneCooldowns(cooldown)
        stored == ~ CapExceeded(keys, live)
    IN  /\ pc[c] = "permitted" /\ Config.governed
        /\ Storable(c, o)
        /\ cooldown' = IF stored THEN Extended(keys, o.delay[1], live) ELSE live
        /\ Leave(c)
        /\ seen' = [b \in Callers |->
                      IF b = c THEN IF stored THEN Larger(seen[c], now + o.delay[1]) ELSE Still(seen[c])
                      ELSE IF pc[b] \in {"cooldown", "sleep"}
                           THEN Larger(seen[b], CooldownEnd(b, cooldown'))
                           ELSE seen[b]]
        /\ UNCHANGED <<setup, now, windows, nextPrune, arrival, calls, admitted, dropped>>
-----------------------------------------------------------------------------
(* Windows                                                                 *)

Cached(w) == {s \in Specs : w[s] # NoEntry}

\* prune_windows: entries idle for longer than the TTL are dropped.  Its own
\* check of the cap never finds an excess (TablesBounded).
PruneWindows(w) ==
    [s \in Specs |-> IF IdleTtl > 0 /\ w[s] # NoEntry /\ now - w[s].lastUsed > IdleTtl
                     THEN NoEntry ELSE w[s]]

\* next_window_prune_at
NextWindowPruneAt(w) == Min({w[s].lastUsed + IdleTtl : s \in Cached(w)} \cup {Never})

\* note_window_prune_at keeps the earlier deadline
NoteWindowPruneAt(p) == IF IdleTtl = 0 THEN now ELSE Smaller(p, now + IdleTtl)

\* evict_oldest_windows: the sort breaks ties in the order of the hash map
OldestIn(w) == {s \in Cached(w) : \A u \in Cached(w) : w[s].lastUsed <= w[u].lastUsed}

\* A new entry needs room
MustEvict(w) == Cardinality(Cached(w)) >= Config.windowEntries

\* A governor that neither the table nor a caller refers to
FreeGovernor(w) ==
    Min(Governors \ ({w[s].governor : s \in Specs} \cup {governor[c] : c \in Callers}))

\* prune_windows_if_needed: the table and the next deadline after it
Due == nextPrune <= now
Kept == IF Due THEN PruneWindows(windows) ELSE windows
NextDeadline == IF Due THEN NextWindowPruneAt(Kept) ELSE nextPrune

\* What the table may be once there is room for one more entry
WithRoom(w) ==
    IF MustEvict(w) THEN {[w EXCEPT ![v] = NoEntry] : v \in OldestIn(w)} ELSE {w}

\* limiter_for: the cached governor of s
UseCached(c, s) ==
    /\ Kept[s] # NoEntry
    /\ windows' = [Kept EXCEPT ![s].lastUsed = now]
    /\ nextPrune' = NoteWindowPruneAt(NextDeadline)
    /\ governor' = [governor EXCEPT ![c] = Kept[s].governor]
    /\ Goto(c, "ready")
    /\ UNCHANGED <<arrival, wake, step, seen>>

\* Mutant: a new governor takes the place of one that is still cached
InsertNewAlways(c, s) ==
    LET n == FreeGovernor(Kept)
    IN  /\ UsableWindow(Window(s))
        /\ \E w \in WithRoom(Kept) :
             windows' = [w EXCEPT ![s] = [governor |-> n, lastUsed |-> now]]
        /\ nextPrune' = NoteWindowPruneAt(NextDeadline)
        /\ arrival' = [arrival EXCEPT ![n] = 0]
        /\ governor' = [governor EXCEPT ![c] = n]
        /\ Goto(c, "ready")
        /\ UNCHANGED <<wake, step, seen>>

\* limiter_for: a new governor with its full burst, in the room made for it
InsertNew(c, s) ==
    LET n == FreeGovernor(Kept)
    IN  /\ Kept[s] = NoEntry
        /\ UsableWindow(Window(s))
        /\ \E w \in WithRoom(Kept) :
             windows' = [w EXCEPT ![s] = [governor |-> n, lastUsed |-> now]]
        /\ nextPrune' = NoteWindowPruneAt(NextDeadline)
        /\ arrival' = [arrival EXCEPT ![n] = 0]
        /\ governor' = [governor EXCEPT ![c] = n]
        /\ Goto(c, "ready")
        /\ UNCHANGED <<wake, step, seen>>

\* limiter_for: the room was made before quota_for_window refused the window
QuotaRefused(c, s) ==
    /\ Kept[s] = NoEntry
    /\ ~ UsableWindow(Window(s))
    /\ windows' \in WithRoom(Kept)
    /\ nextPrune' = NextDeadline
    /\ Leave(c)
    /\ seen' = [seen EXCEPT ![c] = Still(@)]
    /\ UNCHANGED arrival

LimiterFor(c) ==
    /\ pc[c] = "window"
    /\ step[c] <= Len(Plan(c))
    /\ LET s == Plan(c)[step[c]].spec IN UseCached(c, s) \/ InsertNew(c, s) \/ QuotaRefused(c, s)
    /\ dropped' = dropped \cup (Cached(windows) \ (Cached(Kept) \cap Cached(windows')))
    /\ UNCHANGED <<setup, now, cooldown, calls, admitted>>

\* A window of `max` requests per `per` refills one cell each per_cell
Cell(s) == Window(s).per \div Window(s).max

\* until_n_ready: the governor's cells are free (GCRA: a burst and one cell a period)
Ready(n, cost, s) == Larger(arrival[n], now) + cost * Cell(s) <= now + Window(s).max * Cell(s)

Admit(c) ==
    LET s == Plan(c)[step[c]].spec
        cost == Plan(c)[step[c]].cost
        n == governor[c]
    IN  /\ pc[c] = "ready"
        /\ Ready(n, cost, s)
        /\ arrival' = [arrival EXCEPT ![n] = Larger(@, now) + cost * Cell(s)]
        /\ admitted' = [admitted EXCEPT ![s][now] = @ + cost]
        /\ step' = [step EXCEPT ![c] = @ + 1]
        /\ governor' = [governor EXCEPT ![c] = 0]
        /\ Goto(c, "window")
        /\ UNCHANGED <<setup, now, cooldown, windows, nextPrune, wake, calls, seen, dropped>>

\* The cost exceeds what the window ever holds: an error
CostTooHigh(c) ==
    /\ pc[c] = "ready"
    /\ Plan(c)[step[c]].cost > Window(Plan(c)[step[c]].spec).max
    /\ Leave(c)
    /\ seen' = [seen EXCEPT ![c] = Still(@)]
    /\ UNCHANGED <<setup, now, tableVars, calls, admitted, dropped>>

\* Ok(RateLimitPermit): the request is sent
Permit(c) ==
    /\ pc[c] = "window"
    /\ step[c] > Len(Plan(c))
    /\ Goto(c, "permitted")
    /\ UNCHANGED <<setup, now, tableVars, wake, step, governor, calls, seen, admitted, dropped>>

\* The future of the request is dropped at an await
Cancel(c) ==
    /\ pc[c] \in {"sleep", "ready", "permitted"}
    /\ Leave(c)
    /\ seen' = [seen EXCEPT ![c] = Still(@)]
    /\ UNCHANGED <<setup, now, tableVars, calls, admitted, dropped>>

Tick ==
    /\ now < MaxTime
    /\ now' = now + 1
    /\ UNCHANGED <<setup, tableVars, callerVars, admitted, dropped>>

Next ==
    \/ \E c \in Active :
         \/ Acquire(c) \/ AcquireDisabled(c)
         \/ CooldownOver(c)
         \/ WaitCooldown(c)
         \/ SleepEnds(c)
         \/ LimiterFor(c)
         \/ Admit(c)
         \/ CostTooHigh(c)
         \/ Permit(c)
         \/ ObserveUnlimited(c) \/ ObserveDisabled(c)
         \/ \E response \in Responses : StoreCooldown(c, response)
         \/ Cancel(c)
    \/ Tick

Spec == Init /\ [][Next]_vars
-----------------------------------------------------------------------------
(* Properties                                                              *)

\* Neither table ever holds more entries than its cap, also when a response has
\* several keys at once and when the window that needed the room is then refused.
TablesBounded ==
    /\ Cardinality({k \in Keys : cooldown[k] > 0}) <= Config.cooldownEntries
    /\ Cardinality(Cached(windows)) <= Config.windowEntries

\* A caller goes on to the windows, and to its permit, only after every cooldown
\* has ended that was put on its keys before its wait was over (the ones in force
\* when its acquire began and the ones stored while it slept) or that an earlier
\* response to itself asked for, whatever target the policy chose for it.
StoredCooldownHonoured ==
    \A c \in Callers : pc[c] \in {"window", "ready", "permitted"} => now >= seen[c]

\* In every interval a window admits no more cells than its burst and what is
\* refilled meanwhile, whatever the interleaving of the callers that share it,
\* unless its governor was pruned or evicted.
QuotaRespected ==
    \A s \in {u \in Specs \ dropped : UsableWindow(Window(u))} :
      \A a, b \in {t \in Times : admitted[s][t] > 0} :
        a <= b => SumFunctionOnSet(admitted[s], a .. b) <= Window(s).max + (b - a) \div Cell(s)
=============================================================================
