----------------------------- MODULE CompileApi -----------------------------
(***************************************************************************)
(* From the text of an `api!` program to a request: the parser reads the    *)
(* client block and the tree of scopes and endpoints, sema resolves them in *)
(* the order of sema/mod.rs (resolve) and sema/items.rs (walk_items), the   *)
(* generated names are validated, and a caller of the generated client      *)
(* enters scopes, sets parameters and executes one endpoint.                *)
(*                                                                          *)
(* The author of the program and the caller of the client are the           *)
(* environment: they choose from the constant sets below.                   *)
(***************************************************************************)
EXTENDS GeneratedClient

CONSTANTS
  Vocabularies,       \* [clients, scopes, endpoints]: blocks that one author writes, and
                      \* maxItems, the bound on the scopes and endpoints of a program
  MaxDepth,           \* MAX_DSL_SCOPE_DEPTH
  Values,             \* arguments that the caller passes
  MaxEdits,           \* bound: setter calls before the request is executed
  ApiHeaderSets       \* client-wide headers that set_api_headers accepted

ASSUME CompileConstants == /\ \A v \in Vocabularies : v.maxItems \in Nat
                           /\ MaxDepth \in Nat /\ MaxEdits \in Nat

\* The author writes what the grammar can read, the caller passes values: lists of
\* texts that are not None, one list per type.
ASSUME CompileTexts ==
  LET types == DOMAIN Values
  IN  /\ \A v \in Vocabularies : /\ \A t \in v.clients : IsClientText(types, t)
                                 /\ \A t \in v.scopes : IsScopeText(types, t)
                                 /\ \A t \in v.endpoints : IsEndpointText(types, t)
      /\ \A t \in types : \A x \in Values[t] : IsVec(x) /\ x # None
      /\ \A l \in ValidLabels : <<l>> # None

VARIABLES
  stage,        \* the pass that runs next, or "built", "rejected", "rustc_error"; then "calling"
                \* with a handle, "pending" with a request, and "done"
  source,       \* the texts read so far, of one of the Vocabularies
  client,       \* RawClient
  items,        \* the tree as read: open scope, endpoint, close
  depth,        \* scopes that are open in the parser
  api,          \* what resolve() knows of the client: outputs, policy, auth
  pos,          \* items that walk_items is done with
  ancestry,     \* ids of the layers that are open in walk_items
  layers,       \* LayerIr of every layer walked
  endpoints,    \* ResolvedEndpoint of every endpoint walked
  caller        \* the generated client's user: vars, handle, call, asked, edits, request

vars == <<stage, source, client, items, depth, api, pos, ancestry, layers, endpoints, caller>>

NoCaller == [vars |-> <<>>, headers |-> <<>>, handle |-> None, e |-> None, fields |-> <<>>,
             asked |-> <<>>, timeout |-> [t |-> "Inherit"], edits |-> 0, request |-> None]

Init == /\ stage = "client" /\ source \in [from : Vocabularies, client : {<<>>}, items : {<<>>}]
        /\ client = RawClient /\ items = <<>> /\ depth = 0
        /\ api = None /\ pos = 0 /\ ancestry = <<>> /\ layers = <<>> /\ endpoints = <<>>
        /\ caller = NoCaller

Rejected == /\ stage' = "rejected"
            /\ UNCHANGED <<client, items, depth, api, pos, ancestry, layers, endpoints, caller>>

(* -------------------------------- parsing -------------------------------- *)

ParseClient ==
  /\ stage = "client"
  /\ \E text \in source.from.clients :
       /\ source' = [source EXCEPT !.client = text]
       /\ IF parse_client(text).err THEN Rejected
          ELSE /\ client' = parse_client(text) /\ stage' = "items"
               /\ UNCHANGED <<items, depth, api, pos, ancestry, layers, endpoints, caller>>

Blocks == Len(Kept(items, LAMBDA it : it.k # "close"))

Seen(k, text) == source' = [source EXCEPT !.items = Append(@, [k |-> k, text |-> text])]
Read(item, text) == items' = Append(items, item) /\ Seen(item.k, text)

\* RawScopeTaggedScope: the depth guard is entered before the body is read.
ParseScope ==
  /\ stage = "items" /\ Blocks < source.from.maxItems
  /\ \E text \in source.from.scopes :
       IF depth = MaxDepth \/ parse_scope(text).err
       THEN Rejected /\ Seen("open", text)
       ELSE /\ Read([k |-> "open", scope |-> parse_scope(text)], text)
            /\ depth' = depth + 1
            /\ UNCHANGED <<stage, client, api, pos, ancestry, layers, endpoints, caller>>

ParseEndpoint ==
  /\ stage = "items" /\ Blocks < source.from.maxItems
  /\ \E text \in source.from.endpoints :
       IF parse_endpoint(text).err
       THEN Rejected /\ Seen("endpoint", text)
       ELSE /\ Read([k |-> "endpoint", endpoint |-> parse_endpoint(text)], text)
            /\ UNCHANGED <<stage, client, depth, api, pos, ancestry, layers, endpoints, caller>>

ParseScopeEnd ==
  /\ stage = "items" /\ depth > 0
  /\ Read([k |-> "close"], None) /\ depth' = depth - 1
  /\ UNCHANGED <<stage, client, api, pos, ancestry, layers, endpoints, caller>>

EndOfInput ==
  /\ stage = "items" /\ depth = 0
  /\ stage' = "normalize"
  /\ UNCHANGED <<source, client, items, depth, api, pos, ancestry, layers, endpoints, caller>>

(* ------------------------------- resolving ------------------------------- *)

\* A scope with a host and a path becomes a host layer, that carries everything
\* else, and an anonymous path layer inside it.
normalize_scope(s) ==
  LET layer(name, kind, route) ==
        [name |-> name, kind |-> kind, route |-> route, params |-> s.params,
         policy |-> s.policy, profiles |-> s.profiles, auth |-> s.auth, rate |-> s.rate,
         keys |-> s.keys]
      bare(route) == [name |-> None, kind |-> "Path", route |-> route, params |-> <<>>,
                      policy |-> NoPolicy, profiles |-> <<>>, auth |-> <<>>, rate |-> None,
                      keys |-> <<>>]
  IN  IF s.host = None THEN <<layer(s.name, "Path", IF s.path = None THEN <<>> ELSE s.path)>>
      ELSE <<layer(s.name, "Prefix", s.host)>>
             \o (IF s.path = None THEN <<>> ELSE <<bare(s.path)>>)

\* The items with one open and one close per layer.
normalize_items(raw) ==
  LET step(acc, it) ==
        CASE it.k = "endpoint" -> [acc EXCEPT !.out = Append(@, it)]
          [] it.k = "open" ->
               LET ls == normalize_scope(it.scope)
               IN  [out |-> acc.out \o [i \in DOMAIN ls |-> [k |-> "open", scope |-> ls[i]]],
                    open |-> <<Len(ls)>> \o acc.open]
          [] it.k = "close" -> [out |-> acc.out \o [i \in 1..Head(acc.open) |-> it],
                                open |-> Tail(acc.open)]
  IN  FoldLeft(step, [out |-> <<>>, open |-> <<>>], raw).out

NormalizeApi ==
  /\ stage = "normalize"
  /\ items' = normalize_items(items) /\ stage' = "outputs"
  /\ UNCHANGED <<source, client, depth, api, pos, ancestry, layers, endpoints, caller>>

\* The named scopes that are open before each item.
ScopeModules(its) ==
  LET step(acc, it) ==
        CASE it.k = "open" -> Append(acc, Append(acc[Len(acc)], it.scope.name))
          [] it.k = "close" -> Append(acc, Front(acc[Len(acc)]))
          [] OTHER -> Append(acc, acc[Len(acc)])
      open == FoldLeft(step, <<<<>>>>, its)
  IN  [i \in DOMAIN its |-> Kept(open[i], LAMBDA n : n # None)]

EndpointItems(its) == {i \in DOMAIN its : its[i].k = "endpoint"}
TargetOf(its, i) == <<ScopeModules(its)[i], its[i].endpoint.name>>

\* The output of every endpoint, known before any credential is resolved.
CollectEndpointOutputTypes ==
  /\ stage = "outputs"
  /\ LET found == EndpointItems(items)
         keys  == {TargetOf(items, i) : i \in found}
     IN  IF \/ \E i, j \in found : i # j /\ TargetOf(items, i) = TargetOf(items, j)
            \/ \E i \in found : IoFault(items[i].endpoint.response, "Response")
         THEN Rejected /\ UNCHANGED source
         ELSE /\ api' = [outputs |-> [k \in keys |-> response_public_output_ty(
                           items[CHOOSE i \in found : TargetOf(items, i) = k].endpoint.response)],
                         policy |-> None, auth |-> <<>>]
              /\ stage' = "credentials"
              /\ UNCHANGED <<source, client, items, depth, pos, ancestry, layers, endpoints, caller>>

\* The names of vars and secrets, and the credentials built on them.
AnalyzeAuthCredentials ==
  /\ stage = "credentials"
  /\ IF \/ DeclFaults(client.vars) # {} \/ DeclFaults(client.secrets) # {}
        \/ CredentialFaults(client.creds, client.secrets, api.outputs) # {}
     THEN Rejected /\ UNCHANGED source
     ELSE /\ client' = [client EXCEPT !.vars = UpsertAll(@), !.secrets = UpsertAll(@)]
          /\ stage' = "profiles"
          /\ UNCHANGED <<source, items, depth, api, pos, ancestry, layers, endpoints, caller>>

\* Rate-limit profiles, then the bundles whose specs name them.
ResolveProfiles ==
  /\ stage = "profiles"
  /\ IF \/ ExtendsFaults(client.rateProfiles) # {}
        \/ \E d \in ToSet(client.rateProfiles) : BucketFaults(d.plan) # {}
        \/ ExtendsFaults(client.bundles) # {}
     THEN Rejected /\ UNCHANGED source
     ELSE stage' = "policy" /\ UNCHANGED <<source, client, items, depth, api, pos, ancestry,
                                           layers, endpoints, caller>>

\* One attachment site: client, layer or endpoint.  vis are the bound rate-limit
\* keys, rateVars the parameters that an unbound key may name.
SiteFaults(site, spec, vis, rateVars, vs) ==
  LET used == resolve_profile_uses(site.profiles, client.bundles)
      auth == used.auth \o site.auth
  IN  \/ BlockFaults(site.policy, client.vars, vs)
      \/ \E s \in ToSet(used.rate) \cup {spec} :
           RateSpecFaults(s, client.rateProfiles, vis, rateVars) # {}
      \/ AuthUseFaults(auth, client.creds, api.outputs) # {}

SitePolicy(site, spec, vis, vs) ==
  LET used == resolve_profile_uses(site.profiles, client.bundles)
      block == resolve_policy_blocks(site.policy, client.vars, vs)
  IN  [headers |-> block.headers, query |-> block.query, timeout |-> block.timeout,
       rate |-> SiteRateLimit(used.rate, spec, client.rateProfiles, vis)]

SiteAuth(site, provenance) ==
  resolve_auth_requirements(resolve_profile_uses(site.profiles, client.bundles).auth \o site.auth,
                            provenance)

\* The default block's rate limit is a list of profiles.
ClientRateSpec == IF client.defaultRate = <<>> THEN None
                  ELSE [t |-> "Profiles", names |-> client.defaultRate, only |-> FALSE]

ResolveClientPolicy ==
  /\ stage = "policy"
  /\ IF \/ ProfileUseFaults(client.profiles, client.bundles) # {}
        \/ SiteFaults(client, ClientRateSpec, <<>>, <<>>, <<>>)
     THEN Rejected /\ UNCHANGED source
     ELSE /\ api' = [api EXCEPT !.policy = SitePolicy(client, ClientRateSpec, <<>>, <<>>),
                                !.auth = SiteAuth(client, <<"client">>)]
          /\ stage' = "walk"
          /\ UNCHANGED <<source, client, items, depth, pos, ancestry, layers, endpoints, caller>>

(* ------------------------------- walk_items ------------------------------ *)

OpenDecls == Concat(LAMBDA id : layers[id].decls, ancestry)
OpenKeys == FoldLeft(LAMBDA vis, id : BindKeys(vis, layers[id].keys), <<>>, ancestry)

LayerFaults(s, vs, vis) ==
  \/ \E a \in ToSet(s.route) : RouteFault(a, s.kind, TRUE, client.vars, vs)
  \/ KeyBindingFaults(s.keys, s.params) # {}
  \/ ProfileUseFaults(s.profiles, client.bundles) # {}
  \/ SiteFaults(s, s.rate, vis, <<>>, vs)

WalkLayer ==
  /\ stage = "walk" /\ pos < Len(items) /\ items[pos + 1].k = "open"
  /\ LET s   == items[pos + 1].scope
         vs  == LayerVars(OpenDecls \o s.params)
         vis == BindKeys(OpenKeys, s.keys)
     IN  IF LayerFaults(s, vs, vis)
         THEN Rejected /\ UNCHANGED source
         ELSE /\ layers' = Append(layers,
                   [name |-> s.name, kind |-> s.kind, pieces |-> RoutePieces(s.route, s.kind),
                    policy |-> SitePolicy(s, s.rate, vis, vs),
                    auth |-> SiteAuth(s, <<"scope", Len(layers) + 1>>), keys |-> s.keys,
                    decls |-> s.params])
              /\ ancestry' = Append(ancestry, Len(layers) + 1)
              /\ pos' = pos + 1
              /\ UNCHANGED <<stage, source, client, items, depth, api, endpoints, caller>>

WalkLayerEnd ==
  /\ stage = "walk" /\ pos < Len(items) /\ items[pos + 1].k = "close"
  /\ ancestry' = Front(ancestry) /\ pos' = pos + 1
  /\ UNCHANGED <<stage, source, client, items, depth, api, layers, endpoints, caller>>

NamedLayers == Kept(ancestry, LAMBDA id : layers[id].name # None)
PiecesOf(kind) == Concat(LAMBDA id : layers[id].pieces,
                         Kept(ancestry, LAMBDA id : layers[id].kind = kind))

\* Mutant: an outer scope's credentials give way to the inner one's
InheritedAuthInnermost ==
  api.auth \o (IF ancestry = <<>> THEN <<>> ELSE layers[ancestry[Len(ancestry)]].auth)

\* Auth of the client, of the open layers and of the endpoint, in that order.
InheritedAuth == api.auth \o Concat(LAMBDA id : layers[id].auth, ancestry)

EndpointFaults(e, vs, vis, target) ==
  \/ DeclFaults(OpenDecls \o e.params) # {}
  \/ \E a \in ToSet(e.route) : RouteFault(a, "Path", FALSE, client.vars, vs)
  \/ ProfileUseFaults(e.profiles, client.bundles) # {}
  \/ KeyBindingFaults(e.keys, vs) # {}
  \/ SiteFaults(e, e.rate, vis, vs, vs)
  \/ FinalAuthFaults(InheritedAuth \o SiteAuth(e, <<"endpoint">>)) # {}
  \/ SelfAuthFaults(InheritedAuth \o SiteAuth(e, <<"endpoint">>), client.creds, target) # {}
  \/ e.method \notin Methods
  \/ EndpointIoFaults(e)
  \/ e.paginate # None /\ PaginateFaults(e.paginate, client.vars, vs) # {}

ResolvedEndpoint(e, vs, vis) ==
  LET prefix == PiecesOf("Prefix")
      paged  == IF e.paginate = None THEN {} ELSE PaginationBindings(e.paginate)
  IN  [name |-> e.name, alias |-> e.alias, method |-> e.method,
       scopes |-> [i \in DOMAIN NamedLayers |-> layers[NamedLayers[i]].name],
       groups |-> [i \in DOMAIN NamedLayers |-> layers[NamedLayers[i]].decls],
       prefix |-> prefix, scopePath |-> PiecesOf("Path"), route |-> RoutePieces(e.route, "Path"),
       vars |-> vs,
       policy |-> [scopes |-> [i \in DOMAIN ancestry |-> layers[ancestry[i]].policy],
                   endpoint |-> SitePolicy(e, e.rate, vis, vs)],
       auth |-> InheritedAuth \o SiteAuth(e, <<"endpoint">>),
       body |-> e.body, response |-> e.response, paged |-> paged,
       descriptor |-> [origin |-> classify_endpoint_origin(client.base, prefix),
                       pagedOrigin |-> pagination_can_change_origin(prefix, paged)]]

WalkEndpoint ==
  /\ stage = "walk" /\ pos < Len(items) /\ items[pos + 1].k = "endpoint"
  /\ LET e   == items[pos + 1].endpoint
         vs  == UpsertAll(OpenDecls \o e.params)
         vis == BindKeys(OpenKeys, e.keys)
         target == TargetOf(items, pos + 1)
     IN  IF EndpointFaults(e, vs, vis, target)
         THEN Rejected /\ UNCHANGED source
         ELSE /\ endpoints' = Append(endpoints, ResolvedEndpoint(e, vs, vis))
              /\ pos' = pos + 1
              /\ UNCHANGED <<stage, source, client, items, depth, api, ancestry, layers, caller>>

\* build_facade_ir and validate_generated_public_api: then the tokens are emitted.
ValidateGeneratedPublicApi ==
  /\ stage = "walk" /\ pos = Len(items)
  /\ IF validate_generated_public_api(client, endpoints)
     THEN /\ stage' = "emitted"
          /\ UNCHANGED <<source, client, items, depth, api, pos, ancestry, layers, endpoints, caller>>
     ELSE Rejected /\ UNCHANGED source

\* rustc compiles the emitted structs.
RustCompiles ==
  /\ stage = "emitted"
  /\ LET scopes == collect_facade_scopes(endpoints)
     IN  stage' = IF \A s \in ToSet(scopes) :
                       emit_facade_scope_struct(s, client, scopes, endpoints)
                  THEN "built" ELSE "rustc_error"
  /\ UNCHANGED <<source, client, items, depth, api, pos, ancestry, layers, endpoints, caller>>

(* ------------------------ the generated client's user --------------------- *)

\* None of the compiler's state changes any more.
Calls == UNCHANGED <<source, client, items, depth, api, pos, ancestry, layers, endpoints>>

Scopes == collect_facade_scopes(endpoints)
RootScope == [path |-> <<>>, decls |-> <<>>]
ScopeAt(path) == IF path = <<>> THEN RootScope
                 ELSE Scopes[CHOOSE i \in DOMAIN Scopes : Scopes[i].path = path]

\* The arguments that the signature for these parameters asks for.
ArgumentsFor(decls) ==
  LET names == {d.rust : d \in ToSet(Kept(decls, Required))}
  IN  {a \in [names -> UNION {Values[t] : t \in DOMAIN Values}] :
         \A f \in names : a[f] \in Values[VarNamed(decls, f).ty]}

\* builder().x(..).build() and new(..): one value for each required variable;
\* set_api_headers checked the client-wide headers.
Construct ==
  /\ stage = "built"
  /\ \E args \in ArgumentsFor(client.vars), headers \in ApiHeaderSets :
       caller' = [caller EXCEPT !.vars = NewFields(client.vars, args), !.headers = headers,
                                !.handle = [path |-> <<>>, fields |-> <<>>]]
  /\ stage' = "calling" /\ Calls

Editing == caller.edits < MaxEdits

\* set_x and clear_x of the client need it exclusively: no handle is out.
EditClientVar ==
  /\ stage = "calling" /\ Editing /\ caller.handle.path = <<>>
  /\ \E v \in ToSet(client.vars) :
       \E x \in Values[v.ty] \cup (IF v.optional THEN {None} ELSE {}) :
          caller' = [caller EXCEPT !.vars[v.rust] = x, !.edits = @ + 1]
  /\ UNCHANGED stage /\ Calls

EnterScope ==
  /\ stage = "calling"
  /\ \E s \in ToSet(ChildScopes(Scopes, caller.handle.path)) :
       LET parent == ScopeAt(caller.handle.path)
       IN  \E args \in ArgumentsFor(NewDecls(parent, s)) :
             LET handle == emit_scope_ctor_method(caller.handle, parent, s, args)
             IN  caller' = [caller EXCEPT !.handle = handle, !.asked = handle.fields]
  /\ UNCHANGED stage /\ Calls

\* emit_scope_setter: x(value), and clear_x for an optional parameter.
EditScopeParam ==
  /\ stage = "calling" /\ Editing
  /\ \E v \in ToSet(Kept(ScopeAt(caller.handle.path).decls, Settable)) :
       \E x \in Values[v.ty] \cup (IF v.optional THEN {None} ELSE {}) :
          caller' = [caller EXCEPT !.handle.fields[v.rust] = x, !.asked[v.rust] = x,
                                   !.edits = @ + 1]
  /\ UNCHANGED stage /\ Calls

CallEndpoint ==
  /\ stage = "calling"
  /\ \E e \in ToSet(EndpointsIn(endpoints, caller.handle.path)) :
       LET own == Kept(e.vars, LAMBDA v : v.rust \notin CapturedNames(e))
       IN  \E args \in ArgumentsFor(own) :
             caller' = [caller EXCEPT !.e = e,
                          !.fields = emit_facade_endpoint_method(e, caller.handle, args),
                          !.asked = Over(NewFields(own, args), @)]
  /\ stage' = "pending" /\ Calls

\* The setters of the pending request: x(value), x_opt(..) and clear_x.
EditParam ==
  /\ stage = "pending" /\ Editing
  /\ \E v \in ToSet(Kept(caller.e.vars,
                  LAMBDA w : Settable(w) /\ w.rust \notin CapturedNames(caller.e))) :
       \E x \in Values[v.ty] \cup {Cleared(v)} :
          caller' = [caller EXCEPT !.fields[v.rust] = x, !.asked[v.rust] = x, !.edits = @ + 1]
  /\ UNCHANGED stage /\ Calls

\* store_pagination: the controller's fields replace the bound ones before a page,
\* an optional one possibly by None.  A page is asked for by the controller.
StorePagination ==
  /\ stage = "pending" /\ Editing
  /\ \E f \in caller.e.paged :
       LET v == VarNamed(caller.e.vars, f)
       IN  \E x \in Values[v.ty] \cup (IF v.optional THEN {None} ELSE {}) :
             caller' = [caller EXCEPT !.fields[f] = x, !.asked[f] = x, !.edits = @ + 1]
  /\ UNCHANGED stage /\ Calls

\* PendingRequest::timeout(d) and clear_timeout.
OverrideTimeout ==
  /\ stage = "pending" /\ Editing
  /\ \E o \in {[t |-> "Set", value |-> "caller"], [t |-> "Clear"]} :
       caller' = [caller EXCEPT !.timeout = o, !.edits = @ + 1]
  /\ UNCHANGED stage /\ Calls

Execute ==
  /\ stage = "pending"
  /\ \E fits \in BOOLEAN :
       caller' = [caller EXCEPT !.request = build_request(client.base, api.policy, caller.e,
                    caller.vars, caller.fields, caller.headers, caller.timeout, fits)]
  /\ stage' = "done" /\ Calls

\* The user of the client may also stop calling it.
Ended == stage \in {"rejected", "rustc_error", "calling", "pending", "done"} /\ UNCHANGED vars

Next == \/ ParseClient \/ ParseScope \/ ParseEndpoint \/ ParseScopeEnd \/ EndOfInput
        \/ NormalizeApi \/ CollectEndpointOutputTypes \/ AnalyzeAuthCredentials
        \/ ResolveProfiles \/ ResolveClientPolicy \/ WalkLayer \/ WalkLayerEnd
        \/ WalkEndpoint \/ ValidateGeneratedPublicApi \/ RustCompiles
        \/ Construct \/ EditClientVar \/ EnterScope \/ EditScopeParam \/ CallEndpoint
        \/ EditParam \/ StorePagination \/ OverrideTimeout \/ Execute \/ Ended

Spec == Init /\ [][Next]_vars

(* ------------------------------- properties ------------------------------ *)

\* The program as its author wrote it: the clauses of the client, of the scopes
\* around the called endpoint and of the endpoint, in source order.
ClientClauses == Concat(LAMBDA cl : IF cl.c = "default" THEN cl.body ELSE <<cl>>, source.client)

ScopesAround(i) ==
  FoldLeft(LAMBDA open, it : CASE it.k = "open" -> Append(open, it.text)
                               [] it.k = "close" -> Front(open)
                               [] OTHER -> open,
           <<>>, SubSeq(source.items, 1, i - 1))

ItemOf(e) == CHOOSE i \in DOMAIN source.items :
               /\ source.items[i].k = "endpoint" /\ source.items[i].text.name = e.name
               /\ LET around == ScopesAround(i)
                  IN  [j \in DOMAIN around |-> around[j].name] = e.scopes

OwnClauses(e) == LET t == source.items[ItemOf(e)].text IN t.leading \o t.trailing

SitesOf(e) == LET around == ScopesAround(ItemOf(e))
              IN  <<ClientClauses>> \o [j \in DOMAIN around |-> around[j].body] \o <<OwnClauses(e)>>

\* A block of statements counts as its statements.
ClausesFor(e, kind) ==
  LET block(k) == IF k = "header" THEN "headers" ELSE "queries"
      each(cl) == IF cl.c = block(kind)
                  THEN [i \in DOMAIN cl.stmts |-> [c |-> kind, stmt |-> cl.stmts[i]]]
                  ELSE IF cl.c = kind THEN <<cl>> ELSE <<>>
  IN  Concat(each, FlattenSeq(SitesOf(e)))

\* What the last statement about a key says: a value, or None for "not sent".
LastWord(stmts) ==
  IF stmts = <<>> \/ stmts[Len(stmts)].op = "Remove" THEN None
  ELSE emit_value_expr(stmts[Len(stmts)].value, caller.vars, caller.fields)

StmtsAbout(e, kind, key) ==
  LET found == Kept(ClausesFor(e, kind), LAMBDA cl :
                 (IF kind = "header" THEN HeaderKey[cl.stmt.key] ELSE cl.stmt.key) = key)
  IN  [i \in DOMAIN found |-> found[i].stmt]

Sent == stage = "done" /\ ~ caller.request.err

\* A header, a query key or a timeout that several sites speak about is decided by
\* the innermost one (the last statement of it), and a Content-Type that nobody
\* speaks about by the body: emit_policy_apply_fn applies the
\* client, then the open scopes, then the endpoint, and a scope that was closed
\* before the endpoint has no say (sema/items.rs, walk_items).
InnermostWins ==
  Sent => LET e == caller.e
              q == caller.request.query
          IN  /\ \A h \in {HeaderKey[k] : k \in DOMAIN HeaderKey} \ {"accept", "x-key"} :
                   LET word == LastWord(StmtsAbout(e, "header", h))
                       sent == IF h \in DOMAIN caller.request.headers
                               THEN caller.request.headers[h] ELSE None
                       typed == h = "content-type" /\ e.body # None /\ e.body.media # None
                   IN  sent = CASE word # None -> word
                                [] word = None /\ h \in DOMAIN caller.headers -> caller.headers[h]
                                [] OTHER -> IF typed THEN <<e.body.media>> ELSE None
              /\ \A k \in {cl.stmt.key : cl \in ToSet(ClausesFor(e, "query"))} :
                   LET word == LastWord(StmtsAbout(e, "query", k))
                       sent == Kept(q, LAMBDA kv : kv[1] = k)
                   IN  IF word = None THEN sent = <<>>
                       ELSE \/ sent = <<<<k, word>>>>
                            \/ sent = [i \in DOMAIN word |-> <<k, <<word[i]>>>>]
              /\ LET t == ClausesFor(e, "timeout")
                 IN  caller.timeout.t # "Clear" => caller.request.timeout =
                       CASE caller.timeout.t = "Set" -> caller.timeout.value
                         [] t = <<>> -> None
                         [] OTHER -> t[Len(t)].value

\* The credentials that a request presents are those that the client, the scopes
\* around the endpoint and the endpoint name, directly or through a bundle and
\* what it extends: nothing is lost and no other scope's credential leaks in.
AuthFollowsNesting ==
  LET bundle[k \in 0..Len(client.bundles)] ==
        [n \in DefNames(client.bundles) |->
           LET def == DefNamed(client.bundles, n)
           IN  {u.credential : u \in ToSet(def.auth)}
                 \cup (IF def.extends = None \/ k = 0 THEN {} ELSE bundle[k - 1][def.extends])]
      named(cl) == CASE cl.c = "auth" -> {cl.use.credential}
                     [] cl.c = "profile" -> UNION {bundle[Len(client.bundles)][n] : n \in ToSet(cl.names)}
                     [] OTHER -> {}
  IN  stage = "built" => \A e \in ToSet(endpoints) :
        {r.credential : r \in ToSet(e.auth)}
          = UNION {named(cl) : cl \in ToSet(FlattenSeq(SitesOf(e)))}

\* The documentation that is generated for an endpoint (model/facade.rs) tells what
\* its requests do: every header and query key that the program makes them carry is
\* listed, the rate limits and the timeout are the ones in force, the credentials
\* are the ones presented, and only the required parameters must be given.
DocumentedRequest ==
  Sent => LET docs == facade_endpoint_doc_texts(api.policy, caller.e)
              wire == caller.request
              places == {docs.auth[i][1] : i \in DOMAIN docs.auth}
          IN  /\ \A h \in DOMAIN wire.headers :
                   IF <<"header", h>> \in places
                   THEN <<<<"header", h>>, wire.headers[h][2]>> \in ToSet(docs.auth)
                   ELSE h \in docs.headers \cup DOMAIN caller.headers
                               \cup {"accept", "user-agent", "content-type"}
              /\ \A kv \in ToSet(wire.query) :
                   IF <<"query", kv[1]>> \in places
                   THEN <<<<"query", kv[1]>>, kv[2][2]>> \in ToSet(docs.auth)
                   ELSE kv[1] \in docs.query
              /\ wire.rate = canonicalize(emit_rate_limit_plan(docs.rate, caller.fields))
              /\ caller.timeout.t = "Inherit" => wire.timeout = docs.timeout
              /\ \A f \in docs.required : caller.fields[f] # None

\* Every credential that an endpoint asks for is on the wire, once, at the place
\* it was planned for, everything public that was resolved is there with it, and
\* nothing else is.  Neither the compiler's check of targets (sema/items.rs) nor
\* the runtime's preflight (auth/plan.rs) alone shows it.
CredentialsPlaced ==
  Sent => LET wire == caller.request
              head == resolve_public_request_head(client.base, api.policy, caller.e, caller.vars,
                        caller.fields, caller.headers, caller.timeout)
              public == Len(head.query)
              presented(kind, key) == \E r \in ToSet(caller.e.auth) : placement(r) = <<kind, key>>
          IN  /\ \A h \in DOMAIN head.headers : wire.headers[h] = head.headers[h]
              /\ SubSeq(wire.query, 1, public) = head.query
              /\ \A r \in ToSet(caller.e.auth) :
                   LET place == placement(r)
                   IN  IF place[1] = "header" THEN wire.headers[place[2]] = <<"cred", r.credential>>
                       ELSE \E i \in DOMAIN wire.query :
                              /\ wire.query[i] = <<place[2], <<"cred", r.credential>>>>
                              /\ \A j \in DOMAIN wire.query : wire.query[j][1] = place[2] => j = i
              /\ \A h \in DOMAIN wire.headers \ DOMAIN head.headers : presented("header", h)
              /\ \A i \in (public + 1)..Len(wire.query) : presented("query", wire.query[i][1])

\* timeout.rs: `Clear` removes any configured timeout for this request.
ClearRemovesTimeout ==
  Sent /\ caller.timeout.t = "Clear" => caller.request.timeout = None

\* Whatever a scope or an endpoint of an accepted program mentions is a field of
\* the generated endpoint, with the optionality and the cardinality that the code
\* generator assumed when it read the scope: the scope is resolved against the
\* innermost declarations (LayerVars), the endpoint's fields are the outermost.
FieldsAgree ==
  \A e \in ToSet(endpoints) :
    LET blocks == ToSet(e.policy.scopes) \cup {e.policy.endpoint}
        ops    == UNION {ToSet(b.headers) \cup ToSet(b.query) : b \in blocks}
        sets   == {op \in ops : op.op = "Set"}
        pieces == ToSet(e.prefix \o e.scopePath \o e.route) \cup {op.value : op \in sets}
        refs   == {p \in pieces : p.t = "Ep"} \cup UNION {{r \in ToSet(p.pieces) : r.t = "Ep"} :
                      p \in {q \in pieces : q.t = "Fmt"}}
        keys   == UNION {ToSet(k.key) : k \in UNION {ToSet(b.rate.buckets) : b \in blocks}}
    IN  /\ \A r \in refs : r.field \in VarNames(e.vars)
        /\ \A op \in sets : op.value.t = "Ep" =>
             /\ op.optional = VarNamed(e.vars, op.value.field).optional
             /\ op.cardinality = "Vector" => VarNamed(e.vars, op.value.field).ty = "Vec"
        /\ \A k \in keys : k.t = "EpField" =>
             k.name \in VarNames(e.vars) /\ ~ VarNamed(e.vars, k.name).optional

\* An API that the compiler calls "fixed, one origin" (sema/descriptor.rs,
\* classify_api_origin; a build without TLS refuses such an HTTPS client) sends
\* every request to that host, whatever the caller sets.
OriginPinned ==
  LET origin == classify_api_origin(endpoints)
  IN  Sent /\ origin.t = "FixedSingle" => caller.request.host = origin.host

\* Each field of the request is what the caller asked for last on the handles that
\* led to it, or on the request for a parameter of the endpoint itself.  (Not so for an optional parameter with a default: clear_x on a scope
\* hands it on as not set, and the endpoint takes its default.)
AskedFieldsSent ==
  stage = "done" => \A v \in ToSet(caller.e.vars) :
    ~ (v.optional /\ v.default # None) => caller.fields[v.rust] = caller.asked[v.rust]

=============================================================================
