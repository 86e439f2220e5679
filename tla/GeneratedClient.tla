--------------------------- MODULE GeneratedClient ---------------------------
(***************************************************************************)
(* The client that `api!` generates for an accepted program: its public     *)
(* names (model/facade.rs, validated by sema/mod.rs), the scope handles and *)
(* endpoint values (codegen/endpoints), and the public head of a request    *)
(* that they lead to (codegen/policy, and policy.rs, types.rs,              *)
(* header_ownership.rs and client/build.rs of concord_core).                *)
(*                                                                          *)
(* A generated name is the sequence of its words, so that names that differ *)
(* in spelling but meet after the case conversion of the generator are      *)
(* equal.  A value is the sequence of the texts that it is made of: one for *)
(* a scalar, one per item for a vector, one per piece for fmt[...].         *)
(***************************************************************************)
EXTENDS ApiSema

CONSTANTS
  Words,              \* identifier -> words of its snake_case form
  SlashedTexts,       \* texts that hold a slash
  BadSegments,        \* segments, put together of texts, that are empty, "." or ".."
  BadHeaderTexts,     \* texts that http::HeaderValue refuses
  OwnedHeaders,       \* headers that the protocol and the transport own
  CredentialHeaders,  \* names that is_credential_bearing_header_name recognises
  IdentityHeaders     \* request-id, idempotency-key and their kin

(* --------------------------- the facade's names -------------------------- *)

\* The scopes, outermost first for each endpoint; the parameters of a scope are
\* those that the first endpoint below it saw.
collect_facade_scopes(endpoints) ==
  LET prefixes(e) == [i \in DOMAIN e.scopes |->
        [path |-> SubSeq(e.scopes, 1, i), decls |-> FlattenSeq(SubSeq(e.groups, 1, i))]]
      add(seen, s) == IF \E i \in DOMAIN seen : seen[i].path = s.path THEN seen
                      ELSE Append(seen, s)
  IN  FoldLeft(add, <<>>, Concat(prefixes, endpoints))

Settable(v) == v.optional \/ v.default # None
Required(v) == ~ Settable(v)

PublicMethod(e) == Words[IF e.alias = None THEN e.name ELSE e.alias]

\* facade_scope_from_info, index_facade_scope_children: the scopes one level below.
ChildScopes(scopes, path) ==
  Kept(scopes, LAMBDA s : /\ Len(s.path) = Len(path) + 1
                          /\ SubSeq(s.path, 1, Len(path)) = path)

EndpointsIn(endpoints, path) == Kept(endpoints, LAMBDA e : e.scopes = path)

EndpointCreds(creds) == Kept(creds, LAMBDA c : c.kind = "Endpoint")

\* The setter of a parameter and, if it is optional, its clearer.
SetterNames(v, prefix) ==
  <<prefix \o Words[v.rust]>> \o (IF v.optional THEN <<<<"clear">> \o Words[v.rust]>> ELSE <<>>)

ScopeMethodName(s) == Words[s.path[Len(s.path)]]

ReservedClientMethods ==
  <<<<"new">>, <<"new", "with", "retry", "mode">>, <<"new", "with", "safe", "reqwest", "builder">>,
   <<"new", "with", "safe", "reqwest", "builder", "fallible">>,
   <<"new", "with", "safe", "reqwest", "builder", "and", "retry", "mode">>,
   <<"builder">>, <<"debug", "level">>, <<"set", "debug", "level">>, <<"with", "debug", "level">>,
   <<"pagination", "detect", "loops">>, <<"set", "pagination", "detect", "loops">>,
   <<"with", "pagination", "detect", "loops">>, <<"configure">>, <<"configure", "mut">>,
   <<"api", "headers">>, <<"set", "api", "headers">>, <<"with", "api", "headers">>,
   <<"request">>, <<"auth", "state">>>>

HasAuthScope(scopes) == \E s \in ToSet(scopes) : s.path[1] = "auth"

\* facade_credential_methods: the helpers of an endpoint-backed credential.
CredentialMethods(c) ==
  <<<<"acquire", "auth">> \o Words[c.name], <<"set", "auth">> \o Words[c.name] \o <<"value">>,
    <<"clear", "auth">> \o Words[c.name], <<"has", "auth">> \o Words[c.name]>>

ClientNames(client, scopes, endpoints) ==
  ReservedClientMethods
    \o (IF HasAuthScope(scopes) THEN <<>> ELSE <<<<"auth">>>>)
    \o Concat(LAMBDA v : SetterNames(v, <<"set">>), client.vars \o client.secrets)
    \o Concat(CredentialMethods, EndpointCreds(client.creds))
    \o Concat(LAMBDA s : <<ScopeMethodName(s)>>, ChildScopes(scopes, <<>>))
    \o Concat(LAMBDA e : <<PublicMethod(e)>>, EndpointsIn(endpoints, <<>>))

BuilderNames(client) ==
  <<<<"new">>, <<"build">>>>
    \o Concat(LAMBDA v : <<Words[v.rust]>>,
              Kept(client.vars \o client.secrets, Required))

AccessorNames(client) == Concat(LAMBDA c : <<Words[c.name]>>, EndpointCreds(client.creds))

\* Setters, child scopes and endpoints of one scope.
ScopeNames(scope, scopes, endpoints) ==
  Concat(LAMBDA v : SetterNames(v, <<>>), Kept(scope.decls, Settable))
    \o Concat(LAMBDA s : <<ScopeMethodName(s)>>, ChildScopes(scopes, scope.path))
    \o Concat(LAMBDA e : <<PublicMethod(e)>>, EndpointsIn(endpoints, scope.path))

\* Names of the generated types, each prefixed by the client's.
TypeNames(client, scopes, endpoints) ==
  <<<<"client">>>>
    \o [i \in 1..7 |-> <<"client", <<"vars", "auth_inner", "auth_vars", "auth_state", "cx",
                                   "builder", "auth">>[i]>>]
    \o Concat(LAMBDA c : <<<<"client">> \o Words[c.name] \o <<"auth">>,
                           <<"client", "acquire", "as">> \o Words[c.name] \o <<"ext">>>>,
              EndpointCreds(client.creds))
    \o Concat(LAMBDA s : <<<<"client">> \o Concat(LAMBDA n : Words[n], s.path) \o <<"scope">>>>,
              scopes)
    \o Concat(LAMBDA e : <<Concat(LAMBDA n : Words[n], e.scopes) \o Words[e.name]
                             \o <<"request", "ext">>>>, endpoints)

\* Endpoint types and child modules share one module of `endpoints` per scope.
ModuleNames(path, scopes, endpoints) ==
  Concat(LAMBDA e : <<e.name>>, EndpointsIn(endpoints, path))
    \o Concat(LAMBDA s : <<s.path[Len(s.path)]>>, ChildScopes(scopes, path))

validate_generated_public_api(client, endpoints) ==
  LET scopes == collect_facade_scopes(endpoints)
      paths  == {s.path : s \in ToSet(scopes)}
  IN  /\ NoRepeats(ClientNames(client, scopes, endpoints))
      /\ NoRepeats(BuilderNames(client))
      /\ NoRepeats(AccessorNames(client))
      /\ \A s \in ToSet(scopes) : NoRepeats(ScopeNames(s, scopes, endpoints))
      /\ NoRepeats(TypeNames(client, scopes, endpoints))
      /\ \A p \in paths \cup {<<>>} : NoRepeats(ModuleNames(p, scopes, endpoints))

\* The parameters that the constructor of a child scope sets itself: those after
\* the first Len(parent.decls) ones, which it takes from the parent.
NewDecls(parent, child) == SubSeq(child.decls, Len(parent.decls) + 1, Len(child.decls))

FieldShapes(decls) == {<<d.rust, d.optional, d.ty>> : d \in ToSet(decls)}

\* What the Rust compiler asks of a scope's struct: one field per parameter, the
\* fields that the endpoints and child scopes take from it, and one method per
\* name.  The `auth` scope at the root also gets the credentials' accessors.
emit_facade_scope_struct(scope, client, scopes, endpoints) ==
  /\ NoRepeats([i \in DOMAIN scope.decls |-> scope.decls[i].rust])
  /\ NoRepeats(ScopeNames(scope, scopes, endpoints)
       \o (IF scope.path = <<"auth">> THEN AccessorNames(client) ELSE <<>>))
  /\ \A e \in ToSet(EndpointsIn(endpoints, scope.path)) :
       FieldShapes(FlattenSeq(e.groups)) \subseteq FieldShapes(scope.decls)
  /\ \A child \in ToSet(ChildScopes(scopes, scope.path)) :
       /\ Len(child.decls) >= Len(scope.decls)
       /\ FieldShapes(child.decls)
            = FieldShapes(scope.decls) \cup FieldShapes(NewDecls(scope, child))

(* ------------------------- handles and endpoints ------------------------- *)

\* Fields of a fresh scope handle or endpoint value: the arguments for required
\* parameters, otherwise the default (None where an optional one has none).
NewFields(vars, args) ==
  [f \in VarNames(vars) |-> LET v == VarNamed(vars, f)
                            IN  IF Required(v) THEN args[f] ELSE v.default]

\* Entering a child scope keeps the parent's fields.
emit_scope_ctor_method(handle, parent, scope, args) ==
  [path |-> scope.path, fields |-> Over(handle.fields, NewFields(NewDecls(parent, scope), args))]

\* emit_scope_setter, and the setters of endpoint.rs: clearing an optional field
\* makes it None, clearing a defaulted one (endpoints only) restores the default.
Cleared(v) == IF v.optional THEN None ELSE v.default

CapturedNames(e) == VarNames(FlattenSeq(e.groups))

\* Mutant: the captured setters are not called
EndpointMethodForgets(e, handle, args) == NewFields(e.vars, Over(args, handle.fields))

\* The method of an endpoint: E::new, then the captured settable fields of the
\* scope; an optional one is copied only when it is present.
emit_facade_endpoint_method(e, handle, args) ==
  LET new == NewFields(e.vars, Over(args, handle.fields))
  IN  [f \in DOMAIN new |->
         IF f \in CapturedNames(e) /\ Settable(VarNamed(e.vars, f))
            /\ (VarNamed(e.vars, f).optional => handle.fields[f] # None)
         THEN handle.fields[f] ELSE new[f]]

(* --------------------------- the public request -------------------------- *)

\* The texts of a value; None when an optional part of it is missing.
emit_value_expr(v, cx, ep) ==
  LET texts(r) == CASE r.t = "Lit" -> <<r.lit>>
                    [] r.t = "Cx" -> cx[r.field]
                    [] r.t = "Ep" -> ep[r.field]
                    [] OTHER -> <<"expr">>
      parts == IF v.t = "Fmt" THEN v.pieces ELSE <<v>>
  IN  IF \E r \in ToSet(parts) : texts(r) = None THEN None ELSE Concat(texts, parts)

NewPolicy == [headers |-> <<>>, query |-> <<>>, timeout |-> None, rate |-> <<>>,
              layer |-> "Client", acceptExplicit |-> FALSE, err |-> FALSE]

\* Endpoint statements about Accept win over the decoder's.
TouchHeader(p, name) ==
  [p EXCEPT !.acceptExplicit = @ \/ (p.layer = "Endpoint" /\ name = "accept")]

insert_header(p, name, value) == [TouchHeader(p, name) EXCEPT !.headers = With(@, name, value)]
remove_header(p, name) ==
  [TouchHeader(p, name) EXCEPT !.headers = [k \in DOMAIN @ \ {name} |-> @[k]]]

remove_query(p, key) == [p EXCEPT !.query = Kept(@, LAMBDA kv : kv[1] # key)]
replace_query_values(p, key, values) ==
  [remove_query(p, key) EXCEPT !.query = @ \o [i \in DOMAIN values |-> <<key, values[i]>>]]

emit_header_set_op(p, op, cx, ep) ==
  LET value == IF op.op = "Set" THEN emit_value_expr(op.value, cx, ep) ELSE None
  IN  IF value = None THEN remove_header(p, op.key)
      ELSE IF ToSet(value) \cap BadHeaderTexts # {} THEN [p EXCEPT !.err = TRUE]
      ELSE insert_header(p, op.key, value)

\* A vector value gives one pair per item, in order.
emit_query_set_op(p, op, cx, ep) ==
  LET value == IF op.op = "Set" THEN emit_value_expr(op.value, cx, ep) ELSE None
  IN  IF value = None THEN remove_query(p, op.key)
      ELSE replace_query_values(p, op.key,
             IF op.cardinality = "Vector" THEN [i \in DOMAIN value |-> <<value[i]>>]
             ELSE <<value>>)

\* The keys of the buckets, with the parameters that they name filled in.
emit_rate_limit_plan(buckets, ep) ==
  [i \in DOMAIN buckets |-> [buckets[i] EXCEPT !.key = [k \in DOMAIN @ |->
     IF @[k].t = "EpField" THEN [t |-> "Static", name |-> ep[@[k].name]] ELSE @[k]]]]

\* Mutant: `only` adds to what was inherited
RateLimitOpAdds(p, rate, ep) ==
  CASE rate.op = "None" -> p
    [] rate.op = "Clear" -> [p EXCEPT !.rate = <<>>]
    [] OTHER -> [p EXCEPT !.rate = @ \o emit_rate_limit_plan(rate.buckets, ep)]

emit_rate_limit_op(p, rate, ep) ==
  CASE rate.op = "None" -> p
    [] rate.op = "Clear" -> [p EXCEPT !.rate = <<>>]
    [] rate.op = "Add" -> [p EXCEPT !.rate = @ \o emit_rate_limit_plan(rate.buckets, ep)]
    [] rate.op = "Replace" -> [p EXCEPT !.rate = emit_rate_limit_plan(rate.buckets, ep)]

emit_header_ops(p, ops, cx, ep) ==
  FoldLeft(LAMBDA acc, op : IF acc.err THEN acc ELSE emit_header_set_op(acc, op, cx, ep), p, ops)

emit_query_ops(p, ops, cx, ep) ==
  FoldLeft(LAMBDA acc, op : emit_query_set_op(acc, op, cx, ep), p, ops)

emit_timeout_op(p, timeout) == IF timeout = None THEN p ELSE [p EXCEPT !.timeout = timeout]

\* One layer of policy: headers, query, timeout, rate limit; the first error ends
\* the request.
emit_policy_apply_fn(p, layer, block, cx, ep) ==
  emit_rate_limit_op(
    emit_timeout_op(
      emit_query_ops(emit_header_ops([p EXCEPT !.layer = layer], block.headers, cx, ep),
                     block.query, cx, ep),
      block.timeout),
    block.rate, ep)

\* The decoder's Accept, unless the endpoint spoke or there is no body to decode.
ensure_accept(p, e) ==
  IF e.method = "HEAD" \/ e.response.accept = None \/ p.acceptExplicit THEN p
  ELSE [p EXCEPT !.headers = With(@, "accept", <<e.response.accept>>)]

\* The layers of a request's policy, the client's first.
PolicyLayers(clientPolicy, scopes, endpointPolicy) ==
  <<[layer |-> "Client", block |-> clientPolicy]>>
    \o [i \in DOMAIN scopes |-> [layer |-> "PrefixPath", block |-> scopes[i]]]
    \o <<[layer |-> "Endpoint", block |-> endpointPolicy]>>

ApplyLayers(policyLayers, cx, ep) ==
  FoldLeft(LAMBDA p, l : emit_policy_apply_fn(p, l.layer, l.block, cx, ep), NewPolicy, policyLayers)

\* Mutant: the scopes are applied from the inside out
ApplyPoliciesOutwards(clientPolicy, e, cx, ep) ==
  ensure_accept(ApplyLayers(PolicyLayers(clientPolicy, Reverse(e.policy.scopes), e.policy.endpoint),
                            cx, ep), e)

ApplyPolicies(clientPolicy, e, cx, ep) ==
  ensure_accept(ApplyLayers(PolicyLayers(clientPolicy, e.policy.scopes, e.policy.endpoint),
                            cx, ep), e)

\* Labels of the host and segments of the path: an absent optional is skipped.
RouteTexts(pieces, cx, ep) ==
  LET text(p) == IF p.t = "Static" THEN p.labels ELSE emit_value_expr(p, cx, ep)
  IN  Concat(LAMBDA p : IF text(p) = None THEN <<>> ELSE <<text(p)>>, pieces)

\* Only what is dynamic is checked here; static text is pushed as it is.
SegmentsValid(pieces, cx, ep) ==
  \A p \in ToSet(pieces) : p.t # "Static" =>
     LET text == emit_value_expr(p, cx, ep)
     IN  text = None \/ (text \notin BadSegments /\ ToSet(text) \cap SlashedTexts = {})

\* HostParts::validate: each label, literal or not.
HostValid(labels) == \A l \in ToSet(labels) : ToSet(l) \subseteq ValidLabels

\* RateLimitPlan::canonicalize: a bucket that is used twice is acquired once.
canonicalize(buckets) ==
  FoldLeft(LAMBDA seen, b : IF b \in ToSet(seen) THEN seen ELSE Append(seen, b), <<>>, buckets)

is_forbidden_public_header(name) ==
  name \in OwnedHeaders \cup {"user-agent"} \cup CredentialHeaders

\* A body with a fixed media type tolerates the same Content-Type, one that
\* picks its type when it is produced (multipart: apply_execution_media_type) none.
apply_prepared_body_media_type(headers, body) ==
  LET written == "content-type" \in DOMAIN headers
  IN  CASE body = None \/ body.media = None -> [err |-> FALSE, headers |-> headers]
        [] OTHER -> [err |-> /\ written
                             /\ body.media = "Dynamic" \/ headers["content-type"] # <<body.media>>,
                     headers |-> With(headers, "content-type", <<body.media>>)]

\* RequestOptions::apply_to: the override of a request that was given none is None,
\* and so is that of a request whose timeout was cleared.
apply_to(override) == IF override.t = "Set" THEN override.value ELSE None

\* Client-wide headers give way to the policy's.
PublicHeaders(p, apiHeaders) ==
  LET policy == Over(p.headers, apiHeaders)
  IN  With(IF "accept" \in DOMAIN policy THEN policy ELSE With(policy, "accept", <<"*/*">>),
           "user-agent", <<"concord">>)

\* What the merged policy p of a request, its route and its body make of it.
PublicHead(p, base, e, cx, ep, apiHeaders, override) ==
  LET host  == RouteTexts(e.prefix, cx, ep)
      path  == e.scopePath \o e.route
      typed == apply_prepared_body_media_type(PublicHeaders(p, apiHeaders), e.body)
  IN  IF \/ p.err \/ ~ SegmentsValid(path, cx, ep) \/ ~ HostValid(host) \/ typed.err
         \/ \E h \in DOMAIN p.headers \cup DOMAIN apiHeaders : is_forbidden_public_header(h)
      THEN [err |-> TRUE]
      ELSE [err |-> FALSE, host |-> host \o <<<<base.host>>>>, path |-> RouteTexts(path, cx, ep),
            query |-> p.query, headers |-> typed.headers, rate |-> canonicalize(p.rate),
            timeout |-> IF apply_to(override) # None THEN apply_to(override) ELSE p.timeout]

resolve_public_request_head(base, clientPolicy, e, cx, ep, apiHeaders, override) ==
  PublicHead(ApplyPolicies(clientPolicy, e, cx, ep), base, e, cx, ep, apiHeaders, override)

(* --------------------- where the credentials are placed ------------------- *)

is_forbidden_auth_placement(name) ==
  name \in OwnedHeaders \cup {"content-type", "user-agent", "authorization"} \cup IdentityHeaders

\* AuthPlacementPlan::from_auth_plan: <<"header" or "query", key>> of a requirement.
placement(req) ==
  CASE req.kind \in {"Bearer", "Basic"} -> <<"header", "authorization">>
    [] req.kind = "Header" -> <<"header", HeaderKey[req.key]>>
    [] req.kind = "Query" -> <<"query", req.key>>

from_auth_plan_fails(auth) ==
  \/ \E r \in ToSet(auth) : r.kind = "Header" /\ is_forbidden_auth_placement(HeaderKey[r.key])
  \/ ~ NoRepeats([i \in DOMAIN auth |-> placement(auth[i])])

\* Mutant: the public head is not looked at
PlacedAnywhere(head, body, auth) == TRUE

\* A placement may not meet a public header, a public query key or the Content-Type
\* of the body.
validate_public_request_with_reserved_headers(head, body, auth) ==
  LET reserved == IF body # None /\ body.media # None THEN {"content-type"} ELSE {}
  IN  \A r \in ToSet(auth) :
        /\ placement(r)[1] = "header" => placement(r)[2] \notin DOMAIN head.headers \cup reserved
        /\ placement(r)[1] = "query" => \A kv \in ToSet(head.query) : kv[1] # placement(r)[2]

materialize_authentication(head, auth) ==
  FoldLeft(LAMBDA m, r :
             IF placement(r)[1] = "header"
             THEN [m EXCEPT !.headers = With(@, placement(r)[2], <<"cred", r.credential>>)]
             ELSE [m EXCEPT !.query = Append(@, <<placement(r)[2], <<"cred", r.credential>>>>)],
           head, auth)

\* What goes on the wire for a resolved call, or why nothing does.  The credentials
\* may not fit their places: no material, the wrong kind, no header value.
build_request(base, clientPolicy, e, cx, ep, apiHeaders, override, fits) ==
  LET head == resolve_public_request_head(base, clientPolicy, e, cx, ep, apiHeaders, override)
  IN  IF head.err \/ from_auth_plan_fails(e.auth)
         \/ ~ validate_public_request_with_reserved_headers(head, e.body, e.auth)
         \/ (e.auth # <<>> /\ ~ fits)
      THEN [err |-> TRUE]
      ELSE materialize_authentication(head, e.auth)

(* ----------------------- the generated documentation ---------------------- *)

apply_rate_limit_layer(current, incoming) ==
  IF incoming.op = "None" THEN current
  ELSE IF incoming.op # "Add" \/ current.op \in {"None", "Clear"} THEN incoming
  ELSE [current EXCEPT !.buckets = @ \o incoming.buckets]

effective_rate_limit(clientPolicy, e) ==
  apply_rate_limit_layer(FoldLeft(LAMBDA acc, b : apply_rate_limit_layer(acc, b.rate),
                                  clientPolicy.rate, e.policy.scopes),
                         e.policy.endpoint.rate).buckets

PolicyBlocks(clientPolicy, e) == <<clientPolicy>> \o e.policy.scopes \o <<e.policy.endpoint>>

effective_timeout(clientPolicy, e) ==
  FoldLeft(LAMBDA t, b : IF b.timeout = None THEN t ELSE b.timeout, None, PolicyBlocks(clientPolicy, e))

\* Every key that a layer sets or removes.
doc_policy_keys(clientPolicy, e, ops) ==
  UNION {{op.key : op \in ToSet(b[ops])} : b \in ToSet(PolicyBlocks(clientPolicy, e))}

\* The sections of an endpoint's documentation that describe its requests.
facade_endpoint_doc_texts(clientPolicy, e) ==
  [required |-> VarNames(Kept(e.vars, Required)),
   query    |-> doc_policy_keys(clientPolicy, e, "query"),
   headers  |-> doc_policy_keys(clientPolicy, e, "headers"),
   auth     |-> [i \in DOMAIN e.auth |-> <<placement(e.auth[i]), e.auth[i].credential>>],
   timeout  |-> effective_timeout(clientPolicy, e),
   rate     |-> effective_rate_limit(clientPolicy, e)]
==============================================================================
