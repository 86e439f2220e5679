------------------------------ MODULE ApiSyntax ------------------------------
(***************************************************************************)
(* The parser of the `api!` DSL (concord_macros/src/parse): what each block *)
(* of clauses becomes in the raw syntax tree (ast/), and which blocks it    *)
(* refuses.                                                                 *)
(*                                                                          *)
(* The text of a block is the sequence of its clauses, each a record whose  *)
(* field c is the keyword it starts with.  A parser reads the clauses left  *)
(* to right and stops at the first error; what the diagnostic says, spans   *)
(* and the separators between clauses are left out.                         *)
(***************************************************************************)
EXTENDS Naturals, Sequences, SequencesExt

CONSTANT None        \* Option::None

\* Concatenation of f over the parts of a sequence, and the parts that a test keeps
\* (SelectSeq, written so that proofs can unfold it).
Concat(f(_), seq) == FlattenSeq([i \in DOMAIN seq |-> f(seq[i])])
Kept(seq, keep(_)) == Concat(LAMBDA x : IF keep(x) THEN <<x>> ELSE <<>>, seq)

\* The map f with k at v, and f where it is defined, g elsewhere (@@, for the same reason).
With(f, k, v) == [x \in {k} \cup DOMAIN f |-> IF x = k THEN v ELSE f[x]]
Over(f, g) == [x \in DOMAIN f \cup DOMAIN g |-> IF x \in DOMAIN f THEN f[x] ELSE g[x]]

(* -------------------- what a text is made of (ast/) ---------------------- *)

\* Vec<T>, each of whose members is a T
IsVec(s) == s \in Seq(ToSet(s))
VecOf(T(_), s) == IsVec(s) /\ \A x \in ToSet(s) : T(x)

IsVarDecl(types, d) == d.ty \in types /\ (d.default = None \/ IsVec(d.default))

\* A value, and an atom of a route: fmt[..] is a list of pieces, a literal of its labels.
IsFmtSpec(v) == v.t = "Fmt" => IsVec(v.pieces)
IsRouteAtom(a) ==
  IsFmtSpec(a) /\ (a.t = "Static" => DOMAIN a = {"t", "labels", "braces"} /\ IsVec(a.labels))

IsPolicyStmt(st) == st.op \in {"Set", "Remove"} /\ (st.op = "Set" => IsFmtSpec(st.value))

IsRateLimitBucket(b) == VecOf(LAMBDA k : k.t \in {"Host", "Method", "Endpoint", "Static", "Named"}, b.key)
IsRateLimitSpec(spec) ==
  /\ spec.t \in {"Off", "Inline", "Profiles"}
  /\ spec.t = "Inline" => VecOf(IsRateLimitBucket, spec.plan)
  /\ spec.t = "Profiles" => IsVec(spec.names)

IsProfileDef(def) == IsVec(def.auth) /\ VecOf(IsRateLimitSpec, def.rate)

\* A clause that holds no other clauses
IsClause(types, cl) ==
  /\ cl.c \in {"var", "param"} => IsVarDecl(types, cl.decl)
  /\ cl.c \in {"header", "query"} => IsPolicyStmt(cl.stmt)
  /\ cl.c \in {"headers", "queries"} => VecOf(IsPolicyStmt, cl.stmts)
  /\ cl.c = "profile" => IsVec(cl.names)
  /\ cl.c = "rate_limit" => IsRateLimitSpec(cl.spec)
  /\ cl.c = "rate_profile" => VecOf(IsRateLimitBucket, cl.def.plan)
  /\ cl.c = "bundle" => IsProfileDef(cl.def)
  /\ cl.c \in {"host", "path"} => VecOf(IsRouteAtom, cl.route)

IsBlock(types, text) == VecOf(LAMBDA cl : IsClause(types, cl), text)

IsClientText(types, text) ==
  VecOf(LAMBDA cl : /\ IsClause(types, cl)
                    /\ cl.c \in {"auth_group", "policies", "profiles", "default"} =>
                         IsBlock(types, cl.body),
        text)
IsScopeText(types, text) ==
  VecOf(LAMBDA d : IsVarDecl(types, d), text.params) /\ IsBlock(types, text.body)
IsEndpointText(types, text) ==
  /\ \A part \in {text.args, text.leading, text.trailing} : IsBlock(types, part)
  /\ \A arg \in ToSet(text.args) : arg.c \in {"param", "body"}

(* -------------------------------- reading -------------------------------- *)

\* Reads a block: once an error is met, nothing after it is read.
ParseBlock(step(_, _), init, text) ==
  FoldLeft(LAMBDA raw, cl : IF raw.err THEN raw ELSE step(raw, cl), init, text)

Refuse(raw) == [raw EXCEPT !.err = TRUE]

(* -------------------------------- values -------------------------------- *)

\* vars.x, ep.x (explicit) and a bare x; every other prefix is reserved or unknown.
resolve_scoped_ref_base(ref) == ref.t \in {"Cx", "Ep", "Secret", "Lit"}

\* fmt[...]: at least one piece, no nesting, no secret.
FmtAccepted(fmt) ==
  /\ fmt.pieces # <<>>
  /\ \A p \in ToSet(fmt.pieces) : resolve_scoped_ref_base(p) /\ p.t # "Secret"

\* A header key is a string literal; a query value is not a boolean literal.
validate_policy_stmt_for_block(kind, stmt) ==
  /\ kind = "header" => stmt.literal
  /\ kind = "query" /\ stmt.op = "Set" => stmt.value.t # "Bool"

StmtAccepted(kind, stmt) ==
  /\ validate_policy_stmt_for_block(kind, stmt)
  /\ stmt.op = "Set" /\ stmt.value.t = "Fmt" => FmtAccepted(stmt.value)

parse_route_atom(atom) ==
  CASE atom.t = "Fmt" -> FmtAccepted(atom)
    [] atom.t = "Static" -> TRUE
    [] OTHER -> resolve_scoped_ref_base(atom)

RouteAccepted(route) == \A a \in ToSet(route) : parse_route_atom(a)

\* In a path the literals of fmt[...] hold no slash.
PathAccepted(route) ==
  /\ RouteAccepted(route)
  /\ \A a \in ToSet(route) : a.t = "Fmt" => \A p \in ToSet(a.pieces) :
       p.t = "Lit" => ~ p.slash

(* ------------------- clauses that several blocks share ------------------- *)

\* headers/header, query and timeout statements accumulate in source order; a
\* second timeout of the same block replaces the first.
\* A braced block is refused as a whole when one of its statements is.
parse_policy_block(raw, kind, stmts) ==
  IF ~ \A st \in ToSet(stmts) : StmtAccepted(kind, st) THEN Refuse(raw)
  ELSE IF kind = "header" THEN [raw EXCEPT !.policy.headers = @ \o stmts]
  ELSE [raw EXCEPT !.policy.query = @ \o stmts]

PolicyClause(raw, cl) ==
  CASE cl.c = "headers" -> parse_policy_block(raw, "header", cl.stmts)
    [] cl.c = "queries" -> parse_policy_block(raw, "query", cl.stmts)
    [] cl.c = "header" -> IF StmtAccepted("header", cl.stmt)
                          THEN [raw EXCEPT !.policy.headers = Append(@, cl.stmt)]
                          ELSE Refuse(raw)
    [] cl.c = "query" -> IF StmtAccepted("query", cl.stmt)
                         THEN [raw EXCEPT !.policy.query = Append(@, cl.stmt)]
                         ELSE Refuse(raw)
    [] cl.c = "timeout" -> [raw EXCEPT !.policy.timeout = cl.value]

PolicyClauses == {"header", "headers", "query", "queries", "timeout"}

NoPolicy == [headers |-> <<>>, query |-> <<>>, timeout |-> None]

\* none, any and all are refused.
parse_auth_use_kind(use) == use.kind \in {"Bearer", "Header", "Query", "Basic"}

AuthClause(raw, cl) ==
  IF parse_auth_use_kind(cl.use) THEN [raw EXCEPT !.auth = Append(@, cl.use)]
  ELSE Refuse(raw)

NoRepeats(names) == \A i, j \in DOMAIN names : names[i] = names[j] => i = j

parse_profile_use_spec(names) == names # <<>> /\ NoRepeats(names)

ProfileClause(raw, cl) ==
  IF parse_profile_use_spec(cl.names) THEN [raw EXCEPT !.profiles = @ \o cl.names]
  ELSE Refuse(raw)

\* A bucket has at most one cost, windows in seconds or minutes.
parse_rate_limit_bucket(b) ==
  b.costs <= 1 /\ \A w \in ToSet(b.windows) : w.unit \in {"s", "m"}

parse_rate_limit_plan_body(plan) ==
  plan # <<>> /\ \A b \in ToSet(plan) : parse_rate_limit_bucket(b)

parse_rate_limit_profile_list(names) == names # <<>> /\ NoRepeats(names)

parse_rate_limit_spec(spec) ==
  CASE spec.t = "Off" -> TRUE
    [] spec.t = "Inline" -> parse_rate_limit_plan_body(spec.plan)
    [] spec.t = "Profiles" -> parse_rate_limit_profile_list(spec.names)

\* `rate_limit key` bindings accumulate, the policy itself is written once.
RateLimitClause(raw, cl) ==
  CASE cl.c = "rate_key" -> [raw EXCEPT !.keys = Append(@, cl.binding)]
    [] cl.c = "rate_limit" -> IF raw.rate = None /\ parse_rate_limit_spec(cl.spec)
                              THEN [raw EXCEPT !.rate = cl.spec] ELSE Refuse(raw)

(* -------------------------------- client -------------------------------- *)

\* base "scheme://host": nothing but a host after the scheme.
parse_base_url_literal(base) == base.scheme \in {"http", "https"} /\ base.hostOnly

\* oauth2_client { ... }: each field once, all but the scope required.
parse_oauth2_client_credentials(fields) ==
  /\ NoRepeats(fields)
  /\ {"token_url", "client_id", "client_secret"} \subseteq ToSet(fields)
  /\ ToSet(fields) \subseteq {"token_url", "client_id", "client_secret", "scope"}

\* api_key(secret.x), bearer(..), basic(..), oauth2_client { .. }, endpoint scope.Login
parse_auth_credential_after_keyword(cred) ==
  /\ cred.kind \in {"ApiKey", "StaticBearer", "Basic", "OAuth2", "Endpoint"}
  /\ cred.kind = "OAuth2" => parse_oauth2_client_credentials(cred.fields)

CredentialClause(raw, cl) ==
  IF parse_auth_credential_after_keyword(cl.decl) THEN [raw EXCEPT !.creds = Append(@, cl.decl)]
  ELSE Refuse(raw)

SecretClause(raw, cl) == [raw EXCEPT !.secrets = Append(@, cl.decl)]

\* auth { ... } declares secrets and credentials only.
AuthGroupClause(raw, cl) ==
  CASE cl.c = "secret" -> SecretClause(raw, cl)
    [] cl.c = "credential" -> CredentialClause(raw, cl)
    [] OTHER -> Refuse(raw)

parse_client_auth_group(raw, body) == ParseBlock(AuthGroupClause, raw, body)

RateProfileClause(raw, cl) ==
  IF parse_rate_limit_plan_body(cl.def.plan) THEN [raw EXCEPT !.rateProfiles = Append(@, cl.def)]
  ELSE Refuse(raw)

ObserveClause(raw, cl) ==
  IF raw.observe # None THEN Refuse(raw) ELSE [raw EXCEPT !.observe = cl.path]

\* policies { ... } declares rate-limit profiles and the observer only.
PoliciesGroupClause(raw, cl) ==
  CASE cl.c = "rate_profile" -> RateProfileClause(raw, cl)
    [] cl.c = "observe" -> ObserveClause(raw, cl)
    [] OTHER -> Refuse(raw)

parse_client_policies_group(raw, body) == ParseBlock(PoliciesGroupClause, raw, body)

parse_profile_patch_body(def) ==
  /\ \A u \in ToSet(def.auth) : parse_auth_use_kind(u)
  /\ Len(def.rate) <= 1
  /\ \A s \in ToSet(def.rate) : parse_rate_limit_spec(s)

\* default { ... }: the default rate limit is one plain list of profiles.
DefaultClause(raw, cl) ==
  CASE cl.c \in PolicyClauses -> PolicyClause(raw, cl)
    [] cl.c = "auth" -> AuthClause(raw, cl)
    [] cl.c = "profile" -> ProfileClause(raw, cl)
    [] cl.c = "rate_limit" -> IF /\ parse_rate_limit_spec(cl.spec)
                                 /\ cl.spec.t = "Profiles" /\ ~ cl.spec.only
                                 /\ raw.defaultRate = <<>>
                              THEN [raw EXCEPT !.defaultRate = cl.spec.names]
                              ELSE Refuse(raw)
    [] OTHER -> Refuse(raw)

parse_client_default_block(raw, body) == ParseBlock(DefaultClause, raw, body)

BundleClause(raw, cl) ==
  IF cl.c = "bundle" /\ parse_profile_patch_body(cl.def)
  THEN [raw EXCEPT !.bundles = Append(@, cl.def)] ELSE Refuse(raw)

\* Clauses of the client block; a later base replaces an earlier one.
ClientClause(raw, cl) ==
  CASE cl.c = "base" -> IF parse_base_url_literal(cl.base)
                        THEN [raw EXCEPT !.base = cl.base] ELSE Refuse(raw)
    [] cl.c = "var" -> [raw EXCEPT !.vars = Append(@, cl.decl)]
    [] cl.c = "secret" -> SecretClause(raw, cl)
    [] cl.c = "auth_group" -> parse_client_auth_group(raw, cl.body)
    [] cl.c = "auth" -> AuthClause(raw, cl)
    [] cl.c = "credential" -> CredentialClause(raw, cl)
    [] cl.c = "rate_profile" -> RateProfileClause(raw, cl)
    [] cl.c = "policies" -> parse_client_policies_group(raw, cl.body)
    [] cl.c = "bundle" -> BundleClause(raw, cl)
    [] cl.c = "profiles" -> ParseBlock(BundleClause, raw, cl.body)
    [] cl.c = "default" -> IF raw.seenDefault THEN Refuse(raw)
                           ELSE parse_client_default_block(
                                  [raw EXCEPT !.seenDefault = TRUE], cl.body)
    [] cl.c = "observe" -> ObserveClause(raw, cl)
    [] cl.c \in PolicyClauses -> PolicyClause(raw, cl)
    [] OTHER -> Refuse(raw)

RawClient == [err |-> FALSE, base |-> None, vars |-> <<>>, secrets |-> <<>>, creds |-> <<>>,
              auth |-> <<>>, profiles |-> <<>>, rateProfiles |-> <<>>, defaultRate |-> <<>>,
              observe |-> None, bundles |-> <<>>, policy |-> NoPolicy, seenDefault |-> FALSE]

parse_client(text) ==
  LET raw == ParseBlock(ClientClause, RawClient, text)
  IN  IF raw.base = None THEN Refuse(raw) ELSE raw

(* -------------------------------- scopes -------------------------------- *)

\* host[...] and path[...] at most once each.
ScopeClause(raw, cl) ==
  CASE cl.c = "host" -> IF raw.host = None /\ RouteAccepted(cl.route)
                        THEN [raw EXCEPT !.host = cl.route] ELSE Refuse(raw)
    [] cl.c = "path" -> IF raw.path = None /\ PathAccepted(cl.route)
                        THEN [raw EXCEPT !.path = cl.route] ELSE Refuse(raw)
    [] cl.c \in PolicyClauses -> PolicyClause(raw, cl)
    [] cl.c = "profile" -> ProfileClause(raw, cl)
    [] cl.c = "auth" -> AuthClause(raw, cl)
    [] cl.c \in {"rate_key", "rate_limit"} -> RateLimitClause(raw, cl)
    [] OTHER -> Refuse(raw)

RawScope(name, params) ==
  [err |-> FALSE, name |-> name, params |-> params, host |-> None, path |-> None,
   policy |-> NoPolicy, profiles |-> <<>>, auth |-> <<>>, rate |-> None, keys |-> <<>>]

\* The clauses of the scope itself; its items are read by CompileApi.
parse_scope(text) == ParseBlock(ScopeClause, RawScope(text.name, text.params), text.body)

(* ------------------------------- endpoints ------------------------------- *)

\* paginate Controller { field = value, .. }: no comma after the last assignment.
PaginateSpec(cl) == ~ cl.trailingComma

\* The clauses before and those after the `-> Response` are read separately.
EndpointClause(raw, cl) ==
  CASE cl.c = "path" -> IF raw.route = <<>> /\ PathAccepted(cl.route)
                        THEN [raw EXCEPT !.route = cl.route] ELSE Refuse(raw)
    [] cl.c \in PolicyClauses -> PolicyClause(raw, cl)
    [] cl.c = "profile" -> ProfileClause(raw, cl)
    [] cl.c = "auth" -> AuthClause(raw, cl)
    [] cl.c \in {"rate_key", "rate_limit"} -> RateLimitClause(raw, cl)
    [] cl.c = "paginate" -> IF raw.paginate # None \/ ~ PaginateSpec(cl) THEN Refuse(raw)
                            ELSE [raw EXCEPT !.paginate = cl.assigns]
    [] OTHER -> Refuse(raw)

EndpointParts == [err |-> FALSE, route |-> <<>>, policy |-> NoPolicy, profiles |-> <<>>,
                  auth |-> <<>>, rate |-> None, keys |-> <<>>, paginate |-> None]

parse_endpoint_inline_parts(text) == ParseBlock(EndpointClause, EndpointParts, text)

\* One of two optional parts; both together are refused.
Both(a, b, none) == a # none /\ b # none
Either(a, b, none) == IF b # none THEN b ELSE a

MergeParts(a, b) ==
  [err |-> \/ a.err \/ b.err
           \/ Both(a.route, b.route, <<>>)
           \/ Both(a.policy.timeout, b.policy.timeout, None)
           \/ Both(a.rate, b.rate, None)
           \/ Both(a.paginate, b.paginate, None),
   route |-> Either(a.route, b.route, <<>>),
   policy |-> [headers |-> a.policy.headers \o b.policy.headers,
               query |-> a.policy.query \o b.policy.query,
               timeout |-> Either(a.policy.timeout, b.policy.timeout, None)],
   profiles |-> a.profiles \o b.profiles,
   auth |-> a.auth \o b.auth,
   rate |-> Either(a.rate, b.rate, None),
   keys |-> a.keys \o b.keys,
   paginate |-> Either(a.paginate, b.paginate, None)]

\* A codec is a plain path; only its last segment takes arguments, which are types.
RawIoSpec(io) == io.generics = "types"

\* The arguments of the signature: parameters, and at most one body.
SignatureArg(raw, arg) ==
  CASE arg.c = "param" -> [raw EXCEPT !.params = Append(@, arg.decl)]
    [] arg.c = "body" -> IF raw.body # None \/ ~ RawIoSpec(arg.io) THEN Refuse(raw)
                         ELSE [raw EXCEPT !.body = arg.io]

parse_endpoint_signature_args(args) ==
  ParseBlock(SignatureArg, [err |-> FALSE, params |-> <<>>, body |-> None], args)

parse_endpoint_response_spec(io) == io # None /\ RawIoSpec(io)

\* A braced block after the response is refused.
parse_endpoint(text) ==
  LET sig == parse_endpoint_signature_args(text.args)
      parts == MergeParts(parse_endpoint_inline_parts(text.leading),
                          parse_endpoint_inline_parts(text.trailing))
  IN  [err |-> \/ sig.err \/ parts.err \/ text.braced
               \/ ~ parse_endpoint_response_spec(text.response),
       method |-> text.method, name |-> text.name, alias |-> text.alias,
       params |-> sig.params, body |-> sig.body, response |-> text.response,
       route |-> parts.route, policy |-> parts.policy, profiles |-> parts.profiles,
       auth |-> parts.auth, rate |-> parts.rate, keys |-> parts.keys,
       paginate |-> parts.paginate]
==============================================================================
