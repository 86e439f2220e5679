------------------------------- MODULE ApiSema -------------------------------
(***************************************************************************)
(* The semantic rules of the `api!` compiler (concord_macros/src/sema): the *)
(* operators that decide whether one declaration of the DSL is accepted and *)
(* what it resolves to.  The compiler that applies them in order is         *)
(* CompileApi.                                                              *)
(*                                                                          *)
(* Identifiers, types and literals are members of small sets.  A            *)
(* declaration is refused when its "Faults" set is not empty; what the      *)
(* diagnostic says is left out.  Declarations are the records that          *)
(* concord_macros/src/ast defines.                                          *)
(***************************************************************************)
EXTENDS ApiSyntax, FiniteSets

CONSTANTS
  HeaderKey,         \* spelling of a header -> its case-insensitive kebab name
  ValidLabels,       \* host labels that valid_dns_label accepts
  NanosPerSecond,    \* 10^9 in the code, scaled with the window maxima
  U64Max             \* where seconds * multiplier overflows

ASSUME SemaConstants == /\ NanosPerSecond \in Nat \ {0}
                        /\ U64Max \in Nat \ {0}

(* ------------------------------ variables ------------------------------- *)

VarNames(vars) == {vars[i].rust : i \in DOMAIN vars}

\* The declaration that the generated field of that name comes from: the first.
VarNamed(vars, n) == vars[CHOOSE i \in DOMAIN vars :
                             /\ vars[i].rust = n
                             /\ \A j \in DOMAIN vars : vars[j].rust = n => i <= j]

\* Mutant: optionality is not compared
VarConflictByType(vars, d) ==
  d.rust \in VarNames(vars) /\ VarNamed(vars, d.rust).ty # d.ty

VarConflict(vars, d) ==
  /\ d.rust \in VarNames(vars)
  /\ LET prev == VarNamed(vars, d.rust)
     IN  \/ prev.optional # d.optional
         \/ prev.ty # d.ty
         \/ /\ prev.default # None
            /\ d.default # None
            /\ prev.default # d.default

\* A second declaration is dropped: also the default that the first one lacks.
upsert_var(vars, d) == IF d.rust \in VarNames(vars) THEN vars ELSE Append(vars, d)

UpsertAll(decls) == FoldLeft(upsert_var, <<>>, decls)

DeclFaults(decls) ==
  {d \in ToSet(decls) : VarConflict(UpsertAll(decls), d)}

\* Inside a scope the innermost declaration of a name is the visible one.
LayerVars(decls) == UpsertAll(Reverse(decls))

(* ------------------------------- profiles ------------------------------- *)

\* Reusable bundles and rate-limit profiles extend one another by name.
DefNamed(defs, n) == defs[CHOOSE i \in DOMAIN defs : defs[i].name = n]
DefNames(defs) == {defs[i].name : i \in DOMAIN defs}

\* Lineage(defs)[n]: the chain of definitions from n's root ancestor down to n,
\* cut after Len(defs) parents (only a cycle is longer).
Lineage(defs) ==
  LET line[k \in 0..Len(defs)] ==
        [n \in DefNames(defs) |->
           LET parent == DefNamed(defs, n).extends
           IN  IF k = 0 \/ parent \notin DefNames(defs) THEN <<n>>
               ELSE Append(line[k - 1][parent], n)]
  IN  line[Len(defs)]

ExtendsFaults(defs) ==
  {i \in DOMAIN defs :
     \/ \E j \in 1..(i - 1) : defs[j].name = defs[i].name
     \/ defs[i].extends \notin DefNames(defs) \cup {None}
     \/ Len(Lineage(defs)[defs[i].name]) > Len(defs)}

\* merge_profile along the extends chain: auth uses and rate-limit specs append.
resolve_profile(defs, n) ==
  LET chain == Lineage(defs)[n]
  IN  [auth |-> Concat(LAMBDA p : DefNamed(defs, p).auth, chain),
       rate |-> Concat(LAMBDA p : DefNamed(defs, p).rate, chain)]

ProfileUseFaults(uses, defs) ==
  {i \in DOMAIN uses : \/ uses[i] \notin DefNames(defs)
                       \/ \E j \in 1..(i - 1) : uses[j] = uses[i]}

resolve_profile_uses(uses, defs) ==
  [auth |-> Concat(LAMBDA n : resolve_profile(defs, n).auth, uses),
   rate |-> Concat(LAMBDA n : resolve_profile(defs, n).rate, uses)]

(* ------------------------------ rate limits ----------------------------- *)

UnitSeconds == [s |-> 1, m |-> 60]

WindowFault(w, cost) ==
  \/ w.max = 0
  \/ cost > w.max
  \/ w.every = 0
  \/ w.every * UnitSeconds[w.unit] > U64Max
  \/ w.max > w.every * UnitSeconds[w.unit] * NanosPerSecond

BucketFaults(plan) ==
  {i \in DOMAIN plan : \/ plan[i].windows = <<>>
                       \/ plan[i].cost = 0
                       \/ \E w \in ToSet(plan[i].windows) : WindowFault(w, plan[i].cost)}

\* A bucket is known by its profile (or "inline") and its index in it.
resolve_rate_limit_plan_spec(plan, owner) ==
  [i \in DOMAIN plan |-> [kind |-> plan[i].kind, name |-> <<owner, i>>, key |-> plan[i].key,
                          cost |-> plan[i].cost, windows |-> plan[i].windows]]

RateLimitTemplate(defs, n) ==
  Concat(LAMBDA p : resolve_rate_limit_plan_spec(DefNamed(defs, p).plan, p),
         Lineage(defs)[n])

combine_rate_limit_profiles(names, defs) ==
  Concat(LAMBDA n : RateLimitTemplate(defs, n), names)

\* `rate_limit key name = param`: keys visible below the site that binds them.
KeyBindingFaults(bindings, decls) ==
  {i \in DOMAIN bindings :
     \/ \E j \in 1..(i - 1) : bindings[j].name = bindings[i].name
     \/ bindings[i].value \notin VarNames(decls)
     \/ VarNamed(decls, bindings[i].value).optional}

BindKeys(visible, bindings) ==
  FoldLeft(LAMBDA acc, b : With(acc, b.name, b.value), visible, bindings)

KeyFault(key, visible, vars) ==
  /\ key.t = "Named"
  /\ key.name \notin DOMAIN visible
  /\ \/ key.name \notin VarNames(vars)
     \/ VarNamed(vars, key.name).optional

materialize_rate_limit_key(key, visible) ==
  IF key.t = "Named"
  THEN [t |-> "EpField", name |-> IF key.name \in DOMAIN visible
                                  THEN visible[key.name] ELSE key.name]
  ELSE key

SpecTemplate(spec, defs) ==
  IF spec.t = "Inline" THEN resolve_rate_limit_plan_spec(spec.plan, "inline")
  ELSE combine_rate_limit_profiles(spec.names, defs)

RateSpecFaults(spec, defs, visible, vars) ==
  CASE spec = None \/ spec.t = "Off" -> {}
    [] spec.t = "Profiles" /\ ~ (ToSet(spec.names) \subseteq DefNames(defs)) -> {"name"}
    [] spec.t = "Inline" /\ BucketFaults(spec.plan) # {} -> {"bucket"}
    [] OTHER -> {k \in UNION {ToSet(b.key) : b \in ToSet(SpecTemplate(spec, defs))} :
                   KeyFault(k, visible, vars)}

\* Nothing is attached: Option::None of the resolved rate limit
NoRateLimit == [op |-> "None", buckets |-> <<>>]

resolve_rate_limit_spec(spec, defs, visible) ==
  IF spec = None THEN NoRateLimit
  ELSE IF spec.t = "Off" THEN [op |-> "Clear", buckets |-> <<>>]
  ELSE LET plan == SpecTemplate(spec, defs)
       IN  [op |-> IF spec.only THEN "Replace" ELSE "Add",
            buckets |-> [i \in DOMAIN plan |->
              [plan[i] EXCEPT !.key = [k \in DOMAIN @ |->
                 materialize_rate_limit_key(@[k], visible)]]]]

\* The profile's attachment, then the local one.  A Clear before an Add is lost.
merge_rate_limit_resolved(existing, incoming) ==
  IF incoming.op = "None" THEN existing
  ELSE IF incoming.op # "Add" \/ existing.op \in {"None", "Clear"} THEN incoming
  ELSE [existing EXCEPT !.buckets = @ \o incoming.buckets]

\* What one attachment site resolves to: its profiles' specs, then its own.
SiteRateLimit(profileSpecs, spec, defs, visible) ==
  merge_rate_limit_resolved(
    FoldLeft(LAMBDA acc, s : merge_rate_limit_resolved(acc,
                               resolve_rate_limit_spec(s, defs, visible)),
             NoRateLimit, profileSpecs),
    resolve_rate_limit_spec(spec, defs, visible))

(* --------------------------------- auth --------------------------------- *)

Challenges == {None, "unauthorized", "unauthorized_or_forbidden", "never_recover"}

shape_from_type(ty) ==
  CASE ty = "AccessToken" -> "AccessToken"
    [] ty = "ApiKey" -> "SecretValue"
    [] ty = "BasicCredential" -> "Basic"
    [] OTHER -> "Unknown"

MaterialShape(cred, outputs) ==
  CASE cred.kind = "ApiKey" -> "SecretValue"
    [] cred.kind \in {"StaticBearer", "OAuth2"} -> "AccessToken"
    [] cred.kind = "Basic" -> "Basic"
    [] cred.kind = "Endpoint" -> shape_from_type(outputs[cred.target])

CredentialFaults(creds, secrets, outputs) ==
  {i \in DOMAIN creds :
     \/ \E j \in 1..(i - 1) : creds[j].name = creds[i].name
     \/ \E s \in creds[i].secrets : \/ s \notin VarNames(secrets)
                                    \/ VarNamed(secrets, s).optional
     \/ creds[i].kind = "OAuth2" /\ ~ creds[i].httpsTokenUrl
     \/ creds[i].kind = "Endpoint" /\ creds[i].target \notin DOMAIN outputs}

UsageFits(use, shape) ==
  CASE use.kind = "Bearer" -> shape \in {"AccessToken", "Unknown"}
    [] use.kind \in {"Header", "Query"} -> shape \in {"SecretValue", "AccessToken", "Unknown"}
    [] use.kind = "Basic" -> shape = "Basic"

\* Two header uses, or two query uses, of one attachment site with the same key.
SameKeyInLayer(uses, i, j) ==
  \/ uses[i].kind = "Header" /\ uses[j].kind = "Header"
       /\ HeaderKey[uses[i].key] = HeaderKey[uses[j].key]
  \/ uses[i].kind = "Query" /\ uses[j].kind = "Query" /\ uses[i].key = uses[j].key

AuthUseFaults(uses, creds, outputs) ==
  {i \in DOMAIN uses :
     \/ \E j \in 1..(i - 1) : SameKeyInLayer(uses, i, j)
     \/ uses[i].credential \notin DefNames(creds)
     \/ ~ UsageFits(uses[i], MaterialShape(DefNamed(creds, uses[i].credential), outputs))
     \/ uses[i].challenge \notin Challenges}

resolve_auth_requirements(uses, provenance) ==
  [i \in DOMAIN uses |-> [kind |-> uses[i].kind, key |-> uses[i].key,
      credential |-> uses[i].credential, provenance |-> provenance,
      challenge |-> IF uses[i].challenge = None THEN "unauthorized" ELSE uses[i].challenge]]

\* Bearer, Basic and a custom Authorization header share one slot of the request.
final_auth_materialization_target(req) ==
  CASE req.kind \in {"Bearer", "Basic"} -> <<"Authorization">>
    [] req.kind = "Header" -> IF HeaderKey[req.key] = "authorization"
                              THEN <<"Authorization">> ELSE <<"Header", HeaderKey[req.key]>>
    [] req.kind = "Query" -> <<"Query", req.key>>

FinalAuthFaults(auth) ==
  {i \in DOMAIN auth : \E j \in 1..(i - 1) :
     final_auth_materialization_target(auth[i]) = final_auth_materialization_target(auth[j])}

\* A login endpoint may not present the credential that it produces.
SelfAuthFaults(auth, creds, target) ==
  {c \in ToSet(creds) : /\ c.kind = "Endpoint" /\ c.target = target
                        /\ \E r \in ToSet(auth) : r.credential = c.name}

(* ---------------------------- policy operations -------------------------- *)

\* Roots that a compound public expression may not mention; a bare parameter
\* inside one is lowered to ep.x first, so it is refused as well.
ForbiddenRoots ==
  {"auth", "secret", "secrets", "ctx", "cx", "ep", "vars", "client", "runtime", "policy",
   "req", "request", "headers", "url", "transport", "self"}

\* A reference of a value: "Cx" is vars.x, "Ep" a bare x or ep.x.
RefFault(ref, clientVars, epVars) ==
  CASE ref.t = "Cx" -> ref.field \notin VarNames(clientVars)
    [] ref.t = "Ep" -> ref.field \notin VarNames(epVars)
    [] ref.t = "Secret" -> TRUE
    [] OTHER -> FALSE

RefOptional(ref, clientVars, epVars) ==
  CASE ref.t = "Cx" -> VarNamed(clientVars, ref.field).optional
    [] ref.t = "Ep" -> VarNamed(epVars, ref.field).optional
    [] OTHER -> FALSE

FmtFault(fmt, clientVars, epVars) ==
  \/ \E r \in ToSet(fmt.pieces) : RefFault(r, clientVars, epVars)
  \/ /\ ~ fmt.requireAll
     /\ \E r \in ToSet(fmt.pieces) : RefOptional(r, clientVars, epVars)

ValueFault(v, clientVars, epVars) ==
  CASE v.t = "Expr" -> v.roots \cap ForbiddenRoots # {}
    [] v.t = "Fmt" -> FmtFault(v, clientVars, epVars)
    [] OTHER -> RefFault(v, clientVars, epVars)

\* Header statements are keyed by the canonical name, query ones by the key.
OpKey(s, kind) == IF kind = "Header" THEN HeaderKey[s.key] ELSE s.key

PolicyFaults(stmts, kind, clientVars, epVars) ==
  {i \in DOMAIN stmts :
     /\ stmts[i].op = "Set"
     /\ \/ ValueFault(stmts[i].value, clientVars, epVars)
        \/ /\ kind = "Header"
           /\ \/ stmts[i].value.t = "Lit" /\ ~ stmts[i].value.headerSafe
              \/ \E j \in 1..(i - 1) : /\ stmts[j].op = "Set"
                                       /\ OpKey(stmts[j], kind) = OpKey(stmts[i], kind)}

query_cardinality(v, kind, clientVars, epVars) ==
  IF kind = "Query" /\ v.t \in {"Cx", "Ep"}
     /\ VarNamed(IF v.t = "Cx" THEN clientVars ELSE epVars, v.field).ty = "Vec"
  THEN "Vector" ELSE "Scalar"

Methods == {"GET", "POST", "PUT", "DELETE", "HEAD", "OPTIONS", "PATCH"}

\* optional: the field of a Set is an Option, so an absent one removes the key.
resolve_policy_block(stmts, kind, clientVars, epVars) ==
  [i \in DOMAIN stmts |->
     IF stmts[i].op = "Remove" THEN [op |-> "Remove", key |-> OpKey(stmts[i], kind)]
     ELSE [op |-> "Set", key |-> OpKey(stmts[i], kind), value |-> stmts[i].value,
           optional |-> RefOptional(stmts[i].value, clientVars, epVars),
           cardinality |-> query_cardinality(stmts[i].value, kind, clientVars, epVars)]]

\* The names that a timeout mentions are left to the Rust compiler.
TimeoutFault(v) == v.t = "Secret" \/ (v.t = "Expr" /\ v.roots \cap ForbiddenRoots # {})

BlockFaults(p, clientVars, epVars) ==
  \/ PolicyFaults(p.headers, "Header", clientVars, epVars) # {}
  \/ PolicyFaults(p.query, "Query", clientVars, epVars) # {}
  \/ p.timeout # None /\ TimeoutFault(p.timeout)

resolve_policy_blocks(p, clientVars, epVars) ==
  [headers |-> resolve_policy_block(p.headers, "Header", clientVars, epVars),
   query   |-> resolve_policy_block(p.query, "Query", clientVars, epVars),
   timeout |-> p.timeout]

(* -------------------------- routes, I/O, paging -------------------------- *)

\* explicit: written ep.x, which scope routes do not allow.  Missing optional
\* pieces are dealt with by the generated route code, not refused here.
RouteFault(atom, kind, isLayer, clientVars, vars) ==
  CASE atom.t = "Static" -> \/ atom.braces
                            \/ kind = "Prefix" /\ "" \in ToSet(atom.labels)
    [] atom.t = "Fmt" -> \E r \in ToSet(atom.pieces) :
                            \/ RefFault(r, clientVars, vars)
                            \/ isLayer /\ r.t = "Ep" /\ r.explicit
    [] OTHER -> \/ RefFault(atom, clientVars, vars)
                \/ isLayer /\ atom.t = "Ep" /\ atom.explicit

\* A static atom of a host is split into its labels.
RoutePieces(route, kind) ==
  Concat(LAMBDA a : IF a.t = "Static" /\ kind = "Prefix"
                    THEN [i \in DOMAIN a.labels |-> [a EXCEPT !.labels = <<a.labels[i]>>]]
                    ELSE <<a>>,
         route)

IoFault(io, position) ==
  CASE io.family \in {"Bytes", "NoContent"} -> io.args # 0 \/ position = "Request"
    [] io.family = "Stream" -> io.args # 1
    [] io.family = "Multipart" -> io.args # 1 \/ position = "Response"
    [] OTHER -> io.args > 1

EndpointIoFaults(e) ==
  \/ e.body # None /\ IoFault(e.body, "Request")
  \/ IoFault(e.response, "Response")
  \/ e.paginate # None /\ (e.response.family # "Codec" \/ e.body # None)

response_public_output_ty(io) ==
  CASE io.family = "Codec" -> io.ty
    [] OTHER -> io.family

PaginateFaults(assigns, clientVars, epVars) ==
  {i \in DOMAIN assigns :
     LET v == assigns[i].value
     IN  \/ v.t = "Cx"
         \/ v.t = "Fmt" /\ \E r \in ToSet(v.pieces) : r.t = "Cx"
         \/ ValueFault(v, clientVars, epVars)}

\* The endpoint fields that a page step rewrites.
PaginationBindings(assigns) ==
  {assigns[i].value.field : i \in {j \in DOMAIN assigns : assigns[j].value.t = "Ep"}}

(* ------------------------------ descriptors ------------------------------ *)

\* Mutant: the labels that a parameter gives are passed over
OriginOfLiterals(base, prefix) ==
  LET fixed == Kept(prefix, LAMBDA p : p.t = "Static")
  IN  [t |-> "Fixed", host |-> [i \in DOMAIN fixed |-> fixed[i].labels] \o <<<<base.host>>>>]

\* A host is fixed when each of its labels is a literal; an IP takes no prefix.
classify_endpoint_origin(base, prefix) ==
  IF /\ base.kind \in {"Domain", "Ip"}
     /\ base.kind = "Ip" => prefix = <<>>
     /\ \A p \in ToSet(prefix) : p.t = "Static" /\ p.labels[1] \in ValidLabels
  THEN [t |-> "Fixed", host |-> [i \in DOMAIN prefix |-> prefix[i].labels] \o <<<<base.host>>>>]
  ELSE [t |-> "Dynamic"]

HostFields(prefix) ==
  {p.field : p \in {q \in ToSet(prefix) : q.t = "Ep"}}
    \cup UNION {{r.field : r \in {q \in ToSet(p.pieces) : q.t = "Ep"}} :
                   p \in {q \in ToSet(prefix) : q.t = "Fmt"}}

pagination_can_change_origin(prefix, bindings) == HostFields(prefix) \cap bindings # {}

classify_api_origin(endpoints) ==
  LET origins == {endpoints[i].descriptor.origin : i \in DOMAIN endpoints}
  IN  IF \/ \E i \in DOMAIN endpoints : endpoints[i].descriptor.pagedOrigin
         \/ \E o \in origins : o.t = "Dynamic"
         \/ origins = {}
      THEN [t |-> "Dynamic"]
      ELSE IF Cardinality(origins) = 1
           THEN [t |-> "FixedSingle", host |-> (CHOOSE o \in origins : TRUE).host]
           ELSE [t |-> "Multi"]
==============================================================================
