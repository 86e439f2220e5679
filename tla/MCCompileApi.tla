---------------------------- MODULE MCCompileApi ----------------------------
(***************************************************************************)
(* Four small vocabularies of blocks, each aimed at the clauses that meet:  *)
(* policy statements, authentication with rate limits, hosts with paging,   *)
(* and blocks that a pass refuses.                                          *)
(***************************************************************************)
EXTENDS CompileApi

(* Values and clauses *)
Lit(x) == [t |-> "Lit", lit |-> x, headerSafe |-> TRUE, slash |-> FALSE]
Ep(f)  == [t |-> "Ep", field |-> f, explicit |-> FALSE]
Cx(f)  == [t |-> "Cx", field |-> f, explicit |-> TRUE]
Fmt(ps) == [t |-> "Fmt", pieces |-> ps, requireAll |-> FALSE]
Param(n) == [rust |-> n, optional |-> FALSE, ty |-> "Text", default |-> None]
Opt(n)   == [Param(n) EXCEPT !.optional = TRUE]
Def(n)   == [Param(n) EXCEPT !.default = <<"d">>]
OptDef(n) == [Opt(n) EXCEPT !.default = <<"d">>]
VecParam(n) == [Param(n) EXCEPT !.ty = "Vec"]
HSet(k, v) == [c |-> "header", stmt |-> [op |-> "Set", key |-> k, literal |-> TRUE, value |-> v]]
HDel(k)    == [c |-> "header", stmt |-> [op |-> "Remove", key |-> k, literal |-> TRUE]]
QSet(k, v) == [c |-> "query", stmt |-> [op |-> "Set", key |-> k, literal |-> TRUE, value |-> v]]
Headers(hs) == [c |-> "headers", stmts |-> [i \in DOMAIN hs |-> hs[i].stmt]]
QDel(k)    == [c |-> "query", stmt |-> [op |-> "Remove", key |-> k, literal |-> TRUE]]
Timeout(v) == [c |-> "timeout", value |-> v]
Seconds    == [t |-> "Expr", roots |-> {"Duration"}]
Base       == [c |-> "base", base |-> [scheme |-> "https", hostOnly |-> TRUE, host |-> "api",
                                       kind |-> "Domain"]]
Var(d)     == [c |-> "var", decl |-> d]
Secret(d)  == [c |-> "secret", decl |-> d]
Static(labels) == [t |-> "Static", labels |-> labels, braces |-> FALSE]
Path(r)    == [c |-> "path", route |-> r]
Host(r)    == [c |-> "host", route |-> r]
Default(b) == [c |-> "default", body |-> b]

(* Authentication and rate limits *)
Cred(n, kind, secrets) == [c |-> "credential", decl |->
    [name |-> n, kind |-> kind, secrets |-> secrets, fields |-> <<>>, httpsTokenUrl |-> TRUE,
     target |-> <<>>]]
Login(n, target) == [Cred(n, "Endpoint", {}) EXCEPT !.decl.target = target]
Auth(kind, key, cred) == [c |-> "auth", use |->
    [kind |-> kind, key |-> key, credential |-> cred, challenge |-> None]]
Use(n) == [c |-> "profile", names |-> <<n>>]
Window == [max |-> 2, every |-> 1, unit |-> "m"]
Bucket(key) == [kind |-> "application", key |-> key, costs |-> 0, cost |-> 1, windows |-> <<Window>>]
HostKey == [t |-> "Host", name |-> None]
Named(n) == [t |-> "Named", name |-> n]
RateProfile(n, ext, key) == [c |-> "rate_profile",
    def |-> [name |-> n, extends |-> ext, plan |-> <<Bucket(<<key>>)>>]]
Bundle(n, ext, uses, specs) == [c |-> "bundle",
    def |-> [name |-> n, extends |-> ext, auth |-> uses, rate |-> specs]]
Limit(ns) == [t |-> "Profiles", names |-> ns, only |-> FALSE]
Only(ns)  == [t |-> "Profiles", names |-> ns, only |-> TRUE]
Inline(b) == [t |-> "Inline", plan |-> <<b>>, only |-> FALSE]
Off       == [t |-> "Off"]
Rate(s)   == [c |-> "rate_limit", spec |-> s]
RateKey(n, v) == [c |-> "rate_key", binding |-> [name |-> n, value |-> v]]

(* Scopes and endpoints *)
Io(family, ty, accept) == [family |-> family, args |-> IF family = "Stream" THEN 1 ELSE 0,
                           ty |-> ty, accept |-> accept, media |-> None, generics |-> "types"]
Json  == Io("Codec", "Item", "json")
Token == Io("Codec", "AccessToken", "json")
Arg(d) == [c |-> "param", decl |-> d]
Body(media) == [c |-> "body", io |-> [Json EXCEPT !.media = media]]
Upload == [c |-> "body", io |-> [Io("Multipart", "Item", None) EXCEPT !.args = 1, !.media = "Dynamic"]]
Paginate(v) == [c |-> "paginate", trailingComma |-> FALSE, assigns |-> <<[field |-> "n", value |-> v]>>]
Scope(n, params, body) == [name |-> n, params |-> params, body |-> body]
Endpoint(method, n, params, clauses, io) ==
  [method |-> method, name |-> n, args |-> [i \in DOMAIN params |-> Arg(params[i])],
   alias |-> None, leading |-> clauses, response |-> io, trailing |-> <<>>, braced |-> FALSE]

PolicyWords ==
  [maxItems |-> 3,
   clients |-> {<<Base, Var(Opt("lang")), HSet("X-Lang", Cx("lang")), QSet("v", Lit("1")),
                  Default(<<HSet("X-Tag", Lit("c")), Timeout(Seconds)>>)>>},
   scopes |-> {Scope("users", <<Param("id")>>, <<Path(<<Ep("id")>>), HSet("x-tag", Ep("id"))>>),
               Scope("team", <<OptDef("tag")>>, <<HSet("X-Tag", Ep("tag")), QDel("v")>>),
               Scope("users", <<Opt("tag")>>, <<QSet("v", Ep("tag")), Headers(<<HDel("X-Lang")>>)>>)},
   endpoints |-> {Endpoint("GET", "Get", <<Def("tag")>>, <<HSet("X-Lang", Ep("tag"))>>, Json),
                  Endpoint("HEAD", "Head", <<VecParam("ids")>>,
                           <<QSet("v", Ep("ids")), HDel("x-tag")>>, Json),
                  Endpoint("GET", "Find", <<Param("id")>>,
                           <<Path(<<Static(<<"find">>), Fmt(<<Lit("u"), Ep("id")>>)>>),
                             HSet("Accept", Lit("text")), QSet("w", Fmt(<<Lit("u"), Ep("id")>>))>>,
                           Json),
                  [Endpoint("POST", "Login", <<>>, <<HSet("Content-Type", Lit("json"))>>, Json)
                     EXCEPT !.args = <<Body("json")>>]}]

AuthWords ==
  [maxItems |-> 4,
   clients |-> {<<Base,
                  [c |-> "auth_group", body |-> <<Secret(Param("key")), Cred("ak", "ApiKey", {"key"}),
                                                  Login("session", <<<<"auth">>, "Login">>)>>],
                  [c |-> "policies", body |-> <<RateProfile("slow", None, HostKey),
                                                RateProfile("tenant", "slow", Named("id"))>>],
                  Bundle("base", None, <<Auth("Header", "X-Key", "ak").use>>, <<Limit(<<"slow">>)>>),
                  Bundle("user", "base", <<Auth("Bearer", None, "session").use>>, <<>>),
                  Bundle("free", None, <<>>, <<Off>>),
                  Default(<<Rate(Limit(<<"slow">>))>>)>>},
   scopes |-> {Scope("auth", <<>>, <<Auth("Query", "k", "ak")>>),
               Scope("users", <<Param("id")>>, <<Use("user"), RateKey("id", "id"),
                                                 Rate(Limit(<<"tenant">>))>>),
               Scope("team", <<Param("id")>>, <<Use("free"), Rate(Inline(Bucket(<<HostKey>>)))>>)},
   endpoints |-> {Endpoint("POST", "Login", <<>>, <<>>, Token),
                  Endpoint("GET", "Get", <<Param("id")>>, <<Rate(Only(<<"tenant">>)), QSet("k", Lit("1"))>>, Json),
                  Endpoint("GET", "session", <<>>, <<Auth("Bearer", None, "session"), Rate(Off)>>,
                           Json)}]

HostWords ==
  [maxItems |-> 4,
   clients |-> {<<Base>>, <<[Base EXCEPT !.base.kind = "Ip"]>>},
   scopes |-> {Scope("users", <<>>, <<Host(<<Static(<<"eu">>)>>), Path(<<Static(<<"v1">>)>>)>>),
               Scope("team", <<Param("page")>>, <<Host(<<Ep("page")>>)>>),
               Scope("auth", <<Def("tag")>>, <<Path(<<Ep("tag")>>)>>)},
   endpoints |-> {Endpoint("GET", "Get", <<>>, <<Path(<<Static(<<"x">>)>>)>>, Json),
                  Endpoint("GET", "Find", <<Param("page")>>,
                           <<QSet("v", Ep("page")),
                             Paginate(Ep("page"))>>,
                           Json)}]

\* Each block below meets a refusal of another pass.
RefusedWords ==
  [maxItems |-> 4,
   clients |-> {<<>>,
                <<Base, [c |-> "unknown"]>>,
                <<Base, Secret(Opt("key")), Cred("ak", "ApiKey", {"key"})>>,
                <<Base, RateProfile("slow", "tenant", HostKey), RateProfile("tenant", "slow", HostKey)>>,
                <<Base, Default(<<Use("base")>>)>>,
                <<Base>>},
   scopes |-> {Scope("users", <<Opt("id")>>, <<RateKey("id", "id")>>),
               Scope("team", <<Param("id")>>, <<Rate(Off), Rate(Off)>>),
               Scope("tag", <<Opt("id")>>, <<>>),
               Scope("auth", <<Def("id")>>, <<QSet("v", Ep("id"))>>)},
   endpoints |-> {Endpoint("TRACE", "Get", <<>>, <<>>, Json),
                  Endpoint("GET", "id", <<Opt("id")>>, <<QSet("v", Ep("id"))>>, Json),
                  Endpoint("GET", "Find", <<>>, <<>>, Io("Multipart", "Item", None)),
                  Endpoint("GET", "Head", <<>>, <<QSet("v", [t |-> "Secret", field |-> "key"]),
                                                  Timeout(Seconds), Timeout(Seconds)>>, Json),
                  Endpoint("GET", "page", <<OptDef("page")>>,
                           <<QSet("v", Ep("page")), Paginate(Ep("page"))>>, Json),
                  [Endpoint("POST", "Login", <<>>, <<>>, Json) EXCEPT !.args = <<Upload>>]}]

AllVocabularies == {PolicyWords, AuthWords, HostWords, RefusedWords}
OnlyPolicy == {PolicyWords}

MCHeaderKey == [k \in {"X-Lang", "X-Tag", "x-tag", "Accept", "X-Key", "Content-Type"} |->
                  CASE k = "X-Lang" -> "x-lang" [] k \in {"X-Tag", "x-tag"} -> "x-tag"
                    [] k = "Accept" -> "accept" [] k = "X-Key" -> "x-key"
                    [] k = "Content-Type" -> "content-type"]

Lowered == [Get |-> "get", Head |-> "head", Find |-> "find", Login |-> "login"]
MCWords == [n \in {"users", "team", "auth", "Get", "Head", "Find", "Login", "session", "id", "tag",
                   "ids", "page", "lang", "key", "ak"} |->
              IF n \in DOMAIN Lowered THEN <<Lowered[n]>> ELSE <<n>>]

MCValues == [Text |-> {<<"1">>, <<"a/b">>}, Vec |-> {<<"1", "2">>}]
MCBadSegments == {<<>>, <<"">>}
MCApiHeaderSets == {<<>>, "x-tag" :> <<"api">>}
=============================================================================
