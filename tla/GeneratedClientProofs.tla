----------------------- MODULE GeneratedClientProofs ------------------------
(***************************************************************************)
(* Proofs about the client that CompileApi's programs generate, for any     *)
(* caller: what is on the wire.                                             *)
(*                                                                          *)
(* CallerInv says what the handles and the pending request hold: a value    *)
(* for each parameter, the one that the caller asked for last.  With        *)
(* CompileInv it makes every value that a request renders a list of texts,  *)
(* so that the merged policy can be followed layer by layer beside the      *)
(* documentation that was generated from the same blocks.                   *)
(***************************************************************************)
EXTENDS CompileApiProofs

(* ------------------------- handles and endpoints ------------------------- *)

\* rustc accepted the structs of every scope.
Compiled == \A s \in ToSet(Scopes) : emit_facade_scope_struct(s, client, Scopes, endpoints)

\* A handle: the client's or a scope's, with a value for each of its parameters
HandleOK(h) == /\ DOMAIN h = {"path", "fields"}
               /\ h.path = <<>> \/ \E s \in ToSet(Scopes) : s.path = h.path
               /\ Filled(ScopeAt(h.path).decls, h.fields)

AskedFor(e, fields, asked) ==
    /\ VarNames(e.vars) \subseteq DOMAIN asked
    /\ \A v \in ToSet(e.vars) : ~ (v.optional /\ v.default # None) => fields[v.rust] = asked[v.rust]

CallerInv ==
    /\ stage \in {"built", "calling", "pending", "done"} => Compiled
    /\ stage \in {"calling", "pending", "done"} => Filled(client.vars, caller.vars)
    /\ stage = "calling" => HandleOK(caller.handle) /\ caller.asked = caller.handle.fields
    /\ stage \in {"pending", "done"} => /\ Filled(caller.e.vars, caller.fields)
                                        /\ AskedFor(caller.e, caller.fields, caller.asked)

\* A field of the same name, optionality and type
LEMMA SameShape ==
    ASSUME NEW vs, NEW ws, FieldShapes(vs) \subseteq FieldShapes(ws), NEW v \in ToSet(vs)
    PROVE  \E w \in ToSet(ws) : w.rust = v.rust /\ w.optional = v.optional /\ w.ty = v.ty
<1>1. <<v.rust, v.optional, v.ty>> \in FieldShapes(ws)
  BY DEF FieldShapes
<1>2. PICK w \in ToSet(ws) : <<w.rust, w.optional, w.ty>> = <<v.rust, v.optional, v.ty>>
  BY <1>1 DEF FieldShapes
<1> QED BY <1>2

\* What rustc has checked of a scope's struct
LEMMA CompiledScope ==
    ASSUME ScopesOK(Scopes), Compiled, NEW s \in ToSet(Scopes)
    PROVE  DeclsOK(s.decls) /\ Unique(s.decls)
<1>1. NoRepeats([i \in DOMAIN s.decls |-> s.decls[i].rust])
  BY DEF Compiled, emit_facade_scope_struct
<1>2. Distinct(s.decls)
  BY <1>1 DEF NoRepeats, Distinct
<1> QED BY <1>2, DistinctUnique DEF ScopesOK, ScopeOK

\* The parameters of the scope that a handle is at
LEMMA HandleDecls ==
    ASSUME ScopesOK(Scopes), Compiled, NEW h, HandleOK(h)
    PROVE  LET p == ScopeAt(h.path)
           IN  /\ DeclsOK(p.decls) /\ Unique(p.decls)
               /\ (h.path = <<>> /\ p.decls = <<>>) \/ (p \in ToSet(Scopes) /\ p.path = h.path)
<1> DEFINE p == ScopeAt(h.path)
<1>1. CASE h.path = <<>>
  <2>1. p.decls = <<>>
    BY <1>1 DEF ScopeAt, RootScope
  <2> HIDE DEF p
  <2>2. DeclsOK(p.decls) /\ Unique(p.decls)
    BY <2>1, EmptyVec DEF DeclsOK, VecOf, Unique
  <2> QED BY <1>1, <2>1, <2>2 DEF p
<1>2. CASE h.path # <<>>
  <2>1. PICK s \in ToSet(Scopes) : s.path = h.path
    BY <1>2 DEF HandleOK
  <2>2. p = s
    BY <2>1, AtItsPath
  <2> HIDE DEF p
  <2> QED BY <2>1, <2>2, CompiledScope DEF p
<1> QED BY <1>1, <1>2

\* A child scope is a scope of the facade.
LEMMA ChildIn ==
    ASSUME IsVec(Scopes), NEW path, NEW s \in ToSet(ChildScopes(Scopes, path))
    PROVE  s \in ToSet(Scopes)
<1> DEFINE all == Scopes
           K == {x \in ToSet(all) : Len(x.path) = Len(path) + 1 /\ SubSeq(x.path, 1, Len(path)) = path}
           parts == [i \in DOMAIN all |-> IF all[i] \in K THEN <<all[i]>> ELSE <<>>]
<1> HIDE DEF all
<1>1. \A i \in DOMAIN all :
        (Len(all[i].path) = Len(path) + 1 /\ SubSeq(all[i].path, 1, Len(path)) = path) <=> all[i] \in K
  BY DEF ToSet
<1> HIDE DEF K
<1>2. ChildScopes(all, path) = FlattenSeq(parts)
  <2>1. [i \in DOMAIN all |-> IF Len(all[i].path) = Len(path) + 1
                                 /\ SubSeq(all[i].path, 1, Len(path)) = path
                              THEN <<all[i]>> ELSE <<>>] = parts
    BY <1>1
  <2> HIDE DEF parts
  <2> QED BY <2>1 DEF ChildScopes, Kept, Concat
<1>3. IsVec(all) /\ s \in ToSet(ChildScopes(all, path))
  BY DEF all
<1>4. ToSet(FlattenSeq(parts)) = ToSet(all) \cap K
  BY <1>3, KeptVec
<1>5. s \in ToSet(all)
  <2> HIDE DEF parts
  <2> QED BY <1>2, <1>3, <1>4
<1> QED BY <1>5 DEF all

\* Entering a scope: the parent's values, and a value for each new parameter
LEMMA EnteredFilled ==
    ASSUME NEW old, DeclsOK(old), NEW all, DeclsOK(all), Unique(all), NEW new, DeclsOK(new),
           ToSet(new) \subseteq ToSet(all), FieldShapes(all) = FieldShapes(old) \cup FieldShapes(new),
           NEW f, Filled(old, f), NEW args \in ArgumentsFor(new)
    PROVE  Filled(all, Over(f, NewFields(new, args)))
<1> DEFINE g == NewFields(new, args)  r == Over(f, g)
<1>1. Unique(new)
  BY DEF Unique
<1>2. Filled(new, g)
  <2>1. \A v \in ToSet(new) : Required(v) => HasValue(v, args[v.rust])
    BY <1>1, ArgsGiven
  <2> QED BY <1>1, <2>1, FreshFilled
<1> HIDE DEF g
<1>3. DOMAIN r = DOMAIN f \cup DOMAIN g
      /\ \A n \in DOMAIN r : r[n] = IF n \in DOMAIN f THEN f[n] ELSE g[n]
  BY DEF Over
<1> HIDE DEF r
<1>4. /\ DOMAIN f = {v.rust : v \in ToSet(old)} /\ DOMAIN g = {v.rust : v \in ToSet(new)}
      /\ VarNames(all) = {v.rust : v \in ToSet(all)}
  BY <1>2, NamesOf DEF Filled, DeclsOK, VecOf
<1>5. /\ \A v \in ToSet(all) : (\E w \in ToSet(old) : w.rust = v.rust) \/ (\E w \in ToSet(new) : w.rust = v.rust)
      /\ \A w \in ToSet(old) : \E v \in ToSet(all) : v.rust = w.rust /\ v.optional = w.optional
  <2>1. FieldShapes(old) \subseteq FieldShapes(all)
    OBVIOUS
  <2>2. ASSUME NEW v \in ToSet(all)
        PROVE  (\E w \in ToSet(old) : w.rust = v.rust) \/ (\E w \in ToSet(new) : w.rust = v.rust)
    <3>1. <<v.rust, v.optional, v.ty>> \in FieldShapes(old) \cup FieldShapes(new)
      BY DEF FieldShapes
    <3>2. CASE <<v.rust, v.optional, v.ty>> \in FieldShapes(old)
      <4>1. PICK w \in ToSet(old) : <<w.rust, w.optional, w.ty>> = <<v.rust, v.optional, v.ty>>
        BY <3>2 DEF FieldShapes
      <4> QED BY <4>1
    <3>3. CASE <<v.rust, v.optional, v.ty>> \in FieldShapes(new)
      <4>1. PICK w \in ToSet(new) : <<w.rust, w.optional, w.ty>> = <<v.rust, v.optional, v.ty>>
        BY <3>3 DEF FieldShapes
      <4> QED BY <4>1
    <3> QED BY <3>1, <3>2, <3>3
  <2> QED BY <2>1, <2>2, SameShape
<1>6. DOMAIN r = VarNames(all)
  BY <1>3, <1>4, <1>5
<1>7. ASSUME NEW v \in ToSet(all) PROVE HasValue(v, r[v.rust])
  <2>1. v.rust \in DOMAIN r
    BY <1>4, <1>6
  <2>2. CASE v.rust \in DOMAIN f
    <3>1. PICK w \in ToSet(old) : w.rust = v.rust
      BY <1>4, <2>2
    <3>2. w.optional = v.optional
      BY <1>5, <3>1 DEF Unique
    <3>3. HasValue(w, f[v.rust])
      BY <3>1 DEF Filled
    <3> QED BY <1>3, <2>1, <2>2, <3>2, <3>3 DEF HasValue
  <2>3. CASE v.rust \notin DOMAIN f
    <3>1. PICK w \in ToSet(new) : w.rust = v.rust
      BY <1>3, <1>4, <2>1, <2>3
    <3>2. w = v
      BY <3>1 DEF Unique
    <3>3. HasValue(v, g[v.rust])
      BY <1>2, <3>1, <3>2 DEF Filled
    <3> QED BY <1>3, <2>1, <2>3, <3>3
  <2> QED BY <2>2, <2>3
<1> QED BY <1>6, <1>7 DEF Filled, r, g

\* Entering a child scope gives a good handle.
LEMMA EnteredOK ==
    ASSUME ScopesOK(Scopes), Compiled, NEW h, HandleOK(h), NEW s \in ToSet(ChildScopes(Scopes, h.path)),
           NEW args \in ArgumentsFor(NewDecls(ScopeAt(h.path), s))
    PROVE  HandleOK(emit_scope_ctor_method(h, ScopeAt(h.path), s, args))
<1> DEFINE p == ScopeAt(h.path)
           new == NewDecls(p, s)
           f == Over(h.fields, NewFields(new, args))
           n == Len(s.decls)  m == Len(p.decls)
           r == emit_scope_ctor_method(h, p, s, args)
<1>1. s \in ToSet(Scopes)
  BY ChildIn DEF ScopesOK
<1>2. DeclsOK(s.decls) /\ Unique(s.decls)
  BY <1>1, CompiledScope
<1>3. /\ DeclsOK(p.decls) /\ Unique(p.decls)
      /\ (h.path = <<>> /\ p.decls = <<>>) \/ (p \in ToSet(Scopes) /\ p.path = h.path)
  BY HandleDecls
<1>4. ScopeAt(s.path) = s
  BY <1>1, AtItsPath
<1> HIDE DEF p
<1>5. n \in Nat /\ m \in Nat /\ IsVec(s.decls) /\ \A d \in ToSet(s.decls) : IsVarDecl(Types, d)
  BY <1>2, <1>3, VecSeq DEF DeclsOK, VecOf
<1>6. m <= n
  <2>1. CASE p.decls = <<>>
    BY <1>5, <2>1
  <2>2. CASE p \in ToSet(Scopes) /\ p.path = h.path
    BY <1>5, <2>2 DEF Compiled, emit_facade_scope_struct
  <2> QED BY <1>3, <2>1, <2>2
<1>7. new = SubSeq(s.decls, m + 1, n)
  BY DEF NewDecls
<1>8. /\ IsVec(new) /\ ToSet(new) \subseteq ToSet(s.decls) /\ Len(new) = n - (m + 1) + 1
      /\ \A i \in 1 .. n - (m + 1) + 1 : new[i] = s.decls[(m + 1) + i - 1]
  <2>1. m + 1 \in Nat /\ n \in Nat /\ 1 <= m + 1 /\ m + 1 <= n + 1 /\ n <= Len(s.decls)
    BY <1>5, <1>6
  <2> HIDE DEF m, n, new
  <2> QED BY <1>5, <1>7, <2>1, SubVec
<1>9. FieldShapes(s.decls) = FieldShapes(p.decls) \cup FieldShapes(new)
  <2>1. CASE p.decls = <<>>
    <3>1. m = 0
      BY <2>1
    <3>2. \A i \in 1 .. n : new[i] = s.decls[i] /\ i \in 1 .. Len(new)
      <4> HIDE DEF new, m, n
      <4> QED BY <1>5, <1>8, <3>1
    <3>3. ToSet(s.decls) \subseteq ToSet(new)
      <4> SUFFICES ASSUME NEW d \in ToSet(s.decls) PROVE d \in ToSet(new)
        OBVIOUS
      <4>1. PICK i \in 1 .. n : s.decls[i] = d
        BY <1>5, VecSeq
      <4> HIDE DEF new
      <4> QED BY <1>8, <3>2, <4>1, VecSeq
    <3>4. ToSet(s.decls) = ToSet(new)
      BY <1>8, <3>3
    <3>5. FieldShapes(p.decls) = {}
      BY <2>1, EmptyVec DEF FieldShapes
    <3> HIDE DEF new
    <3> QED BY <3>4, <3>5 DEF FieldShapes
  <2>2. CASE p \in ToSet(Scopes) /\ p.path = h.path
    BY <2>2 DEF Compiled, emit_facade_scope_struct
  <2> QED BY <1>3, <2>1, <2>2
<1>10. DeclsOK(new)
  BY <1>5, <1>8 DEF DeclsOK, VecOf
<1>11. Filled(p.decls, h.fields)
  BY DEF HandleOK, p
<1>12. args \in ArgumentsFor(new)
  BY DEF p
<1> HIDE DEF new
<1>13. Filled(s.decls, f)
  BY <1>2, <1>3, <1>8, <1>9, <1>10, <1>11, <1>12, EnteredFilled
<1>14. r = [path |-> s.path, fields |-> f]
  BY DEF emit_scope_ctor_method, new
<1> HIDE DEF f, r
<1>15. DOMAIN r = {"path", "fields"} /\ r.path = s.path /\ r.fields = f
  BY <1>14
<1>16. HandleOK(r)
  BY <1>1, <1>4, <1>13, <1>15 DEF HandleOK
<1> QED BY <1>16 DEF r, p

\* The endpoints that a handle offers are those of its path.
LEMMA InScopePath ==
    ASSUME IsVec(endpoints), NEW path, NEW e \in ToSet(EndpointsIn(endpoints, path))
    PROVE  e.scopes = path
<1> DEFINE K == {x \in ToSet(endpoints) : x.scopes = path}
           parts == [i \in DOMAIN endpoints |-> IF endpoints[i] \in K THEN <<endpoints[i]>> ELSE <<>>]
<1>1. \A i \in DOMAIN endpoints : endpoints[i].scopes = path <=> endpoints[i] \in K
  BY DEF ToSet
<1> HIDE DEF K
<1>2. EndpointsIn(endpoints, path) = FlattenSeq(parts)
  <2>1. [i \in DOMAIN endpoints |-> IF endpoints[i].scopes = path THEN <<endpoints[i]>> ELSE <<>>] = parts
    BY <1>1
  <2> HIDE DEF parts
  <2> QED BY <2>1 DEF EndpointsIn, Kept, Concat
<1>3. ToSet(FlattenSeq(parts)) = ToSet(endpoints) \cap K
  BY KeptVec
<1> QED BY <1>2, <1>3 DEF K

\* What an endpoint captures, the handle has, and it fits the endpoint's field.
LEMMA CapturedHeld ==
    ASSUME EndpointsResolved, ScopesOK(Scopes), Compiled, NEW h, HandleOK(h),
           NEW e \in ToSet(EndpointsIn(endpoints, h.path)), NEW n \in CapturedNames(e)
    PROVE  n \in DOMAIN h.fields /\ \A v \in ToSet(e.vars) : v.rust = n => HasValue(v, h.fields[n])
<1> DEFINE p == ScopeAt(h.path)  all == FlattenSeq(e.groups)
<1>1. e \in ToSet(endpoints) /\ e.scopes = h.path
  BY InScope, InScopePath DEF EndpointsResolved
<1>2. EndpointOK(client.base, ToSet(client.vars), e)
  BY <1>1 DEF EndpointsResolved
<1>3. /\ IsVec(e.groups) /\ Len(e.groups) \in Nat /\ Len(e.groups) = Len(e.scopes)
      /\ \A i \in 1 .. Len(e.groups) : e.groups[i] \in ToSet(e.groups)
  BY <1>2, VecSeq DEF EndpointOK
<1>4. \A g \in ToSet(e.groups) : IsVec(g) /\ Agree(ToSet(g), ToSet(e.vars))
  BY <1>2 DEF EndpointOK, DeclsOK, VecOf
<1>5. IsVec(all) /\ ToSet(all) = UNION {ToSet(e.groups[i]) : i \in 1 .. Len(e.groups)}
  BY <1>3, <1>4, FlattenVec
<1> HIDE DEF all
<1>6. PICK d \in ToSet(all) : d.rust = n
  <2>1. CapturedNames(e) = {x.rust : x \in ToSet(all)}
    BY <1>5, NamesOf DEF CapturedNames, all
  <2> QED BY <2>1
<1>7. PICK i \in 1 .. Len(e.groups) : d \in ToSet(e.groups[i])
  BY <1>5
<1>8. PICK v \in ToSet(e.vars) : v.rust = n /\ v.optional = d.optional
  BY <1>3, <1>4, <1>6, <1>7 DEF Agree
<1>9. h.path # <<>>
  BY <1>1, <1>3, <1>7
<1>10. p \in ToSet(Scopes) /\ p.path = h.path
  BY <1>9, HandleDecls
<1> HIDE DEF p
<1>11. FieldShapes(all) \subseteq FieldShapes(p.decls)
  BY <1>10 DEF Compiled, emit_facade_scope_struct, all
<1>12. PICK w \in ToSet(p.decls) : w.rust = n /\ w.optional = d.optional
  BY <1>6, <1>11, SameShape
<1>13. Filled(p.decls, h.fields) /\ IsVec(p.decls)
  BY <1>10, CompiledScope DEF HandleOK, p, DeclsOK, VecOf
<1>14. n \in DOMAIN h.fields /\ HasValue(w, h.fields[n])
  BY <1>12, <1>13, NamesOf DEF Filled
<1>15. Unique(e.vars)
  BY <1>2, DistinctUnique DEF EndpointOK
<1>16. ASSUME NEW x \in ToSet(e.vars), x.rust = n PROVE HasValue(x, h.fields[n])
  <2>1. x.optional = w.optional
    BY <1>8, <1>12, <1>15, <1>16 DEF Unique
  <2> QED BY <1>14, <2>1 DEF HasValue
<1> QED BY <1>14, <1>16

\* The endpoint's method: a value for each field, and the one that was asked for
LEMMA MethodCalled ==
    ASSUME EndpointsResolved, ScopesOK(Scopes), Compiled, NEW h, HandleOK(h),
           NEW e \in ToSet(EndpointsIn(endpoints, h.path)), NEW args \in ArgumentsFor(OwnVars(e))
    PROVE  LET f == emit_facade_endpoint_method(e, h, args)
           IN  Filled(e.vars, f) /\ AskedFor(e, f, Over(NewFields(OwnVars(e), args), h.fields))
<1> DEFINE own == OwnVars(e)  N == CapturedNames(e)
           all == Over(args, h.fields)  new == NewFields(e.vars, all)  mine == NewFields(own, args)
           f == emit_facade_endpoint_method(e, h, args)
           asked == Over(mine, h.fields)
<1>1. e \in ToSet(endpoints)
  BY InScope DEF EndpointsResolved
<1>2. EndpointOK(client.base, ToSet(client.vars), e)
  BY <1>1 DEF EndpointsResolved
<1>3. IsVec(e.vars) /\ Unique(e.vars) /\ \A v \in ToSet(e.vars) : IsVarDecl(Types, v)
  BY <1>2, DistinctUnique DEF EndpointOK, DeclsOK, VecOf
<1>4. IsVec(own) /\ ToSet(own) = {v \in ToSet(e.vars) : v.rust \notin N}
  BY <1>3, OwnKept
<1> HIDE DEF own
<1>5. Unique(own) /\ DeclsOK(own)
  BY <1>3, <1>4 DEF Unique, DeclsOK, VecOf
<1>6. /\ DOMAIN args = {v.rust : v \in {w \in ToSet(own) : Required(w)}}
      /\ \A v \in ToSet(own) : Required(v) => HasValue(v, args[v.rust])
  <2>1. args \in ArgumentsFor(own)
    BY DEF own
  <2> QED BY <1>5, <2>1, ArgsGiven
<1>7. \A n \in N : n \in DOMAIN h.fields /\ \A v \in ToSet(e.vars) : v.rust = n => HasValue(v, h.fields[n])
  BY CapturedHeld
<1>8. /\ DOMAIN new = VarNames(e.vars)
      /\ \A v \in ToSet(e.vars) : new[v.rust] = IF Required(v) THEN all[v.rust] ELSE v.default
  BY <1>3, FreshFields
<1>9. /\ DOMAIN mine = VarNames(own)
      /\ \A v \in ToSet(own) : mine[v.rust] = IF Required(v) THEN args[v.rust] ELSE v.default
  BY <1>4, <1>5, FreshFields
<1>10. f = [n \in DOMAIN new |->
              IF n \in N /\ Settable(VarNamed(e.vars, n)) /\ (VarNamed(e.vars, n).optional => h.fields[n] # None)
              THEN h.fields[n] ELSE new[n]]
  BY DEF emit_facade_endpoint_method
<1> HIDE DEF new, mine, f, N
<1>11. /\ DOMAIN f = VarNames(e.vars)
       /\ \A v \in ToSet(e.vars) : f[v.rust] =
            IF v.rust \in N /\ Settable(v) /\ (v.optional => h.fields[v.rust] # None)
            THEN h.fields[v.rust] ELSE new[v.rust]
  BY <1>3, <1>8, <1>10, UniqueFound
<1>12. /\ DOMAIN all = DOMAIN args \cup DOMAIN h.fields
       /\ \A n \in DOMAIN all : all[n] = IF n \in DOMAIN args THEN args[n] ELSE h.fields[n]
  BY DEF Over
<1>13. /\ DOMAIN asked = DOMAIN mine \cup DOMAIN h.fields
       /\ \A n \in DOMAIN asked : asked[n] = IF n \in DOMAIN mine THEN mine[n] ELSE h.fields[n]
  BY DEF Over
<1> HIDE DEF all, asked
<1>14. VarNames(own) = {v.rust : v \in ToSet(own)} /\ VarNames(e.vars) = {v.rust : v \in ToSet(e.vars)}
  BY <1>3, <1>4, NamesOf
<1>15. \A n \in N : n \notin DOMAIN args /\ n \notin DOMAIN mine
  BY <1>4, <1>6, <1>9, <1>14
<1>16. ASSUME NEW v \in ToSet(e.vars)
       PROVE  /\ HasValue(v, f[v.rust]) /\ v.rust \in DOMAIN asked
              /\ ~ (v.optional /\ v.default # None) => f[v.rust] = asked[v.rust]
  <2> DEFINE n == v.rust
  <2>1. CASE n \in N
    <3>1. n \in DOMAIN h.fields /\ HasValue(v, h.fields[n]) /\ n \notin DOMAIN args /\ n \notin DOMAIN mine
      BY <1>7, <1>15, <2>1
    <3>2. asked[n] = h.fields[n] /\ all[n] = h.fields[n] /\ n \in DOMAIN asked
      BY <1>12, <1>13, <3>1
    <3>3. f[n] = IF Settable(v) /\ (v.optional => h.fields[n] # None) THEN h.fields[n] ELSE new[n]
      BY <1>11, <2>1
    <3>4. new[n] = IF Required(v) THEN h.fields[n] ELSE v.default
      BY <1>8, <3>2
    <3>5. Settable(v) => HasValue(v, v.default)
      BY <1>3, DefaultHasValue
    <3> HIDE DEF n
    <3>6. HasValue(v, f[n])
      BY <3>1, <3>3, <3>4, <3>5 DEF Required
    <3>7. ~ (v.optional /\ v.default # None) => f[n] = h.fields[n]
      BY <3>3, <3>4 DEF Required, Settable
    <3> QED BY <3>2, <3>6, <3>7 DEF n
  <2>2. CASE n \notin N
    <3>1. v \in ToSet(own)
      BY <1>4, <2>2
    <3>2. n \in DOMAIN mine /\ mine[n] = IF Required(v) THEN args[n] ELSE v.default
      BY <1>9, <1>14, <3>1
    <3>3. asked[n] = mine[n] /\ n \in DOMAIN asked
      BY <1>13, <3>2
    <3>4. f[n] = new[n]
      BY <1>11, <2>2
    <3>5. Required(v) => n \in DOMAIN args /\ all[n] = args[n] /\ HasValue(v, args[n])
      BY <1>6, <1>12, <3>1
    <3>6. new[n] = IF Required(v) THEN all[n] ELSE v.default
      BY <1>8
    <3>7. Settable(v) => HasValue(v, v.default)
      BY <1>3, DefaultHasValue
    <3> HIDE DEF n
    <3> QED BY <3>2, <3>3, <3>4, <3>5, <3>6, <3>7 DEF Required, n
  <2> QED BY <2>1, <2>2
<1>17. Filled(e.vars, f)
  BY <1>11, <1>16 DEF Filled
<1>18. AskedFor(e, f, asked)
  BY <1>14, <1>16 DEF AskedFor
<1> QED BY <1>17, <1>18 DEF f, asked, mine, own

(* ----------------------- what the caller's steps keep --------------------- *)

\* What is known of the endpoints and scopes once the program is built
LEMMA CompiledFacts ==
    ASSUME CompileInv, CallerInv, stage \in {"built", "calling", "pending", "done"}
    PROVE  /\ EndpointsResolved /\ ScopesOK(Scopes) /\ Compiled
           /\ IsVec(client.vars) /\ DeclsOK(client.vars) /\ Unique(client.vars)
<1>1. EndpointsResolved /\ ScopesOK(Scopes)
  BY FacadeScopes DEF CompileInv, Walked
<1>2. Distinct(client.vars) /\ DeclsOK(client.vars)
  BY DEF CompileInv, ApiHeld, RawClientOK
<1> QED BY <1>1, <1>2, DistinctUnique DEF CallerInv, DeclsOK, VecOf

\* A step with a handle, and one with a pending request
LEMMA HandleKeeps ==
    ASSUME CompileInv, CallerInv, Calls, stage \in {"built", "calling"}, stage' = "calling",
           Filled(client.vars, caller'.vars), HandleOK(caller'.handle),
           caller'.asked = caller'.handle.fields
    PROVE  CallerInv'
<1>1. Compiled /\ client' = client
  BY CompiledFacts DEF Calls
<1>2. Compiled'
  BY <1>1 DEF Calls, Compiled, Scopes
<1>3. HandleOK(caller.handle)'
  BY DEF Calls, HandleOK, Scopes, ScopeAt
<1> QED BY <1>1, <1>2, <1>3 DEF CallerInv

\* A step on the pending request that keeps its fields filled and as asked
LEMMA PendingKeeps ==
    ASSUME CompileInv, CallerInv, Calls, stage \in {"calling", "pending"},
           stage' \in {"pending", "done"}, caller'.vars = caller.vars,
           Filled(caller'.e.vars, caller'.fields), AskedFor(caller'.e, caller'.fields, caller'.asked)
    PROVE  CallerInv'
<1>1. Compiled /\ client' = client
  BY CompiledFacts DEF Calls
<1>2. Compiled'
  BY <1>1 DEF Calls, Compiled, Scopes
<1> QED BY <1>1, <1>2 DEF CallerInv

\* Constructing the client
LEMMA KeptConstruct == ASSUME CompileInv, CallerInv, Construct PROVE CallerInv'
<1>1. PICK args \in ArgumentsFor(client.vars), headers \in ApiHeaderSets :
        caller' = [caller EXCEPT !.vars = NewFields(client.vars, args), !.headers = headers,
                                 !.handle = [path |-> <<>>, fields |-> <<>>]]
  BY DEF Construct
<1>2. stage = "built" /\ stage' = "calling" /\ Calls
  BY DEF Construct
<1> DEFINE new == NewFields(client.vars, args)  h == [path |-> <<>>, fields |-> <<>>]
<1>3. Filled(client.vars, new)
  <2>1. DeclsOK(client.vars) /\ Unique(client.vars)
    BY <1>2, CompiledFacts
  <2>2. \A v \in ToSet(client.vars) : Required(v) => HasValue(v, args[v.rust])
    BY <2>1, ArgsGiven
  <2> QED BY <2>1, <2>2, FreshFilled
<1> HIDE DEF new
<1>4. DOMAIN caller = DOMAIN NoCaller /\ caller.asked = <<>>
  BY <1>2 DEF CompileInv, Called, NoCaller
<1>5. caller'.vars = new /\ caller'.handle = h /\ caller'.asked = <<>>
  BY <1>1, <1>4 DEF NoCaller, new
<1>6. DOMAIN h = {"path", "fields"} /\ h.path = <<>> /\ h.fields = <<>>
  OBVIOUS
<1> HIDE DEF h
<1>7. HandleOK(h)
  <2>1. ScopeAt(<<>>).decls = <<>>
    BY DEF ScopeAt, RootScope
  <2>2. Filled(<<>>, <<>>)
    BY EmptyVec DEF Filled, VarNames
  <2> QED BY <1>6, <2>1, <2>2 DEF HandleOK
<1> QED BY <1>2, <1>3, <1>5, <1>6, <1>7, HandleKeeps

\* set_x and clear_x of the client
LEMMA KeptEditClientVar == ASSUME CompileInv, CallerInv, EditClientVar PROVE CallerInv'
<1>1. PICK v \in ToSet(client.vars) :
        \E x \in Values[v.ty] \cup (IF v.optional THEN {None} ELSE {}) :
          caller' = [caller EXCEPT !.vars[v.rust] = x, !.edits = @ + 1]
  BY DEF EditClientVar
<1>2. PICK x \in Values[v.ty] \cup (IF v.optional THEN {None} ELSE {}) :
        caller' = [caller EXCEPT !.vars[v.rust] = x, !.edits = @ + 1]
  BY <1>1
<1>3. stage = "calling" /\ stage' = "calling" /\ Calls
  BY DEF EditClientVar
<1>4. /\ caller'.vars = [caller.vars EXCEPT ![v.rust] = x]
      /\ caller'.handle = caller.handle /\ caller'.asked = caller.asked
  BY <1>2 DEF CompileInv, Called, NoCaller
<1>5. IsVec(client.vars) /\ DeclsOK(client.vars) /\ Unique(client.vars)
  BY <1>3, CompiledFacts
<1>6. HasValue(v, x)
  BY <1>5, ValueGiven DEF DeclsOK, VecOf
<1>7. Filled(client.vars, [caller.vars EXCEPT ![v.rust] = x])
  <2>1. Filled(client.vars, caller.vars)
    BY <1>3 DEF CallerInv
  <2>2. \A w \in ToSet(client.vars) : w.rust = v.rust => HasValue(w, x)
    BY <1>5, <1>6 DEF Unique
  <2> QED BY <1>5, <2>1, <2>2, EditedFilled
<1>8. HandleOK(caller.handle) /\ caller.asked = caller.handle.fields
  BY <1>3 DEF CallerInv
<1> QED BY <1>3, <1>4, <1>7, <1>8, HandleKeeps

\* Entering a scope
LEMMA KeptEnterScope == ASSUME CompileInv, CallerInv, EnterScope PROVE CallerInv'
<1> DEFINE h == caller.handle  p == ScopeAt(h.path)
<1>1. PICK s \in ToSet(ChildScopes(Scopes, h.path)) :
        \E args \in ArgumentsFor(NewDecls(p, s)) :
          LET handle == emit_scope_ctor_method(h, p, s, args)
          IN  caller' = [caller EXCEPT !.handle = handle, !.asked = handle.fields]
  BY DEF EnterScope
<1>2. PICK args \in ArgumentsFor(NewDecls(p, s)) :
        LET handle == emit_scope_ctor_method(h, p, s, args)
        IN  caller' = [caller EXCEPT !.handle = handle, !.asked = handle.fields]
  BY <1>1
<1>3. stage = "calling" /\ stage' = "calling" /\ Calls
  BY DEF EnterScope
<1> DEFINE r == emit_scope_ctor_method(h, p, s, args)
<1>4. HandleOK(r)
  <2>1. ScopesOK(Scopes) /\ Compiled
    BY <1>3, CompiledFacts
  <2>2. HandleOK(h)
    BY <1>3 DEF CallerInv
  <2> HIDE DEF h
  <2> QED BY <2>1, <2>2, EnteredOK
<1>5. caller' = [caller EXCEPT !.handle = r, !.asked = r.fields]
  BY <1>2
<1> HIDE DEF r
<1>6. caller'.handle = r /\ caller'.asked = r.fields /\ caller'.vars = caller.vars
  BY <1>5 DEF CompileInv, Called, NoCaller
<1>7. Filled(client.vars, caller.vars)
  BY <1>3 DEF CallerInv
<1> QED BY <1>3, <1>4, <1>6, <1>7, HandleKeeps

\* A setter of a scope handle
LEMMA KeptEditScopeParam == ASSUME CompileInv, CallerInv, EditScopeParam PROVE CallerInv'
<1> DEFINE h == caller.handle  p == ScopeAt(h.path)
<1>1. PICK v \in ToSet(Kept(p.decls, Settable)) :
        \E x \in Values[v.ty] \cup (IF v.optional THEN {None} ELSE {}) :
          caller' = [caller EXCEPT !.handle.fields[v.rust] = x, !.asked[v.rust] = x, !.edits = @ + 1]
  BY DEF EditScopeParam
<1>2. PICK x \in Values[v.ty] \cup (IF v.optional THEN {None} ELSE {}) :
        caller' = [caller EXCEPT !.handle.fields[v.rust] = x, !.asked[v.rust] = x, !.edits = @ + 1]
  BY <1>1
<1>3. stage = "calling" /\ stage' = "calling" /\ Calls
  BY DEF EditScopeParam
<1>4. HandleOK(h) /\ caller.asked = h.fields
  BY <1>3 DEF CallerInv
<1>5. DeclsOK(p.decls) /\ Unique(p.decls) /\ IsVec(p.decls)
  <2>1. ScopesOK(Scopes) /\ Compiled
    BY <1>3, CompiledFacts
  <2> HIDE DEF h
  <2> QED BY <1>4, <2>1, HandleDecls DEF DeclsOK, VecOf
<1> DEFINE f == [h.fields EXCEPT ![v.rust] = x]  r == [h EXCEPT !.fields = f]
<1>6. caller'.handle = r /\ caller'.asked = f /\ caller'.vars = caller.vars
  <2>1. DOMAIN caller = DOMAIN NoCaller
    BY DEF CompileInv, Called
  <2> QED BY <1>2, <1>4, <2>1 DEF NoCaller
<1>7. Filled(p.decls, f)
  <2> HIDE DEF p
  <2>1. v \in ToSet(p.decls)
    BY <1>5, SettableKept
  <2>2. HasValue(v, x)
    BY <1>5, <2>1, ValueGiven DEF DeclsOK, VecOf
  <2>3. \A w \in ToSet(p.decls) : w.rust = v.rust => HasValue(w, x)
    BY <1>5, <2>1, <2>2 DEF Unique
  <2>4. Filled(p.decls, h.fields)
    BY <1>4 DEF HandleOK, p
  <2> QED BY <1>5, <2>3, <2>4, EditedFilled
<1> HIDE DEF f
<1>8. DOMAIN r = {"path", "fields"} /\ r.path = h.path /\ r.fields = f
  BY <1>4 DEF HandleOK
<1> HIDE DEF r
<1>9. HandleOK(r)
  BY <1>4, <1>7, <1>8 DEF HandleOK
<1>10. Filled(client.vars, caller.vars)
  BY <1>3 DEF CallerInv
<1> QED BY <1>3, <1>6, <1>8, <1>9, <1>10, HandleKeeps

\* Calling an endpoint: the captured parameters are those of the handle.
LEMMA AskedCallEndpoint == ASSUME CompileInv, CallerInv, CallEndpoint PROVE CallerInv'
<1> DEFINE h == caller.handle
<1>1. PICK e \in ToSet(EndpointsIn(endpoints, h.path)) :
        \E args \in ArgumentsFor(OwnVars(e)) :
          caller' = [caller EXCEPT !.e = e, !.fields = emit_facade_endpoint_method(e, h, args),
                                   !.asked = Over(NewFields(OwnVars(e), args), @)]
  BY DEF CallEndpoint, OwnVars
<1>2. PICK args \in ArgumentsFor(OwnVars(e)) :
        caller' = [caller EXCEPT !.e = e, !.fields = emit_facade_endpoint_method(e, h, args),
                                 !.asked = Over(NewFields(OwnVars(e), args), @)]
  BY <1>1
<1>3. stage = "calling" /\ stage' = "pending" /\ Calls
  BY DEF CallEndpoint
<1>4. HandleOK(h) /\ caller.asked = h.fields
  BY <1>3 DEF CallerInv
<1> DEFINE f == emit_facade_endpoint_method(e, h, args)
           asked == Over(NewFields(OwnVars(e), args), h.fields)
<1>5. Filled(e.vars, f) /\ AskedFor(e, f, asked)
  <2>1. EndpointsResolved /\ ScopesOK(Scopes) /\ Compiled
    BY <1>3, CompiledFacts
  <2> HIDE DEF h
  <2> QED BY <1>4, <2>1, MethodCalled
<1>6. caller' = [caller EXCEPT !.e = e, !.fields = f, !.asked = asked]
  BY <1>2, <1>4
<1> HIDE DEF f, asked
<1>7. caller'.e = e /\ caller'.fields = f /\ caller'.asked = asked /\ caller'.vars = caller.vars
  BY <1>6 DEF CompileInv, Called, NoCaller
<1> QED BY <1>3, <1>5, <1>7, PendingKeeps

\* The same field of the request and of what was asked for is set.
LEMMA AskedEdit ==
    ASSUME CompileInv, CallerInv, stage = "pending", stage' = "pending", Calls, NEW n, NEW x,
           caller' = [caller EXCEPT !.fields[n] = x, !.asked[n] = x, !.edits = @ + 1],
           \A v \in ToSet(caller.e.vars) : v.rust = n => HasValue(v, x)
    PROVE  CallerInv'
<1> DEFINE e == caller.e  f == caller.fields  a == caller.asked
           g == [f EXCEPT ![n] = x]  b == [a EXCEPT ![n] = x]
<1>1. caller'.fields = g /\ caller'.asked = b /\ caller'.vars = caller.vars /\ caller'.e = e
  BY DEF CompileInv, Called, NoCaller
<1>2. Filled(e.vars, f) /\ AskedFor(e, f, a)
  BY DEF CallerInv
<1>3. EndpointOK(client.base, ToSet(client.vars), e)
  BY DEF CompileInv, Called, Walked, EndpointsResolved
<1>4. IsVec(e.vars) /\ Unique(e.vars)
  BY <1>3, DistinctUnique DEF EndpointOK
<1> HIDE DEF e, f, a
<1>5. Filled(e.vars, g)
  BY <1>2, <1>4, EditedFilled DEF e
<1>6. /\ DOMAIN g = DOMAIN f /\ \A m \in DOMAIN f : g[m] = IF m = n THEN x ELSE f[m]
      /\ DOMAIN b = DOMAIN a /\ \A m \in DOMAIN a : b[m] = IF m = n THEN x ELSE a[m]
  OBVIOUS
<1> HIDE DEF g, b
<1>7. \A v \in ToSet(e.vars) : v.rust \in DOMAIN f /\ v.rust \in DOMAIN a
  BY <1>2, <1>4, NamesOf DEF Filled, AskedFor
<1>8. AskedFor(e, g, b)
  BY <1>2, <1>6, <1>7 DEF AskedFor
<1> QED BY <1>1, <1>5, <1>8, PendingKeeps

\* A setter of the pending request, and the page that the paginator stores
LEMMA AskedEdits == ASSUME CompileInv, CallerInv, EditParam \/ StorePagination PROVE CallerInv'
<1>1. stage = "pending" /\ stage' = "pending" /\ Calls
  BY DEF EditParam, StorePagination
<1>2. EndpointOK(client.base, ToSet(client.vars), caller.e)
  BY <1>1 DEF CompileInv, Called, Walked, EndpointsResolved
<1>3. IsVec(caller.e.vars) /\ Unique(caller.e.vars) /\ \A v \in ToSet(caller.e.vars) : IsVarDecl(Types, v)
  BY <1>2, DistinctUnique DEF EndpointOK, DeclsOK, VecOf
<1>4. CASE EditParam
  <2>1. PICK v \in ToSet(OwnSettable(caller.e)) :
          \E x \in Values[v.ty] \cup {Cleared(v)} :
            caller' = [caller EXCEPT !.fields[v.rust] = x, !.asked[v.rust] = x, !.edits = @ + 1]
    BY <1>4 DEF EditParam, OwnSettable
  <2>2. PICK x \in Values[v.ty] \cup {Cleared(v)} :
          caller' = [caller EXCEPT !.fields[v.rust] = x, !.asked[v.rust] = x, !.edits = @ + 1]
    BY <2>1
  <2>3. v \in ToSet(caller.e.vars) /\ Settable(v)
    BY <1>3, OwnKept
  <2>4. HasValue(v, x)
    BY <1>3, <2>3, ValueGiven
  <2>5. \A w \in ToSet(caller.e.vars) : w.rust = v.rust => HasValue(w, x)
    BY <1>3, <2>3, <2>4 DEF Unique
  <2> QED BY <1>1, <2>2, <2>5, AskedEdit
<1>5. CASE StorePagination
  <2>1. PICK f \in caller.e.paged :
          LET v == VarNamed(caller.e.vars, f)
          IN  \E x \in Values[v.ty] \cup (IF v.optional THEN {None} ELSE {}) :
                caller' = [caller EXCEPT !.fields[f] = x, !.asked[f] = x, !.edits = @ + 1]
    BY <1>5 DEF StorePagination
  <2>2. PICK x \in Values[VarNamed(caller.e.vars, f).ty]
                    \cup (IF VarNamed(caller.e.vars, f).optional THEN {None} ELSE {}) :
          caller' = [caller EXCEPT !.fields[f] = x, !.asked[f] = x, !.edits = @ + 1]
    BY <2>1
  <2>3. ASSUME NEW v \in ToSet(caller.e.vars), v.rust = f PROVE HasValue(v, x)
    <3>1. VarNamed(caller.e.vars, f) = v
      BY <1>3, <2>3, UniqueFound
    <3>2. x \in Values[v.ty] \/ (v.optional /\ x = None)
      BY <3>1
    <3> QED BY <1>3, <3>2, ValueGiven
  <2> QED BY <1>1, <2>2, <2>3, AskedEdit
<1> QED BY <1>4, <1>5

\* The timeout and the execution leave the fields alone.
LEMMA AskedUntouched == ASSUME CompileInv, CallerInv, OverrideTimeout \/ Execute PROVE CallerInv'
<1>1. /\ stage = "pending" /\ stage' \in {"pending", "done"} /\ Calls
      /\ \E x, y, z : caller' = [caller EXCEPT !.timeout = x, !.edits = y, !.request = z]
  <2>1. CASE OverrideTimeout
    <3>1. PICK o : caller' = [caller EXCEPT !.timeout = o, !.edits = @ + 1]
      BY <2>1 DEF OverrideTimeout
    <3>2. caller' = [caller EXCEPT !.timeout = o, !.edits = caller.edits + 1, !.request = caller.request]
      BY <3>1 DEF CompileInv, Called, NoCaller
    <3> QED BY <2>1, <3>2 DEF OverrideTimeout
  <2>2. CASE Execute
    <3>1. PICK z : caller' = [caller EXCEPT !.request = z]
      BY <2>2 DEF Execute
    <3>2. caller' = [caller EXCEPT !.timeout = caller.timeout, !.edits = caller.edits, !.request = z]
      BY <3>1 DEF CompileInv, Called, NoCaller
    <3> QED BY <2>2, <3>2 DEF Execute
  <2> QED BY <2>1, <2>2
<1>2. /\ caller'.vars = caller.vars /\ caller'.e = caller.e /\ caller'.fields = caller.fields
      /\ caller'.asked = caller.asked
  BY <1>1 DEF CompileInv, Called, NoCaller
<1> QED BY <1>1, <1>2, PendingKeeps DEF CallerInv

\* rustc compiles the scopes' structs.
LEMMA KeptRustCompiles == ASSUME CompileInv, RustCompiles PROVE CallerInv'
<1>1. CASE stage' = "built"
  <2>1. stage = "emitted" /\ UNCHANGED <<client, endpoints>>
    BY DEF RustCompiles
  <2>2. \A s \in ToSet(Scopes) : emit_facade_scope_struct(s, client, Scopes, endpoints)
    BY <1>1 DEF RustCompiles, Scopes
  <2>3. Compiled'
    BY <2>1, <2>2 DEF Compiled, Scopes
  <2> QED BY <1>1, <2>3 DEF CallerInv
<1>2. CASE stage' # "built"
  BY <1>2 DEF RustCompiles, CallerInv
<1> QED BY <1>1, <1>2

\* Nothing is asked of a caller before the program is built.
LEMMA KeptCompiling ==
    ASSUME stage' \notin {"built", "calling", "pending", "done"} PROVE CallerInv'
  BY DEF CallerInv

\* The caller's handle and request have a value for each parameter, the one that was
\* asked for.
THEOREM CompileCallerInv == Spec => []CallerInv
<1>1. Init => CallerInv
  BY DEF Init, CallerInv
<1>2. CompileInv /\ CallerInv /\ [Next]_vars => CallerInv'
  <2> SUFFICES ASSUME CompileInv, CallerInv, [Next]_vars PROVE CallerInv'
    OBVIOUS
  <2>1. CASE UNCHANGED vars
    BY <2>1 DEF vars, CallerInv, Compiled, HandleOK, Scopes, ScopeAt
  <2>2. CASE ParseClient \/ ParseScope \/ ParseEndpoint \/ ParseScopeEnd \/ EndOfInput
             \/ NormalizeApi \/ CollectEndpointOutputTypes \/ AnalyzeAuthCredentials
             \/ ResolveProfiles \/ ResolveClientPolicy \/ WalkLayer \/ WalkLayerEnd
             \/ WalkEndpoint \/ ValidateGeneratedPublicApi
    <3>1. stage' \notin {"built", "calling", "pending", "done"}
      BY <2>2 DEF ParseClient, ParseScope, ParseEndpoint, ParseScopeEnd, EndOfInput, NormalizeApi,
                  CollectEndpointOutputTypes, AnalyzeAuthCredentials, ResolveProfiles,
                  ResolveClientPolicy, WalkLayer, WalkLayerEnd, WalkEndpoint,
                  ValidateGeneratedPublicApi, Rejected
    <3> QED BY <3>1, KeptCompiling
  <2>3. CASE RustCompiles \/ Construct \/ EditClientVar \/ EnterScope \/ EditScopeParam
    BY <2>3, KeptRustCompiles, KeptConstruct, KeptEditClientVar, KeptEnterScope, KeptEditScopeParam
  <2>4. CASE CallEndpoint \/ EditParam \/ StorePagination \/ OverrideTimeout \/ Execute
    BY <2>4, AskedCallEndpoint, AskedEdits, AskedUntouched
  <2> QED BY <2>1, <2>2, <2>3, <2>4 DEF Next, Ended
<1> QED BY <1>1, <1>2, CompileApiInv, PTL DEF Spec

\* Each field of the request is what the caller asked for last on the handles that led
\* to it, but for an optional parameter with a default.
THEOREM CompileAskedFieldsSent == Spec => []AskedFieldsSent
<1>1. CallerInv => AskedFieldsSent
  BY DEF CallerInv, AskedFor, AskedFieldsSent
<1> QED BY <1>1, CompileCallerInv, PTL

(* ----------------------- what a policy block does ------------------------ *)

\* Each declared name has a list of texts, or nothing.
Ready(D, f) == \A d \in D : f[d.rust] = None \/ IsVec(f[d.rust])

\* A value that is there is a list of texts.
LEMMA ValueVec ==
    ASSUME NEW D, NEW C, NEW cx, NEW ep, Ready(D, ep), Ready(C, cx), NEW v, IsFmtSpec(v), RefsIn(D, C, v),
           NEW x, x = emit_value_expr(v, cx, ep), x # None
    PROVE  IsVec(x)
<1> DEFINE texts(r) == CASE r.t = "Lit" -> <<r.lit>>
                         [] r.t = "Cx" -> cx[r.field]
                         [] r.t = "Ep" -> ep[r.field]
                         [] OTHER -> <<"expr">>
           parts == IF v.t = "Fmt" THEN v.pieces ELSE <<v>>
           all == [i \in DOMAIN parts |-> texts(parts[i])]
<1>1. IsVec(parts) /\ \A r \in ToSet(parts) : RefIn(D, C, r)
  <2>1. CASE v.t = "Fmt"
    BY <2>1 DEF IsFmtSpec, RefsIn
  <2>2. CASE v.t # "Fmt"
    BY <2>2, OneVec DEF RefsIn
  <2> QED BY <2>1, <2>2
<1>2. (\A r \in ToSet(parts) : texts(r) # None) /\ x = FlattenSeq(all)
  BY DEF emit_value_expr, Concat
<1> HIDE DEF parts
<1>3. ASSUME NEW r \in ToSet(parts) PROVE IsVec(texts(r))
  <2>1. RefIn(D, C, r) /\ texts(r) # None
    BY <1>1, <1>2
  <2>2. CASE r.t = "Cx"
    <3>1. texts(r) = cx[r.field]
      BY <2>2
    <3>2. PICK d \in C : d.rust = r.field
      BY <2>1, <2>2 DEF RefIn, Declared
    <3> QED BY <2>1, <3>1, <3>2 DEF Ready
  <2>3. CASE r.t = "Ep"
    <3>1. texts(r) = ep[r.field]
      BY <2>3
    <3>2. PICK d \in D : d.rust = r.field
      BY <2>1, <2>3 DEF RefIn, Declared
    <3> QED BY <2>1, <3>1, <3>2 DEF Ready
  <2>4. CASE r.t = "Lit"
    BY <2>4, OneVec
  <2>5. CASE r.t \notin {"Cx", "Ep", "Lit"}
    <3>1. texts(r) = <<"expr">>
      BY <2>5
    <3> QED BY <3>1, OneVec
  <2> QED BY <2>2, <2>3, <2>4, <2>5
<1> HIDE DEF texts
<1>4. all = [i \in DOMAIN parts |-> all[i]] /\ \A i \in DOMAIN parts : all[i] = texts(parts[i])
  OBVIOUS
<1> HIDE DEF all
<1>5. \A i \in 1 .. Len(parts) : IsVec(all[i])
  BY <1>1, <1>3, <1>4, VecSeq
<1>6. all = [i \in DOMAIN parts |-> all[i]]
  BY <1>4
<1>7. IsVec(FlattenSeq(all))
  BY <1>1, <1>5, <1>6, Joined
<1> QED BY <1>2, <1>7

PolicyFields == {"headers", "query", "timeout", "rate", "layer", "acceptExplicit", "err"}
KeysOf(ops) == {op.key : op \in ToSet(ops)}

\* r is p, but for the headers, and only the keys of K were touched.
HeadersOver(p, K, r) ==
    /\ DOMAIN r = PolicyFields /\ r.query = p.query /\ r.timeout = p.timeout /\ r.rate = p.rate
    /\ DOMAIN r.headers \subseteq DOMAIN p.headers \cup K

\* One header statement touches its own key only.
LEMMA HeaderSet ==
    ASSUME NEW p, NEW K, NEW acc, HeadersOver(p, K, acc), NEW op, op.key \in K, NEW cx, NEW ep
    PROVE  HeadersOver(p, K, emit_header_set_op(acc, op, cx, ep))
<1> DEFINE value == IF op.op = "Set" THEN emit_value_expr(op.value, cx, ep) ELSE None
           r == emit_header_set_op(acc, op, cx, ep)
           t == TouchHeader(acc, op.key)
<1>1. DOMAIN t = PolicyFields /\ \A f \in PolicyFields \ {"acceptExplicit"} : t[f] = acc[f]
  BY DEF TouchHeader, HeadersOver, PolicyFields
<1>2. \/ r = remove_header(acc, op.key) \/ r = [acc EXCEPT !.err = TRUE]
      \/ r = insert_header(acc, op.key, value)
  <2> HIDE DEF value
  <2> QED BY DEF emit_header_set_op, value
<1> HIDE DEF value, r, t
<1>3. CASE r = [acc EXCEPT !.err = TRUE]
  BY <1>3 DEF HeadersOver, PolicyFields, r
<1>4. CASE r = remove_header(acc, op.key)
  <2>1. r = [t EXCEPT !.headers = [k \in DOMAIN t.headers \ {op.key} |-> t.headers[k]]]
    BY <1>4 DEF remove_header, t
  <2> DEFINE hs == [k \in DOMAIN t.headers \ {op.key} |-> t.headers[k]]
  <2>2. DOMAIN hs \subseteq DOMAIN t.headers
    OBVIOUS
  <2> HIDE DEF hs
  <2>3. r.headers = hs /\ DOMAIN r = PolicyFields /\ \A f \in PolicyFields \ {"headers"} : r[f] = t[f]
    BY <1>1, <2>1 DEF PolicyFields, hs
  <2> QED BY <1>1, <2>2, <2>3 DEF HeadersOver, PolicyFields, r
<1>5. CASE r = insert_header(acc, op.key, value)
  <2> DEFINE hs == With(t.headers, op.key, value)
  <2>1. r = [t EXCEPT !.headers = hs]
    BY <1>5 DEF insert_header, t
  <2>2. DOMAIN hs = {op.key} \cup DOMAIN t.headers
    BY DEF With
  <2> HIDE DEF hs
  <2>3. r.headers = hs /\ DOMAIN r = PolicyFields /\ \A f \in PolicyFields \ {"headers"} : r[f] = t[f]
    BY <1>1, <2>1 DEF PolicyFields
  <2> QED BY <1>1, <2>2, <2>3 DEF HeadersOver, PolicyFields, r
<1> QED BY <1>2, <1>3, <1>4, <1>5 DEF r

HeaderStep(c, K, acc, op) == IF acc.err THEN acc ELSE emit_header_set_op(acc, op, c.cx, c.ep)
HeaderInv(c, K, i, acc) == HeadersOver(c.p, K, acc)
HeaderFold == INSTANCE LeftFolds WITH Op <- HeaderStep, Inv <- HeaderInv

\* The header statements of a block touch their own keys only.
LEMMA HeaderOps ==
    ASSUME NEW p, DOMAIN p = PolicyFields, NEW ops, IsVec(ops), NEW cx, NEW ep
    PROVE  HeadersOver(p, KeysOf(ops), emit_header_ops(p, ops, cx, ep))
<1> DEFINE c == [p |-> p, cx |-> cx, ep |-> ep]  K == KeysOf(ops)
<1>1. c.p = p /\ c.cx = cx /\ c.ep = ep
  OBVIOUS
<1>2. emit_header_ops(p, ops, cx, ep) = HeaderFold!Fold(c, K, p, ops)
  BY DEF emit_header_ops, HeaderFold!Fold, HeaderStep, FoldLeft, MapThenFoldSet, Max,
         HeaderFold!FoldLeft, HeaderFold!MapThenFoldSet, HeaderFold!Max
<1> HIDE DEF c, K
<1>3. HeaderInv(c, K, 0, p)
  BY <1>1 DEF HeaderInv, HeadersOver
<1>4. Len(ops) \in Nat /\ DOMAIN ops = 1 .. Len(ops)
  BY VecSeq
<1>5. ASSUME NEW i \in 1 .. Len(ops), NEW acc, HeaderInv(c, K, i - 1, acc)
      PROVE  HeaderInv(c, K, i, HeaderStep(c, K, acc, ops[i]))
  <2>1. ops[i].key \in K
    BY VecSeq DEF K, KeysOf
  <2>2. HeadersOver(p, K, emit_header_set_op(acc, ops[i], cx, ep))
    BY <1>1, <1>5, <2>1, HeaderSet DEF HeaderInv
  <2> QED BY <1>1, <1>5, <2>2 DEF HeaderInv, HeaderStep
<1>6. HeaderInv(c, K, Len(ops), HeaderFold!Fold(c, K, p, ops))
  BY <1>3, <1>4, <1>5, HeaderFold!FoldKeeps
<1> QED BY <1>1, <1>2, <1>6 DEF HeaderInv, K

QKeys(q) == {kv[1] : kv \in ToSet(q)}

\* r is p, but for the query, and every key of it is an old one or one of K.
QueryOver(p, K, r) ==
    /\ DOMAIN r = PolicyFields /\ r.headers = p.headers /\ r.timeout = p.timeout /\ r.rate = p.rate
    /\ IsVec(r.query) /\ QKeys(r.query) \subseteq QKeys(p.query) \cup K

\* remove_query adds no key.
LEMMA QueryRemoved ==
    ASSUME NEW p, NEW K, NEW acc, QueryOver(p, K, acc), NEW key
    PROVE  QueryOver(p, K, remove_query(acc, key))
<1> DEFINE q == acc.query
           rest == {kv \in ToSet(q) : kv[1] # key}
           parts == [i \in DOMAIN q |-> IF q[i] \in rest THEN <<q[i]>> ELSE <<>>]
           kept == Kept(q, LAMBDA kv : kv[1] # key)
<1>1. IsVec(q)
  BY DEF QueryOver
<1>2. kept = FlattenSeq(parts)
  <2>1. \A i \in DOMAIN q : q[i] \in ToSet(q)
    BY <1>1, VecSeq
  <2>2. \A i \in DOMAIN q : q[i] \in rest <=> q[i][1] # key
    BY <2>1
  <2> HIDE DEF rest, q
  <2>3. parts = [i \in DOMAIN q |-> IF q[i][1] # key THEN <<q[i]>> ELSE <<>>]
    BY <2>2
  <2> HIDE DEF parts
  <2> QED BY <2>3 DEF Kept, Concat
<1>3. parts = [i \in DOMAIN q |-> IF q[i] \in rest THEN <<q[i]>> ELSE <<>>]
  OBVIOUS
<1> HIDE DEF parts
<1>4. IsVec(kept) /\ ToSet(kept) \subseteq ToSet(q)
  <2> HIDE DEF q, rest, kept
  <2>1. IsVec(FlattenSeq(parts)) /\ ToSet(FlattenSeq(parts)) = ToSet(q) \cap rest
    BY <1>1, <1>3, KeptVec
  <2> QED BY <1>2, <2>1
<1>5. remove_query(acc, key) = [acc EXCEPT !.query = kept]
  BY DEF remove_query
<1> HIDE DEF kept, q
<1> QED BY <1>4, <1>5 DEF QueryOver, QKeys, q, PolicyFields

\* One query statement touches its own key only.
LEMMA QuerySet ==
    ASSUME NEW p, NEW K, NEW acc, QueryOver(p, K, acc), NEW D, NEW C, NEW op, OpIn(D, C, op),
           op.key \in K, NEW cx, NEW ep, Ready(D, ep), Ready(C, cx)
    PROVE  QueryOver(p, K, emit_query_set_op(acc, op, cx, ep))
<1> DEFINE value == IF op.op = "Set" THEN emit_value_expr(op.value, cx, ep) ELSE None
           values == IF op.cardinality = "Vector" THEN [i \in DOMAIN value |-> <<value[i]>>] ELSE <<value>>
           r == emit_query_set_op(acc, op, cx, ep)
           t == remove_query(acc, op.key)
           pairs == [i \in DOMAIN values |-> <<op.key, values[i]>>]
<1>1. r = IF value = None THEN t ELSE [t EXCEPT !.query = @ \o pairs]
  BY DEF emit_query_set_op, replace_query_values
<1>2. QueryOver(p, K, t)
  BY QueryRemoved
<1>3. CASE value = None
  BY <1>1, <1>2, <1>3
<1>4. CASE value # None
  <2>1. IsVec(value)
    <3>1. op.op = "Set" /\ value = emit_value_expr(op.value, cx, ep)
      BY <1>4
    <3>2. IsFmtSpec(op.value) /\ RefsIn(D, C, op.value)
      BY <3>1 DEF OpIn
    <3> HIDE DEF value
    <3> QED BY <1>4, <3>1, <3>2, ValueVec
  <2> HIDE DEF value
  <2>2. DOMAIN value = 1 .. Len(value) /\ Len(value) \in Nat
    BY <2>1, VecSeq
  <2>3. \E n \in Nat : DOMAIN values = 1 .. n
    <3>1. CASE op.cardinality = "Vector"
      BY <2>2, <3>1
    <3>2. CASE op.cardinality # "Vector"
      <4>1. DOMAIN values = 1 .. 1
        BY <3>2
      <4> QED BY <4>1
    <3> QED BY <3>1, <3>2
  <2> HIDE DEF values
  <2>4. PICK n \in Nat : DOMAIN values = 1 .. n
    BY <2>3
  <2>5. pairs = [i \in 1 .. n |-> pairs[i]] /\ \A i \in 1 .. n : pairs[i] = <<op.key, values[i]>>
    BY <2>4
  <2> HIDE DEF pairs, t
  <2>6. IsVec(pairs) /\ ToSet(pairs) = {pairs[i] : i \in 1 .. n}
    <3>1. pairs = [i \in 1 .. n |-> pairs[i]]
      BY <2>5
    <3> QED BY <3>1, MapVec
  <2>7. \A kv \in ToSet(pairs) : kv[1] = op.key
    BY <2>5, <2>6
  <2> DEFINE u == t.query
             joined == u \o pairs
  <2>8. IsVec(u)
    BY <1>2 DEF QueryOver
  <2> HIDE DEF u
  <2>9. IsVec(joined) /\ ToSet(joined) = ToSet(u) \cup ToSet(pairs)
    BY <2>6, <2>8, JoinVec
  <2>10. r = [t EXCEPT !.query = joined]
    BY <1>1, <1>4 DEF u
  <2> HIDE DEF joined, r
  <2>11. r.query = joined /\ DOMAIN r = PolicyFields /\ \A f \in PolicyFields \ {"query"} : r[f] = t[f]
    BY <1>2, <2>10 DEF QueryOver, PolicyFields
  <2>12. QKeys(joined) \subseteq QKeys(p.query) \cup K
    BY <1>2, <2>7, <2>9 DEF QKeys, QueryOver, u
  <2>13. QueryOver(p, K, r)
    BY <1>2, <2>9, <2>11, <2>12 DEF QueryOver, PolicyFields
  <2> QED BY <2>13 DEF r
<1> QED BY <1>3, <1>4

QueryStep(c, K, acc, op) == emit_query_set_op(acc, op, c.cx, c.ep)
QueryInv(c, K, i, acc) == QueryOver(c.p, K, acc)
QueryFold == INSTANCE LeftFolds WITH Op <- QueryStep, Inv <- QueryInv

\* The query statements of a block touch their own keys only.
LEMMA QueryOps ==
    ASSUME NEW p, DOMAIN p = PolicyFields, IsVec(p.query), NEW D, NEW C, NEW ops, IsVec(ops),
           \A op \in ToSet(ops) : OpIn(D, C, op), NEW cx, NEW ep, Ready(D, ep), Ready(C, cx)
    PROVE  QueryOver(p, KeysOf(ops), emit_query_ops(p, ops, cx, ep))
<1> DEFINE c == [p |-> p, cx |-> cx, ep |-> ep]  K == KeysOf(ops)
<1>1. c.p = p /\ c.cx = cx /\ c.ep = ep
  OBVIOUS
<1>2. emit_query_ops(p, ops, cx, ep) = QueryFold!Fold(c, K, p, ops)
  BY DEF emit_query_ops, QueryFold!Fold, QueryStep, FoldLeft, MapThenFoldSet, Max,
         QueryFold!FoldLeft, QueryFold!MapThenFoldSet, QueryFold!Max
<1> HIDE DEF c, K
<1>3. QueryInv(c, K, 0, p)
  BY <1>1 DEF QueryInv, QueryOver
<1>4. Len(ops) \in Nat /\ DOMAIN ops = 1 .. Len(ops)
  BY VecSeq
<1>5. ASSUME NEW i \in 1 .. Len(ops), NEW acc, QueryInv(c, K, i - 1, acc)
      PROVE  QueryInv(c, K, i, QueryStep(c, K, acc, ops[i]))
  <2>1. ops[i].key \in K /\ ops[i] \in ToSet(ops)
    BY VecSeq DEF K, KeysOf
  <2>2. QueryOver(p, K, acc)
    BY <1>1, <1>5 DEF QueryInv
  <2>3. QueryOver(p, K, emit_query_set_op(acc, ops[i], cx, ep))
    BY <2>1, <2>2, QuerySet
  <2> QED BY <1>1, <2>3 DEF QueryInv, QueryStep
<1>6. QueryInv(c, K, Len(ops), QueryFold!Fold(c, K, p, ops))
  BY <1>3, <1>4, <1>5, QueryFold!FoldKeeps
<1> QED BY <1>1, <1>2, <1>6 DEF QueryInv, K

\* One bucket of the plan for each resolved bucket
LEMMA PlanVec ==
    ASSUME NEW s, IsVec(s), NEW ep, NEW r, r = emit_rate_limit_plan(s, ep)
    PROVE  IsVec(r) /\ Len(r) = Len(s) /\ r = [i \in 1 .. Len(s) |-> r[i]]
<1>1. DOMAIN s = 1 .. Len(s) /\ Len(s) \in Nat
  BY VecSeq
<1>2. r = [i \in 1 .. Len(s) |-> r[i]]
  BY <1>1 DEF emit_rate_limit_plan
<1> QED BY <1>1, <1>2, MapVec

\* The key parameters are filled in bucket by bucket.
LEMMA PlanJoined ==
    ASSUME NEW s, NEW t, IsVec(s), IsVec(t), NEW ep
    PROVE  emit_rate_limit_plan(s \o t, ep) = emit_rate_limit_plan(s, ep) \o emit_rate_limit_plan(t, ep)
<1> DEFINE u == s \o t
           a == emit_rate_limit_plan(s, ep)
           b == emit_rate_limit_plan(t, ep)
           c == emit_rate_limit_plan(u, ep)
           ab == a \o b
           m == Len(s)
           n == Len(t)
<1>1. /\ IsVec(u) /\ Len(u) = m + n
      /\ \A i \in 1 .. m : u[i] = s[i]
      /\ \A i \in 1 .. n : u[m + i] = t[i]
  BY JoinVec
<1>2. m \in Nat /\ n \in Nat /\ DOMAIN s = 1 .. m /\ DOMAIN t = 1 .. n
  BY VecSeq
<1>3. DOMAIN u = 1 .. Len(u)
  <2> HIDE DEF u
  <2> QED BY <1>1, VecSeq
<1> HIDE DEF u
<1>4. IsVec(a) /\ Len(a) = m
  BY PlanVec
<1>5. IsVec(b) /\ Len(b) = n
  BY PlanVec
<1>6. c = [i \in 1 .. Len(u) |-> c[i]]
  <2>1. c = emit_rate_limit_plan(u, ep)
    OBVIOUS
  <2> HIDE DEF c
  <2> QED BY <1>1, <2>1, PlanVec
<1>7. ASSUME NEW i \in 1 .. m PROVE c[i] = a[i]
  <2>1. i \in DOMAIN u /\ i \in DOMAIN s /\ u[i] = s[i]
    BY <1>1, <1>2, <1>3
  <2>2. emit_rate_limit_plan(u, ep)[i] = emit_rate_limit_plan(s, ep)[i]
    BY <2>1 DEF emit_rate_limit_plan
  <2> QED BY <2>2
<1>8. ASSUME NEW i \in 1 .. n PROVE c[m + i] = b[i]
  <2> DEFINE k == m + i
  <2>1. k \in DOMAIN u /\ i \in DOMAIN t /\ u[k] = t[i]
    BY <1>1, <1>2, <1>3
  <2> HIDE DEF k
  <2>2. emit_rate_limit_plan(u, ep)[k] = emit_rate_limit_plan(t, ep)[i]
    BY <2>1 DEF emit_rate_limit_plan
  <2> QED BY <2>2 DEF k
<1> HIDE DEF a, b, c, m, n
<1>9. /\ IsVec(ab) /\ Len(ab) = Len(a) + Len(b)
      /\ \A i \in 1 .. Len(a) : ab[i] = a[i]
      /\ \A i \in 1 .. Len(b) : ab[Len(a) + i] = b[i]
  BY <1>4, <1>5, JoinVec
<1> HIDE DEF ab
<1>10. ab = [i \in 1 .. Len(ab) |-> ab[i]]
  BY <1>9, VecSeq
<1>11. Len(u) = m + n /\ Len(ab) = m + n
  BY <1>1, <1>4, <1>5, <1>9
<1>12. ASSUME NEW i \in 1 .. m + n PROVE c[i] = ab[i]
  <2>1. CASE i <= m
    BY <1>2, <1>4, <1>7, <1>9, <2>1
  <2>2. CASE i > m
    <3>1. i - m \in 1 .. n /\ i = m + (i - m)
      BY <1>2, <2>2
    <3>2. c[m + (i - m)] = b[i - m]
      BY <1>8, <3>1
    <3>3. ab[m + (i - m)] = b[i - m]
      BY <1>4, <1>5, <1>9, <3>1
    <3> QED BY <3>1, <3>2, <3>3
  <2> QED BY <1>2, <2>1, <2>2
<1>13. c = ab
  BY <1>6, <1>10, <1>11, <1>12
<1> QED BY <1>13 DEF a, b, c, ab, u

\* Nothing, joined with a Vec
LEMMA JoinNone == ASSUME NEW s, IsVec(s) PROVE <<>> \o s = s
<1>1. s \in Seq(ToSet(s))
  BY VecSeq
<1> HIDE DEF ToSet
<1> QED BY <1>1

\* The rate limits in force after one more layer, as the documentation and as the
\* request compute them
RateAfter(rate, inc, ep) ==
    CASE inc.op = "None" -> rate
      [] inc.op = "Clear" -> <<>>
      [] inc.op = "Add" -> rate \o emit_rate_limit_plan(inc.buckets, ep)
      [] inc.op = "Replace" -> emit_rate_limit_plan(inc.buckets, ep)

\* One more layer of rate limits: the request follows what the documentation computes.
LEMMA RateFollows ==
    ASSUME NEW D, NEW cur, RateIn(D, cur), NEW inc, RateIn(D, inc), NEW ep,
           NEW new, new = apply_rate_limit_layer(cur, inc)
    PROVE  RateIn(D, new)
           /\ RateAfter(emit_rate_limit_plan(cur.buckets, ep), inc, ep)
                = emit_rate_limit_plan(new.buckets, ep)
<1>1. inc.op \in {"None", "Clear", "Add", "Replace"} /\ cur.op \in {"None", "Clear", "Add", "Replace"}
  BY DEF RateIn
<1>2. emit_rate_limit_plan(<<>>, ep) = <<>>
  <2> DEFINE none == <<>>
             r == emit_rate_limit_plan(none, ep)
  <2>1. IsVec(none) /\ Len(none) = 0
    BY EmptyVec
  <2>2. r = [i \in 1 .. Len(none) |-> r[i]]
    <3>1. r = emit_rate_limit_plan(none, ep)
      OBVIOUS
    <3> HIDE DEF r, none
    <3> QED BY <2>1, <3>1, PlanVec
  <2> HIDE DEF r
  <2>3. r = <<>>
    BY <2>1, <2>2
  <2> QED BY <2>3 DEF r
<1>3. CASE inc.op = "None"
  BY <1>3 DEF RateAfter, apply_rate_limit_layer
<1>4. CASE inc.op = "Clear"
  <2>1. new = inc /\ inc.buckets = <<>>
    BY <1>4 DEF apply_rate_limit_layer, RateIn
  <2>2. RateAfter(emit_rate_limit_plan(cur.buckets, ep), inc, ep) = <<>>
    BY <1>4 DEF RateAfter
  <2> QED BY <1>2, <2>1, <2>2
<1>5. CASE inc.op = "Replace"
  <2>1. new = inc
    BY <1>5 DEF apply_rate_limit_layer
  <2>2. RateAfter(emit_rate_limit_plan(cur.buckets, ep), inc, ep) = emit_rate_limit_plan(inc.buckets, ep)
    BY <1>5 DEF RateAfter
  <2> QED BY <2>1, <2>2
<1>6. CASE inc.op = "Add"
  <2>1. RateAfter(emit_rate_limit_plan(cur.buckets, ep), inc, ep)
          = emit_rate_limit_plan(cur.buckets, ep) \o emit_rate_limit_plan(inc.buckets, ep)
    BY <1>6 DEF RateAfter
  <2>2. IsVec(inc.buckets) /\ IsVec(cur.buckets)
    BY DEF RateIn
  <2>3. CASE cur.op \in {"None", "Clear"}
    <3>1. new = inc /\ cur.buckets = <<>>
      BY <1>6, <2>3 DEF apply_rate_limit_layer, RateIn
    <3> DEFINE plan == emit_rate_limit_plan(inc.buckets, ep)
    <3>2. IsVec(plan)
      BY <2>2, PlanVec
    <3> HIDE DEF plan
    <3>3. <<>> \o plan = plan
      BY <3>2, JoinNone
    <3> QED BY <1>2, <2>1, <3>1, <3>3 DEF plan
  <2>4. CASE cur.op \notin {"None", "Clear"}
    <3> DEFINE joined == cur.buckets \o inc.buckets
    <3>1. new = [cur EXCEPT !.buckets = joined]
      BY <1>6, <2>4 DEF apply_rate_limit_layer
    <3>2. IsVec(joined) /\ ToSet(joined) = ToSet(cur.buckets) \cup ToSet(inc.buckets)
      BY <2>2, JoinVec
    <3>3. emit_rate_limit_plan(joined, ep)
            = emit_rate_limit_plan(cur.buckets, ep) \o emit_rate_limit_plan(inc.buckets, ep)
      BY <2>2, PlanJoined
    <3> HIDE DEF joined
    <3>4. new.buckets = joined /\ new.op = cur.op /\ DOMAIN new = {"op", "buckets"}
      BY <3>1 DEF RateIn
    <3>5. RateIn(D, new)
      BY <1>1, <2>4, <3>2, <3>4 DEF RateIn
    <3> QED BY <2>1, <3>3, <3>4, <3>5
  <2> QED BY <2>3, <2>4
<1> QED BY <1>1, <1>3, <1>4, <1>5, <1>6

\* What one layer of policy does to the policy p
LayerOver(p, b, ep, r) ==
    /\ DOMAIN r = PolicyFields
    /\ DOMAIN r.headers \subseteq DOMAIN p.headers \cup KeysOf(b.headers)
    /\ IsVec(r.query) /\ QKeys(r.query) \subseteq QKeys(p.query) \cup KeysOf(b.query)
    /\ r.timeout = IF b.timeout = None THEN p.timeout ELSE b.timeout
    /\ r.rate = RateAfter(p.rate, b.rate, ep)

\* emit_policy_apply_fn: what one layer does to the policy
LEMMA LayerApplied ==
    ASSUME NEW p, DOMAIN p = PolicyFields, IsVec(p.query), NEW D, NEW C, NEW b, BlockIn(D, C, b),
           NEW cx, NEW ep, Ready(D, ep), Ready(C, cx), NEW layer
    PROVE  LayerOver(p, b, ep, emit_policy_apply_fn(p, layer, b, cx, ep))
<1> DEFINE p0 == [p EXCEPT !.layer = layer]
           p1 == emit_header_ops(p0, b.headers, cx, ep)
           p2 == emit_query_ops(p1, b.query, cx, ep)
           p3 == emit_timeout_op(p2, b.timeout)
           r == emit_rate_limit_op(p3, b.rate, ep)
<1>1. emit_policy_apply_fn(p, layer, b, cx, ep) = r
  BY DEF emit_policy_apply_fn
<1>2. DOMAIN p0 = PolicyFields /\ \A f \in PolicyFields \ {"layer"} : p0[f] = p[f]
  BY DEF PolicyFields
<1>3. IsVec(b.headers) /\ IsVec(b.query) /\ RateIn(D, b.rate) /\ \A op \in ToSet(b.query) : OpIn(D, C, op)
  BY DEF BlockIn
<1> HIDE DEF p0
<1>4. HeadersOver(p0, KeysOf(b.headers), p1)
  BY <1>2, <1>3, HeaderOps
<1> HIDE DEF p1
<1>5. QueryOver(p1, KeysOf(b.query), p2)
  <2>1. IsVec(p1.query) /\ DOMAIN p1 = PolicyFields
    BY <1>2, <1>4 DEF HeadersOver, PolicyFields
  <2> QED BY <1>3, <2>1, QueryOps
<1> HIDE DEF p2
<1>6. /\ DOMAIN p3 = PolicyFields /\ p3.headers = p2.headers /\ p3.query = p2.query /\ p3.rate = p2.rate
      /\ p3.timeout = IF b.timeout = None THEN p2.timeout ELSE b.timeout
  BY <1>5 DEF QueryOver, PolicyFields, emit_timeout_op
<1> HIDE DEF p3
<1>7. /\ DOMAIN r = PolicyFields /\ r.headers = p3.headers /\ r.query = p3.query /\ r.timeout = p3.timeout
      /\ r.rate = RateAfter(p3.rate, b.rate, ep)
  <2> DEFINE plan == emit_rate_limit_plan(b.rate.buckets, ep)
             more == p3.rate \o plan
             after == RateAfter(p3.rate, b.rate, ep)
  <2>1. b.rate.op \in {"None", "Clear", "Add", "Replace"}
    BY <1>3 DEF RateIn
  <2>2. after = CASE b.rate.op = "None" -> p3.rate [] b.rate.op = "Clear" -> <<>>
                  [] b.rate.op = "Add" -> more [] b.rate.op = "Replace" -> plan
    BY DEF RateAfter
  <2>3. r = CASE b.rate.op = "None" -> p3
              [] b.rate.op = "Clear" -> [p3 EXCEPT !.rate = <<>>]
              [] b.rate.op = "Add" -> [p3 EXCEPT !.rate = more]
              [] b.rate.op = "Replace" -> [p3 EXCEPT !.rate = plan]
    BY DEF emit_rate_limit_op
  <2> HIDE DEF plan, more, after, r
  <2>4. (r = p3 /\ after = p3.rate) \/ r = [p3 EXCEPT !.rate = after]
    BY <2>1, <2>2, <2>3
  <2>5. /\ DOMAIN r = PolicyFields /\ r.headers = p3.headers /\ r.query = p3.query /\ r.timeout = p3.timeout
        /\ r.rate = after
    BY <1>6, <2>4 DEF PolicyFields
  <2> QED BY <2>5 DEF after
<1> HIDE DEF r
<1>8. LayerOver(p, b, ep, r)
  <2>1. p0.headers = p.headers /\ p0.query = p.query /\ p0.timeout = p.timeout /\ p0.rate = p.rate
    BY <1>2 DEF PolicyFields
  <2>2. /\ p1.query = p.query /\ p1.timeout = p.timeout /\ p1.rate = p.rate
        /\ DOMAIN p1.headers \subseteq DOMAIN p.headers \cup KeysOf(b.headers)
    BY <1>4, <2>1 DEF HeadersOver
  <2>3. /\ p2.headers = p1.headers /\ p2.timeout = p.timeout /\ p2.rate = p.rate
        /\ IsVec(p2.query) /\ QKeys(p2.query) \subseteq QKeys(p.query) \cup KeysOf(b.query)
    BY <1>5, <2>2 DEF QueryOver
  <2> QED BY <1>6, <1>7, <2>2, <2>3 DEF LayerOver
<1> QED BY <1>1, <1>8

\* Three Vecs, joined
LEMMA JoinThree ==
    ASSUME NEW h, NEW s, NEW l, IsVec(h), IsVec(s), IsVec(l)
    PROVE  /\ IsVec(h \o s \o l) /\ Len(h \o s \o l) = Len(h) + Len(s) + Len(l)
           /\ \A i \in 1 .. Len(h) : (h \o s \o l)[i] = h[i]
           /\ \A i \in 1 .. Len(s) : (h \o s \o l)[Len(h) + i] = s[i]
           /\ \A i \in 1 .. Len(l) : (h \o s \o l)[Len(h) + Len(s) + i] = l[i]
<1> DEFINE v == h \o s  w == v \o l
<1>1. IsVec(h) /\ IsVec(s)
  OBVIOUS
<1>2. /\ IsVec(h \o s) /\ Len(h \o s) = Len(h) + Len(s)
      /\ \A i \in 1 .. Len(h) : (h \o s)[i] = h[i]
      /\ \A i \in 1 .. Len(s) : (h \o s)[Len(h) + i] = s[i]
  BY ONLY <1>1, JoinVec
<1>3. /\ IsVec(v) /\ Len(v) = Len(h) + Len(s)
      /\ \A i \in 1 .. Len(h) : v[i] = h[i]
      /\ \A i \in 1 .. Len(s) : v[Len(h) + i] = s[i]
  BY <1>2
<1> HIDE DEF v
<1>4. IsVec(v) /\ IsVec(l)
  BY <1>3
<1>5. /\ IsVec(v \o l) /\ Len(v \o l) = Len(v) + Len(l)
      /\ \A i \in 1 .. Len(v) : (v \o l)[i] = v[i]
      /\ \A i \in 1 .. Len(l) : (v \o l)[Len(v) + i] = l[i]
  BY ONLY <1>4, JoinVec
<1>6. /\ IsVec(w) /\ Len(w) = Len(v) + Len(l)
      /\ \A i \in 1 .. Len(v) : w[i] = v[i]
      /\ \A i \in 1 .. Len(l) : w[Len(v) + i] = l[i]
  BY <1>5
<1>7. Len(h) \in Nat /\ Len(s) \in Nat /\ Len(l) \in Nat
  BY VecSeq
<1> HIDE DEF w
<1>8. /\ IsVec(w) /\ Len(w) = Len(h) + Len(s) + Len(l)
      /\ \A i \in 1 .. Len(h) : w[i] = h[i]
      /\ \A i \in 1 .. Len(s) : w[Len(h) + i] = s[i]
      /\ \A i \in 1 .. Len(l) : w[Len(h) + Len(s) + i] = l[i]
  <2>1. \A i \in 1 .. Len(h) : i \in 1 .. Len(v)
    BY <1>3, <1>7
  <2>2. \A i \in 1 .. Len(s) : Len(h) + i \in 1 .. Len(v)
    BY <1>3, <1>7
  <2> QED BY <1>3, <1>6, <2>1, <2>2
<1> QED BY <1>8 DEF w, v

\* The layers of a request's policy are the blocks that its documentation reads.
LEMMA LayersAreBlocks ==
    ASSUME NEW cp, NEW e, IsVec(e.policy.scopes), NEW n, n = Len(e.policy.scopes) + 2,
           NEW ls, ls = PolicyLayers(cp, e.policy.scopes, e.policy.endpoint),
           NEW bs, bs = PolicyBlocks(cp, e)
    PROVE  /\ n \in Nat /\ DOMAIN ls = 1 .. n /\ DOMAIN bs = 1 .. n /\ IsVec(ls) /\ IsVec(bs)
           /\ \A i \in 1 .. n : ls[i].block = bs[i]
           /\ bs[1] = cp /\ bs[n] = e.policy.endpoint
           /\ \A i \in 1 .. n - 2 : bs[i + 1] = e.policy.scopes[i]
<1> DEFINE sc == e.policy.scopes
           m == Len(sc)
           x1 == [layer |-> "Client", block |-> cp]
           xn == [layer |-> "Endpoint", block |-> e.policy.endpoint]
           mid == [i \in DOMAIN sc |-> [layer |-> "PrefixPath", block |-> sc[i]]]
<1>1. m \in Nat /\ DOMAIN sc = 1 .. m /\ IsVec(sc)
  BY VecSeq
<1>2. mid = [i \in 1 .. m |-> mid[i]] /\ \A i \in 1 .. m : mid[i].block = sc[i]
  BY <1>1
<1>3. ls = <<x1>> \o mid \o <<xn>> /\ bs = <<cp>> \o sc \o <<e.policy.endpoint>>
  BY DEF PolicyLayers, PolicyBlocks
<1>4. x1.block = cp /\ xn.block = e.policy.endpoint
  OBVIOUS
<1> HIDE DEF sc, mid, x1, xn
<1>5. IsVec(mid) /\ Len(mid) = m
  <2>1. mid = [i \in 1 .. m |-> mid[i]]
    BY <1>2
  <2> HIDE DEF m
  <2> QED BY <1>1, <2>1, MapVec
<1>7. n = m + 2
  BY DEF sc
<1> DEFINE Ends(w, a, s, z) == /\ IsVec(w) /\ DOMAIN w = 1 .. m + 2
                               /\ w[1] = a /\ w[m + 2] = z /\ \A i \in 1 .. m : w[i + 1] = s[i]
<1>8. Ends(ls, x1, mid, xn)
  <2> DEFINE h == <<x1>>  l == <<xn>>
  <2>1. ls = h \o mid \o l
    BY <1>3
  <2>2. Len(h) = 1 /\ Len(l) = 1 /\ h[1] = x1 /\ l[1] = xn
    OBVIOUS
  <2>3. IsVec(mid) /\ Len(mid) = m
    BY <1>5
  <2>4. IsVec(h) /\ IsVec(mid) /\ IsVec(l)
    BY <2>3, OneVec
  <2> HIDE DEF h, l, m
  <2>5. /\ IsVec(h \o mid \o l) /\ Len(h \o mid \o l) = Len(h) + Len(mid) + Len(l)
        /\ \A i \in 1 .. Len(h) : (h \o mid \o l)[i] = h[i]
        /\ \A i \in 1 .. Len(mid) : (h \o mid \o l)[Len(h) + i] = mid[i]
        /\ \A i \in 1 .. Len(l) : (h \o mid \o l)[Len(h) + Len(mid) + i] = l[i]
    BY ONLY <2>4, JoinThree
  <2> DEFINE w == h \o mid \o l
  <2>6. /\ IsVec(w) /\ Len(w) = Len(h) + Len(mid) + Len(l)
        /\ \A i \in 1 .. Len(h) : w[i] = h[i]
        /\ \A i \in 1 .. Len(mid) : w[Len(h) + i] = mid[i]
        /\ \A i \in 1 .. Len(l) : w[Len(h) + Len(mid) + i] = l[i]
    BY <2>5
  <2>7. ls = w
    BY <2>1
  <2> HIDE DEF w
  <2>8. IsVec(w) /\ w[1] = x1 /\ w[m + 2] = xn /\ \A i \in 1 .. m : w[i + 1] = mid[i]
    <3>1. /\ w[Len(h) + Len(mid) + 1] = l[1] /\ Len(h) + Len(mid) + 1 = m + 2
          /\ \A i \in 1 .. m : Len(h) + i = i + 1
      BY <1>1, <2>2, <2>3, <2>6
    <3> QED BY <1>1, <2>2, <2>3, <2>6, <3>1
  <2>9. DOMAIN w = 1 .. Len(w) /\ Len(w) = m + 2
    BY <1>1, <2>2, <2>3, <2>6, VecSeq
  <2>10. Ends(w, x1, mid, xn)
    BY <2>8, <2>9
  <2> QED BY <2>7, <2>10
<1>9. Ends(bs, cp, sc, e.policy.endpoint)
  <2> DEFINE h == <<cp>>  l == <<e.policy.endpoint>>
  <2>1. bs = h \o sc \o l
    BY <1>3
  <2>2. Len(h) = 1 /\ Len(l) = 1 /\ h[1] = cp /\ l[1] = e.policy.endpoint
    OBVIOUS
  <2>3. IsVec(sc) /\ Len(sc) = m
    BY <1>1
  <2>4. IsVec(h) /\ IsVec(sc) /\ IsVec(l)
    BY <2>3, OneVec
  <2> HIDE DEF h, l, m
  <2>5. /\ IsVec(h \o sc \o l) /\ Len(h \o sc \o l) = Len(h) + Len(sc) + Len(l)
        /\ \A i \in 1 .. Len(h) : (h \o sc \o l)[i] = h[i]
        /\ \A i \in 1 .. Len(sc) : (h \o sc \o l)[Len(h) + i] = sc[i]
        /\ \A i \in 1 .. Len(l) : (h \o sc \o l)[Len(h) + Len(sc) + i] = l[i]
    BY ONLY <2>4, JoinThree
  <2> DEFINE w == h \o sc \o l
  <2>6. /\ IsVec(w) /\ Len(w) = Len(h) + Len(sc) + Len(l)
        /\ \A i \in 1 .. Len(h) : w[i] = h[i]
        /\ \A i \in 1 .. Len(sc) : w[Len(h) + i] = sc[i]
        /\ \A i \in 1 .. Len(l) : w[Len(h) + Len(sc) + i] = l[i]
    BY <2>5
  <2>7. bs = w
    BY <2>1
  <2> HIDE DEF w
  <2>8. IsVec(w) /\ w[1] = cp /\ w[m + 2] = e.policy.endpoint /\ \A i \in 1 .. m : w[i + 1] = sc[i]
    <3>1. /\ w[Len(h) + Len(sc) + 1] = l[1] /\ Len(h) + Len(sc) + 1 = m + 2
          /\ \A i \in 1 .. m : Len(h) + i = i + 1
      BY <1>1, <2>2, <2>3, <2>6
    <3> QED BY <1>1, <2>2, <2>3, <2>6, <3>1
  <2>9. DOMAIN w = 1 .. Len(w) /\ Len(w) = m + 2
    BY <1>1, <2>2, <2>3, <2>6, VecSeq
  <2>10. Ends(w, cp, sc, e.policy.endpoint)
    BY <2>8, <2>9
  <2> QED BY <2>7, <2>10
<1>10. ASSUME NEW i \in 1 .. n PROVE ls[i].block = bs[i]
  <2>1. CASE i = 1
    BY <1>4, <1>7, <1>8, <1>9, <2>1
  <2>2. CASE i = n
    BY <1>4, <1>7, <1>8, <1>9, <2>2
  <2>3. CASE i # 1 /\ i # n
    <3>1. i - 1 \in 1 .. m /\ i = (i - 1) + 1
      BY <1>1, <1>7, <2>3
    <3>2. ls[(i - 1) + 1] = mid[i - 1]
      BY <1>8, <3>1
    <3>3. bs[(i - 1) + 1] = sc[i - 1]
      BY <1>9, <3>1
    <3> QED BY <1>2, <3>1, <3>2, <3>3
  <2> QED BY <2>1, <2>2, <2>3
<1>11. n - 2 = m /\ n \in Nat
  BY <1>1, <1>7
<1> QED BY <1>7, <1>8, <1>9, <1>10, <1>11 DEF sc

RateDocStep(c, d, acc, b) == apply_rate_limit_layer(acc, b.rate)
RateDocFold == INSTANCE LeftFolds WITH Op <- RateDocStep, Inv <- Whatever
TimeoutDocStep(c, d, t, b) == IF b.timeout = None THEN t ELSE b.timeout
TimeoutDocFold == INSTANCE LeftFolds WITH Op <- TimeoutDocStep, Inv <- Whatever

\* The documented timeout, layer by layer
TimeoutRun(h, bs, n) == /\ h[0] = None
                        /\ \A i \in 1 .. n : h[i] = IF bs[i].timeout = None THEN h[i - 1] ELSE bs[i].timeout
RateRun(h, bs, n) == /\ h[1] = bs[1].rate
                     /\ \A i \in 2 .. n : h[i] = apply_rate_limit_layer(h[i - 1], bs[i].rate)

\* effective_timeout, layer by layer
LEMMA DocTimeout ==
    ASSUME NEW cp, NEW e, NEW n \in Nat, NEW bs, bs = PolicyBlocks(cp, e), DOMAIN bs = 1 .. n
    PROVE  \E h : TimeoutRun(h, bs, n) /\ effective_timeout(cp, e) = h[n]
<1>1. effective_timeout(cp, e) = TimeoutDocFold!Fold(0, 0, None, bs)
  BY DEF effective_timeout, TimeoutDocFold!Fold, TimeoutDocStep, FoldLeft, MapThenFoldSet, Max,
         TimeoutDocFold!FoldLeft, TimeoutDocFold!MapThenFoldSet, TimeoutDocFold!Max
<1>2. PICK h : TimeoutDocFold!FoldRun(h, 0, 0, None, bs, n) /\ TimeoutDocFold!Fold(0, 0, None, bs) = h[n]
  BY TimeoutDocFold!FoldRuns
<1>3. TimeoutRun(h, bs, n)
  BY <1>2 DEF TimeoutDocFold!FoldRun, TimeoutDocStep, TimeoutRun
<1> QED BY <1>1, <1>2, <1>3

\* effective_rate_limit, layer by layer
LEMMA DocRate ==
    ASSUME NEW cp, NEW e, IsVec(e.policy.scopes), NEW n, n = Len(e.policy.scopes) + 2,
           NEW bs, bs = PolicyBlocks(cp, e)
    PROVE  \E h : RateRun(h, bs, n) /\ effective_rate_limit(cp, e) = h[n].buckets
<1> DEFINE sc == e.policy.scopes
           m == Len(sc)
           run == RateDocFold!Fold(0, 0, cp.rate, sc)
           last == apply_rate_limit_layer(run, e.policy.endpoint.rate)
<1>1. effective_rate_limit(cp, e) = last.buckets
  BY DEF effective_rate_limit, RateDocFold!Fold, RateDocStep, FoldLeft, MapThenFoldSet, Max,
         RateDocFold!FoldLeft, RateDocFold!MapThenFoldSet, RateDocFold!Max
<1>2. m \in Nat /\ DOMAIN sc = 1 .. m
  BY VecSeq
<1>3. PICK g : RateDocFold!FoldRun(g, 0, 0, cp.rate, sc, m) /\ run = g[m]
  <2> HIDE DEF m, sc
  <2> QED BY <1>2, RateDocFold!FoldRuns
<1>4. g[0] = cp.rate /\ \A i \in 1 .. m : g[i] = apply_rate_limit_layer(g[i - 1], sc[i].rate)
  BY <1>3 DEF RateDocFold!FoldRun, RateDocStep
<1>5. /\ n \in Nat /\ bs[1] = cp /\ bs[n] = e.policy.endpoint
      /\ \A i \in 1 .. n - 2 : bs[i + 1] = sc[i]
  <2> DEFINE ls == PolicyLayers(cp, e.policy.scopes, e.policy.endpoint)
  <2>1. ls = PolicyLayers(cp, e.policy.scopes, e.policy.endpoint)
    OBVIOUS
  <2> HIDE DEF ls
  <2> QED BY <2>1, LayersAreBlocks
<1>6. n = m + 2
  OBVIOUS
<1> HIDE DEF sc, m, run
<1> DEFINE h == [i \in 1 .. n |-> IF i = n THEN last ELSE g[i - 1]]
<1>7. h[n] = last /\ \A i \in 1 .. n - 1 : h[i] = g[i - 1]
  BY <1>2, <1>6
<1> HIDE DEF h
<1>8. h[1] = bs[1].rate
  <2>1. 1 \in 1 .. n - 1 /\ 1 - 1 = 0
    BY <1>2, <1>6
  <2> QED BY <1>4, <1>5, <1>7, <2>1
<1>9. ASSUME NEW i \in 2 .. n PROVE h[i] = apply_rate_limit_layer(h[i - 1], bs[i].rate)
  <2>2. CASE i = n
    <3>1. h[n - 1] = g[m] /\ h[n] = last
      <4>1. n - 1 \in 1 .. n - 1 /\ (n - 1) - 1 = m
        BY <1>2, <1>6
      <4> QED BY <1>7, <4>1
    <3> QED BY <1>3, <1>5, <2>2, <3>1
  <2>3. CASE i # n
    <3>1. i - 1 \in 1 .. m /\ i \in 1 .. n - 1 /\ i - 1 \in 1 .. n - 1 /\ i = (i - 1) + 1 /\ n - 2 = m
      BY <1>2, <1>6, <2>3
    <3>2. bs[i] = sc[i - 1]
      BY <1>5, <3>1
    <3>3. g[i - 1] = apply_rate_limit_layer(g[(i - 1) - 1], sc[i - 1].rate)
      BY <1>4, <3>1
    <3>4. h[i] = g[i - 1] /\ h[i - 1] = g[(i - 1) - 1]
      BY <1>7, <3>1
    <3> QED BY <3>2, <3>3, <3>4
  <2> QED BY <2>2, <2>3
<1>10. RateRun(h, bs, n) /\ effective_rate_limit(cp, e) = h[n].buckets
  BY <1>1, <1>7, <1>8, <1>9 DEF RateRun
<1> QED BY <1>10

(* ------------------- the policy of a request, documented ------------------ *)

\* The rate limit of the outermost layer
LEMMA FirstRate ==
    ASSUME NEW D, NEW inc, RateIn(D, inc), NEW ep
    PROVE  RateAfter(<<>>, inc, ep) = emit_rate_limit_plan(inc.buckets, ep)
<1> DEFINE new == apply_rate_limit_layer(NoRateLimit, inc)
<1>1. new.buckets = inc.buckets
  <2>1. CASE inc.op = "None"
    BY <2>1 DEF apply_rate_limit_layer, NoRateLimit, RateIn
  <2>2. CASE inc.op # "None"
    BY <2>2 DEF apply_rate_limit_layer, NoRateLimit
  <2> QED BY <2>1, <2>2
<1>2. RateIn(D, NoRateLimit)
  BY NothingIn
<1>3. RateAfter(emit_rate_limit_plan(NoRateLimit.buckets, ep), inc, ep) = emit_rate_limit_plan(new.buckets, ep)
  <2>1. new = apply_rate_limit_layer(NoRateLimit, inc)
    OBVIOUS
  <2> HIDE DEF new
  <2> QED BY <1>2, <2>1, RateFollows
<1>4. NoRateLimit.buckets = <<>>
  BY DEF NoRateLimit
<1>5. emit_rate_limit_plan(<<>>, ep) = <<>>
  BY DEF emit_rate_limit_plan
<1> HIDE DEF new
<1> QED BY <1>1, <1>3, <1>4, <1>5

MergeStep(c, d, p, l) == emit_policy_apply_fn(p, l.layer, l.block, c.cx, c.ep)
\* After i layers: the headers and query keys are documented, the timeout and the rate
\* limits are those that the documentation has after i blocks.
MergeInv(c, D, i, p) ==
    /\ DOMAIN p = PolicyFields
    /\ DOMAIN p.headers \subseteq c.headers
    /\ IsVec(p.query) /\ QKeys(p.query) \subseteq c.query
    /\ p.timeout = c.timeouts[i]
    /\ IF i = 0 THEN p.rate = <<>>
       ELSE RateIn(D, c.rates[i]) /\ p.rate = emit_rate_limit_plan(c.rates[i].buckets, c.ep)
MergeFold == INSTANCE LeftFolds WITH Op <- MergeStep, Inv <- MergeInv

\* One more layer keeps the merged policy in step with the documentation.
LEMMA MergedLayer ==
    ASSUME NEW c, NEW D, NEW C, NEW n \in Nat, NEW i \in 1 .. n, NEW bs, NEW p, MergeInv(c, D, i - 1, p),
           TimeoutRun(c.timeouts, bs, n), RateRun(c.rates, bs, n), BlockIn(D, C, bs[i]),
           KeysOf(bs[i].headers) \subseteq c.headers, KeysOf(bs[i].query) \subseteq c.query,
           Ready(D, c.ep), Ready(C, c.cx), NEW l, l.block = bs[i]
    PROVE  MergeInv(c, D, i, MergeStep(c, D, p, l))
<1> DEFINE b == bs[i]
           r == MergeStep(c, D, p, l)
<1>1. r = emit_policy_apply_fn(p, l.layer, b, c.cx, c.ep)
  BY DEF MergeStep
<1>2. LayerOver(p, b, c.ep, r)
  <2>1. DOMAIN p = PolicyFields /\ IsVec(p.query)
    BY DEF MergeInv
  <2> HIDE DEF r, b
  <2>2. BlockIn(D, C, b)
    BY DEF b
  <2>3. LayerOver(p, b, c.ep, emit_policy_apply_fn(p, l.layer, b, c.cx, c.ep))
    BY <2>1, <2>2, LayerApplied
  <2> QED BY <1>1, <2>3
<1> HIDE DEF r
<1>3. DOMAIN r = PolicyFields /\ IsVec(r.query)
  BY <1>2 DEF LayerOver
<1>4. DOMAIN r.headers \subseteq c.headers
  BY <1>2 DEF LayerOver, MergeInv
<1>5. QKeys(r.query) \subseteq c.query
  BY <1>2 DEF LayerOver, MergeInv
<1>6. r.timeout = c.timeouts[i]
  BY <1>2 DEF LayerOver, MergeInv, TimeoutRun
<1>7. RateIn(D, b.rate)
  BY DEF BlockIn
<1>8. r.rate = RateAfter(p.rate, b.rate, c.ep)
  BY <1>2 DEF LayerOver
<1>9. RateIn(D, c.rates[i]) /\ r.rate = emit_rate_limit_plan(c.rates[i].buckets, c.ep)
  <2>1. CASE i = 1
    <3>1. p.rate = <<>>
      BY <2>1 DEF MergeInv
    <3>2. c.rates[i] = b.rate
      BY <2>1 DEF RateRun
    <3>3. RateAfter(<<>>, b.rate, c.ep) = emit_rate_limit_plan(b.rate.buckets, c.ep)
      <4> DEFINE inc == b.rate
      <4>1. RateIn(D, inc)
        BY <1>7
      <4> HIDE DEF inc
      <4>2. RateAfter(<<>>, inc, c.ep) = emit_rate_limit_plan(inc.buckets, c.ep)
        BY <4>1, FirstRate
      <4> QED BY <4>2 DEF inc
    <3> QED BY <1>7, <1>8, <3>1, <3>2, <3>3
  <2>2. CASE i # 1
    <3> DEFINE cur == c.rates[i - 1]  inc == b.rate  new == c.rates[i]  ep == c.ep
    <3>1. RateIn(D, cur) /\ p.rate = emit_rate_limit_plan(cur.buckets, ep)
      <4>1. i - 1 # 0
        BY <2>2
      <4> QED BY <4>1 DEF MergeInv
    <3>2. new = apply_rate_limit_layer(cur, inc)
      <4>1. i \in 2 .. n
        BY <2>2
      <4> QED BY <4>1 DEF RateRun
    <3>3. RateIn(D, inc)
      BY <1>7
    <3> HIDE DEF cur, inc, new, ep
    <3>4. RateIn(D, new) /\ RateAfter(emit_rate_limit_plan(cur.buckets, ep), inc, ep)
                              = emit_rate_limit_plan(new.buckets, ep)
      BY <3>1, <3>2, <3>3, RateFollows
    <3>5. r.rate = RateAfter(p.rate, inc, ep)
      BY <1>8 DEF inc, ep
    <3>6. RateIn(D, new) /\ r.rate = emit_rate_limit_plan(new.buckets, ep)
      BY <3>1, <3>4, <3>5
    <3> QED BY <3>6 DEF new, ep
  <2> QED BY <2>1, <2>2
<1>10. i # 0
  OBVIOUS
<1>11. MergeInv(c, D, i, r)
  BY <1>3, <1>4, <1>5, <1>6, <1>9, <1>10 DEF MergeInv
<1> QED BY <1>11 DEF r

\* What a request's merged policy has of the documented one
Documented(cp, e, ep, p) ==
    /\ DOMAIN p = PolicyFields
    /\ DOMAIN p.headers \subseteq doc_policy_keys(cp, e, "headers") \cup {"accept"}
    /\ IsVec(p.query) /\ QKeys(p.query) \subseteq doc_policy_keys(cp, e, "query")
    /\ p.timeout = effective_timeout(cp, e)
    /\ p.rate = emit_rate_limit_plan(effective_rate_limit(cp, e), ep)

\* The merged policy of a request is the documented one.
LEMMA PolicyDocumented ==
    ASSUME NEW cp, NEW C, BlockIn({}, C, cp), NEW base, NEW e, EndpointOK(base, C, e),
           NEW cx, NEW ep, Ready(ToSet(e.vars), ep), Ready(C, cx)
    PROVE  Documented(cp, e, ep, ApplyPolicies(cp, e, cx, ep))
<1> DEFINE D == ToSet(e.vars)
           n == Len(e.policy.scopes) + 2
           bs == PolicyBlocks(cp, e)
           ls == PolicyLayers(cp, e.policy.scopes, e.policy.endpoint)
           hs == doc_policy_keys(cp, e, "headers")
           qs == doc_policy_keys(cp, e, "query")
<1>1. IsVec(e.policy.scopes) /\ \A b \in BlocksOf(e) : BlockIn(D, C, b)
  BY DEF EndpointOK
<1>2. BlockIn(D, C, cp)
  <2>1. Agree({}, D)
    BY DEF Agree
  <2> HIDE DEF D
  <2> QED BY <2>1, LayerInMore
<1>3. n = Len(e.policy.scopes) + 2 /\ bs = PolicyBlocks(cp, e)
      /\ ls = PolicyLayers(cp, e.policy.scopes, e.policy.endpoint)
  OBVIOUS
<1> HIDE DEF n, bs, ls, D
<1>4. /\ n \in Nat /\ DOMAIN ls = 1 .. n /\ DOMAIN bs = 1 .. n /\ IsVec(ls) /\ IsVec(bs)
      /\ \A i \in 1 .. n : ls[i].block = bs[i]
      /\ bs[1] = cp /\ bs[n] = e.policy.endpoint
      /\ \A i \in 1 .. n - 2 : bs[i + 1] = e.policy.scopes[i]
  BY <1>1, <1>3, LayersAreBlocks
<1>5. \A i \in 1 .. n : BlockIn(D, C, bs[i])
  <2> TAKE i \in 1 .. n
  <2>1. CASE i = 1
    BY <1>2, <1>4, <2>1
  <2>2. CASE i = n
    BY <1>1, <1>4, <2>2 DEF BlocksOf
  <2>3. CASE i # 1 /\ i # n
    <3>1. i - 1 \in 1 .. n - 2 /\ i = (i - 1) + 1 /\ i - 1 \in 1 .. Len(e.policy.scopes)
      <4>1. Len(e.policy.scopes) \in Nat
        BY <1>1, VecSeq
      <4> QED BY <1>3, <2>3, <4>1
    <3>2. bs[i] = e.policy.scopes[i - 1]
      BY <1>4, <3>1
    <3>3. e.policy.scopes[i - 1] \in ToSet(e.policy.scopes)
      BY <1>1, <3>1, VecSeq
    <3> QED BY <1>1, <3>2, <3>3 DEF BlocksOf
  <2> QED BY <2>1, <2>2, <2>3
<1>6. ASSUME NEW i \in 1 .. n PROVE KeysOf(bs[i].headers) \subseteq hs /\ KeysOf(bs[i].query) \subseteq qs
  <2>1. bs[i] \in ToSet(bs)
    BY <1>4, VecSeq DEF ToSet
  <2>2. hs = UNION {{op.key : op \in ToSet(b["headers"])} : b \in ToSet(bs)}
    BY DEF doc_policy_keys, bs
  <2>3. qs = UNION {{op.key : op \in ToSet(b["query"])} : b \in ToSet(bs)}
    BY DEF doc_policy_keys, bs
  <2>4. KeysOf(bs[i].headers) \subseteq hs
    <3> HIDE DEF hs, qs
    <3> QED BY <2>1, <2>2 DEF KeysOf
  <2>5. KeysOf(bs[i].query) \subseteq qs
    <3> HIDE DEF hs, qs
    <3> QED BY <2>1, <2>3 DEF KeysOf
  <2> QED BY <2>4, <2>5
<1>7. PICK ts : TimeoutRun(ts, bs, n) /\ effective_timeout(cp, e) = ts[n]
  BY <1>3, <1>4, DocTimeout
<1>8. PICK rs : RateRun(rs, bs, n) /\ effective_rate_limit(cp, e) = rs[n].buckets
  BY <1>1, <1>3, DocRate
<1> HIDE DEF hs, qs
<1> DEFINE c == [headers |-> hs, query |-> qs, timeouts |-> ts, rates |-> rs, ep |-> ep, cx |-> cx]
           p == MergeFold!Fold(c, D, NewPolicy, ls)
<1>9. c.headers = hs /\ c.query = qs /\ c.timeouts = ts /\ c.rates = rs /\ c.ep = ep /\ c.cx = cx
  OBVIOUS
<1>10. ApplyLayers(ls, cx, ep) = p
  BY DEF ApplyLayers, MergeFold!Fold, MergeStep, FoldLeft, MapThenFoldSet, Max,
         MergeFold!FoldLeft, MergeFold!MapThenFoldSet, MergeFold!Max
<1> HIDE DEF c
<1>11. MergeInv(c, D, 0, NewPolicy)
  <2>1. IsVec(<<>>) /\ QKeys(<<>>) = {}
    BY EmptyVec DEF QKeys
  <2>2. DOMAIN NewPolicy = PolicyFields /\ NewPolicy.headers = <<>> /\ NewPolicy.query = <<>>
        /\ NewPolicy.timeout = None /\ NewPolicy.rate = <<>>
    BY DEF NewPolicy, PolicyFields
  <2>3. DOMAIN <<>> = {}
    OBVIOUS
  <2> QED BY <1>7, <1>9, <2>1, <2>2, <2>3 DEF MergeInv, TimeoutRun
<1>12. ASSUME NEW i \in 1 .. n, NEW acc, MergeInv(c, D, i - 1, acc)
       PROVE  MergeInv(c, D, i, MergeStep(c, D, acc, ls[i]))
  <2>1. /\ TimeoutRun(c.timeouts, bs, n) /\ RateRun(c.rates, bs, n) /\ BlockIn(D, C, bs[i])
        /\ KeysOf(bs[i].headers) \subseteq c.headers /\ KeysOf(bs[i].query) \subseteq c.query
        /\ Ready(D, c.ep) /\ Ready(C, c.cx)
    BY <1>5, <1>6, <1>7, <1>8, <1>9 DEF D
  <2>2. ls[i].block = bs[i] /\ n \in Nat
    BY <1>4
  <2> QED BY <1>12, <2>1, <2>2, MergedLayer
<1>13. MergeInv(c, D, n, p)
  BY <1>4, <1>11, <1>12, MergeFold!FoldKeeps
<1> HIDE DEF p
<1>14. Documented(cp, e, ep, p)
  <2>1. n # 0
    BY <1>1, <1>3, VecSeq
  <2> QED BY <1>7, <1>8, <1>9, <1>13, <2>1 DEF MergeInv, Documented, hs, qs
<1>15. ApplyPolicies(cp, e, cx, ep) = ensure_accept(p, e)
  BY <1>10 DEF ApplyPolicies, ls
<1>16. Documented(cp, e, ep, ensure_accept(p, e))
  <2>1. CASE ensure_accept(p, e) = p
    BY <1>14, <2>1
  <2>2. CASE ensure_accept(p, e) # p
    <3> DEFINE new == With(p.headers, "accept", <<e.response.accept>>)
               r == ensure_accept(p, e)
    <3>1. r = [p EXCEPT !.headers = new]
      BY <2>2 DEF ensure_accept
    <3>2. DOMAIN new = {"accept"} \cup DOMAIN p.headers
      BY DEF With
    <3> HIDE DEF new, r
    <3>3. r.headers = new /\ DOMAIN r = PolicyFields /\ \A f \in PolicyFields \ {"headers"} : r[f] = p[f]
      BY <1>14, <3>1 DEF Documented, PolicyFields
    <3>4. Documented(cp, e, ep, r)
      BY <1>14, <3>2, <3>3 DEF Documented, PolicyFields
    <3> QED BY <3>4 DEF r
  <2> QED BY <2>1, <2>2
<1> QED BY <1>15, <1>16

(* ----------------------- where credentials are placed --------------------- *)

\* n placements: of kinds K, at the keys N, all different, none where the public
\* headers H0 or the public query q0 are.
Placements(K, N, n, H0, q0) ==
    /\ \A j \in 1 .. n : K[j] \in {"header", "query"}
    /\ \A j, l \in 1 .. n : K[j] = K[l] /\ N[j] = N[l] => j = l
    /\ \A j \in 1 .. n : K[j] = "header" => N[j] \notin DOMAIN H0
    /\ \A j \in 1 .. n : K[j] = "query" => \A k \in 1 .. Len(q0) : q0[k][1] # N[j]

\* The headers after the first i placements of the values V
HeadersAt(H0, K, N, V, i, H) ==
    /\ \A h \in DOMAIN H0 : h \in DOMAIN H /\ H[h] = H0[h]
    /\ \A j \in 1 .. i : K[j] = "header" => N[j] \in DOMAIN H /\ H[N[j]] = V[j]
    /\ \A h \in DOMAIN H : h \in DOMAIN H0 \/ \E j \in 1 .. i : K[j] = "header" /\ N[j] = h

\* The query after the first i placements
QueryAt(q0, K, N, V, i, q) ==
    /\ IsVec(q) /\ Len(q) >= Len(q0) /\ \A k \in 1 .. Len(q0) : q[k] = q0[k]
    /\ \A k \in (Len(q0) + 1) .. Len(q) : \E j \in 1 .. i : K[j] = "query" /\ q[k] = <<N[j], V[j]>>
    /\ \A j \in 1 .. i : K[j] = "query" =>
         \E k \in 1 .. Len(q) : /\ q[k] = <<N[j], V[j]>>
                                /\ \A l \in 1 .. Len(q) : q[l][1] = N[j] => l = k

\* Placing a credential in a header
LEMMA HeaderPlaced ==
    ASSUME NEW H0, NEW q0, NEW K, NEW N, NEW V, NEW n \in Nat, Placements(K, N, n, H0, q0),
           NEW i \in 1 .. n, NEW H, HeadersAt(H0, K, N, V, i - 1, H), K[i] = "header"
    PROVE  HeadersAt(H0, K, N, V, i, With(H, N[i], V[i]))
<1> DEFINE G == With(H, N[i], V[i])
<1>1. DOMAIN G = {N[i]} \cup DOMAIN H /\ G[N[i]] = V[i] /\ \A h \in DOMAIN H \ {N[i]} : G[h] = H[h]
  BY DEF With
<1> HIDE DEF G
<1>2. ASSUME NEW h \in DOMAIN H0 PROVE h \in DOMAIN G /\ G[h] = H0[h]
  <2>1. h # N[i]
    BY DEF Placements
  <2> QED BY <1>1, <2>1 DEF HeadersAt
<1>3. ASSUME NEW j \in 1 .. i, K[j] = "header" PROVE N[j] \in DOMAIN G /\ G[N[j]] = V[j]
  <2>1. CASE j = i
    BY <1>1, <2>1
  <2>2. CASE j # i
    <3>1. j \in 1 .. i - 1 /\ j \in 1 .. n
      BY <2>2
    <3>2. N[j] # N[i]
      BY <1>3, <2>2, <3>1 DEF Placements
    <3>3. N[j] \in DOMAIN H /\ H[N[j]] = V[j]
      BY <1>3, <3>1 DEF HeadersAt
    <3> QED BY <1>1, <3>2, <3>3
  <2> QED BY <2>1, <2>2
<1>4. ASSUME NEW h \in DOMAIN G PROVE h \in DOMAIN H0 \/ \E j \in 1 .. i : K[j] = "header" /\ N[j] = h
  <2>1. CASE h = N[i]
    BY <2>1
  <2>2. CASE h # N[i]
    <3>1. h \in DOMAIN H0 \/ \E j \in 1 .. i - 1 : K[j] = "header" /\ N[j] = h
      BY <1>1, <2>2 DEF HeadersAt
    <3>2. \A j \in 1 .. i - 1 : j \in 1 .. i
      OBVIOUS
    <3> QED BY <3>1, <3>2
  <2> QED BY <2>1, <2>2
<1>5. HeadersAt(H0, K, N, V, i, G)
  BY <1>2, <1>3, <1>4 DEF HeadersAt
<1> QED BY <1>5 DEF G

\* A credential in the query leaves the headers alone.
LEMMA HeaderLeft ==
    ASSUME NEW H0, NEW K, NEW N, NEW V, NEW n \in Nat, NEW i \in 1 .. n, NEW H,
           HeadersAt(H0, K, N, V, i - 1, H), K[i] # "header"
    PROVE  HeadersAt(H0, K, N, V, i, H)
<1>1. \A j \in 1 .. i : j = i \/ j \in 1 .. i - 1
  OBVIOUS
<1>2. \A j \in 1 .. i - 1 : j \in 1 .. i
  OBVIOUS
<1> QED BY <1>1, <1>2 DEF HeadersAt

\* A credential in a header leaves the query alone.
LEMMA QueryLeft ==
    ASSUME NEW q0, NEW K, NEW N, NEW V, NEW n \in Nat, NEW i \in 1 .. n, NEW q,
           QueryAt(q0, K, N, V, i - 1, q), K[i] # "query"
    PROVE  QueryAt(q0, K, N, V, i, q)
<1>1. \A j \in 1 .. i : j = i \/ j \in 1 .. i - 1
  OBVIOUS
<1>2. \A j \in 1 .. i - 1 : j \in 1 .. i
  OBVIOUS
<1> QED BY <1>1, <1>2 DEF QueryAt

\* Placing a credential in the query: its key is there once.
LEMMA QueryPlaced ==
    ASSUME NEW H0, NEW q0, IsVec(q0), NEW K, NEW N, NEW V, NEW n \in Nat, Placements(K, N, n, H0, q0),
           NEW i \in 1 .. n, NEW q, QueryAt(q0, K, N, V, i - 1, q), K[i] = "query"
    PROVE  QueryAt(q0, K, N, V, i, Append(q, <<N[i], V[i]>>))
<1> DEFINE x == <<N[i], V[i]>>
           r == Append(q, x)
           k0 == Len(q0)
           m == Len(q)
<1>1. x[1] = N[i] /\ x = <<N[i], V[i]>>
  OBVIOUS
<1>2. IsVec(q) /\ k0 \in Nat
  BY VecSeq DEF QueryAt
<1>3. m \in Nat /\ m >= k0
  BY <1>2, VecSeq DEF QueryAt
<1> HIDE DEF x
<1>4. /\ IsVec(Append(q, x)) /\ Len(Append(q, x)) = Len(q) + 1 /\ Append(q, x)[Len(q) + 1] = x
      /\ \A k \in 1 .. Len(q) : Append(q, x)[k] = q[k]
  BY ONLY <1>2, AppendVec
<1>5. IsVec(r) /\ Len(r) = m + 1 /\ r[m + 1] = x /\ \A k \in 1 .. m : r[k] = q[k]
  BY <1>4
<1> HIDE DEF r, m, k0
<1>6. \A k \in 1 .. k0 : q[k] = q0[k]
  BY DEF QueryAt, k0
<1>7. \A k \in (k0 + 1) .. m : \E j \in 1 .. i - 1 : K[j] = "query" /\ q[k] = <<N[j], V[j]>>
  BY DEF QueryAt, k0, m
<1>8. \A j \in 1 .. i - 1 : K[j] = "query" =>
         \E k \in 1 .. m : q[k] = <<N[j], V[j]>> /\ \A l \in 1 .. m : q[l][1] = N[j] => l = k
  BY DEF QueryAt, m
<1>9. \A k \in 1 .. m : q[k][1] # N[i]
  <2> TAKE k \in 1 .. m
  <2>1. CASE k <= k0
    <3>1. k \in 1 .. k0
      BY <1>2, <2>1
    <3>2. q0[k][1] # N[i]
      BY <3>1 DEF Placements, k0
    <3> QED BY <1>6, <3>1, <3>2
  <2>2. CASE k > k0
    <3>1. k \in (k0 + 1) .. m
      BY <1>2, <1>3, <2>2
    <3>2. PICK j \in 1 .. i - 1 : K[j] = "query" /\ q[k] = <<N[j], V[j]>>
      BY <1>7, <3>1
    <3>3. q[k][1] = N[j] /\ j \in 1 .. n /\ j # i
      BY <3>2
    <3>4. N[j] # N[i]
      BY <3>2, <3>3 DEF Placements
    <3> QED BY <3>3, <3>4
  <2> QED BY <1>2, <1>3, <2>1, <2>2
<1>10. Len(r) >= k0 /\ \A k \in 1 .. k0 : r[k] = q0[k]
  BY <1>2, <1>3, <1>5, <1>6
<1>11. ASSUME NEW k \in (k0 + 1) .. Len(r)
       PROVE  \E j \in 1 .. i : K[j] = "query" /\ r[k] = <<N[j], V[j]>>
  <2>1. CASE k = m + 1
    BY <1>1, <1>5, <2>1
  <2>2. CASE k # m + 1
    <3>1. k \in (k0 + 1) .. m /\ k \in 1 .. m
      BY <1>2, <1>3, <1>5, <2>2
    <3>2. PICK j \in 1 .. i - 1 : K[j] = "query" /\ q[k] = <<N[j], V[j]>>
      BY <1>7, <3>1
    <3>3. j \in 1 .. i
      OBVIOUS
    <3>4. r[k] = q[k]
      BY <1>5, <3>1
    <3> QED BY <3>2, <3>3, <3>4
  <2> QED BY <2>1, <2>2
<1>12. ASSUME NEW j \in 1 .. i, K[j] = "query"
       PROVE  \E k \in 1 .. Len(r) : /\ r[k] = <<N[j], V[j]>>
                                     /\ \A l \in 1 .. Len(r) : r[l][1] = N[j] => l = k
  <2>1. \A l \in 1 .. Len(r) : l = m + 1 \/ (l \in 1 .. m /\ r[l] = q[l])
    BY <1>3, <1>5
  <2>2. m + 1 \in 1 .. Len(r) /\ \A l \in 1 .. m : l \in 1 .. Len(r)
    BY <1>3, <1>5
  <2>3. CASE j = i
    <3>1. r[m + 1] = <<N[j], V[j]>>
      BY <1>1, <1>5, <2>3
    <3>2. \A l \in 1 .. Len(r) : r[l][1] = N[j] => l = m + 1
      BY <1>9, <2>1, <2>3
    <3> QED BY <2>2, <3>1, <3>2
  <2>4. CASE j # i
    <3>1. j \in 1 .. i - 1 /\ j \in 1 .. n
      BY <2>4
    <3>2. PICK k \in 1 .. m : q[k] = <<N[j], V[j]>> /\ \A l \in 1 .. m : q[l][1] = N[j] => l = k
      BY <1>8, <1>12, <3>1
    <3>3. N[j] # N[i]
      BY <1>12, <2>4, <3>1 DEF Placements
    <3>4. r[k] = <<N[j], V[j]>> /\ k \in 1 .. Len(r)
      BY <1>5, <2>2, <3>2
    <3>5. r[m + 1][1] # N[j]
      BY <1>1, <1>5, <3>3
    <3>6. \A l \in 1 .. Len(r) : r[l][1] = N[j] => l = k
      BY <2>1, <3>2, <3>5
    <3> QED BY <3>4, <3>6
  <2> QED BY <2>3, <2>4
<1>13. QueryAt(q0, K, N, V, i, r)
  BY <1>5, <1>10, <1>11, <1>12 DEF QueryAt, k0
<1> QED BY <1>13 DEF r, x

\* A placement is a header or a query key.
LEMMA PlacementPair ==
    ASSUME NEW r, UseOK(r)
    PROVE  /\ placement(r)[1] \in {"header", "query"}
           /\ placement(r) = <<placement(r)[1], placement(r)[2]>>
<1>1. CASE r.kind \in {"Bearer", "Basic"}
  BY <1>1 DEF placement
<1>2. CASE r.kind = "Header"
  BY <1>2 DEF placement
<1>3. CASE r.kind = "Query"
  BY <1>3 DEF placement
<1> QED BY <1>1, <1>2, <1>3 DEF UseOK

PlacedStep(c, d, m, r) == PlaceStep(c, d, m, r)
PlacedInv(c, d, i, m) == /\ {"headers", "query"} \subseteq DOMAIN m
                         /\ HeadersAt(c.headers, c.kinds, c.keys, c.values, i, m.headers)
                         /\ QueryAt(c.query, c.kinds, c.keys, c.values, i, m.query)
PlacedFold == INSTANCE LeftFolds WITH Op <- PlacedStep, Inv <- PlacedInv

\* K, N and V are the kinds, the keys and the values of the n placements of auth.
PlannedAs(auth, n, K, N, V) ==
    /\ n = Len(auth)
    /\ \A j \in 1 .. n : /\ K[j] = placement(auth[j])[1] /\ N[j] = placement(auth[j])[2]
                          /\ V[j] = <<"cred", auth[j].credential>>

\* Every planned credential ends where it was planned, beside what was there.
LEMMA AllPlaced ==
    ASSUME NEW head, {"headers", "query"} \subseteq DOMAIN head, IsVec(head.query),
           NEW auth, AuthOK(auth), ~ from_auth_plan_fails(auth), NEW body,
           validate_public_request_with_reserved_headers(head, body, auth),
           NEW n, NEW K, NEW N, NEW V, PlannedAs(auth, n, K, N, V),
           NEW wire, wire = materialize_authentication(head, auth)
    PROVE  /\ n \in Nat /\ \A j \in 1 .. n : K[j] \in {"header", "query"} /\ placement(auth[j]) = <<K[j], N[j]>>
           /\ HeadersAt(head.headers, K, N, V, n, wire.headers)
           /\ QueryAt(head.query, K, N, V, n, wire.query)
<1>1. n \in Nat /\ DOMAIN auth = 1 .. n /\ \A j \in 1 .. n : auth[j] \in ToSet(auth)
  BY VecSeq DEF AuthOK, PlannedAs
<1>2. \A j \in 1 .. n : K[j] = placement(auth[j])[1] /\ N[j] = placement(auth[j])[2]
                        /\ V[j] = <<"cred", auth[j].credential>>
  BY DEF PlannedAs
<1>3. ASSUME NEW j \in 1 .. n
      PROVE  K[j] \in {"header", "query"} /\ placement(auth[j]) = <<K[j], N[j]>>
  <2> DEFINE a == auth[j]
  <2>1. UseOK(a)
    BY <1>1 DEF AuthOK
  <2> HIDE DEF a
  <2>2. placement(a)[1] \in {"header", "query"} /\ placement(a) = <<placement(a)[1], placement(a)[2]>>
    BY <2>1, PlacementPair
  <2>3. K[j] = placement(a)[1] /\ N[j] = placement(a)[2]
    BY <1>2 DEF a
  <2>4. K[j] \in {"header", "query"} /\ placement(a) = <<K[j], N[j]>>
    BY <2>2, <2>3
  <2> QED BY <2>4 DEF a
<1>4. Placements(K, N, n, head.headers, head.query)
  <2>1. ASSUME NEW j \in 1 .. n, NEW l \in 1 .. n, K[j] = K[l], N[j] = N[l] PROVE j = l
    <3>1. placement(auth[j]) = placement(auth[l])
      BY <1>3, <2>1
    <3> DEFINE names == [i \in DOMAIN auth |-> placement(auth[i])]
    <3>2. NoRepeats(names)
      BY DEF from_auth_plan_fails
    <3>3. DOMAIN names = 1 .. n /\ names[j] = placement(auth[j]) /\ names[l] = placement(auth[l])
      BY <1>1
    <3> HIDE DEF names
    <3> QED BY <3>1, <3>2, <3>3 DEF NoRepeats
  <2>2. ASSUME NEW j \in 1 .. n, K[j] = "header" PROVE N[j] \notin DOMAIN head.headers
    BY <1>1, <1>2, <2>2 DEF validate_public_request_with_reserved_headers
  <2>3. ASSUME NEW j \in 1 .. n, K[j] = "query", NEW k \in 1 .. Len(head.query)
        PROVE  head.query[k][1] # N[j]
    <3>1. head.query[k] \in ToSet(head.query)
      BY VecSeq
    <3>2. auth[j] \in ToSet(auth) /\ placement(auth[j])[1] = "query" /\ N[j] = placement(auth[j])[2]
      BY <1>1, <1>2, <2>3
    <3> QED BY <3>1, <3>2 DEF validate_public_request_with_reserved_headers
  <2> QED BY <1>3, <2>1, <2>2, <2>3 DEF Placements
<1> DEFINE H0 == head.headers  q0 == head.query
           c == [headers |-> H0, query |-> q0, kinds |-> K, keys |-> N, values |-> V]
<1>5. c.headers = H0 /\ c.query = q0 /\ c.kinds = K /\ c.keys = N /\ c.values = V
  OBVIOUS
<1>6. wire = PlacedFold!Fold(c, 0, head, auth)
  <2> HIDE DEF c
  <2> QED BY DEF materialize_authentication, PlacedFold!Fold, PlacedStep, PlaceStep, FoldLeft, MapThenFoldSet,
         Max, PlacedFold!FoldLeft, PlacedFold!MapThenFoldSet, PlacedFold!Max
<1>7. IsVec(q0)
  OBVIOUS
<1>8. Placements(K, N, n, H0, q0)
  BY <1>4
<1>9. PlacedInv(c, 0, 0, head)
  <2>1. HeadersAt(H0, K, N, V, 0, H0)
    <3> HIDE DEF H0
    <3> QED BY DEF HeadersAt
  <2>2. QueryAt(q0, K, N, V, 0, q0)
    <3> HIDE DEF q0
    <3>1. Len(q0) \in Nat
      BY <1>7, VecSeq
    <3> QED BY <1>7, <3>1 DEF QueryAt
  <2> HIDE DEF c
  <2> QED BY <1>5, <2>1, <2>2 DEF PlacedInv
<1> HIDE DEF c, H0, q0
<1>10. ASSUME NEW i \in 1 .. n, NEW m, PlacedInv(c, 0, i - 1, m)
       PROVE  PlacedInv(c, 0, i, PlacedStep(c, 0, m, auth[i]))
  <2> DEFINE r == PlacedStep(c, 0, m, auth[i])
             hs == With(m.headers, N[i], V[i])
             qs == Append(m.query, <<N[i], V[i]>>)
  <2>1. /\ {"headers", "query"} \subseteq DOMAIN m
        /\ HeadersAt(H0, K, N, V, i - 1, m.headers) /\ QueryAt(q0, K, N, V, i - 1, m.query)
    BY <1>5, <1>10 DEF PlacedInv
  <2>2. CASE K[i] = "header"
    <3>1. r = [m EXCEPT !.headers = hs]
      BY <1>2, <2>2 DEF PlacedStep, PlaceStep
    <3>2. HeadersAt(H0, K, N, V, i, hs)
      <4> DEFINE H == m.headers
      <4>1. HeadersAt(H0, K, N, V, i - 1, H)
        BY <2>1
      <4> HIDE DEF H
      <4>2. HeadersAt(H0, K, N, V, i, With(H, N[i], V[i]))
        BY <1>1, <1>8, <2>2, <4>1, HeaderPlaced
      <4> QED BY <4>2 DEF H
    <3>3. QueryAt(q0, K, N, V, i, m.query)
      <4> DEFINE q == m.query
      <4>1. QueryAt(q0, K, N, V, i - 1, q) /\ K[i] # "query"
        BY <2>1, <2>2
      <4> HIDE DEF q
      <4>2. QueryAt(q0, K, N, V, i, q)
        BY <1>1, <4>1, QueryLeft
      <4> QED BY <4>2 DEF q
    <3> HIDE DEF hs, r
    <3>4. r.headers = hs /\ r.query = m.query /\ DOMAIN r = DOMAIN m
      BY <2>1, <3>1
    <3>5. PlacedInv(c, 0, i, r)
      BY <1>5, <2>1, <3>2, <3>3, <3>4 DEF PlacedInv
    <3> QED BY <3>5 DEF r
  <2>3. CASE K[i] = "query"
    <3>1. r = [m EXCEPT !.query = qs]
      BY <1>2, <2>3 DEF PlacedStep, PlaceStep
    <3>2. QueryAt(q0, K, N, V, i, qs)
      <4> DEFINE q == m.query
      <4>1. QueryAt(q0, K, N, V, i - 1, q)
        BY <2>1
      <4> HIDE DEF q
      <4>2. QueryAt(q0, K, N, V, i, Append(q, <<N[i], V[i]>>))
        BY <1>1, <1>7, <1>8, <2>3, <4>1, QueryPlaced
      <4> QED BY <4>2 DEF q
    <3>3. HeadersAt(H0, K, N, V, i, m.headers)
      <4> DEFINE H == m.headers
      <4>1. HeadersAt(H0, K, N, V, i - 1, H) /\ K[i] # "header"
        BY <2>1, <2>3
      <4> HIDE DEF H
      <4>2. HeadersAt(H0, K, N, V, i, H)
        BY <1>1, <4>1, HeaderLeft
      <4> QED BY <4>2 DEF H
    <3> HIDE DEF qs, r
    <3>4. r.query = qs /\ r.headers = m.headers /\ DOMAIN r = DOMAIN m
      BY <2>1, <3>1
    <3>5. PlacedInv(c, 0, i, r)
      BY <1>5, <2>1, <3>2, <3>3, <3>4 DEF PlacedInv
    <3> QED BY <3>5 DEF r
  <2> QED BY <1>3, <2>2, <2>3
<1>11. PlacedInv(c, 0, n, PlacedFold!Fold(c, 0, head, auth))
  BY <1>1, <1>9, <1>10, PlacedFold!FoldKeeps
<1>12. HeadersAt(H0, K, N, V, n, wire.headers) /\ QueryAt(q0, K, N, V, n, wire.query)
  BY <1>5, <1>6, <1>11 DEF PlacedInv
<1> QED BY <1>1, <1>3, <1>12 DEF H0, q0

\* Fields that are filled can be rendered.
LEMMA FilledReady ==
    ASSUME NEW vs, NEW f, Filled(vs, f) PROVE Ready(ToSet(vs), f)
  BY DEF Filled, Ready, HasValue

\* The headers of the public head
LEMMA HeadKeys ==
    ASSUME NEW p, NEW headers, NEW body
    PROVE  DOMAIN apply_prepared_body_media_type(PublicHeaders(p, headers), body).headers
             \subseteq DOMAIN p.headers \cup DOMAIN headers \cup {"accept", "user-agent", "content-type"}
<1> DEFINE over == Over(p.headers, headers)
           accept == IF "accept" \in DOMAIN over THEN over ELSE With(over, "accept", <<"*/*">>)
           agent == With(accept, "user-agent", <<"concord">>)
           typed == apply_prepared_body_media_type(agent, body)
           media == With(agent, "content-type", <<body.media>>)
<1>1. DOMAIN over = DOMAIN p.headers \cup DOMAIN headers
  BY DEF Over
<1> HIDE DEF over
<1>2. DOMAIN accept \subseteq DOMAIN over \cup {"accept"}
  BY DEF With
<1> HIDE DEF accept
<1>3. DOMAIN agent = DOMAIN accept \cup {"user-agent"}
  BY DEF With
<1>4. PublicHeaders(p, headers) = agent
  BY DEF PublicHeaders, accept, over
<1> HIDE DEF agent
<1>5. DOMAIN media = DOMAIN agent \cup {"content-type"}
  BY DEF With
<1>6. typed.headers = agent \/ typed.headers = media
  <2> HIDE DEF media
  <2> QED BY DEF apply_prepared_body_media_type, media
<1> HIDE DEF typed, media
<1> QED BY <1>1, <1>2, <1>3, <1>4, <1>5, <1>6 DEF typed

\* What was resolved for a request that is sent, and what is on the wire
LEMMA SentRequest ==
    ASSUME CompileInv, CallerInv, Sent, NEW e, e = caller.e,
           NEW p, p = ApplyPolicies(api.policy, e, caller.vars, caller.fields),
           NEW head, head = resolve_public_request_head(client.base, api.policy, e, caller.vars,
                              caller.fields, caller.headers, caller.timeout),
           NEW n, NEW K, NEW N, NEW V, PlannedAs(e.auth, n, K, N, V)
    PROVE  /\ Documented(api.policy, e, caller.fields, p)
           /\ head.query = p.query /\ IsVec(head.query)
           /\ head.headers = apply_prepared_body_media_type(PublicHeaders(p, caller.headers), e.body).headers
           /\ caller.request.rate = canonicalize(p.rate)
           /\ caller.request.timeout
                = IF apply_to(caller.timeout) # None THEN apply_to(caller.timeout) ELSE p.timeout
           /\ AuthOK(e.auth) /\ n \in Nat /\ DOMAIN e.auth = 1 .. n
           /\ \A j \in 1 .. n : K[j] \in {"header", "query"} /\ placement(e.auth[j]) = <<K[j], N[j]>>
           /\ HeadersAt(head.headers, K, N, V, n, caller.request.headers)
           /\ QueryAt(head.query, K, N, V, n, caller.request.query)
           /\ Filled(e.vars, caller.fields) /\ IsVec(e.vars)
<1>1. /\ e \in ToSet(endpoints) /\ ~ head.err /\ ~ from_auth_plan_fails(e.auth)
      /\ validate_public_request_with_reserved_headers(head, e.body, e.auth)
      /\ caller.request = materialize_authentication(head, e.auth)
  BY SentWire
<1> DEFINE wire == caller.request
           C == ToSet(client.vars)
<1>2. EndpointOK(client.base, C, e)
  BY <1>1 DEF CompileInv, Walked, EndpointsResolved
<1>3. stage = "done" /\ Filled(client.vars, caller.vars) /\ Filled(e.vars, caller.fields)
  BY DEF Sent, CallerInv
<1>4. BlockIn({}, C, api.policy)
  BY <1>3 DEF CompileInv, ApiHeld, BeforeWalk
<1>5. Ready(C, caller.vars) /\ Ready(ToSet(e.vars), caller.fields)
  BY <1>3, FilledReady
<1> HIDE DEF C
<1>6. Documented(api.policy, e, caller.fields, p)
  BY <1>2, <1>4, <1>5, PolicyDocumented
<1>7. head = PublicHead(p, client.base, e, caller.vars, caller.fields, caller.headers, caller.timeout)
  BY DEF resolve_public_request_head
<1>8. /\ DOMAIN head = {"err", "host", "path", "query", "headers", "rate", "timeout"}
      /\ head.query = p.query
      /\ head.headers = apply_prepared_body_media_type(PublicHeaders(p, caller.headers), e.body).headers
      /\ head.rate = canonicalize(p.rate)
      /\ head.timeout = IF apply_to(caller.timeout) # None THEN apply_to(caller.timeout) ELSE p.timeout
  BY ONLY <1>1, <1>7, SentHead
<1>9. IsVec(head.query) /\ {"headers", "query"} \subseteq DOMAIN head
  BY <1>6, <1>8 DEF Documented
<1>10. AuthOK(e.auth) /\ IsVec(e.auth) /\ IsVec(e.vars)
  BY <1>2 DEF EndpointOK, AuthOK
<1>11. wire.rate = head.rate /\ wire.timeout = head.timeout
  <2>1. \A f \in DOMAIN head \ {"headers", "query"} : materialize_authentication(head, e.auth)[f] = head[f]
    BY <1>10, PlacedBeside
  <2> QED BY <1>1, <1>8, <2>1
<1>12. /\ n \in Nat /\ \A j \in 1 .. n : K[j] \in {"header", "query"} /\ placement(e.auth[j]) = <<K[j], N[j]>>
       /\ HeadersAt(head.headers, K, N, V, n, wire.headers)
       /\ QueryAt(head.query, K, N, V, n, wire.query)
  <2> DEFINE auth == e.auth  body == e.body
  <2>1. /\ {"headers", "query"} \subseteq DOMAIN head /\ IsVec(head.query) /\ AuthOK(auth)
        /\ ~ from_auth_plan_fails(auth) /\ validate_public_request_with_reserved_headers(head, body, auth)
        /\ PlannedAs(auth, n, K, N, V)
        /\ wire = materialize_authentication(head, auth)
    BY <1>1, <1>9, <1>10
  <2> HIDE DEF auth, body, wire
  <2>2. /\ n \in Nat /\ \A j \in 1 .. n : K[j] \in {"header", "query"} /\ placement(auth[j]) = <<K[j], N[j]>>
        /\ HeadersAt(head.headers, K, N, V, n, wire.headers)
        /\ QueryAt(head.query, K, N, V, n, wire.query)
    BY ONLY <2>1, AllPlaced
  <2> QED BY <2>2 DEF auth
<1>13. DOMAIN e.auth = 1 .. n
  BY <1>10, VecSeq DEF PlannedAs
<1> QED BY <1>3, <1>6, <1>8, <1>9, <1>10, <1>11, <1>12, <1>13

\* Every credential of the called endpoint is on the wire, once, where it was planned,
\* beside everything public, and nothing else is: the targets are all different, and
\* none is a public header or query key (auth/plan.rs).
THEOREM CompileCredentialsPlaced == Spec => []CredentialsPlaced
<1>1. CompileInv /\ CallerInv => CredentialsPlaced
  <2> SUFFICES ASSUME CompileInv, CallerInv, Sent PROVE CredentialsPlaced
    BY DEF CredentialsPlaced
  <2> DEFINE e == caller.e
             auth == e.auth
             wire == caller.request
             p == ApplyPolicies(api.policy, e, caller.vars, caller.fields)
             head == resolve_public_request_head(client.base, api.policy, e, caller.vars,
                       caller.fields, caller.headers, caller.timeout)
             n == Len(auth)
             K == [j \in 1 .. n |-> placement(auth[j])[1]]
             N == [j \in 1 .. n |-> placement(auth[j])[2]]
             V == [j \in 1 .. n |-> <<"cred", auth[j].credential>>]
             H0 == head.headers
             q0 == head.query
             k0 == Len(q0)
             q == wire.query
             H == wire.headers
             presented(kind, key) == \E r \in ToSet(auth) : placement(r) = <<kind, key>>
  <2>1. PlannedAs(auth, n, K, N, V)
    BY DEF PlannedAs
  <2>2. /\ e = caller.e /\ p = ApplyPolicies(api.policy, e, caller.vars, caller.fields)
        /\ head = resolve_public_request_head(client.base, api.policy, e, caller.vars,
                    caller.fields, caller.headers, caller.timeout)
    OBVIOUS
  <2> HIDE DEF e, p, head, n, K, N, V
  <2>3. /\ IsVec(q0) /\ AuthOK(e.auth) /\ n \in Nat /\ DOMAIN auth = 1 .. n
        /\ \A j \in 1 .. n : K[j] \in {"header", "query"} /\ placement(auth[j]) = <<K[j], N[j]>>
        /\ HeadersAt(H0, K, N, V, n, H) /\ QueryAt(q0, K, N, V, n, q)
    BY <2>1, <2>2, SentRequest
  <2> HIDE DEF auth
  <2>4. \A j \in 1 .. n : auth[j] \in ToSet(auth) /\ V[j] = <<"cred", auth[j].credential>>
                          /\ placement(auth[j])[1] = K[j] /\ placement(auth[j])[2] = N[j]
    BY <2>1, <2>3 DEF PlannedAs, ToSet
  <2>5. \A r \in ToSet(auth) : \E j \in 1 .. n : r = auth[j]
    BY <2>3 DEF ToSet
  <2> HIDE DEF H0, q0, H, q
  <2>6. k0 \in Nat /\ Len(q) \in Nat /\ DOMAIN q = 1 .. Len(q) /\ IsVec(q) /\ Len(q) >= k0
    BY <2>3, VecSeq DEF QueryAt
  <2>7. \A h \in DOMAIN H0 : H[h] = H0[h]
    BY <2>3 DEF HeadersAt
  <2>8. SubSeq(q, 1, k0) = q0
    <3> DEFINE s == SubSeq(q, 1, k0)
    <3>1. IsVec(q) /\ 1 \in Nat /\ k0 \in Nat /\ 1 <= 1 /\ 1 <= k0 + 1 /\ k0 <= Len(q)
      BY <2>6
    <3>2. IsVec(s) /\ Len(s) = k0 - 1 + 1 /\ \A i \in 1 .. k0 - 1 + 1 : s[i] = q[1 + i - 1]
      <4> HIDE DEF k0
      <4> QED BY ONLY <3>1, SubVec
    <3> HIDE DEF s
    <3>3. Len(s) = k0 /\ \A i \in 1 .. k0 : s[i] = q[i]
      BY <2>6, <3>2
    <3>4. \A i \in 1 .. k0 : s[i] = q0[i]
      BY <2>3, <3>3 DEF QueryAt
    <3>5. s = [i \in 1 .. Len(s) |-> s[i]]
      BY <3>2, VecSeq
    <3>6. q0 = [i \in 1 .. k0 |-> q0[i]]
      BY <2>3, VecSeq
    <3>7. s = q0
      <4> HIDE DEF k0
      <4> QED BY <3>3, <3>4, <3>5, <3>6
    <3> QED BY <3>7 DEF s
  <2>9. ASSUME NEW r \in ToSet(auth)
        PROVE  IF placement(r)[1] = "header" THEN H[placement(r)[2]] = <<"cred", r.credential>>
               ELSE \E i \in DOMAIN q : /\ q[i] = <<placement(r)[2], <<"cred", r.credential>>>>
                                        /\ \A j \in DOMAIN q : q[j][1] = placement(r)[2] => j = i
    <3>1. PICK j \in 1 .. n : r = auth[j]
      BY <2>5
    <3>2. placement(r)[1] = K[j] /\ placement(r)[2] = N[j] /\ <<"cred", r.credential>> = V[j]
      BY <2>4, <3>1
    <3>3. CASE K[j] = "header"
      BY <2>3, <3>2, <3>3 DEF HeadersAt
    <3>4. CASE K[j] = "query"
      <4>1. PICK k \in 1 .. Len(q) : q[k] = <<N[j], V[j]>> /\ \A l \in 1 .. Len(q) : q[l][1] = N[j] => l = k
        BY <2>3, <3>4 DEF QueryAt
      <4> DEFINE x == <<placement(r)[2], <<"cred", r.credential>>>>
      <4>2. q[k] = x
        BY <3>2, <4>1
      <4> HIDE DEF x
      <4>3. \E i \in DOMAIN q : q[i] = x /\ \A l \in DOMAIN q : q[l][1] = placement(r)[2] => l = i
        BY <2>6, <3>2, <4>1, <4>2
      <4> QED BY <3>2, <3>4, <4>3 DEF x
    <3> QED BY <2>3, <3>3, <3>4
  <2>10. ASSUME NEW h \in DOMAIN H \ DOMAIN H0 PROVE presented("header", h)
    <3>1. PICK j \in 1 .. n : K[j] = "header" /\ N[j] = h
      BY <2>3 DEF HeadersAt
    <3>2. placement(auth[j]) = <<"header", h>>
      BY <2>3, <3>1
    <3> QED BY <2>4, <3>2
  <2>11. ASSUME NEW i \in (k0 + 1) .. Len(q) PROVE presented("query", q[i][1])
    <3>1. PICK j \in 1 .. n : K[j] = "query" /\ q[i] = <<N[j], V[j]>>
      BY <2>3 DEF QueryAt
    <3>2. q[i][1] = N[j]
      BY <3>1
    <3>3. placement(auth[j]) = <<"query", q[i][1]>>
      BY <2>3, <3>1, <3>2
    <3> QED BY <2>4, <3>3
  <2> QED BY <2>7, <2>8, <2>9, <2>10, <2>11 DEF CredentialsPlaced, H0, q0, H, q, head, e, auth
<1> QED BY <1>1, CompileApiInv, CompileCallerInv, PTL

\* The generated documentation of an endpoint tells what its requests do.
THEOREM CompileDocumentedRequest == Spec => []DocumentedRequest
<1>1. CompileInv /\ CallerInv => DocumentedRequest
  <2> SUFFICES ASSUME CompileInv, CallerInv, Sent PROVE DocumentedRequest
    BY DEF DocumentedRequest
  <2> DEFINE e == caller.e
             auth == e.auth
             wire == caller.request
             cp == api.policy
             p == ApplyPolicies(cp, e, caller.vars, caller.fields)
             head == resolve_public_request_head(client.base, cp, e, caller.vars,
                       caller.fields, caller.headers, caller.timeout)
             n == Len(auth)
             K == [j \in 1 .. n |-> placement(auth[j])[1]]
             N == [j \in 1 .. n |-> placement(auth[j])[2]]
             V == [j \in 1 .. n |-> <<"cred", auth[j].credential>>]
             docs == facade_endpoint_doc_texts(cp, e)
             listed == docs.auth
             places == {listed[i][1] : i \in DOMAIN listed}
             H0 == head.headers
             q0 == head.query
             k0 == Len(q0)
             q == wire.query
             H == wire.headers
  <2>1. PlannedAs(auth, n, K, N, V)
    BY DEF PlannedAs
  <2>2. /\ e = caller.e /\ p = ApplyPolicies(api.policy, e, caller.vars, caller.fields)
        /\ head = resolve_public_request_head(client.base, api.policy, e, caller.vars,
                    caller.fields, caller.headers, caller.timeout)
    OBVIOUS
  <2> HIDE DEF e, p, head, n, K, N, V
  <2>3. /\ Documented(cp, e, caller.fields, p)
        /\ q0 = p.query /\ IsVec(q0)
        /\ H0 = apply_prepared_body_media_type(PublicHeaders(p, caller.headers), e.body).headers
        /\ wire.rate = canonicalize(p.rate)
        /\ wire.timeout = IF apply_to(caller.timeout) # None THEN apply_to(caller.timeout) ELSE p.timeout
        /\ n \in Nat /\ DOMAIN auth = 1 .. n
        /\ \A j \in 1 .. n : K[j] \in {"header", "query"} /\ placement(auth[j]) = <<K[j], N[j]>>
        /\ HeadersAt(H0, K, N, V, n, H) /\ QueryAt(q0, K, N, V, n, q)
        /\ Filled(e.vars, caller.fields) /\ IsVec(e.vars)
    BY <2>1, <2>2, SentRequest
  <2>4. /\ docs.required = VarNames(Kept(e.vars, Required))
        /\ docs.query = doc_policy_keys(cp, e, "query") /\ docs.headers = doc_policy_keys(cp, e, "headers")
        /\ docs.timeout = effective_timeout(cp, e) /\ docs.rate = effective_rate_limit(cp, e)
        /\ listed = [i \in DOMAIN auth |-> <<placement(auth[i]), auth[i].credential>>]
    BY DEF facade_endpoint_doc_texts
  <2> HIDE DEF auth, docs, H0, q0, H, q
  <2>5. /\ DOMAIN listed = 1 .. n
        /\ \A j \in 1 .. n : listed[j] = <<<<K[j], N[j]>>, auth[j].credential>> /\ listed[j] \in ToSet(listed)
    BY <2>3, <2>4 DEF ToSet
  <2>6. \A j \in 1 .. n : V[j] = <<"cred", auth[j].credential>>
    BY <2>1 DEF PlannedAs
  <2> HIDE DEF listed
  <2>7. ASSUME NEW kind, NEW key, <<kind, key>> \in places
        PROVE  \E j \in 1 .. n : K[j] = kind /\ N[j] = key
    <3>1. PICK j \in DOMAIN listed : listed[j][1] = <<kind, key>>
      BY <2>7
    <3>2. j \in 1 .. n /\ listed[j][1] = <<K[j], N[j]>>
      BY <2>5
    <3> QED BY <3>1, <3>2
  <2>8. \A j \in 1 .. n : <<K[j], N[j]>> \in places
    <3> TAKE j \in 1 .. n
    <3>1. listed[j][1] = <<K[j], N[j]>> /\ j \in DOMAIN listed
      BY <2>5
    <3> QED BY <3>1
  <2> HIDE DEF places
  <2>9. ASSUME NEW h \in DOMAIN H
        PROVE  IF <<"header", h>> \in places THEN <<<<"header", h>>, H[h][2]>> \in ToSet(listed)
               ELSE h \in docs.headers \cup DOMAIN caller.headers \cup {"accept", "user-agent", "content-type"}
    <3>1. CASE <<"header", h>> \in places
      <4>1. PICK j \in 1 .. n : K[j] = "header" /\ N[j] = h
        BY <2>7, <3>1
      <4>2. H[h] = V[j]
        BY <2>3, <4>1 DEF HeadersAt
      <4>3. H[h][2] = auth[j].credential
        BY <2>6, <4>2
      <4>4. listed[j] = <<<<"header", h>>, H[h][2]>>
        BY <2>5, <4>1, <4>3
      <4> QED BY <2>5, <3>1, <4>4
    <3>2. CASE <<"header", h>> \notin places
      <4>1. h \in DOMAIN H0
        <5>1. ~ \E j \in 1 .. n : K[j] = "header" /\ N[j] = h
          BY <2>8, <3>2
        <5> QED BY <2>3, <5>1 DEF HeadersAt
      <4>2. DOMAIN H0 \subseteq DOMAIN p.headers \cup DOMAIN caller.headers
                                 \cup {"accept", "user-agent", "content-type"}
        BY <2>3, HeadKeys
      <4>3. DOMAIN p.headers \subseteq docs.headers \cup {"accept"}
        BY <2>3, <2>4 DEF Documented
      <4> QED BY <3>2, <4>1, <4>2, <4>3
    <3> QED BY <3>1, <3>2
  <2>10. ASSUME NEW kv \in ToSet(q)
         PROVE  IF <<"query", kv[1]>> \in places THEN <<<<"query", kv[1]>>, kv[2][2]>> \in ToSet(listed)
                ELSE kv[1] \in docs.query
    <3>1. IsVec(q) /\ Len(q) \in Nat /\ k0 \in Nat
      BY <2>3, VecSeq DEF QueryAt
    <3>2. PICK k \in 1 .. Len(q) : q[k] = kv
      BY <2>10, <3>1, VecSeq
    <3>3. CASE <<"query", kv[1]>> \in places
      <4>1. PICK j \in 1 .. n : K[j] = "query" /\ N[j] = kv[1]
        BY <2>7, <3>3
      <4>2. PICK i \in 1 .. Len(q) : q[i] = <<N[j], V[j]>> /\ \A l \in 1 .. Len(q) : q[l][1] = N[j] => l = i
        BY <2>3, <4>1 DEF QueryAt
      <4>3. k = i
        BY <3>2, <4>1, <4>2
      <4>4. kv = <<N[j], V[j]>>
        BY <3>2, <4>2, <4>3
      <4>5. kv[2][2] = auth[j].credential
        BY <2>6, <4>4
      <4>6. listed[j] = <<<<"query", kv[1]>>, kv[2][2]>>
        BY <2>5, <4>1, <4>5
      <4> QED BY <2>5, <3>3, <4>6
    <3>4. CASE <<"query", kv[1]>> \notin places
      <4>1. k \in 1 .. k0
        <5>1. CASE k > k0
          <6>1. k \in (k0 + 1) .. Len(q)
            BY <3>1, <5>1
          <6>2. PICK j \in 1 .. n : K[j] = "query" /\ q[k] = <<N[j], V[j]>>
            BY <2>3, <6>1 DEF QueryAt
          <6>3. kv[1] = N[j]
            BY <3>2, <6>2
          <6> QED BY <2>8, <3>4, <6>2, <6>3
        <5> QED BY <3>1, <5>1
      <4>2. kv = q0[k] /\ q0[k] \in ToSet(q0)
        BY <2>3, <3>2, <4>1, VecSeq DEF QueryAt
      <4>3. kv[1] \in QKeys(p.query)
        BY <2>3, <4>2 DEF QKeys
      <4> QED BY <2>3, <2>4, <3>4, <4>3 DEF Documented
    <3> QED BY <3>3, <3>4
  <2>11. wire.rate = canonicalize(emit_rate_limit_plan(docs.rate, caller.fields))
    BY <2>3, <2>4 DEF Documented
  <2>12. caller.timeout.t = "Inherit" => wire.timeout = docs.timeout
    BY <2>3, <2>4 DEF Documented, apply_to
  <2>13. ASSUME NEW f \in docs.required PROVE caller.fields[f] # None
    <3> DEFINE kept == Kept(e.vars, Required)
    <3>1. ToSet(kept) = {v \in ToSet(e.vars) : Required(v)}
      BY <2>3, RequiredKept
    <3>2. PICK v \in ToSet(kept) : v.rust = f
      <4> HIDE DEF kept
      <4>1. f \in VarNames(kept)
        BY <2>4 DEF kept
      <4> QED BY <4>1 DEF VarNames, ToSet
    <3> HIDE DEF kept
    <3>3. v \in ToSet(e.vars) /\ Required(v)
      BY <3>1
    <3> QED BY <2>3, <3>2, <3>3 DEF Filled, HasValue, Required, Settable
  <2> QED BY <2>9, <2>10, <2>11, <2>12, <2>13 DEF DocumentedRequest, H, q, e, docs, listed, places
<1> QED BY <1>1, CompileApiInv, CompileCallerInv, PTL

=============================================================================
