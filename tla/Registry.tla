------------------------------ MODULE Registry ------------------------------
(***************************************************************************)
(* How declared routes and middleware are found and ordered, which          *)
(* middleware covers a path, and which handler a request reaches.           *)
(*                                                                         *)
(* A path is a sequence of segments; "/" is <<>>. A segment in              *)
(* Placeholders stands for {name} or {name:regexp}. A function is           *)
(*   key      the alphabetical rank of schema.function: overloads share it *)
(*   plain    neither an aggregate nor a window function or procedure      *)
(*   comment  [kind, decl]: "none", "invalid" or "decl"                    *)
(*   ins      its IN arguments, pairs <<type, name>>                       *)
(*   outs     the types of its OUT arguments                               *)
(*   odd      whether an argument has another mode                         *)
(*   ret, set its return type and whether it returns a set                 *)
(*   anon     whether the anonymous role has an explicit grant             *)
(* A declaration is [path, methods, template, stream, middleware]; methods *)
(* are the comma-separated names, <<>> when the key is empty.              *)
(***************************************************************************)
EXTENDS Integers, Sequences, FiniteSets, Functions

CONSTANTS Placeholders  \* the segments that are placeholders

NoPath == <<"">>
Anonymous == "{}"

-----------------------------------------------------------------------------
(* The shape of a function (classify_shape.go).                            *)

\* A domain named like a media type is "mime/text" or "mime/bytea".
JsonTypes == {"json", "jsonb"}
PseudoTypes == {"void", "record"}

classifySingleReturnType(t) ==
  CASE t = "text" -> {[ctype |-> "text/plain", binary |-> FALSE, native |-> FALSE]}
    [] t \in JsonTypes -> {[ctype |-> "application/json", binary |-> FALSE, native |-> FALSE]}
    [] t = "bytea" -> {[ctype |-> "application/octet-stream", binary |-> TRUE, native |-> FALSE]}
    [] t \in {"mime/text", "mime/bytea"} ->
         {[ctype |-> t, binary |-> t = "mime/bytea", native |-> FALSE]}
    [] OTHER -> {}

anyValueType(t) == t \notin PseudoTypes \cup {"none"}

Content(t, any) ==
  LET known == classifySingleReturnType(t)
  IN IF known = {} /\ any /\ anyValueType(t)
     THEN {[ctype |-> "application/json", binary |-> FALSE, native |-> TRUE]}
     ELSE known

resolveMethods(raw, bytes, stream) ==
  LET named == Range(raw) \ {""}
  IN IF raw = <<>> THEN IF bytes # "none" \/ stream THEN {"POST"} ELSE {"GET"}
     ELSE IF named = {} THEN {"GET"} ELSE named

anonymizePath(path) ==
  [i \in DOMAIN path |-> IF path[i] \in Placeholders THEN Anonymous ELSE path[i]]

\* What the function takes after the request object.
UploadArg(fn, at) ==
  IF at <= Len(fn.ins) /\ fn.ins[at][1] \in {"bytea", "bytea[]"} THEN fn.ins[at][1] ELSE "none"

PathArgsOk(args, path) ==
  \A i \in DOMAIN args : args[i][1] = "text" /\ args[i][2] \in Range(path) \cap Placeholders

\* At most one route: none when the function is disabled.
classifyShape(fn, decl) ==
  LET request == fn.ins # <<>> /\ fn.ins[1][1] \in JsonTypes
      at == IF request THEN 2 ELSE 1
      bytes == UploadArg(fn, at)
      rest == SubSeq(fn.ins, IF bytes = "none" THEN at ELSE at + 1, Len(fn.ins))
      full == Len(fn.outs) = 2
      content == IF full THEN Content(fn.outs[2], TRUE) ELSE Content(fn.ret, ~fn.set)
  IN IF \/ decl.path = NoPath
        \/ fn.odd
        \/ decl.stream /\ bytes # "none"
        \/ ~PathArgsOk(rest, decl.path)
        \/ Len(fn.outs) \notin {0, 2}
        \/ full /\ fn.outs[1] \notin JsonTypes
        \/ (decl.middleware \/ decl.stream) /\ ~full
     THEN {}
     ELSE {[fn |-> fn.key, path |-> decl.path, anonPath |-> anonymizePath(decl.path),
            methods |-> resolveMethods(decl.methods, bytes, decl.stream),
            request |-> request, bytes |-> bytes, ctype |-> c.ctype, native |-> c.native,
            full |-> full, template |-> decl.template, stream |-> decl.stream,
            middleware |-> decl.middleware, anon |-> fn.anon] :
           c \in {k \in content : ~(decl.template # "" /\ k.binary)}}

-----------------------------------------------------------------------------
(* The registry (routeset.go, declaration.go).                             *)

\* Only a function whose comment starts as a declaration is declared by it.
parseCommentDeclaration(comment) == IF comment.kind = "decl" THEN {comment.decl} ELSE {}

\* The last overload in the order of introspection wins its key.
LastOf(fns, at) == {fns[i] : i \in {j \in at : \A k \in at : k <= j}}

\* config maps the keys that have a route.* entry to their declaration.
Resolved(fns, config, key) ==
  LET plain == {i \in DOMAIN fns : fns[i].plain /\ fns[i].key = key}
      commented == {i \in plain : parseCommentDeclaration(fns[i].comment) # {}}
  IN IF key \in DOMAIN config /\ plain # {}
     THEN {[fn |-> f, decl |-> config[key]] : f \in LastOf(fns, plain)}
     ELSE {[fn |-> f, decl |-> f.comment.decl] : f \in LastOf(fns, commented)}

reservedPrefixes == {"auth", "rel"}
isReservedPath(anonPath) == anonPath # <<>> /\ anonPath[1] \in reservedPrefixes

methodsOverlap(a, b) == a \cap b # {}

excludeCollisions(routes) ==
  {r \in routes : \A s \in routes \ {r} :
     ~(r.anonPath = s.anonPath /\ methodsOverlap(r.methods, s.methods))}

\* The length of a path in characters.
Chars(path) ==
  LET upto[i \in 0..Len(path)] == IF i = 0 THEN 0 ELSE upto[i - 1] + 1 + Len(path[i])
  IN IF path = <<>> THEN 1 ELSE upto[Len(path)]

\* Mutant of ShortestFirst: by name alone.
ByName(a, b) == a.fn < b.fn

ShortestFirst(a, b) ==
  \/ Chars(a.anonPath) < Chars(b.anonPath)
  \/ Chars(a.anonPath) = Chars(b.anonPath) /\ a.fn < b.fn
LongestFirst(a, b) ==
  \/ Chars(a.anonPath) > Chars(b.anonPath)
  \/ Chars(a.anonPath) = Chars(b.anonPath) /\ a.fn < b.fn

\* before: which entry comes before which.
Sorted(S, before) ==
  [i \in 1..Cardinality(S) |-> CHOOSE x \in S : Cardinality({y \in S : <<y, x>> \in before}) = i - 1]

\* Every explicit grant counts only when the anonymous role exists.
applyAnonymousAuthorization(entries, anonymousRoleExists) ==
  [i \in DOMAIN entries |-> [entries[i] EXCEPT !.anon = @ /\ anonymousRoleExists]]

BuildRegistry(fns, config, anonymousRoleExists) ==
  LET found == UNION {Resolved(fns, config, k) : k \in {fns[i].key : i \in DOMAIN fns}}
      entries == {e \in UNION {classifyShape(d.fn, d.decl) : d \in found} : ~isReservedPath(e.anonPath)}
      routes == excludeCollisions({e \in entries : ~e.middleware})
      gates == {e \in entries : e.middleware}
      longest == {p \in routes \X routes : LongestFirst(p[1], p[2])}
      shortest == {p \in gates \X gates : ShortestFirst(p[1], p[2])}
  IN [Routes |-> applyAnonymousAuthorization(Sorted(routes, longest), anonymousRoleExists),
      Middleware |-> applyAnonymousAuthorization(Sorted(gates, shortest), anonymousRoleExists)]

\* Splitting "/" gives one empty segment.
middlewarePrefixMatches(anonPath, target) ==
  LET segs == IF target = <<>> THEN <<"">> ELSE target
  IN /\ Len(anonPath) <= Len(segs)
     /\ \A i \in DOMAIN anonPath : anonPath[i] \in {Anonymous, segs[i]}

MiddlewareChain(registry, target) ==
  LET chain[n \in 0..Len(registry.Middleware)] ==
        IF n = 0 THEN <<>>
        ELSE IF middlewarePrefixMatches(registry.Middleware[n].anonPath, target)
             THEN Append(chain[n - 1], registry.Middleware[n])
             ELSE chain[n - 1]
  IN chain[Len(registry.Middleware)]

-----------------------------------------------------------------------------
(* What the database and the configuration may declare.                    *)

\* A sequence, of whatever elements.
Listing(s) == s \in Seq({s[i] : i \in DOMAIN s})

\* A path; of all segments only "" has no characters.
Weighed(path) ==
  /\ Listing(path)
  /\ \A i \in DOMAIN path : Len(path[i]) \in Nat /\ (path[i] # "" => Len(path[i]) > 0)

Introspected(fns, config) ==
  /\ Listing(fns)
  /\ \A i \in DOMAIN fns :
       /\ fns[i].key \in Int
       /\ fns[i].comment.kind = "decl" => Weighed(fns[i].comment.decl.path)
  /\ \A k \in DOMAIN config : Weighed(config[k].path)
  /\ Len(Anonymous) \in Nat \ {0}

-----------------------------------------------------------------------------
(* Dispatch (boot/mux.go, RegisterRoutes). chi's tree prefers a literal     *)
(* segment to a placeholder, from the left.                                *)

Matches(route, path) ==
  /\ Len(route.path) = Len(path)
  /\ \A i \in DOMAIN path : route.path[i] \in Placeholders \cup {path[i]}

MoreLiteral(a, b) ==
  \E i \in DOMAIN a.anonPath :
    /\ a.anonPath[i] # Anonymous /\ b.anonPath[i] = Anonymous
    /\ \A j \in 1..i-1 : (a.anonPath[j] = Anonymous) = (b.anonPath[j] = Anonymous)

\* The routes registered for a request, and whether the path has any.
Reached(registry, method, path) ==
  LET here == {r \in Range(registry.Routes) : Matches(r, path)}
      best == {r \in here : method \in r.methods}
  IN [any |-> here # {}, routes |-> {r \in best : \A s \in best : ~MoreLiteral(s, r)}]

=============================================================================
