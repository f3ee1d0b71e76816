------------------------------- MODULE Routes -------------------------------
(***************************************************************************)
(* Requests from the router to their answer: the middleware gate in front   *)
(* of /rel and static files, declared routes, templates that run queries,   *)
(* streamed uploads with their files, over one pool of connections.         *)
(*                                                                         *)
(* Each request runs its handler; the points where it waits, calls Postgres *)
(* or touches the disk are steps of their own. A call to a function leaves  *)
(* the effect <<request, call>> in its transaction. A response of a         *)
(* function is                                                              *)
(*   status (0 when unset), ctype, template, static (is the key set),       *)
(*   content (is the content more than null), jwt ("unset", "null" for a    *)
(*   logout, "role" for a login), header ("unset" or its value).            *)
(* header stands for every side-effecting key but jwt. A body is [ctype,    *)
(* size, known (is there a Content-Length), parts, broken (cannot be read   *)
(* to its end), valid (does it decode)].                                    *)
(***************************************************************************)
EXTENDS Registry, StaticFiles, Session

CONSTANTS Requests, Conns,
          Nobody,        \* no request: the owner of an idle connection
          Sites,         \* the servers, by name: [functions, config (what
                         \* the database and the configuration declare), dirs,
                         \* anonymous (does the anonymous role exist), allowed
                         \* (http.functions.allowed_auth), responses (what a
                         \* full-control function may answer), decisions (of
                         \* the first call of an upload), old (is there a
                         \* file at its path), faults (may the process die
                         \* and a rename fail)]
          Scenarios,     \* a site and what is asked of it
          Now,           \* the time of the requests
          MaxBodySize, MaxPartCount, UploadMaxSize,
          Served         \* the name an upload ends up under

\* What an answer, or the file an upload is put in place of, comes from when
\* it does not come from an upload.
Sources == {"", "old", "site", "raised", "template", "swap", "restored", "middleware", "rel", "static", "route", "second"}

ASSUME RoutesAssumption ==
  /\ Nobody \notin Requests
  /\ Requests \cap Sources = {}
  /\ MaxBodySize \in Nat /\ MaxPartCount \in Nat /\ UploadMaxSize \in Nat
  /\ \A s \in Scenarios :
       /\ Introspected(Sites[s.site].functions, Sites[s.site].config)
       /\ \A resp \in Sites[s.site].responses : resp.jwt \in {"unset", "null", "role"}
       /\ \A r \in DOMAIN s.asked : Listing(s.asked[r].path)

VARIABLES site,      \* the server
          asked,     \* what is asked of it, by each request that is made
          req,       \* the state of each request's handler
          conns,     \* the pool
          durable,   \* the effects that are committed
          file,      \* what is at the upload's path: a set of at most one
                     \* content, "old" or the request that uploaded it
          temps,     \* the requests that have a staging file on disk
          backups,   \* the backup file of each request: a set like file
          moves,     \* observed: the uploads renamed into place, in order
          up         \* is the process alive

vars == <<site, asked, req, conns, durable, file, temps, backups, moves, up>>
disk == <<file, temps, backups, moves>>

Registered == site.registry

Idle == [owner |-> Nobody, use |-> "", role |-> "", pend |-> {}]
Silent == [jwt |-> "unset", header |-> "unset"]
NoAnswer == [status |-> 0, from |-> "", header |-> "unset"]
Empty == [status |-> 0, ctype |-> FALSE, template |-> FALSE, static |-> FALSE, content |-> FALSE,
          jwt |-> "unset", header |-> "unset"]
NoOne == [from |-> "", ident |-> 0, template |-> FALSE]
NoUpload == [path |-> "unset", overwrite |-> "", max |-> UploadMaxSize]

Fresh == [pc |-> "new", mode |-> "", next |-> "", route |-> {}, sess |-> NewSession({}), chain |-> <<>>,
          said |-> <<>>, acc |-> Silent, resp |-> Empty, by |-> NoOne, after |-> "", out |-> NoAnswer,
          cookies |-> <<>>, cut |-> FALSE, upload |-> NoUpload, has |-> FALSE, found |-> Missing]

Build(w) ==
  [registry |-> BuildRegistry(w.functions, w.config, w.anonymous), anonymous |-> w.anonymous, dirs |-> w.dirs,
   allowed |-> w.allowed, responses |-> w.responses, decisions |-> w.decisions, old |-> w.old, faults |-> w.faults]

Init ==
  /\ \E s \in Scenarios : site = Build(Sites[s.site]) /\ asked = s.asked
  /\ req = [r \in Requests |-> IF r \in DOMAIN asked THEN Fresh ELSE [Fresh EXCEPT !.pc = "done"]]
  /\ conns = [c \in Conns |-> Idle]
  /\ durable = {}
  /\ file = IF site.old THEN {"old"} ELSE {}
  /\ temps = {}
  /\ backups = [r \in Requests |-> {}]
  /\ moves = <<>>
  /\ up = TRUE

\* The handler of r goes on with some of its fields changed.
Put(q, fields) == [k \in DOMAIN q |-> IF k \in DOMAIN fields THEN fields[k] ELSE q[k]]
Go(r, fields) == req' = [req EXCEPT ![r] = Put(@, fields)]

\* Only the first status written counts.
Say(r, status, from) ==
  IF req[r].out.status # 0 THEN req[r].out
  ELSE [status |-> status, from |-> from, header |-> req[r].out.header]
Ended(r, status, from) == [pc |-> "finish", out |-> Say(r, status, from)]
Fail(r, status) == Go(r, Ended(r, status, "")) /\ UNCHANGED <<conns, durable, disk>>

-----------------------------------------------------------------------------
(* Transactions (reqauth, dbauth).                                         *)

Held(r, use) == {c \in Conns : conns[c].owner = r /\ conns[c].use = use}
Free == {c \in Conns : conns[c].owner = Nobody}
\* Mutants of Release: the role is not reset; nothing is given back.
ReleaseWithRole(S) == [c \in Conns |-> IF c \in S THEN [conns[c] EXCEPT !.owner = Nobody] ELSE conns[c]]
NeverReleased(S) == conns

Release(S) == [c \in Conns |-> IF c \in S THEN Idle ELSE conns[c]]

\* One batch begins the transaction, sets the claims and the role.
BeginAs(c, r, use, sess, pend) ==
  conns' = [conns EXCEPT ![c] = [owner |-> r, use |-> use, role |-> sess.role, pend |-> pend]]

RoleExists(sess) == sess.role # "" /\ (sess.verified \/ site.anonymous)

\* Acquire waits for a connection and gives up when the client is gone. A
\* begin that fails gives the connection back. Idle connections are alike.
Open(r, use, pend, then, otherwise) ==
  /\ UNCHANGED <<durable, disk>>
  /\ \/ req[r].cut /\ Go(r, otherwise) /\ UNCHANGED conns
     \/ Free # {} /\ Go(r, otherwise) /\ UNCHANGED conns
     \/ /\ ~req[r].cut /\ Free # {} /\ RoleExists(req[r].sess)
        /\ BeginAs(CHOOSE c \in Free : TRUE, r, use, req[r].sess, pend)
        /\ Go(r, then)

\* The call of a function on r's transaction leaves its effect there.
Calls(S, effect) == [c \in Conns |-> IF c \in S THEN [conns[c] EXCEPT !.pend = @ \cup {effect}] ELSE conns[c]]
Rollback(S) == [c \in Conns |-> IF c \in S THEN [conns[c] EXCEPT !.role = "", !.pend = {}] ELSE conns[c]]

\* A commit may be refused by a deferred constraint, and its answer may be
\* lost. The transaction is over either way.
Commit(r, S, after, then, otherwise) ==
  LET pend == UNION {conns[c].pend : c \in S}
  IN /\ \/ ~req[r].cut /\ durable' = durable \cup pend /\ Go(r, then)
        \/ durable' \in {durable, durable \cup pend} /\ Go(r, otherwise)
     /\ conns' = after
     /\ UNCHANGED disk

-----------------------------------------------------------------------------
(* Answers (encode.go, templates.go, static_jet.go).                       *)

\* Mutant: the first value of a key wins.
FirstWins(acc, resp) ==
  [k \in DOMAIN acc |-> IF acc[k] # "unset" THEN acc[k] ELSE resp[k]]

mergeSideEffects(acc, resp) ==
  [k \in DOMAIN acc |-> IF resp[k] # "unset" THEN resp[k] ELSE acc[k]]

isTerminalResponse(resp) == resp.status # 0 \/ resp.template \/ resp.ctype \/ resp.static

\* http.functions.allowed_auth; empty means every function.
authFunctionAllowed(ident) == site.allowed = {} \/ ident \in site.allowed

handleResponseJwt(ident, jwt) ==
  IF jwt = "unset" \/ ~authFunctionAllowed(ident) THEN <<>>
  ELSE <<[op |-> IF jwt = "null" THEN "clear" ELSE "mint"]>>

\* applyResponseSideEffects: what goes into the headers, ahead of any status.
Cookies(r, ident, acc) == req[r].cookies \o handleResponseJwt(ident, acc.jwt)
Headers(r, acc) == [req[r].out EXCEPT !.header = IF acc.header = "unset" THEN @ ELSE acc.header]

\* renderFullControlResponse up to the body; said is what was heard by then.
Rendering(r, said, by, acc, resp, after) ==
  LET merged == mergeSideEffects(acc, resp)
  IN [pc |-> IF resp.static THEN "static_file" ELSE "render", said |-> said, resp |-> resp, by |-> by,
      after |-> after, cookies |-> Cookies(r, by.ident, merged), out |-> Headers(r, merged)]

Answered(r, status, from) == [pc |-> req[r].after, out |-> Say(r, status, from)]

StatusOf(resp) == IF resp.status = 0 THEN 200 ELSE resp.status

\* A template is rendered into a buffer: its failure is a clean 500.
writeTemplateResponse(r) ==
  /\ req[r].pc = "render" /\ (req[r].resp.template \/ req[r].by.template)
  /\ \/ Go(r, [pc |-> "relfunc"])
     \/ Go(r, Answered(r, StatusOf(req[r].resp), req[r].by.from))
     \/ Go(r, Answered(r, 500, "template"))
  /\ UNCHANGED <<conns, durable, disk>>

\* A response without a status and without content decides nothing.
renderFullControlResponse(r) ==
  /\ req[r].pc = "render" /\ ~req[r].resp.template /\ ~req[r].by.template
  /\ Go(r, IF req[r].resp.status = 0 /\ ~req[r].resp.content
           THEN Answered(r, 404, req[r].by.from)
           ELSE Answered(r, StatusOf(req[r].resp), req[r].by.from))
  /\ UNCHANGED <<conns, durable, disk>>

\* rel() reads in a transaction of its own, on another connection, while
\* the handler still holds its first.
executeRelRead(r) ==
  \/ /\ req[r].pc = "relfunc"
     /\ Open(r, "nested", {<<r, "rel()">>}, [pc |-> "relread"], Answered(r, 500, "template"))
  \/ /\ req[r].pc = "relread"
     /\ Commit(r, Held(r, "nested"), Release(Held(r, "nested")),
               Answered(r, StatusOf(req[r].resp), req[r].by.from), Answered(r, 500, "template"))

-----------------------------------------------------------------------------
(* Static files.                                                           *)

\* The search list as it is now: the upload's path is in its first directory.
Files == IF site.dirs = <<>> \/ file = {} THEN site.dirs
         ELSE [site.dirs EXCEPT ![1] = @ \cup {Served}]

\* Resolving the path and opening the file are two steps.
Resolving(r, name) ==
  LET found == Resolve(Files, name)
  IN CASE found.kind = "file" -> [pc |-> "serve", found |-> found]
       [] found.kind = "jet" -> [pc |-> "render", resp |-> [Empty EXCEPT !.template = TRUE]]
       [] OTHER -> Answered(r, 404, "")

\* static_file of a function's response.
serveStaticFileOrJet(r) ==
  /\ req[r].pc = "static_file"
  /\ Go(r, IF site.dirs = <<>> THEN Answered(r, 404, "") ELSE Resolving(r, Served))
  /\ UNCHANGED <<conns, durable, disk>>

\* The fallback behind the gate.
serveResolvedStatic(r) ==
  /\ req[r].pc = "static"
  /\ Go(r, IF NeedsTrailingSlash(Files, asked[r].name) THEN Answered(r, 301, "") ELSE Resolving(r, asked[r].name))
  /\ UNCHANGED <<conns, durable, disk>>

\* http.ServeFile opens what the path names by now.
ServeFile(r) ==
  /\ req[r].pc = "serve"
  /\ LET found == req[r].found
         there == IsFile(Files[found.dir], found.name)
     IN \/ ~there /\ Go(r, Answered(r, 404, ""))
        \/ there /\ found.name # Served /\ Go(r, Answered(r, 200, "site"))
        \/ there /\ found.name = Served /\ \E c \in file : Go(r, Answered(r, 200, c))
  /\ UNCHANGED <<conns, durable, disk>>

-----------------------------------------------------------------------------
(* The router and the gate (boot/mux.go, middleware.go).                   *)

Exempt(path) == path # <<>> /\ path[1] = "auth"

Dispatch(r) ==
  /\ req[r].pc = "new"
  /\ LET path == asked[r].path
         reached == Reached(Registered, asked[r].method, path)
     IN Go(r, CASE path = <<"rel">> -> [pc |-> "gate", next |-> "rel"]
                [] path # <<"rel">> /\ reached.routes # {} -> [pc |-> "handle", route |-> reached.routes]
                [] path # <<"rel">> /\ reached.routes = {} /\ reached.any -> Ended(r, 405, "")
                [] site.dirs = <<>> -> Ended(r, 404, "")
                [] OTHER -> [pc |-> "gate", next |-> "static"])
  /\ UNCHANGED <<conns, durable, disk>>

\* next.ServeHTTP: the gate's deferred release waits for it. The fallback
\* only verifies the token, it has no anonymous gate.
ServeNext(r, acc) ==
  [pc |-> req[r].next, after |-> "finish", by |-> [NoOne EXCEPT !.from = req[r].next],
   sess |-> NewSession(Verify(asked[r].token, Now)), cookies |-> Cookies(r, 0, acc), out |-> Headers(r, acc)]

GateMiddleware(r) ==
  /\ req[r].pc = "gate"
  /\ LET chain == MiddlewareChain(Registered, asked[r].path)
         auth == Authenticate(asked[r].token, Now, site.anonymous)
     IN Go(r, CASE Exempt(asked[r].path) \/ chain = <<>> -> ServeNext(r, Silent)
                [] auth.refused -> Ended(r, 401, "")
                [] OTHER -> [pc |-> "open", mode |-> "gate", chain |-> chain, sess |-> auth.sess])
  /\ UNCHANGED <<conns, durable, disk>>

\* The transaction of the chain: the first of an upload is released by hand.
Use(r) == IF req[r].mode = "upload" THEN "first" ELSE "main"
OpenChain(r) ==
  /\ req[r].pc = "open"
  /\ Open(r, Use(r), {}, [pc |-> "chain"], Ended(r, 500, ""))

\* Mutant: the upload's connection is left to a deferred function it has not.
SettledLater(r) == Rollback(Held(r, Use(r)))

\* The transaction is over. The first connection of an upload goes back at
\* once, any other when the handler returns.
Settled(r) == IF req[r].mode = "upload" THEN Release(Held(r, "first")) ELSE Rollback(Held(r, "main"))

Heard(r, e, from, resp) ==
  Append(req[r].said, [fn |-> e.fn, from |-> from, jwt |-> resp.jwt, header |-> resp.header])

runMiddlewareChain(r) ==
  /\ req[r].pc = "chain" /\ req[r].chain # <<>>
  /\ LET mw == Head(req[r].chain)
     IN \/ /\ Go(r, Ended(r, 500, "raised"))
           /\ conns' = Settled(r)
        \/ /\ ~req[r].cut
           /\ conns' = Calls(Held(r, Use(r)), <<r, "gate", mw.fn>>)
           /\ \E resp \in site.responses :
                LET acc == mergeSideEffects(req[r].acc, resp)
                    said == Heard(r, mw, "middleware", resp)
                    by == [from |-> "middleware", ident |-> mw.fn, template |-> mw.template # ""]
                IN Go(r, IF isTerminalResponse(resp) THEN Rendering(r, said, by, acc, resp, "handled")
                         ELSE [said |-> said, acc |-> acc, chain |-> Tail(req[r].chain)])
  /\ UNCHANGED <<durable, disk>>

\* A terminating middleware has answered already: a failing commit has
\* nothing left to say.
Handled(r) ==
  /\ req[r].pc = "handled"
  /\ Commit(r, Held(r, Use(r)), Settled(r), Ended(r, 500, ""), Ended(r, 500, ""))

\* Renewal waits for the chain to let the request through.
ChainPassed(r) ==
  /\ req[r].pc = "chain" /\ req[r].chain = <<>>
  /\ IF req[r].mode = "gate"
     THEN Commit(r, Held(r, "main"), Rollback(Held(r, "main")),
                 ServeNext(r, req[r].acc), Ended(r, 500, ""))
     ELSE /\ Go(r, [pc |-> IF req[r].mode = "upload" THEN "first" ELSE "call",
                    cookies |-> req[r].cookies \o RenewIfDue(req[r].sess.claims, Now)])
          /\ UNCHANGED <<conns, durable, disk>>

-----------------------------------------------------------------------------
(* /rel (server/rel.go): RelExec has its transaction in detail.            *)

handleRel(r) ==
  \/ /\ req[r].pc = "rel"
     /\ \/ Authenticate(asked[r].token, Now, site.anonymous).refused /\ Go(r, Ended(r, 401, ""))
        \/ ~Authenticate(asked[r].token, Now, site.anonymous).refused
           /\ Go(r, IF asked[r].body.valid THEN [pc |-> "relopen"] ELSE Ended(r, 400, ""))
     /\ UNCHANGED <<conns, durable, disk>>
  \/ /\ req[r].pc = "relopen"
     /\ Open(r, "rel", {<<r, "rel">>},
             [pc |-> "relrun", cookies |-> req[r].cookies \o RenewIfDue(req[r].sess.claims, Now)],
             Ended(r, 500, ""))
  \/ /\ req[r].pc = "relrun"
     /\ Commit(r, Held(r, "rel"), Release(Held(r, "rel")), Ended(r, 200, "rel"), Ended(r, 500, ""))

-----------------------------------------------------------------------------
(* Declared routes (handler.go, requestbody.go).                           *)

\* The content types that fill the request's body rather than an upload.
Textual == {"json", "text", "form"}

\* The statuses a body may be refused with, 0 when it is taken. Where the
\* stream decides which limit is met first there are several.
finishMultipartBody(route, b) == {IF route.bytes # "bytea[]" /\ b.parts > 0 THEN 415 ELSE 0}

finishSingleBody(route, b) ==
  {CASE route.bytes = "none" -> IF b.valid THEN 0 ELSE 400
     [] route.bytes # "none" /\ b.size = 0 -> 0
     [] route.bytes = "bytea[]" /\ b.size # 0 -> 415
     [] OTHER -> IF b.ctype \in Textual THEN 415 ELSE 0}

resolveRequestBody(route, b) ==
  LET stopped == (IF b.size > MaxBodySize \/ (b.ctype = "multipart" /\ b.parts > MaxPartCount) THEN {413} ELSE {})
                   \cup (IF b.broken THEN {400} ELSE {})
  IN CASE b.known /\ b.size > MaxBodySize -> {413}
       [] ~(b.known /\ b.size > MaxBodySize) /\ b.ctype = "badmultipart" -> {400}
       [] stopped # {} -> stopped
       [] OTHER -> IF b.ctype = "multipart" THEN finishMultipartBody(route, b) ELSE finishSingleBody(route, b)

handleRoute(r) ==
  /\ req[r].pc = "handle"
  /\ \E route \in req[r].route :
       LET auth == Authenticate(asked[r].token, Now, site.anonymous)
       IN \/ /\ auth.refused \/ (~auth.sess.verified /\ ~route.anon)
             /\ Go(r, Ended(r, 401, ""))
          \/ /\ ~auth.refused /\ (auth.sess.verified \/ route.anon) /\ route.stream
             /\ Go(r, [pc |-> "upload", sess |-> auth.sess])
          \/ /\ ~auth.refused /\ (auth.sess.verified \/ route.anon) /\ ~route.stream
             /\ \E status \in resolveRequestBody(route, asked[r].body) :
                  Go(r, IF status # 0 THEN Ended(r, status, "")
                        ELSE IF asked[r].badQuery THEN Ended(r, 400, "")
                        ELSE [pc |-> "open", mode |-> "route", sess |-> auth.sess,
                              chain |-> MiddlewareChain(Registered, route.anonPath)])
  /\ UNCHANGED <<conns, durable, disk>>

\* Only a full-control function answers more than its content.
Single == [Empty EXCEPT !.status = 200, !.content = TRUE]
Answers(route) == IF route.full THEN site.responses ELSE {Single}

\* The route function on transaction use; then its transaction is over.
Invoke(r, pc, use, call, then) ==
  /\ req[r].pc = pc
  /\ \/ /\ Go(r, Ended(r, 500, "raised"))
        /\ conns' = Rollback(Held(r, use))
     \/ /\ ~req[r].cut
        /\ conns' = Calls(Held(r, use), <<r, call>>)
        /\ \E route \in req[r].route : \E resp \in Answers(route) :
             Go(r, [pc |-> then, resp |-> resp, said |-> Heard(r, route, call, resp)])
  /\ UNCHANGED <<durable, disk>>

invokeRoute(r) == Invoke(r, "call", "main", "route", "commit")

\* The answer is rendered after the commit.
RenderRoute(r, from) ==
  LET route == CHOOSE e \in req[r].route : TRUE
  IN Rendering(r, req[r].said, [from |-> from, ident |-> route.fn, template |-> route.template # ""],
               req[r].acc, req[r].resp, "finish")

\* Mutant: the error of the commit is dropped.
CommitIgnored(r) ==
  /\ req[r].pc = "commit"
  /\ Commit(r, Held(r, "main"), Rollback(Held(r, "main")), RenderRoute(r, "route"), RenderRoute(r, "route"))

CommitRoute(r) ==
  /\ req[r].pc = "commit"
  /\ Commit(r, Held(r, "main"), Rollback(Held(r, "main")), RenderRoute(r, "route"), Ended(r, 500, ""))

-----------------------------------------------------------------------------
(* Streamed uploads (upload_handler.go): one function, called before the    *)
(* bytes are read and again once they are on disk.                          *)

handleUploadRoute(r) ==
  /\ req[r].pc = "upload"
  /\ LET b == asked[r].body
         route == CHOOSE e \in req[r].route : TRUE
     IN Go(r, CASE b.ctype \in Textual -> Ended(r, 415, "")
                [] b.ctype \notin Textual /\ b.known /\ b.size > UploadMaxSize -> Ended(r, 413, "")
                [] b.ctype = "multipart" /\ b.broken /\ b.parts = 0 -> Ended(r, 400, "")
                [] OTHER -> [pc |-> "open", mode |-> "upload", chain |-> MiddlewareChain(Registered, route.anonPath),
                             has |-> IF b.ctype = "multipart" THEN b.parts > 0 ELSE ~b.known \/ b.size # 0])
  /\ UNCHANGED <<conns, durable, disk>>

FirstCall(r) ==
  /\ req[r].pc = "first"
  /\ \/ /\ Go(r, Ended(r, 500, "raised"))
        /\ conns' = Release(Held(r, "first"))
     \/ /\ ~req[r].cut
        /\ conns' = Calls(Held(r, "first"), <<r, "first">>)
        /\ \E d \in site.decisions : Go(r, [pc |-> "commit1", upload |-> d])
  /\ UNCHANGED <<durable, disk>>

CommitFirst(r) ==
  /\ req[r].pc = "commit1"
  /\ Commit(r, Held(r, "first"), Release(Held(r, "first")), [pc |-> "place"], Ended(r, 500, ""))

\* Where the bytes go. Nothing of the decision counts without an upload.
Placed(r) == req[r].has /\ req[r].upload.path # "unset"
Refused(r) == req[r].upload.overwrite \in {"", "disallow"} /\ file # {}

Place(r) ==
  /\ req[r].pc = "place"
  /\ Go(r, CASE ~req[r].has -> [pc |-> "open2"]
             [] req[r].has /\ (site.dirs = <<>> \/ UploadRoot = <<>> \/ req[r].upload.path = "escape") -> Ended(r, 500, "")
             [] Placed(r) /\ Refused(r) -> Ended(r, 409, "")
             [] OTHER -> [pc |-> "stream"])
  /\ UNCHANGED <<conns, durable, disk>>

\* The first call can only lower the limit.
Limit(r) == IF req[r].upload.max < UploadMaxSize THEN req[r].upload.max ELSE UploadMaxSize

Stream(r) ==
  /\ req[r].pc = "stream"
  /\ LET b == asked[r].body
         stopped == (IF b.size > Limit(r) THEN {413} ELSE {})
                      \cup (IF b.broken THEN {400} ELSE {})
                      \cup (IF b.ctype = "multipart" /\ b.parts > 1 THEN {415} ELSE {})
     IN \/ site.faults /\ Go(r, Ended(r, 500, "")) /\ UNCHANGED temps
        \/ /\ temps' = temps \cup {r}
           /\ \E status \in (IF stopped = {} THEN {0} ELSE stopped) \cup (IF req[r].cut THEN {400} ELSE {}) :
                Go(r, IF status # 0 THEN Ended(r, status, "") ELSE [pc |-> "open2"])
  /\ UNCHANGED <<conns, durable, file, backups, moves>>

\* The chain and the renewal are not repeated.
OpenSecond(r) ==
  /\ req[r].pc = "open2"
  /\ Open(r, "second", {}, [pc |-> "second"], Ended(r, 500, ""))

SecondCall(r) == Invoke(r, "second", "second", "second", "commit2")

\* Mutant: the file is swapped in whether or not the commit succeeded.
SwapAnyway(r) ==
  /\ req[r].pc = "commit2"
  /\ Commit(r, Held(r, "second"), Rollback(Held(r, "second")), [pc |-> "swap"], [pc |-> "swap"])

CommitSecond(r) ==
  /\ req[r].pc = "commit2"
  /\ Commit(r, Held(r, "second"), Rollback(Held(r, "second")),
            IF Placed(r) THEN [pc |-> "swap"] ELSE RenderRoute(r, "second"), Ended(r, 500, ""))

\* swapUploadIntoPlace. The overwrite rule is not applied again.
SwapStat(r) ==
  /\ req[r].pc = "swap"
  /\ Go(r, [pc |-> IF file # {} THEN "backup" ELSE "move"])
  /\ UNCHANGED <<conns, durable, disk>>

\* Mutant: the old file is removed rather than kept until the rename.
RemoveOld(r) ==
  /\ req[r].pc = "backup"
  /\ file' = {}
  /\ Go(r, [pc |-> "move"])
  /\ UNCHANGED <<conns, durable, temps, backups, moves>>

\* Another upload may have moved the file away since.
SwapBackup(r) ==
  /\ req[r].pc = "backup"
  /\ \/ /\ file # {}
        /\ backups' = [backups EXCEPT ![r] = file] /\ file' = {}
        /\ Go(r, [pc |-> "move"])
        /\ UNCHANGED temps
     \/ /\ file = {} \/ site.faults
        /\ temps' = temps \ {r}
        /\ Go(r, Ended(r, 500, "swap"))
        /\ UNCHANGED <<file, backups>>
  /\ UNCHANGED <<conns, durable, moves>>

SwapMove(r) ==
  /\ req[r].pc = "move"
  /\ \/ /\ file' = {r} /\ temps' = temps \ {r} /\ moves' = Append(moves, r)
        /\ Go(r, [pc |-> "drop"])
     \/ /\ site.faults
        /\ Go(r, [pc |-> "restore"])
        /\ UNCHANGED <<file, temps, moves>>
  /\ UNCHANGED <<conns, durable, backups>>

SwapRestore(r) ==
  /\ req[r].pc = "restore"
  /\ \/ backups[r] # {} /\ file' = backups[r] /\ backups' = [backups EXCEPT ![r] = {}]
     \/ UNCHANGED <<file, backups>>
  /\ temps' = temps \ {r}
  /\ Go(r, Ended(r, 500, "restored"))
  /\ UNCHANGED <<conns, durable, moves>>

SwapDrop(r) ==
  /\ req[r].pc = "drop"
  /\ backups' = [backups EXCEPT ![r] = {}]
  /\ Go(r, RenderRoute(r, "second"))
  /\ UNCHANGED <<conns, durable, file, temps, moves>>

-----------------------------------------------------------------------------
(* The end of a request, and the system.                                   *)

\* The deferred functions, when the handler returns.
Finish(r) ==
  /\ req[r].pc = "finish"
  /\ conns' = Release(Held(r, "main") \cup Held(r, "second"))
  /\ temps' = temps \ {r}
  /\ Go(r, [pc |-> "done", resp |-> Empty, acc |-> Silent, after |-> "", found |-> Missing])
  /\ UNCHANGED <<durable, file, backups, moves>>

Routing(r) == Dispatch(r) \/ GateMiddleware(r) \/ OpenChain(r) \/ runMiddlewareChain(r) \/ Handled(r) \/ ChainPassed(r)
Rendered(r) == \/ writeTemplateResponse(r) \/ renderFullControlResponse(r) \/ executeRelRead(r)
               \/ serveStaticFileOrJet(r) \/ serveResolvedStatic(r) \/ ServeFile(r)
Routed(r) == handleRoute(r) \/ invokeRoute(r) \/ CommitRoute(r)
Uploading(r) == \/ handleUploadRoute(r) \/ FirstCall(r) \/ CommitFirst(r) \/ Place(r) \/ Stream(r)
                \/ OpenSecond(r) \/ SecondCall(r) \/ CommitSecond(r)
                \/ SwapStat(r) \/ SwapBackup(r) \/ SwapMove(r) \/ SwapRestore(r) \/ SwapDrop(r)

Step(r) == /\ up
           /\ Routing(r) \/ Rendered(r) \/ Routed(r) \/ Uploading(r) \/ handleRel(r) \/ Finish(r)
           /\ UNCHANGED <<site, asked, up>>

\* The client goes away: the request's context is cancelled.
Cancel(r) ==
  /\ up /\ ~req[r].cut /\ req[r].pc \notin {"new", "done"}
  /\ req' = [req EXCEPT ![r].cut = TRUE]
  /\ UNCHANGED <<site, asked, conns, durable, disk, up>>

\* The process dies: Postgres rolls back, the disk stays as it is.
Crash ==
  /\ up /\ site.faults
  /\ up' = FALSE
  /\ conns' = [c \in Conns |-> Idle]
  /\ UNCHANGED <<site, asked, req, durable, disk>>

Done == (~up \/ \A r \in Requests : req[r].pc = "done") /\ UNCHANGED vars

Next == (\E r \in Requests : Step(r) \/ Cancel(r)) \/ Crash \/ Done

\* Postgres answers, the client sends its bytes or goes away, and Go
\* schedules every handler.
Spec == Init /\ [][Next]_vars /\ \A r \in Requests : WF_vars(Step(r))

-----------------------------------------------------------------------------
(* Properties.                                                             *)

Working == {"open", "chain", "handled", "first", "commit1", "place", "stream", "open2", "second", "commit2",
            "swap", "backup", "move", "restore", "drop", "call", "commit"}
Pcs == Working \cup {"new", "gate", "handle", "upload", "rel", "relopen", "relrun", "static", "serve",
                     "static_file", "render", "relfunc", "relread", "finish", "done"}

\* Every variable has its type. A connection belongs to a live handler that
\* is at a point where it may hold one, and runs with that request's role or
\* with none.
TypeOK ==
  /\ \A r \in Requests : /\ req[r].pc \in Pcs
                         /\ req[r].mode \in {"", "gate", "route", "upload"}
                         /\ req[r].cut \in BOOLEAN
  /\ \A c \in Conns : /\ conns[c].owner \in Requests \cup {Nobody}
                      /\ conns[c].owner = Nobody => conns[c] = Idle
                      /\ conns[c].owner # Nobody => conns[c].role \in {"", req[conns[c].owner].sess.role}
  /\ file \in {{}} \cup {{x} : x \in Requests \cup {"old"}}
  /\ temps \subseteq Requests
  /\ \A r \in Requests : backups[r] \in {{}} \cup {{x} : x \in Requests \cup {"old"}}
  /\ up \in BOOLEAN

\* The places of the chain's functions in what the request heard.
Ran(r) == {i \in DOMAIN req[r].said : req[r].said[i].from = "middleware"}
GatesOf(target) == {m \in Range(Registered.Middleware) : middlewarePrefixMatches(m.anonPath, target)}

\* What the gates of r are in front of: the path asked for, or the route's.
Target(r) == IF req[r].route = {} THEN asked[r].path ELSE (CHOOSE e \in req[r].route : TRUE).anonPath

\* The work a request came for: the query, the route's function, a file.
\* An answer of a middleware is none.
Reaches(r) == \/ req[r].pc \in {"rel", "relopen", "relrun", "static", "call", "commit", "first", "second", "stream"}
              \/ req[r].by.from \in {"rel", "static", "route", "second"}

\* Whatever the request came for (a query, a route function, a static file
\* or template, a byte of an upload) is reached only after every middleware
\* whose path is a prefix has run and let it pass, an outer one before an
\* inner one (GateMiddleware, runMiddlewareChain, the order of the registry).
GatedFirst ==
  \A r \in Requests : Reaches(r) /\ ~Exempt(asked[r].path) =>
    /\ {req[r].said[i].fn : i \in Ran(r)} = {m.fn : m \in GatesOf(Target(r))}
    /\ \A i, j \in Ran(r) : req[r].said[i].fn = req[r].said[j].fn => i = j
    /\ \A a, b \in GatesOf(Target(r)) : \A i, j \in Ran(r) :
         /\ req[r].said[i].fn = a.fn /\ req[r].said[j].fn = b.fn
         /\ Leads(a.anonPath, b.anonPath) /\ a.anonPath # b.anonPath
         => i < j

\* An answer that shows what a function or a query returned is sent only
\* once its transaction is committed, with the middleware's of the same
\* transaction; the answer of a function that raised leaves nothing of its
\* transaction behind, but keeps the first call of an upload when the second
\* is the one that raised (handleRoute, handleUploadRoute, handleRel).
AnswerMatchesDatabase ==
  \A r \in Requests :
    /\ req[r].out.from \in {"route", "second", "rel"} => <<r, req[r].out.from>> \in durable
    /\ req[r].out.from = "second" => <<r, "first">> \in durable
    /\ req[r].out.from \in {"route", "second"} => \A i \in Ran(r) : <<r, "gate", req[r].said[i].fn>> \in durable
    /\ req[r].out.from = "raised" => /\ {<<r, "route">>, <<r, "second">>, <<r, "rel">>} \cap durable = {}
                                     /\ req[r].mode # "upload" => {e \in durable : e[1] = r} = {}

\* The last value said for a key by a function that ran.
LastSaid(r, key) ==
  LET set == {i \in DOMAIN req[r].said : req[r].said[i][key] # "unset"}
  IN IF set = {} THEN "unset" ELSE req[r].said[CHOOSE i \in set : \A j \in set : j <= i][key]

\* The cookies and headers of an answer are the last the functions asked
\* for: a later function's value wins, the session cookie a function sets or
\* clears comes after a renewal, and a request that a middleware answered or
\* broke off is not renewed (mergeSideEffects, renderFullControlResponse and
\* the place of Renew in handleRoute).
LastWordWins ==
  \A r \in Requests :
    LET out == req[r].out
        renewals == {i \in DOMAIN req[r].cookies : req[r].cookies[i].op = "set"}
    IN /\ out.from \in {"middleware", "route", "second"} => out.header = LastSaid(r, "header")
       /\ out.from \in {"middleware", "route", "second"} /\ authFunctionAllowed(req[r].by.ident) =>
            CASE LastSaid(r, "jwt") = "null" -> req[r].cookies[Len(req[r].cookies)].op = "clear"
              [] LastSaid(r, "jwt") = "role" -> req[r].cookies[Len(req[r].cookies)].op = "mint"
              [] OTHER -> \A i \in DOMAIN req[r].cookies : i \in renewals
       /\ out.from = "middleware" => renewals = {}
       /\ out.from = "raised" /\ req[r].chain # <<>> => renewals = {}
       /\ Cardinality(renewals) <= 1

\* A request that is over holds no connection and has no staging file,
\* whichever of its returns was taken: the connections of handleUploadRoute
\* are released by hand on each of them.
NothingLeaks ==
  \A r \in Requests : up /\ req[r].pc = "done" =>
    /\ \A c \in Conns : conns[c].owner # r
    /\ r \notin temps

\* What is at the path of an upload, is kept as a backup of it or is served
\* from it was there before or belongs to an upload whose second call is
\* committed, also when the process dies (the swap follows the commit).
FileIsCommitted ==
  \A r \in Requests :
    /\ r \in file \cup UNION {backups[s] : s \in Requests} => <<r, "second">> \in durable
    /\ (\E s \in Requests : req[s].out.from = r) => <<r, "second">> \in durable

\* Two uploads to one path, a failing rename and a crash between two renames
\* never lose what was at the path: the newest content is there or in a
\* backup beside it; after a swap that had to be undone, some content is.
ContentKept ==
  LET newest == IF moves = <<>> THEN "old" ELSE moves[Len(moves)]
      kept == file \cup UNION {backups[r] : r \in Requests}
  IN site.old \/ moves # <<>> =>
       /\ kept # {}
       /\ (\E r \in Requests : req[r].out.from = "restored") \/ newest \in kept

\* With more connections than requests every request comes to its end, the
\* connections a gate or a template holds while it waits for another
\* included.
EveryRequestEnds == \A r \in Requests : <>(~up \/ req[r].pc = "done")

=============================================================================
