---------------------------- MODULE RoutesSteps -----------------------------
(***************************************************************************)
(* What the steps of Routes do: the outcomes a step of a handler can have, *)
(* each with what it changes, and that every action has one of them. The   *)
(* proofs about Routes go by outcome: here, where a handler can be and     *)
(* what the file and its backups hold.                                     *)
(***************************************************************************)
EXTENDS Routes, TLAPS

Fields == {"pc", "mode", "next", "route", "sess", "chain", "said", "acc", "resp", "by", "after", "out",
           "cookies", "cut", "upload", "has", "found"}

\* The points of a handler, by what is behind it: no connection asked for
\* yet; a first transaction that nothing is committed of; an upload whose
\* first call is committed, and its second; an answer that is being made.
Early == {"new", "gate", "handle", "upload", "open"}
FirstTx == {"chain", "call", "commit", "first", "commit1"}
Between == {"place", "stream", "open2", "second", "commit2"}
Swapping == {"swap", "backup", "move", "restore", "drop"}
Showing == {"static_file", "serve", "render", "relfunc", "relread"}
Querying == {"rel", "relopen", "relrun"}
Over == {"finish", "done"}

IsOut(o) == DOMAIN o = {"status", "from", "header"}
IsAcc(a) == DOMAIN a = {"jwt", "header"}
IsReq(q) == DOMAIN q = Fields

\* The state of one handler.
QType(q) ==
  /\ IsReq(q)
  /\ q.pc \in Pcs /\ q.mode \in {"", "gate", "route", "upload"} /\ q.cut \in BOOLEAN
  /\ IsOut(q.out) /\ IsAcc(q.acc)

\* Where it may be, given how it came there.
Stage(q) ==
  /\ q.pc \in {"new", "gate", "static"} \cup Querying => q.route = {}
  /\ q.pc \in Early \cup FirstTx \cup Between \cup Swapping => q.by.from = ""
  /\ q.pc \in {"gate", "open", "chain"} /\ q.route = {} => q.next \in {"rel", "static"}
  /\ q.pc \in {"open", "chain"} => q.mode # "" /\ (q.mode = "gate" <=> q.route = {})
  /\ q.pc \in {"handle", "upload", "call", "commit", "first", "commit1"} \cup Between \cup Swapping => q.route # {}
  /\ q.pc \in {"call", "commit"} => q.mode = "route"
  /\ q.pc \in {"first", "commit1"} \cup Between \cup Swapping => q.mode = "upload"
  /\ q.pc \in {"call", "commit", "first", "commit1"} \cup Between \cup Swapping => q.chain = <<>>
  /\ q.pc \in Showing => q.after \in {"handled", "finish"} /\ q.by.from \in {"middleware", "static", "route", "second"}
  /\ q.pc \in Showing /\ q.after = "handled" => q.mode \in {"gate", "route", "upload"} /\ q.by.from = "middleware"
  /\ q.pc = "static" => q.after = "finish" /\ q.by.from = "static"

\* One answer, and none before its time.
Answering(q) ==
  /\ q.out.status = 0 => q.out.from = ""
  /\ q.pc \notin Over \cup {"handled"} => q.out.status = 0
  /\ q.pc = "handled" => q.out.status # 0

Typing ==
  /\ DOMAIN req = Requests
  /\ \A r \in Requests : QType(req[r]) /\ Stage(req[r]) /\ Answering(req[r])
  /\ up \in BOOLEAN

\* z is q but for the fields S.
Changes(q, z, S) ==
  /\ IsReq(z)
  /\ ("pc" \in S \/ z.pc = q.pc) /\ ("mode" \in S \/ z.mode = q.mode)
  /\ ("next" \in S \/ z.next = q.next) /\ ("route" \in S \/ z.route = q.route)
  /\ ("sess" \in S \/ z.sess = q.sess) /\ ("chain" \in S \/ z.chain = q.chain)
  /\ ("said" \in S \/ z.said = q.said) /\ ("acc" \in S \/ z.acc = q.acc)
  /\ ("resp" \in S \/ z.resp = q.resp) /\ ("by" \in S \/ z.by = q.by)
  /\ ("after" \in S \/ z.after = q.after) /\ ("out" \in S \/ z.out = q.out)
  /\ ("cookies" \in S \/ z.cookies = q.cookies) /\ ("cut" \in S \/ z.cut = q.cut)
  /\ ("upload" \in S \/ z.upload = q.upload) /\ ("has" \in S \/ z.has = q.has)
  /\ ("found" \in S \/ z.found = q.found)

\* What Go leaves: the fields that are named are as given, the others and
\* the other handlers as they were.
LEMMA GoIs ==
  ASSUME NEW r \in Requests, NEW f, Go(r, f), DOMAIN req = Requests, IsReq(req[r])
  PROVE  /\ DOMAIN req' = Requests
         /\ \A s \in Requests \ {r} : req'[s] = req[s]
         /\ Changes(req[r], req'[r], DOMAIN f)
         /\ \A k \in Fields \cap DOMAIN f : req'[r][k] = f[k]
<1>1. /\ DOMAIN req' = Requests
      /\ \A s \in Requests \ {r} : req'[s] = req[s]
      /\ DOMAIN req'[r] = Fields
      /\ \A k \in Fields \cap DOMAIN f : req'[r][k] = f[k]
      /\ \A k \in Fields \ DOMAIN f : req'[r][k] = req[r][k]
  BY DEF Go, Put, IsReq
<1>2. Changes(req[r], req'[r], DOMAIN f)
  BY <1>1 DEF Changes, IsReq, Fields
<1> QED
  BY <1>1, <1>2

\* What writing a status leaves: the first one stands.
LEMMA SayIs ==
  ASSUME NEW r, NEW status, NEW from, IsOut(req[r].out)
  PROVE  /\ IsOut(Say(r, status, from))
         /\ Say(r, status, from).header = req[r].out.header
         /\ req[r].out.status # 0 => Say(r, status, from) = req[r].out
         /\ req[r].out.status = 0 => Say(r, status, from).status = status /\ Say(r, status, from).from = from
BY DEF Say, IsOut

\* p is what o becomes when from writes its status: only the first counts.
Speaks(o, p, from) ==
  /\ IsOut(p) /\ p.header = o.header /\ p.status # 0
  /\ o.status # 0 => p = o
  /\ o.status = 0 => p.from = from

\* The same, as a relation between two answers.
LEMMA SaySpeaks ==
  ASSUME NEW r, NEW status, NEW from, status # 0, IsOut(req[r].out)
  PROVE  Speaks(req[r].out, Say(r, status, from), from)
BY DEF Say, IsOut, Speaks

Ends(q, z, from) == Changes(q, z, {"pc", "out"}) /\ z.pc = "finish" /\ Speaks(q.out, z.out, from)
Says(q, z, from) == Changes(q, z, {"pc", "out"}) /\ z.pc = q.after /\ Speaks(q.out, z.out, from)
Turns(q, z, p) == Changes(q, z, {"pc"}) /\ z.pc = p

\* What Typing says of one handler.
LEMMA Known ==
  ASSUME NEW r \in Requests, Typing
  PROVE  /\ DOMAIN req = Requests /\ IsReq(req[r]) /\ IsOut(req[r].out) /\ QType(req[r]) /\ Stage(req[r]) 
         /\ Answering(req[r])
BY DEF Typing, QType

\* Go, for fields that are spelt out.
LEMMA GoSets ==
  ASSUME NEW r \in Requests, Typing, NEW f, Go(r, f), NEW S \in SUBSET Fields, DOMAIN f = S
  PROVE  Changes(req[r], req'[r], S) /\ \A k \in S : req'[r][k] = f[k]
BY Known, GoIs

\* A handler that only goes to another point.
LEMMA GoTurns ==
  ASSUME NEW r \in Requests, Typing, NEW p, Go(r, [pc |-> p])
  PROVE  Turns(req[r], req'[r], p)
BY Known, GoIs DEF Fields, Turns

\* A handler that returns with a status.
LEMMA GoEnds ==
  ASSUME NEW r \in Requests, Typing, NEW status, NEW from, Go(r, Ended(r, status, from)), status # 0
  PROVE  Ends(req[r], req'[r], from)
<1>1. /\ Changes(req[r], req'[r], {"pc", "out"})
      /\ req'[r].pc = "finish" /\ req'[r].out = Say(r, status, from)
  BY Known, GoIs DEF Fields, Ended
<1> QED
  BY <1>1, Known, SaySpeaks DEF Ends

\* A handler whose rendering writes a status.
LEMMA GoSays ==
  ASSUME NEW r \in Requests, Typing, NEW status, NEW from, Go(r, Answered(r, status, from)), status # 0
  PROVE  Says(req[r], req'[r], from)
<1>1. /\ Changes(req[r], req'[r], {"pc", "out"})
      /\ req'[r].pc = req[r].after /\ req'[r].out = Say(r, status, from)
  BY Known, GoIs DEF Fields, Answered
<1> QED
  BY <1>1, Known, SaySpeaks DEF Says

\* handleResponseJwt, at a site.
JwtCookies(w, ident, jwt) ==
  IF jwt = "unset" \/ ~(w.allowed = {} \/ ident \in w.allowed) THEN <<>>
  ELSE <<[op |-> IF jwt = "null" THEN "clear" ELSE "mint"]>>

\* The cookies and the header of z are those of q and then the key m asks for.
Applies(w, q, z, ident, m) ==
  /\ z.cookies = q.cookies \o JwtCookies(w, ident, m.jwt)
  /\ IsOut(z.out) /\ z.out.status = q.out.status /\ z.out.from = q.out.from
  /\ z.out.header = IF m.header = "unset" THEN q.out.header ELSE m.header

\* Rendering, as a change of the handler's state.
Renders(w, q, z, said, by, acc, resp, after) ==
  /\ Changes(q, z, {"pc", "said", "resp", "by", "after", "cookies", "out"})
  /\ z.pc \in {"static_file", "render"} /\ z.said = said /\ z.resp = resp /\ z.by = by /\ z.after = after
  /\ Applies(w, q, z, by.ident, mergeSideEffects(acc, resp))

\* ServeNext, as a change of the handler's state.
Forwards(w, q, z, acc) ==
  /\ Changes(q, z, {"pc", "after", "by", "sess", "cookies", "out"})
  /\ z.pc = q.next /\ z.after = "finish" /\ z.by = [NoOne EXCEPT !.from = q.next]
  /\ Applies(w, q, z, 0, acc)

\* What applyResponseSideEffects leaves of the cookies and headers.
LEMMA AppliesIs ==
  ASSUME NEW r \in Requests, NEW m, NEW ident, IsOut(req[r].out),
         NEW z, z.cookies = Cookies(r, ident, m), z.out = Headers(r, m)
  PROVE  Applies(site, req[r], z, ident, m)
<1>1. z.cookies = req[r].cookies \o JwtCookies(site, ident, m.jwt)
  BY DEF Cookies, handleResponseJwt, authFunctionAllowed, JwtCookies
<1>2. /\ IsOut(z.out) /\ z.out.status = req[r].out.status /\ z.out.from = req[r].out.from
      /\ z.out.header = IF m.header = "unset" THEN req[r].out.header ELSE m.header
  BY DEF Headers, IsOut
<1> QED
  BY <1>1, <1>2 DEF Applies

\* A handler that renders the answer of a function.
LEMMA GoRenders ==
  ASSUME NEW r \in Requests, Typing, NEW said, NEW by, NEW acc, NEW resp, NEW after,
         Go(r, Rendering(r, said, by, acc, resp, after))
  PROVE  Renders(site, req[r], req'[r], said, by, acc, resp, after)
<1>1. PICK m : m = mergeSideEffects(acc, resp)
  OBVIOUS
<1>2. Rendering(r, said, by, acc, resp, after) =
        [pc |-> IF resp.static THEN "static_file" ELSE "render", said |-> said, resp |-> resp, by |-> by,
         after |-> after, cookies |-> Cookies(r, by.ident, m), out |-> Headers(r, m)]
  BY <1>1 DEF Rendering
<1>3. Changes(req[r], req'[r], {"pc", "said", "resp", "by", "after", "cookies", "out"})
  BY <1>2, Known, GoIs
<1>4. /\ req'[r].pc \in {"static_file", "render"} /\ req'[r].said = said /\ req'[r].resp = resp
      /\ req'[r].by = by /\ req'[r].after = after
      /\ req'[r].cookies = Cookies(r, by.ident, m) /\ req'[r].out = Headers(r, m)
  BY <1>2, Known, GoIs DEF Fields
<1>5. Applies(site, req[r], req'[r], by.ident, m)
  BY <1>4, Known, AppliesIs
<1> QED
  BY <1>1, <1>3, <1>4, <1>5 DEF Renders

\* A handler that goes on behind the gate.
LEMMA GoForwards ==
  ASSUME NEW r \in Requests, Typing, NEW acc, Go(r, ServeNext(r, acc))
  PROVE  Forwards(site, req[r], req'[r], acc)
<1>3. Changes(req[r], req'[r], {"pc", "after", "by", "sess", "cookies", "out"})
  BY Known, GoIs DEF ServeNext
<1>4. /\ req'[r].pc = req[r].next /\ req'[r].after = "finish"
      /\ req'[r].by = [NoOne EXCEPT !.from = req[r].next]
      /\ req'[r].cookies = Cookies(r, 0, acc) /\ req'[r].out = Headers(r, acc)
  BY Known, GoIs DEF Fields, ServeNext
<1>5. Applies(site, req[r], req'[r], 0, acc)
  BY <1>4, Known, AppliesIs
<1> QED
  BY <1>3, <1>4, <1>5 DEF Forwards

-----------------------------------------------------------------------------
(* What a step does: every action of a handler is one of these outcomes.    *)

Quiet == UNCHANGED <<conns, durable, file, temps, backups, moves>>
Still == UNCHANGED <<file, temps, backups, moves>>

\* The transaction a handler works in.
UseAt(q) ==
  IF q.pc = "relrun" THEN "rel"
  ELSE IF q.pc = "relread" THEN "nested"
  ELSE IF q.pc \in {"second", "commit2"} THEN "second"
  ELSE IF q.mode = "upload" THEN "first" ELSE "main"
Mine(r) == Held(r, UseAt(req[r]))

\* How its end leaves the pool, and what its commit adds.
EndTx(r) == conns' = IF UseAt(req[r]) \in {"first", "rel", "nested"} THEN Release(Mine(r)) ELSE Rollback(Mine(r))
Work(r) == UNION {conns[c].pend : c \in Mine(r)}
Won(r) == EndTx(r) /\ durable' = durable \cup Work(r) /\ Still
Tried(r) == EndTx(r) /\ durable' \in {durable, durable \cup Work(r)} /\ Still
Called(r, effect) == conns' = Calls(Mine(r), effect) /\ UNCHANGED durable /\ Still

IsDue(d) == d = <<>> \/ \E e : d = <<e>> /\ e.op = "set"
Hears(said, fn, from, resp) == Append(said, [fn |-> fn, from |-> from, jwt |-> resp.jwt, header |-> resp.header])

Fails(r) ==
  /\ req[r].pc \in Early \cup {"rel", "relopen", "place", "stream", "open2"}
  /\ Ends(req[r], req'[r], "")
  /\ UNCHANGED <<conns, durable, file, backups, moves>>
  /\ \/ temps' = temps
     \/ req[r].pc = "stream" /\ temps' = temps \cup {r}

Raises(r) ==
  /\ req[r].pc \in {"chain", "call", "first", "second"} /\ (req[r].pc = "chain" => req[r].chain # <<>>)
  /\ Ends(req[r], req'[r], "raised")
  /\ EndTx(r) /\ UNCHANGED durable /\ Still

Loses(r) ==
  /\ req[r].pc \in {"handled", "chain", "relrun", "commit", "commit1", "commit2"}
  /\ Ends(req[r], req'[r], "")
  /\ Tried(r)

Replies(r) ==
  /\ req[r].pc \in Showing \cup {"static"}
  /\ \E from \in {"", "site", "template", req[r].by.from} \cup file : Says(req[r], req'[r], from)
  /\ IF req[r].pc = "relread" THEN Tried(r) ELSE Quiet

Shows(r) ==
  /\ req[r].pc \in {"static_file", "static", "render"}
  /\ Changes(req[r], req'[r], {"pc", "found", "resp"}) /\ req'[r].pc \in {"serve", "render", "relfunc"}
  /\ Quiet

BeginsAt(p) == IF p = "open" THEN "chain" ELSE IF p = "relfunc" THEN "relread" ELSE IF p = "relopen" THEN "relrun" ELSE "second"
BeginsWith(r, p) == IF p = "relfunc" THEN {<<r, "rel()">>} ELSE IF p = "relopen" THEN {<<r, "rel">>} ELSE {}

Begins(r) ==
  /\ req[r].pc \in {"open", "relfunc", "relopen", "open2"}
  /\ Changes(req[r], req'[r], {"pc", "cookies"}) /\ req'[r].pc = BeginsAt(req[r].pc)
  /\ IF req[r].pc = "relopen" THEN \E due : IsDue(due) /\ req'[r].cookies = req[r].cookies \o due
     ELSE req'[r].cookies = req[r].cookies
  /\ \E c \in Free : conns' = [conns EXCEPT ![c] = [owner |-> r, use |-> UseAt(req'[r]), role |-> req[r].sess.role,
                                                    pend |-> BeginsWith(r, req[r].pc)]]
  /\ UNCHANGED durable /\ Still

ToGate(r) ==
  /\ req[r].pc = "new"
  /\ Changes(req[r], req'[r], {"pc", "next"}) /\ req'[r].pc = "gate" /\ req'[r].next \in {"rel", "static"}
  /\ Quiet

ToHandle(r) ==
  /\ req[r].pc = "new"
  /\ Changes(req[r], req'[r], {"pc", "route"}) /\ req'[r].pc = "handle" /\ req'[r].route # {}
  /\ req'[r].route = Reached(Registered, asked[r].method, asked[r].path).routes
  /\ Quiet

Ungated(r) ==
  /\ req[r].pc = "gate"
  /\ Exempt(asked[r].path) \/ MiddlewareChain(Registered, asked[r].path) = <<>>
  /\ Forwards(site, req[r], req'[r], Silent)
  /\ Quiet

Opens(r) ==
  /\ req[r].pc \in {"gate", "handle", "upload"}
  /\ Changes(req[r], req'[r], {"pc", "mode", "sess", "chain", "has"}) /\ req'[r].pc = "open"
  /\ req'[r].mode = IF req[r].pc = "gate" THEN "gate" ELSE IF req[r].pc = "handle" THEN "route" ELSE "upload"
  /\ IF req[r].pc = "gate" THEN req'[r].chain = MiddlewareChain(Registered, asked[r].path)
     ELSE \E e \in req[r].route : req'[r].chain = MiddlewareChain(Registered, e.anonPath)
  /\ Quiet

ToUpload(r) ==
  /\ req[r].pc = "handle"
  /\ Changes(req[r], req'[r], {"pc", "sess"}) /\ req'[r].pc = "upload"
  /\ Quiet

ChainGoes(r) ==
  /\ req[r].pc = "chain" /\ req[r].chain # <<>>
  /\ Changes(req[r], req'[r], {"said", "acc", "chain"})
  /\ \E resp \in site.responses :
       /\ req'[r].said = Hears(req[r].said, Head(req[r].chain).fn, "middleware", resp)
       /\ req'[r].acc = mergeSideEffects(req[r].acc, resp)
  /\ req'[r].chain = Tail(req[r].chain)
  /\ Called(r, <<r, "gate", Head(req[r].chain).fn>>)

ChainStops(r) ==
  /\ req[r].pc = "chain" /\ req[r].chain # <<>>
  /\ \E resp \in site.responses : \E by :
       /\ by.from = "middleware"
       /\ Renders(site, req[r], req'[r], Hears(req[r].said, Head(req[r].chain).fn, "middleware", resp), by,
                  mergeSideEffects(req[r].acc, resp), resp, "handled")
  /\ Called(r, <<r, "gate", Head(req[r].chain).fn>>)

GatePasses(r) ==
  /\ req[r].pc = "chain" /\ req[r].chain = <<>> /\ req[r].mode = "gate"
  /\ Forwards(site, req[r], req'[r], req[r].acc)
  /\ Won(r)

ChainEnds(r) ==
  /\ req[r].pc = "chain" /\ req[r].chain = <<>> /\ req[r].mode # "gate"
  /\ Changes(req[r], req'[r], {"pc", "cookies"})
  /\ req'[r].pc = IF req[r].mode = "upload" THEN "first" ELSE "call"
  /\ \E due : IsDue(due) /\ req'[r].cookies = req[r].cookies \o due
  /\ Quiet

Goes(r) ==
  /\ \/ req[r].pc = "rel" /\ Turns(req[r], req'[r], "relopen")
     \/ req[r].pc = "place" /\ (Turns(req[r], req'[r], "open2") \/ Turns(req[r], req'[r], "stream"))
     \/ req[r].pc = "swap" /\ (Turns(req[r], req'[r], "backup") \/ Turns(req[r], req'[r], "move"))
     \/ req[r].pc = "move" /\ Turns(req[r], req'[r], "restore")
  /\ Quiet

RelAnswers(r) == req[r].pc = "relrun" /\ Ends(req[r], req'[r], "rel") /\ Won(r)

Invokes(r) ==
  /\ req[r].pc \in {"call", "second"}
  /\ Changes(req[r], req'[r], {"pc", "resp", "said"})
  /\ req'[r].pc = IF req[r].pc = "call" THEN "commit" ELSE "commit2"
  /\ \E route \in req[r].route : \E resp \in Answers(route) :
       /\ req'[r].resp = resp
       /\ req'[r].said = Hears(req[r].said, route.fn, IF req[r].pc = "call" THEN "route" ELSE "second", resp)
  /\ Called(r, <<r, IF req[r].pc = "call" THEN "route" ELSE "second">>)

\* The answer of the route's function, shown.
ShowsRoute(r, from) ==
  \E by : by.from = from /\ Renders(site, req[r], req'[r], req[r].said, by, req[r].acc, req[r].resp, "finish")

Commits(r) ==
  /\ req[r].pc \in {"commit", "commit2"}
  /\ ShowsRoute(r, IF req[r].pc = "commit" THEN "route" ELSE "second")
  /\ Won(r)

Decides(r) ==
  /\ req[r].pc = "first"
  /\ Changes(req[r], req'[r], {"pc", "upload"}) /\ req'[r].pc = "commit1"
  /\ Called(r, <<r, "first">>)

Proceeds(r) ==
  /\ \/ req[r].pc = "commit1" /\ Turns(req[r], req'[r], "place")
     \/ req[r].pc = "commit2" /\ Turns(req[r], req'[r], "swap")
  /\ Won(r)

Streams(r) ==
  /\ req[r].pc = "stream" /\ Turns(req[r], req'[r], "open2")
  /\ temps' = temps \cup {r} /\ UNCHANGED <<conns, durable, file, backups, moves>>

BacksUp(r) ==
  /\ req[r].pc = "backup" /\ Turns(req[r], req'[r], "move")
  /\ file # {} /\ file' = {} /\ backups' = [backups EXCEPT ![r] = file]
  /\ UNCHANGED <<conns, durable, temps, moves>>

SwapFails(r) ==
  /\ req[r].pc = "backup" /\ Ends(req[r], req'[r], "swap")
  /\ temps' = temps \ {r} /\ UNCHANGED <<conns, durable, file, backups, moves>>

MovesIn(r) ==
  /\ req[r].pc = "move" /\ Turns(req[r], req'[r], "drop")
  /\ file' = {r} /\ temps' = temps \ {r} /\ moves' = Append(moves, r)
  /\ UNCHANGED <<conns, durable, backups>>

Restores(r) ==
  /\ req[r].pc = "restore" /\ Ends(req[r], req'[r], "restored")
  /\ temps' = temps \ {r}
  /\ \/ backups[r] # {} /\ file' = backups[r] /\ backups' = [backups EXCEPT ![r] = {}]
     \/ UNCHANGED <<file, backups>>
  /\ UNCHANGED <<conns, durable, moves>>

Drops(r) ==
  /\ req[r].pc = "drop" /\ ShowsRoute(r, "second")
  /\ backups' = [backups EXCEPT ![r] = {}] /\ UNCHANGED <<conns, durable, file, temps, moves>>

Finishes(r) ==
  /\ req[r].pc = "finish"
  /\ Changes(req[r], req'[r], {"pc", "resp", "acc", "after", "found"}) /\ req'[r].pc = "done" /\ req'[r].acc = Silent
  /\ conns' = Release(Held(r, "main") \cup Held(r, "second"))
  /\ temps' = temps \ {r} /\ UNCHANGED <<durable, file, backups, moves>>

-----------------------------------------------------------------------------

\* The statuses handlers write.
LEMMA Statuses == 200 # 0 /\ 301 # 0 /\ 400 # 0 /\ 401 # 0 /\ 404 # 0 /\ 409 # 0 /\ 413 # 0 /\ 415 # 0 /\ 500 # 0
OBVIOUS

\* An error answer before or between transactions.
LEMMA FailsIs ==
  ASSUME NEW r \in Requests, Typing, NEW status, status # 0, Go(r, Ended(r, status, "")), Quiet,
         req[r].pc \in Early \cup {"rel", "relopen", "place", "stream", "open2"}
  PROVE  Fails(r)
<1>1. Ends(req[r], req'[r], "")
  BY GoEnds
<1>2. UNCHANGED <<conns, durable, file, backups, moves>> /\ temps' = temps
  BY DEF Quiet
<1> QED
  BY <1>1, <1>2 DEF Fails

\* The router: an error, the gate of a query or file, or a route.
LEMMA DispatchIs ==
  ASSUME NEW r \in Requests, Typing, Dispatch(r)
  PROVE  Fails(r) \/ ToGate(r) \/ ToHandle(r)
<1> DEFINE reached == Reached(Registered, asked[r].method, asked[r].path)
<1>0. req[r].pc = "new" /\ Quiet
  BY DEF Dispatch, Quiet, disk
<1>1. \/ \E p \in {"rel", "static"} : Go(r, [pc |-> "gate", next |-> p])
      \/ reached.routes # {} /\ Go(r, [pc |-> "handle", route |-> reached.routes])
      \/ Go(r, Ended(r, 405, "")) \/ Go(r, Ended(r, 404, ""))
  BY DEF Dispatch
<1>2. ASSUME NEW p \in {"rel", "static"}, Go(r, [pc |-> "gate", next |-> p]) PROVE ToGate(r)
  <2>0. PICK f : f = [pc |-> "gate", next |-> p]
    BY Zenon
  <2>2. Go(r, f) /\ DOMAIN f = {"pc", "next"} /\ f.pc = "gate" /\ f.next = p
    BY <1>2, <2>0
  <2>1. Changes(req[r], req'[r], {"pc", "next"}) /\ req'[r].pc = "gate" /\ req'[r].next = p
    BY <2>2, GoSets DEF Fields
  <2> QED
    BY <2>1, <1>0 DEF ToGate
<1>3. ASSUME reached.routes # {}, Go(r, [pc |-> "handle", route |-> reached.routes]) PROVE ToHandle(r)
  <2>0. PICK f : f = [pc |-> "handle", route |-> reached.routes]
    BY Zenon
  <2>2. Go(r, f) /\ DOMAIN f = {"pc", "route"} /\ f.pc = "handle" /\ f.route = reached.routes
    BY <1>3, <2>0
  <2>1. Changes(req[r], req'[r], {"pc", "route"}) /\ req'[r].pc = "handle" /\ req'[r].route = reached.routes
    BY <2>2, GoSets DEF Fields
  <2> QED
    BY <2>1, <1>0, <1>3 DEF ToHandle
<1>4. ASSUME NEW status, status # 0, Go(r, Ended(r, status, "")) PROVE Fails(r)
  <2>1. req[r].pc \in Early
    BY <1>0 DEF Early
  <2> QED
    BY <1>4, <1>0, <2>1, FailsIs
<1>5. 404 # 0 /\ 405 # 0
  OBVIOUS
<1> HIDE DEF reached
<1> QED
  BY <1>1, <1>2, <1>3, <1>4, <1>5, ZenonT(30)

\* GateMiddleware: no session, no gate to run, or the chain.
LEMMA GateIs ==
  ASSUME NEW r \in Requests, Typing, GateMiddleware(r)
  PROVE  Fails(r) \/ Ungated(r) \/ Opens(r)
<1> DEFINE chain == MiddlewareChain(Registered, asked[r].path)
           auth == Authenticate(asked[r].token, Now, site.anonymous)
           opened == [pc |-> "open", mode |-> "gate", chain |-> chain, sess |-> auth.sess]
<1>0. req[r].pc = "gate" /\ Quiet
  BY DEF GateMiddleware, Quiet, disk
<1>1. \/ (Exempt(asked[r].path) \/ chain = <<>>) /\ Go(r, ServeNext(r, Silent))
      \/ Go(r, Ended(r, 401, ""))
      \/ Go(r, opened)
  BY DEF GateMiddleware
<1>2. ASSUME Exempt(asked[r].path) \/ chain = <<>>, Go(r, ServeNext(r, Silent)) PROVE Ungated(r)
  BY <1>2, <1>0, GoForwards DEF Ungated
<1>3. ASSUME Go(r, Ended(r, 401, "")) PROVE Fails(r)
  <2>1. req[r].pc \in Early
    BY <1>0 DEF Early
  <2>2. 401 # 0
    OBVIOUS
  <2> QED
    BY <1>3, <1>0, <2>1, <2>2, FailsIs, ZenonT(30)
<1>4. ASSUME Go(r, opened) PROVE Opens(r)
  <2>0. PICK f : f = opened
    BY Zenon
  <2>3. Go(r, f) /\ DOMAIN f = {"pc", "mode", "chain", "sess"} /\ f.pc = "open" /\ f.mode = "gate" /\ f.chain = chain
    BY <1>4, <2>0
  <2>1. /\ Changes(req[r], req'[r], {"pc", "mode", "chain", "sess"}) /\ req'[r].pc = "open" /\ req'[r].mode = "gate"
        /\ req'[r].chain = chain
    BY <2>3, GoSets DEF Fields
  <2>2. Changes(req[r], req'[r], {"pc", "mode", "sess", "chain", "has"})
    BY <2>1 DEF Changes
  <2> QED
    BY <2>1, <2>2, <1>0 DEF Opens
<1> QED
  BY <1>1, <1>2, <1>3, <1>4

\* The transaction begins, or it fails as the handler says.
LEMMA OpenIs ==
  ASSUME NEW r, NEW use, NEW pend, NEW then, NEW otherwise, Open(r, use, pend, then, otherwise)
  PROVE  \/ Go(r, otherwise) /\ Quiet
         \/ /\ Go(r, then) /\ UNCHANGED durable /\ Still
            /\ \E c \in Free : conns' = [conns EXCEPT ![c] = [owner |-> r, use |-> use, role |-> req[r].sess.role,
                                                              pend |-> pend]]
<1>1. CASE Go(r, otherwise) /\ UNCHANGED conns
  BY <1>1 DEF Open, Quiet, disk
<1>2. CASE /\ Free # {} /\ Go(r, then)
           /\ BeginAs(CHOOSE c \in Free : TRUE, r, use, req[r].sess, pend)
  <2>1. (CHOOSE c \in Free : TRUE) \in Free
    BY <1>2
  <2>2. UNCHANGED durable /\ Still
    BY DEF Open, Still, disk
  <2> QED
    BY <1>2, <2>1, <2>2, Zenon DEF BeginAs
<1> QED
  BY <1>1, <1>2 DEF Open

\* The transaction of a chain begins, or cannot.
LEMMA OpenChainIs ==
  ASSUME NEW r \in Requests, Typing, OpenChain(r)
  PROVE  Fails(r) \/ Begins(r)
<1>0. req[r].pc = "open" /\ req[r].pc \in Early
  BY DEF OpenChain, Early
<1>1. ASSUME Go(r, Ended(r, 500, "")), Quiet PROVE Fails(r)
  BY <1>0, <1>1, FailsIs, Statuses, ZenonT(30)
<1>2. ASSUME NEW c \in Free, Go(r, [pc |-> "chain"]), UNCHANGED durable /\ Still,
             conns' = [conns EXCEPT ![c] = [owner |-> r, use |-> Use(r), role |-> req[r].sess.role, pend |-> {}]]
      PROVE  Begins(r)
  <2>1. Turns(req[r], req'[r], "chain")
    BY <1>2, GoTurns
  <2>2. /\ Changes(req[r], req'[r], {"pc", "cookies"}) /\ req'[r].pc = BeginsAt(req[r].pc)
        /\ req'[r].cookies = req[r].cookies
    BY <2>1, <1>0 DEF Turns, Changes, BeginsAt
  <2>3. UseAt(req'[r]) = Use(r) /\ BeginsWith(r, req[r].pc) = {}
    BY <2>1, <1>0 DEF Turns, Changes, Use, UseAt, BeginsWith
  <2> QED
    BY <1>0, <1>2, <2>2, <2>3, Zenon DEF Begins
<1>3. \/ Go(r, Ended(r, 500, "")) /\ Quiet
      \/ /\ Go(r, [pc |-> "chain"]) /\ UNCHANGED durable /\ Still
         /\ \E c \in Free : conns' = [conns EXCEPT ![c] = [owner |-> r, use |-> Use(r), role |-> req[r].sess.role,
                                                           pend |-> {}]]
  BY OpenIs, ZenonT(30) DEF OpenChain
<1> QED
  BY <1>1, <1>2, <1>3

\* The transaction of an upload's second call begins, or cannot.
LEMMA OpenSecondIs ==
  ASSUME NEW r \in Requests, Typing, OpenSecond(r)
  PROVE  Fails(r) \/ Begins(r)
<1>0. req[r].pc = "open2"
  BY DEF OpenSecond
<1>1. ASSUME Go(r, Ended(r, 500, "")), Quiet PROVE Fails(r)
  BY <1>0, <1>1, FailsIs, Statuses, ZenonT(30)
<1>2. ASSUME NEW c \in Free, Go(r, [pc |-> "second"]), UNCHANGED durable /\ Still,
             conns' = [conns EXCEPT ![c] = [owner |-> r, use |-> "second", role |-> req[r].sess.role, pend |-> {}]]
      PROVE  Begins(r)
  <2>1. Turns(req[r], req'[r], "second")
    BY <1>2, GoTurns
  <2>2. /\ Changes(req[r], req'[r], {"pc", "cookies"}) /\ req'[r].pc = BeginsAt(req[r].pc)
        /\ req'[r].cookies = req[r].cookies
    BY <2>1, <1>0 DEF Turns, Changes, BeginsAt
  <2>3. UseAt(req'[r]) = "second" /\ BeginsWith(r, req[r].pc) = {}
    BY <2>1, <1>0 DEF Turns, UseAt, BeginsWith
  <2> QED
    BY <1>0, <1>2, <2>2, <2>3, Zenon DEF Begins
<1>3. \/ Go(r, Ended(r, 500, "")) /\ Quiet
      \/ /\ Go(r, [pc |-> "second"]) /\ UNCHANGED durable /\ Still
         /\ \E c \in Free : conns' = [conns EXCEPT ![c] = [owner |-> r, use |-> "second", role |-> req[r].sess.role,
                                                           pend |-> {}]]
  BY OpenIs, ZenonT(30) DEF OpenSecond
<1> QED
  BY <1>1, <1>2, <1>3

\* A commit, whoever asks for it.
LEMMA CommitIs ==
  ASSUME NEW r \in Requests, NEW after, NEW then, NEW otherwise, Commit(r, Mine(r), after, then, otherwise),
         after = IF UseAt(req[r]) \in {"first", "rel", "nested"} THEN Release(Mine(r)) ELSE Rollback(Mine(r))
  PROVE  \/ Go(r, then) /\ Won(r)
         \/ Go(r, otherwise) /\ Tried(r)
<1>1. EndTx(r) /\ Still
  BY DEF Commit, EndTx, Still, disk
<1>2. CASE durable' = durable \cup Work(r) /\ Go(r, then)
  BY <1>1, <1>2 DEF Won
<1>3. CASE durable' \in {durable, durable \cup Work(r)} /\ Go(r, otherwise)
  BY <1>1, <1>3 DEF Tried
<1> QED
  BY <1>2, <1>3 DEF Commit, Work

\* A transaction that cannot be committed ends in an error.
LEMMA LosesIs ==
  ASSUME NEW r \in Requests, Typing, Go(r, Ended(r, 500, "")), Tried(r),
         req[r].pc \in {"handled", "chain", "relrun", "commit", "commit1", "commit2"}
  PROVE  Loses(r)
BY GoEnds, Statuses, ZenonT(30) DEF Loses

\* The transaction a chain runs in is the one of its handler.
LEMMA UseIs ==
  ASSUME NEW r \in Requests, req[r].pc \in {"chain", "handled", "open"}
  PROVE  Use(r) = UseAt(req[r]) /\ Held(r, Use(r)) = Mine(r)
BY DEF Use, UseAt, Mine

\* How a chain's transaction is left after its commit was tried.
LEMMA SettledIs ==
  ASSUME NEW r \in Requests, req[r].pc \in {"chain", "handled"}
  PROVE  Settled(r) = IF UseAt(req[r]) \in {"first", "rel", "nested"} THEN Release(Mine(r)) ELSE Rollback(Mine(r))
<1>1. CASE req[r].mode = "upload"
  BY <1>1 DEF Settled, UseAt, Mine
<1>2. CASE req[r].mode # "upload"
  BY <1>2 DEF Settled, UseAt, Mine
<1> QED
  BY <1>1, <1>2

\* A function that raised: its transaction ends, its error is the answer.
LEMMA RaisesIs ==
  ASSUME NEW r \in Requests, Typing, Go(r, Ended(r, 500, "raised")), EndTx(r), UNCHANGED durable, Still,
         req[r].pc \in {"chain", "call", "first", "second"}, req[r].pc = "chain" => req[r].chain # <<>>
  PROVE  Raises(r)
<1>1. Ends(req[r], req'[r], "raised")
  BY GoEnds, Statuses
<1> QED
  BY <1>1 DEF Raises

\* A middleware answered: its transaction is not committed.
LEMMA HandledIs ==
  ASSUME NEW r \in Requests, Typing, Handled(r)
  PROVE  Loses(r)
<1>1. req[r].pc = "handled" /\ Commit(r, Mine(r), Settled(r), Ended(r, 500, ""), Ended(r, 500, ""))
  BY UseIs, ZenonT(30) DEF Handled
<1>4. PICK a : a = Settled(r)
  OBVIOUS
<1>5. a = IF UseAt(req[r]) \in {"first", "rel", "nested"} THEN Release(Mine(r)) ELSE Rollback(Mine(r))
  BY <1>1, <1>4, SettledIs
<1>6. PICK n : n = Ended(r, 500, "")
  OBVIOUS
<1>7. Commit(r, Mine(r), a, n, n)
  BY <1>1, <1>4, <1>6, ZenonT(30)
<1>8. Go(r, n) /\ (Won(r) \/ Tried(r))
  BY <1>5, <1>7, CommitIs
<1>2. Go(r, Ended(r, 500, "")) /\ (Won(r) \/ Tried(r))
  BY <1>6, <1>8
<1>3. Tried(r)
  BY <1>2, ZenonT(30) DEF Won, Tried
<1> QED
  BY <1>1, <1>2, <1>3, LosesIs

\* runMiddlewareChain: the next middleware raises, passes or answers.
LEMMA RunChainIs ==
  ASSUME NEW r \in Requests, Typing, runMiddlewareChain(r)
  PROVE  Raises(r) \/ ChainGoes(r) \/ ChainStops(r)
<1> DEFINE mw == Head(req[r].chain)
<1>0. /\ req[r].pc = "chain" /\ req[r].chain # <<>> /\ UNCHANGED durable /\ Still
  BY Zenon DEF runMiddlewareChain, Still, disk
<1>1. ASSUME Go(r, Ended(r, 500, "raised")), conns' = Settled(r) PROVE Raises(r)
  <2>1. EndTx(r)
    BY <1>0, <1>1, SettledIs DEF EndTx
  <2> QED
    BY <1>0, <1>1, <2>1, RaisesIs
<1>2. ASSUME NEW resp \in site.responses, conns' = Calls(Held(r, Use(r)), <<r, "gate", mw.fn>>),
             NEW acc, acc = mergeSideEffects(req[r].acc, resp),
             NEW said, said = Heard(r, mw, "middleware", resp),
             NEW by, by = [from |-> "middleware", ident |-> mw.fn, template |-> mw.template # ""],
             Go(r, IF isTerminalResponse(resp) THEN Rendering(r, said, by, acc, resp, "handled")
                   ELSE [said |-> said, acc |-> acc, chain |-> Tail(req[r].chain)])
      PROVE  ChainGoes(r) \/ ChainStops(r)
  <2>1. Called(r, <<r, "gate", mw.fn>>)
    BY <1>0, <1>2, UseIs, ZenonT(30) DEF Called
  <2>2. said = Hears(req[r].said, mw.fn, "middleware", resp)
    BY <1>2 DEF Heard, Hears
  <2>3. CASE isTerminalResponse(resp)
    <3>1. Renders(site, req[r], req'[r], said, by, acc, resp, "handled")
      BY <1>2, <2>3, GoRenders, ZenonT(30)
    <3>2. by.from = "middleware"
      BY <1>2
    <3> QED
      BY <1>0, <1>2, <2>1, <2>2, <3>1, <3>2, ZenonT(30) DEF ChainStops
  <2>4. CASE ~isTerminalResponse(resp)
    <3>1. Go(r, [said |-> said, acc |-> acc, chain |-> Tail(req[r].chain)])
      BY <1>2, <2>4, Zenon
    <3>0. PICK rest : rest = Tail(req[r].chain)
      BY Zenon
    <3>2. PICK f : f = [said |-> said, acc |-> acc, chain |-> rest]
      BY Zenon
    <3>3. Go(r, f) /\ DOMAIN f = {"said", "acc", "chain"} /\ f.said = said /\ f.acc = acc /\ f.chain = rest
      BY <3>0, <3>1, <3>2
    <3>4. /\ Changes(req[r], req'[r], {"said", "acc", "chain"})
          /\ req'[r].said = said /\ req'[r].acc = acc /\ req'[r].chain = rest
      BY <3>3, GoSets DEF Fields
    <3> QED
      BY <1>0, <1>2, <2>1, <2>2, <3>0, <3>4, ZenonT(30) DEF ChainGoes
  <2> QED
    BY <2>3, <2>4, SMTT(30), ZenonT(30)
<1>3. \/ Go(r, Ended(r, 500, "raised")) /\ conns' = Settled(r)
      \/ /\ conns' = Calls(Held(r, Use(r)), <<r, "gate", mw.fn>>)
         /\ \E resp \in site.responses :
              LET acc == mergeSideEffects(req[r].acc, resp)
                  said == Heard(r, mw, "middleware", resp)
                  by == [from |-> "middleware", ident |-> mw.fn, template |-> mw.template # ""]
              IN Go(r, IF isTerminalResponse(resp) THEN Rendering(r, said, by, acc, resp, "handled")
                       ELSE [said |-> said, acc |-> acc, chain |-> Tail(req[r].chain)])
  BY Zenon DEF runMiddlewareChain
<1> HIDE DEF mw
<1> QED
  BY <1>1, <1>2, <1>3, Zenon

\* RenewIfDue sets at most one cookie.
LEMMA RenewalIs ==
  ASSUME NEW claims
  PROVE  IsDue(RenewIfDue(claims, Now))
<1>1. CASE RenewIfDue(claims, Now) = <<>>
  BY <1>1 DEF IsDue
<1>2. CASE RenewIfDue(claims, Now) = <<[op |-> "set", token |-> Renew(CHOOSE t \in claims : TRUE, Now)]>>
  <2>1. PICK e : e = [op |-> "set", token |-> Renew(CHOOSE t \in claims : TRUE, Now)]
    BY Zenon
  <2>2. e.op = "set" /\ RenewIfDue(claims, Now) = <<e>>
    BY <1>2, <2>1
  <2> QED
    BY <2>2 DEF IsDue
<1> QED
  BY <1>1, <1>2 DEF RenewIfDue

\* Behind the chain: the gate's commit, or the route's own work.
LEMMA ChainPassedIs ==
  ASSUME NEW r \in Requests, Typing, ChainPassed(r)
  PROVE  Loses(r) \/ GatePasses(r) \/ ChainEnds(r)
<1>0. req[r].pc = "chain" /\ req[r].chain = <<>>
  BY DEF ChainPassed
<1>1. CASE req[r].mode = "gate"
  <2>1. Commit(r, Held(r, "main"), Rollback(Held(r, "main")), ServeNext(r, req[r].acc), Ended(r, 500, ""))
    BY <1>1 DEF ChainPassed
  <2>2. UseAt(req[r]) = "main" /\ Mine(r) = Held(r, "main")
    BY <1>0, <1>1 DEF UseAt, Mine
  <2>3. \/ Go(r, ServeNext(r, req[r].acc)) /\ Won(r)
        \/ Go(r, Ended(r, 500, "")) /\ Tried(r)
    BY <2>1, <2>2, CommitIs, ZenonT(30)
  <2>4. ASSUME Go(r, ServeNext(r, req[r].acc)), Won(r) PROVE GatePasses(r)
    BY <1>0, <1>1, <2>4, GoForwards DEF GatePasses
  <2> QED
    BY <1>0, <2>3, <2>4, LosesIs, ZenonT(30)
<1>2. CASE req[r].mode # "gate"
  <2>0. PICK due, to, f : /\ due = RenewIfDue(req[r].sess.claims, Now)
                          /\ to = IF req[r].mode = "upload" THEN "first" ELSE "call"
                          /\ f = [pc |-> to, cookies |-> req[r].cookies \o due]
    BY ZenonT(30)
  <2>1. Go(r, f) /\ Quiet
    BY <2>0, <1>2 DEF ChainPassed, Quiet, disk
  <2>2. DOMAIN f = {"pc", "cookies"} /\ f.pc = to /\ f.cookies = req[r].cookies \o due
    BY <2>0, ZenonT(30)
  <2>3. /\ Changes(req[r], req'[r], {"pc", "cookies"})
        /\ req'[r].pc = to /\ req'[r].cookies = req[r].cookies \o due
    BY <2>1, <2>2, GoSets, SMTT(30), ZenonT(30) DEF Fields
  <2>4. IsDue(due)
    BY <2>0, RenewalIs
  <2> QED
    BY <1>0, <1>2, <2>0, <2>1, <2>3, <2>4, ZenonT(30) DEF ChainEnds
<1> QED
  BY <1>1, <1>2

\* handleRel: refused, opened, committed and answered, or lost.
LEMMA HandleRelIs ==
  ASSUME NEW r \in Requests, Typing, handleRel(r)
  PROVE  Fails(r) \/ Goes(r) \/ Begins(r) \/ RelAnswers(r) \/ Loses(r)
<1>1. CASE /\ req[r].pc = "rel" /\ UNCHANGED <<conns, durable, disk>>
           /\ Go(r, Ended(r, 401, "")) \/ Go(r, Ended(r, 400, "")) \/ Go(r, [pc |-> "relopen"])
  <2>0. Quiet
    BY <1>1 DEF Quiet, disk
  <2>1. CASE Go(r, Ended(r, 401, ""))
    BY <1>1, <2>0, <2>1, FailsIs, Statuses, ZenonT(30)
  <2>2. CASE Go(r, Ended(r, 400, ""))
    BY <1>1, <2>0, <2>2, FailsIs, Statuses, ZenonT(30)
  <2>3. CASE Go(r, [pc |-> "relopen"])
    BY <1>1, <2>0, <2>3, GoTurns, SMTT(30), ZenonT(30) DEF Goes
  <2> QED
    BY <1>1, <2>1, <2>2, <2>3, ZenonT(30)
<1>2. ASSUME req[r].pc = "relopen", NEW new, new = req[r].cookies \o RenewIfDue(req[r].sess.claims, Now),
             Open(r, "rel", {<<r, "rel">>}, [pc |-> "relrun", cookies |-> new], Ended(r, 500, ""))
      PROVE  Fails(r) \/ Begins(r)
  <2>1. ASSUME Go(r, Ended(r, 500, "")), Quiet PROVE Fails(r)
    BY <1>2, <2>1, FailsIs, Statuses, ZenonT(30)
  <2>2. ASSUME NEW c \in Free, Go(r, [pc |-> "relrun", cookies |-> new]), UNCHANGED durable /\ Still,
               conns' = [conns EXCEPT ![c] = [owner |-> r, use |-> "rel", role |-> req[r].sess.role, pend |-> {<<r, "rel">>}]]
        PROVE  Begins(r)
    <3>0. PICK f : f = [pc |-> "relrun", cookies |-> new]
      BY Zenon
    <3>5. Go(r, f) /\ DOMAIN f = {"pc", "cookies"} /\ f.pc = "relrun" /\ f.cookies = new
      BY <2>2, <3>0
    <3>6. Changes(req[r], req'[r], {"pc", "cookies"}) /\ req'[r].pc = "relrun" /\ req'[r].cookies = new
      BY <3>5, GoSets DEF Fields
    <3>1. Changes(req[r], req'[r], {"pc", "cookies"})
      BY <3>6
    <3>2. req'[r].pc = "relrun" /\ req'[r].cookies = new
      BY <3>6, SMTT(30), ZenonT(30)
    <3>3. BeginsAt(req[r].pc) = "relrun" /\ UseAt(req'[r]) = "rel" /\ BeginsWith(r, req[r].pc) = {<<r, "rel">>}
      BY <3>2, <1>2 DEF BeginsAt, UseAt, BeginsWith
    <3>4. \E due : IsDue(due) /\ req'[r].cookies = req[r].cookies \o due
      BY <3>2, <1>2, RenewalIs, ZenonT(30)
    <3> QED
      BY <1>2, <2>2, <3>1, <3>2, <3>3, <3>4, Zenon DEF Begins
  <2>3. \/ Go(r, Ended(r, 500, "")) /\ Quiet
        \/ /\ Go(r, [pc |-> "relrun", cookies |-> new]) /\ UNCHANGED durable /\ Still
           /\ \E c \in Free : conns' = [conns EXCEPT ![c] = [owner |-> r, use |-> "rel", role |-> req[r].sess.role,
                                                             pend |-> {<<r, "rel">>}]]
    BY <1>2, OpenIs, ZenonT(30)
  <2> QED
    BY <2>1, <2>2, <2>3, ZenonT(30)
<1>3. ASSUME req[r].pc = "relrun",
             Commit(r, Held(r, "rel"), Release(Held(r, "rel")), Ended(r, 200, "rel"), Ended(r, 500, ""))
      PROVE  RelAnswers(r) \/ Loses(r)
  <2>1. UseAt(req[r]) = "rel" /\ Mine(r) = Held(r, "rel")
    BY <1>3, ZenonT(30) DEF UseAt, Mine
  <2>2. \/ Go(r, Ended(r, 200, "rel")) /\ Won(r)
        \/ Go(r, Ended(r, 500, "")) /\ Tried(r)
    BY <1>3, <2>1, CommitIs, ZenonT(30)
  <2>3. ASSUME Go(r, Ended(r, 200, "rel")), Won(r) PROVE RelAnswers(r)
    BY <1>3, <2>3, GoEnds, Statuses, ZenonT(30) DEF RelAnswers
  <2> QED
    BY <1>3, <2>2, <2>3, LosesIs
<1> QED
  BY <1>1, <1>2, <1>3, ZenonT(30) DEF handleRel

\* The answers that take no more than a step.
LEMMA RepliesIs ==
  ASSUME NEW r \in Requests, Typing, NEW status, NEW from, Go(r, Answered(r, status, from)), status # 0,
         from \in {"", "site", "template", req[r].by.from} \cup file,
         req[r].pc \in Showing \cup {"static"},
         IF req[r].pc = "relread" THEN Tried(r) ELSE Quiet
  PROVE  Replies(r)
<1>1. Says(req[r], req'[r], from)
  BY GoSays
<1> QED
  BY <1>1 DEF Replies

\* The same, without a transaction to end.
LEMMA RepliesNow ==
  ASSUME NEW r \in Requests, Typing, NEW status, NEW from, Go(r, Answered(r, status, from)), status # 0,
         from \in {"", "site", "template", req[r].by.from} \cup file,
         req[r].pc \in {"static", "static_file", "serve", "render", "relfunc"}, Quiet
  PROVE  Replies(r)
<1>1. req[r].pc \in Showing \cup {"static"} /\ req[r].pc # "relread"
  BY DEF Showing
<1>2. IF req[r].pc = "relread" THEN Tried(r) ELSE Quiet
  BY <1>1
<1> QED
  BY <1>1, <1>2, RepliesIs

\* A status a function asks for is never 0.
LEMMA StatusIs == ASSUME NEW resp PROVE StatusOf(resp) # 0
BY Statuses DEF StatusOf

\* A template or a plain body: an answer, or a query of the template.
LEMMA TemplateIs ==
  ASSUME NEW r \in Requests, Typing, writeTemplateResponse(r) \/ renderFullControlResponse(r)
  PROVE  Replies(r) \/ Shows(r)
<1>0. req[r].pc = "render" /\ Quiet
  BY DEF writeTemplateResponse, renderFullControlResponse, Quiet, disk
<1>1. \/ Go(r, [pc |-> "relfunc"])
      \/ Go(r, Answered(r, StatusOf(req[r].resp), req[r].by.from))
      \/ Go(r, Answered(r, 500, "template"))
      \/ Go(r, Answered(r, 404, req[r].by.from))
  BY DEF writeTemplateResponse, renderFullControlResponse
<1>2. ASSUME Go(r, [pc |-> "relfunc"]) PROVE Shows(r)
  <2>1. Turns(req[r], req'[r], "relfunc")
    BY <1>2, GoTurns, SMTT(30), ZenonT(30)
  <2>2. Changes(req[r], req'[r], {"pc", "found", "resp"}) /\ req'[r].pc = "relfunc"
    BY <2>1 DEF Turns, Changes
  <2> QED
    BY <1>0, <2>2 DEF Shows
<1>3. ASSUME Go(r, Answered(r, StatusOf(req[r].resp), req[r].by.from)) PROVE Replies(r)
  BY <1>0, <1>3, StatusIs, RepliesNow
<1>4. ASSUME Go(r, Answered(r, 500, "template")) PROVE Replies(r)
  BY <1>0, <1>4, Statuses, RepliesNow, ZenonT(30)
<1>5. ASSUME Go(r, Answered(r, 404, req[r].by.from)) PROVE Replies(r)
  BY <1>0, <1>5, Statuses, RepliesNow, ZenonT(30)
<1> QED
  BY <1>1, <1>2, <1>3, <1>4, <1>5

\* executeRelRead: a template's query and its transaction.
LEMMA RelReadIs ==
  ASSUME NEW r \in Requests, Typing, executeRelRead(r)
  PROVE  Replies(r) \/ Begins(r)
<1>1. ASSUME req[r].pc = "relfunc", Open(r, "nested", {<<r, "rel()">>}, [pc |-> "relread"], Answered(r, 500, "template"))
      PROVE  Replies(r) \/ Begins(r)
  <2>1. ASSUME Go(r, Answered(r, 500, "template")), Quiet PROVE Replies(r)
    <3>1. /\ "template" \in {"", "site", "template", req[r].by.from} \cup file
          /\ req[r].pc \in {"static", "static_file", "serve", "render", "relfunc"}
      BY <1>1
    <3> QED
      BY <2>1, <3>1, Statuses, RepliesNow, ZenonT(30)
  <2>2. ASSUME NEW c \in Free, Go(r, [pc |-> "relread"]), UNCHANGED durable /\ Still,
               conns' = [conns EXCEPT ![c] = [owner |-> r, use |-> "nested", role |-> req[r].sess.role, pend |-> {<<r, "rel()">>}]]
        PROVE  Begins(r)
    <3>1. Turns(req[r], req'[r], "relread")
      BY <2>2, GoTurns, SMTT(30), ZenonT(30)
    <3>2. Changes(req[r], req'[r], {"pc", "cookies"}) /\ req'[r].cookies = req[r].cookies
      BY <3>1 DEF Turns, Changes
    <3>3. /\ req'[r].pc = BeginsAt(req[r].pc) /\ UseAt(req'[r]) = "nested"
          /\ BeginsWith(r, req[r].pc) = {<<r, "rel()">>}
      BY <3>1, <1>1 DEF BeginsAt, UseAt, BeginsWith, Turns
    <3> QED
      BY <1>1, <2>2, <3>2, <3>3, ZenonT(30) DEF Begins
  <2>3. \/ Go(r, Answered(r, 500, "template")) /\ Quiet
        \/ /\ Go(r, [pc |-> "relread"]) /\ UNCHANGED durable /\ Still
           /\ \E c \in Free : conns' = [conns EXCEPT ![c] = [owner |-> r, use |-> "nested", role |-> req[r].sess.role,
                                                             pend |-> {<<r, "rel()">>}]]
    BY <1>1, OpenIs
  <2> QED
    BY <2>1, <2>2, <2>3
<1>2. ASSUME req[r].pc = "relread",
             Commit(r, Held(r, "nested"), Release(Held(r, "nested")),
               Answered(r, StatusOf(req[r].resp), req[r].by.from), Answered(r, 500, "template"))
      PROVE  Replies(r)
  <2>1. UseAt(req[r]) = "nested" /\ Mine(r) = Held(r, "nested") /\ req[r].pc \in Showing
    BY <1>2 DEF UseAt, Mine, Showing
  <2>2. \/ Go(r, Answered(r, StatusOf(req[r].resp), req[r].by.from)) /\ Won(r)
        \/ Go(r, Answered(r, 500, "template")) /\ Tried(r)
    BY <1>2, <2>1, CommitIs
  <2>3. Won(r) => Tried(r)
    BY DEF Won, Tried
  <2>4. ASSUME Go(r, Answered(r, StatusOf(req[r].resp), req[r].by.from)), Tried(r) PROVE Replies(r)
    BY <1>2, <2>1, <2>4, StatusIs, RepliesIs, ZenonT(30)
  <2>5. ASSUME Go(r, Answered(r, 500, "template")), Tried(r) PROVE Replies(r)
    BY <1>2, <2>1, <2>5, Statuses, RepliesIs, ZenonT(30)
  <2> QED
    BY <2>2, <2>3, <2>4, <2>5
<1> QED
  BY <1>1, <1>2 DEF executeRelRead

\* Looking a name up among the files.
LEMMA ResolvingIs ==
  ASSUME NEW r \in Requests, Typing, NEW name, Go(r, Resolving(r, name)), Quiet,
         req[r].pc \in {"static_file", "static"}
  PROVE  Replies(r) \/ Shows(r)
<1>1. PICK found, resp : found = Resolve(Files, name) /\ resp = [Empty EXCEPT !.template = TRUE]
  BY Zenon
<1>2. \/ Go(r, [pc |-> "serve", found |-> found])
      \/ Go(r, [pc |-> "render", resp |-> resp])
      \/ Go(r, Answered(r, 404, ""))
  BY <1>1 DEF Resolving
<1>3. ASSUME Go(r, [pc |-> "serve", found |-> found]) PROVE Shows(r)
  <2>0. PICK f : f = [pc |-> "serve", found |-> found]
    BY Zenon
  <2>3. Go(r, f) /\ DOMAIN f = {"pc", "found"} /\ f.pc = "serve"
    BY <1>3, <2>0
  <2>1. Changes(req[r], req'[r], {"pc", "found"}) /\ req'[r].pc = "serve"
    BY <2>3, GoSets, SMTT(30), ZenonT(30) DEF Fields
  <2>2. Changes(req[r], req'[r], {"pc", "found", "resp"})
    BY <2>1 DEF Changes
  <2> QED
    BY <2>1, <2>2 DEF Shows
<1>4. ASSUME Go(r, [pc |-> "render", resp |-> resp]) PROVE Shows(r)
  <2>0. PICK f : f = [pc |-> "render", resp |-> resp]
    BY ZenonT(30)
  <2>3. Go(r, f) /\ DOMAIN f = {"pc", "resp"} /\ f.pc = "render"
    BY <1>4, <2>0
  <2>1. Changes(req[r], req'[r], {"pc", "resp"}) /\ req'[r].pc = "render"
    BY <2>3, GoSets, SMTT(30), ZenonT(30) DEF Fields
  <2>2. Changes(req[r], req'[r], {"pc", "found", "resp"})
    BY <2>1, SMTT(30), ZenonT(30) DEF Changes
  <2> QED
    BY <2>1, <2>2 DEF Shows
<1>5. ASSUME Go(r, Answered(r, 404, "")) PROVE Replies(r)
  BY <1>5, Statuses, RepliesNow, ZenonT(30)
<1> QED
  BY <1>2, <1>3, <1>4, <1>5

\* A static file or template, asked for or named by a function.
LEMMA StaticIs ==
  ASSUME NEW r \in Requests, Typing, serveStaticFileOrJet(r) \/ serveResolvedStatic(r)
  PROVE  Replies(r) \/ Shows(r)
<1>0. Quiet /\ req[r].pc \in {"static_file", "static"}
  BY DEF serveStaticFileOrJet, serveResolvedStatic, Quiet, disk
<1>1. \/ Go(r, Answered(r, 404, "")) \/ Go(r, Answered(r, 301, ""))
      \/ Go(r, Resolving(r, Served)) \/ Go(r, Resolving(r, asked[r].name))
  BY DEF serveStaticFileOrJet, serveResolvedStatic
<1>2. ASSUME Go(r, Answered(r, 404, "")) PROVE Replies(r)
  BY <1>0, <1>2, Statuses, RepliesNow, ZenonT(30)
<1>3. ASSUME Go(r, Answered(r, 301, "")) PROVE Replies(r)
  BY <1>0, <1>3, Statuses, RepliesNow, ZenonT(30)
<1> QED
  BY <1>0, <1>1, <1>2, <1>3, ResolvingIs

\* A file that was found is opened, or gone by then.
LEMMA ServeFileIs ==
  ASSUME NEW r \in Requests, Typing, ServeFile(r)
  PROVE  Replies(r)
<1>0. Quiet /\ req[r].pc = "serve"
  BY ZenonT(30) DEF ServeFile, Quiet, disk
<1>1. \/ Go(r, Answered(r, 404, "")) \/ Go(r, Answered(r, 200, "site"))
      \/ \E c \in file : Go(r, Answered(r, 200, c))
  BY DEF ServeFile
<1>2. ASSUME Go(r, Answered(r, 404, "")) PROVE Replies(r)
  BY <1>0, <1>2, Statuses, RepliesNow, ZenonT(30)
<1>3. ASSUME Go(r, Answered(r, 200, "site")) PROVE Replies(r)
  BY <1>0, <1>3, Statuses, RepliesNow, ZenonT(30)
<1>4. ASSUME NEW c \in file, Go(r, Answered(r, 200, c)) PROVE Replies(r)
  BY <1>0, <1>4, Statuses, RepliesNow, ZenonT(30)
<1> QED
  BY <1>1, <1>2, <1>3, <1>4, ZenonT(30)

\* handleRoute up to its transaction.
LEMMA HandleRouteIs ==
  ASSUME NEW r \in Requests, Typing, handleRoute(r)
  PROVE  Fails(r) \/ ToUpload(r) \/ Opens(r)
<1>0. Quiet /\ req[r].pc = "handle" /\ req[r].pc \in Early
  BY ZenonT(30) DEF handleRoute, Quiet, disk, Early
<1> DEFINE sess == Authenticate(asked[r].token, Now, site.anonymous).sess
<1>2. \/ \E status : status # 0 /\ Go(r, Ended(r, status, ""))
      \/ Go(r, [pc |-> "upload", sess |-> sess])
      \/ \E route \in req[r].route : Go(r, [pc |-> "open", mode |-> "route", sess |-> sess,
                                            chain |-> MiddlewareChain(Registered, route.anonPath)])
  <2>1. PICK route \in req[r].route :
         \/ Go(r, Ended(r, 401, ""))
         \/ Go(r, [pc |-> "upload", sess |-> sess])
         \/ \E status \in resolveRequestBody(route, asked[r].body) :
                  Go(r, IF status # 0 THEN Ended(r, status, "")
                        ELSE IF asked[r].badQuery THEN Ended(r, 400, "")
                        ELSE [pc |-> "open", mode |-> "route", sess |-> sess,
                              chain |-> MiddlewareChain(Registered, route.anonPath)])
    BY ZenonT(30) DEF handleRoute
  <2> HIDE DEF sess
  <2>2. ASSUME NEW status, Go(r, IF status # 0 THEN Ended(r, status, "")
                        ELSE IF asked[r].badQuery THEN Ended(r, 400, "")
                        ELSE [pc |-> "open", mode |-> "route", sess |-> sess,
                              chain |-> MiddlewareChain(Registered, route.anonPath)])
        PROVE  \/ \E st : st # 0 /\ Go(r, Ended(r, st, ""))
               \/ Go(r, [pc |-> "open", mode |-> "route", sess |-> sess,
                              chain |-> MiddlewareChain(Registered, route.anonPath)])
    <3>1. CASE status # 0
      BY <3>1, <2>2, ZenonT(30)
    <3>2. CASE status = 0 /\ asked[r].badQuery
      BY <3>2, <2>2, Statuses, ZenonT(30)
    <3>3. CASE status = 0 /\ ~asked[r].badQuery
      BY <3>3, <2>2
    <3> QED
      BY <3>1, <3>2, <3>3, ZenonT(30)
  <2>3. CASE Go(r, Ended(r, 401, ""))
    BY <2>3, Statuses, ZenonT(30)
  <2>4. CASE \E status \in resolveRequestBody(route, asked[r].body) :
                  Go(r, IF status # 0 THEN Ended(r, status, "")
                        ELSE IF asked[r].badQuery THEN Ended(r, 400, "")
                        ELSE [pc |-> "open", mode |-> "route", sess |-> sess,
                              chain |-> MiddlewareChain(Registered, route.anonPath)])
    BY <2>2, <2>4, ZenonT(30)
  <2> QED
    BY <2>1, <2>3, <2>4, ZenonT(30)
<1> HIDE DEF sess
<1>3. ASSUME NEW status, status # 0, Go(r, Ended(r, status, "")) PROVE Fails(r)
  BY <1>0, <1>3, FailsIs
<1>4. ASSUME Go(r, [pc |-> "upload", sess |-> sess]) PROVE ToUpload(r)
  <2>0. PICK f : f = [pc |-> "upload", sess |-> sess]
    BY ZenonT(30)
  <2>2. Go(r, f) /\ DOMAIN f = {"pc", "sess"} /\ f.pc = "upload"
    BY <1>4, <2>0, SMTT(30), ZenonT(30)
  <2>1. Changes(req[r], req'[r], {"pc", "sess"}) /\ req'[r].pc = "upload"
    BY <2>2, GoSets DEF Fields
  <2> QED
    BY <1>0, <2>1 DEF ToUpload
<1>5. ASSUME NEW route \in req[r].route, NEW chain, chain = MiddlewareChain(Registered, route.anonPath),
             Go(r, [pc |-> "open", mode |-> "route", sess |-> sess, chain |-> chain])
      PROVE  Opens(r)
  <2>0. PICK f : f = [pc |-> "open", mode |-> "route", sess |-> sess, chain |-> chain]
    BY ZenonT(30)
  <2>1. Go(r, f) /\ DOMAIN f = {"pc", "mode", "sess", "chain"} /\ f.pc = "open" /\ f.mode = "route" /\ f.chain = chain
    BY <1>5, <2>0, SMTT(30), ZenonT(30)
  <2>2. /\ Changes(req[r], req'[r], {"pc", "mode", "sess", "chain"})
        /\ req'[r].pc = "open" /\ req'[r].mode = "route" /\ req'[r].chain = chain
    BY <2>1, GoSets, SMTT(30), ZenonT(30) DEF Fields
  <2>3. Changes(req[r], req'[r], {"pc", "mode", "sess", "chain", "has"})
    BY <2>2 DEF Changes
  <2> QED
    BY <1>0, <1>5, <2>2, <2>3, ZenonT(30) DEF Opens
<1> QED
  BY <1>2, <1>3, <1>4, <1>5

\* handleUploadRoute up to its transaction.
LEMMA HandleUploadIs ==
  ASSUME NEW r \in Requests, Typing, handleUploadRoute(r)
  PROVE  Fails(r) \/ Opens(r)
<1>0. Quiet /\ req[r].pc = "upload" /\ req[r].pc \in Early
  BY DEF handleUploadRoute, Quiet, disk, Early
<1>1. PICK route, chain : route = (CHOOSE e \in req[r].route : TRUE) /\ chain = MiddlewareChain(Registered, route.anonPath)
  OBVIOUS
<1>2. route \in req[r].route
  <2>1. req[r].route # {}
    BY <1>0, Known, ZenonT(30) DEF Stage
  <2> QED
    BY <1>1, <2>1
<1>3. \/ Go(r, Ended(r, 415, "")) \/ Go(r, Ended(r, 413, "")) \/ Go(r, Ended(r, 400, ""))
      \/ \E has : Go(r, [pc |-> "open", mode |-> "upload", chain |-> chain, has |-> has])
  BY <1>1, ZenonT(30) DEF handleUploadRoute
<1>4. ASSUME NEW status, status # 0, Go(r, Ended(r, status, "")) PROVE Fails(r)
  BY <1>0, <1>4, FailsIs
<1>5. ASSUME NEW has, Go(r, [pc |-> "open", mode |-> "upload", chain |-> chain, has |-> has]) PROVE Opens(r)
  <2>0. PICK f : f = [pc |-> "open", mode |-> "upload", chain |-> chain, has |-> has]
    BY Zenon
  <2>1. Go(r, f) /\ DOMAIN f = {"pc", "mode", "chain", "has"} /\ f.pc = "open" /\ f.mode = "upload" /\ f.chain = chain
    BY <1>5, <2>0, SMTT(30), ZenonT(30)
  <2>2. /\ Changes(req[r], req'[r], {"pc", "mode", "chain", "has"})
        /\ req'[r].pc = "open" /\ req'[r].mode = "upload" /\ req'[r].chain = chain
    BY <2>1, GoSets, SMTT(30), ZenonT(30) DEF Fields
  <2>3. Changes(req[r], req'[r], {"pc", "mode", "sess", "chain", "has"})
    BY <2>2 DEF Changes
  <2> QED
    BY <1>0, <1>1, <1>2, <2>2, <2>3, Zenon DEF Opens
<1> QED
  BY <1>3, <1>4, <1>5, Statuses, ZenonT(30)

\* The call of a route's function, in either transaction.
LEMMA InvokeIs ==
  ASSUME NEW r \in Requests, Typing,
         NEW use, NEW call, NEW then,
         \/ req[r].pc = "call" /\ use = "main" /\ call = "route" /\ then = "commit"
         \/ req[r].pc = "second" /\ use = "second" /\ call = "second" /\ then = "commit2",
         Invoke(r, req[r].pc, use, call, then)
  PROVE  Raises(r) \/ Invokes(r)
<1>0. UNCHANGED durable /\ Still
  BY ZenonT(30) DEF Invoke, Still, disk
<1>1. /\ UseAt(req[r]) = use /\ Mine(r) = Held(r, use) /\ use \in {"main", "second"}
      /\ req[r].pc \in {"call", "second"}
      /\ then = (IF req[r].pc = "call" THEN "commit" ELSE "commit2")
      /\ call = (IF req[r].pc = "call" THEN "route" ELSE "second")
  <2>1. req[r].pc = "call" => req[r].mode = "route"
    BY Known, ZenonT(30) DEF Stage
  <2> QED
    BY <2>1 DEF UseAt, Mine
<1>2. ASSUME Go(r, Ended(r, 500, "raised")), conns' = Rollback(Held(r, use)) PROVE Raises(r)
  <2>1. EndTx(r)
    BY <1>1, <1>2 DEF EndTx
  <2> QED
    BY <1>0, <1>1, <1>2, <2>1, RaisesIs, ZenonT(30)
<1>3. ASSUME conns' = Calls(Held(r, use), <<r, call>>), NEW route \in req[r].route, NEW resp \in Answers(route),
             NEW said, said = Heard(r, route, call, resp),
             Go(r, [pc |-> then, resp |-> resp, said |-> said])
      PROVE  Invokes(r)
  <2>0. PICK f : f = [pc |-> then, resp |-> resp, said |-> said]
    BY ZenonT(30)
  <2>1. Go(r, f) /\ DOMAIN f = {"pc", "resp", "said"} /\ f.pc = then /\ f.resp = resp /\ f.said = said
    BY <1>3, <2>0, ZenonT(30)
  <2>2. /\ Changes(req[r], req'[r], {"pc", "resp", "said"})
        /\ req'[r].pc = then /\ req'[r].resp = resp /\ req'[r].said = said
    <3>1. PICK S : S = {"pc", "resp", "said"}
      BY Zenon
    <3>2. S \in SUBSET Fields /\ "pc" \in S /\ "resp" \in S /\ "said" \in S
      BY <3>1 DEF Fields
    <3>3. Changes(req[r], req'[r], S) /\ \A k \in S : req'[r][k] = f[k]
      BY <2>1, <3>1, <3>2, GoSets
    <3> QED
      BY <2>1, <3>1, <3>2, <3>3, ZenonT(30)
  <2>3. Called(r, <<r, call>>)
    BY <1>0, <1>1, <1>3, ZenonT(30) DEF Called
  <2>4. said = Hears(req[r].said, route.fn, call, resp)
    BY <1>3, ZenonT(30) DEF Heard, Hears
  <2> QED
    BY <1>1, <2>2, <2>3, <2>4, ZenonT(30) DEF Invokes
<1>4. \/ Go(r, Ended(r, 500, "raised")) /\ conns' = Rollback(Held(r, use))
      \/ /\ conns' = Calls(Held(r, use), <<r, call>>)
         /\ \E route \in req[r].route : \E resp \in Answers(route) :
              Go(r, [pc |-> then, resp |-> resp, said |-> Heard(r, route, call, resp)])
  BY Zenon DEF Invoke
<1> QED
  BY <1>2, <1>3, <1>4, ZenonT(30)

\* invokeRoute and the second call of an upload.
LEMMA CallIs ==
  ASSUME NEW r \in Requests, Typing, invokeRoute(r) \/ SecondCall(r)
  PROVE  Raises(r) \/ Invokes(r)
<1>1. CASE invokeRoute(r)
  <2>1. req[r].pc = "call" /\ Invoke(r, req[r].pc, "main", "route", "commit")
    BY <1>1, Zenon DEF invokeRoute, Invoke
  <2> QED
    BY <2>1, InvokeIs, ZenonT(30)
<1>2. CASE SecondCall(r)
  <2>1. req[r].pc = "second" /\ Invoke(r, req[r].pc, "second", "second", "commit2")
    BY <1>2, ZenonT(30) DEF SecondCall, Invoke
  <2> QED
    BY <2>1, InvokeIs
<1> QED
  BY <1>1, <1>2

\* What rendering a route's answer leaves.
LEMMA RenderRouteIs ==
  ASSUME NEW r \in Requests, Typing, NEW from, Go(r, RenderRoute(r, from))
  PROVE  ShowsRoute(r, from)
<1>1. PICK by : /\ by.from = from
                /\ RenderRoute(r, from) = Rendering(r, req[r].said, by, req[r].acc, req[r].resp, "finish")
  <2> DEFINE route == CHOOSE e \in req[r].route : TRUE
             by == [from |-> from, ident |-> route.fn, template |-> route.template # ""]
  <2>1. by.from = from /\ RenderRoute(r, from) = Rendering(r, req[r].said, by, req[r].acc, req[r].resp, "finish")
    BY ZenonT(30) DEF RenderRoute
  <2> QED
    BY <2>1
<1>2. Renders(site, req[r], req'[r], req[r].said, by, req[r].acc, req[r].resp, "finish")
  BY <1>1, GoRenders, SMTT(30), ZenonT(30)
<1> QED
  BY <1>1, <1>2 DEF ShowsRoute

\* The commit of a route's transaction.
LEMMA CommitRouteIs ==
  ASSUME NEW r \in Requests, Typing, CommitRoute(r)
  PROVE  Commits(r) \/ Loses(r)
<1>0. /\ req[r].pc = "commit" 
      /\ Commit(r, Held(r, "main"), Rollback(Held(r, "main")), RenderRoute(r, "route"), Ended(r, 500, ""))
  BY ZenonT(30) DEF CommitRoute
<1>1. UseAt(req[r]) = "main" /\ Mine(r) = Held(r, "main")
  <2>1. req[r].mode = "route"
    BY <1>0, Known, ZenonT(30) DEF Stage
  <2> QED
    BY <2>1, <1>0 DEF UseAt, Mine
<1>2. \/ Go(r, RenderRoute(r, "route")) /\ Won(r)
      \/ Go(r, Ended(r, 500, "")) /\ Tried(r)
  BY <1>0, <1>1, CommitIs, ZenonT(30)
<1>3. ASSUME Go(r, RenderRoute(r, "route")), Won(r) PROVE Commits(r)
  BY <1>0, <1>3, RenderRouteIs, ZenonT(30) DEF Commits
<1> QED
  BY <1>0, <1>2, <1>3, LosesIs, ZenonT(30)

\* The commit of an upload's second transaction.
LEMMA CommitSecondIs ==
  ASSUME NEW r \in Requests, Typing, CommitSecond(r)
  PROVE  Commits(r) \/ Proceeds(r) \/ Loses(r)
<1>4. PICK then : then = IF Placed(r) THEN [pc |-> "swap"] ELSE RenderRoute(r, "second")
  BY Zenon
<1>0. /\ req[r].pc = "commit2" 
      /\ Commit(r, Held(r, "second"), Rollback(Held(r, "second")), then, Ended(r, 500, ""))
  BY <1>4, ZenonT(30) DEF CommitSecond
<1>1. UseAt(req[r]) = "second" /\ Mine(r) = Held(r, "second")
  BY <1>0, ZenonT(30) DEF UseAt, Mine
<1>2. \/ Go(r, then) /\ Won(r)
      \/ Go(r, Ended(r, 500, "")) /\ Tried(r)
  BY <1>0, <1>1, CommitIs, ZenonT(30)
<1>3. ASSUME then = RenderRoute(r, "second"), Go(r, then), Won(r) PROVE Commits(r)
  BY <1>0, <1>3, RenderRouteIs, ZenonT(30) DEF Commits
<1>5. ASSUME then = [pc |-> "swap"], Go(r, then), Won(r) PROVE Proceeds(r)
  BY <1>0, <1>5, GoTurns DEF Proceeds
<1> QED
  BY <1>0, <1>2, <1>3, <1>4, <1>5, LosesIs, ZenonT(30)

\* The first call of an upload: it raises, or says where the file goes.
LEMMA FirstCallIs ==
  ASSUME NEW r \in Requests, Typing, FirstCall(r)
  PROVE  Raises(r) \/ Decides(r)
<1>0. req[r].pc = "first" /\ UNCHANGED durable /\ Still
  BY Zenon DEF FirstCall, Still, disk
<1>1. UseAt(req[r]) = "first" /\ Mine(r) = Held(r, "first")
  <2>1. req[r].mode = "upload"
    BY <1>0, Known, ZenonT(30) DEF Stage
  <2> QED
    BY <2>1, <1>0 DEF UseAt, Mine
<1>2. ASSUME Go(r, Ended(r, 500, "raised")), conns' = Release(Held(r, "first")) PROVE Raises(r)
  <2>1. EndTx(r)
    BY <1>1, <1>2, SMTT(30), ZenonT(30) DEF EndTx
  <2> QED
    BY <1>0, <1>1, <1>2, <2>1, RaisesIs, ZenonT(30)
<1>3. ASSUME conns' = Calls(Held(r, "first"), <<r, "first">>), NEW d, Go(r, [pc |-> "commit1", upload |-> d])
      PROVE  Decides(r)
  <2>0. PICK f : f = [pc |-> "commit1", upload |-> d]
    BY Zenon
  <2>3. Go(r, f) /\ DOMAIN f = {"pc", "upload"} /\ f.pc = "commit1"
    BY <1>3, <2>0
  <2>1. Changes(req[r], req'[r], {"pc", "upload"}) /\ req'[r].pc = "commit1"
    BY <2>3, GoSets, SMTT(30), ZenonT(30) DEF Fields
  <2>2. Called(r, <<r, "first">>)
    BY <1>0, <1>1, <1>3, SMTT(30), ZenonT(30) DEF Called
  <2> QED
    BY <1>0, <2>1, <2>2 DEF Decides
<1> QED
  BY <1>2, <1>3, ZenonT(30) DEF FirstCall

\* The commit of an upload's first transaction.
LEMMA CommitFirstIs ==
  ASSUME NEW r \in Requests, Typing, CommitFirst(r)
  PROVE  Proceeds(r) \/ Loses(r)
<1>0. /\ req[r].pc = "commit1" 
      /\ Commit(r, Held(r, "first"), Release(Held(r, "first")), [pc |-> "place"], Ended(r, 500, ""))
  BY DEF CommitFirst
<1>1. UseAt(req[r]) = "first" /\ Mine(r) = Held(r, "first")
  <2>1. req[r].mode = "upload"
    BY <1>0, Known, ZenonT(30) DEF Stage
  <2> QED
    BY <2>1, <1>0 DEF UseAt, Mine
<1>2. \/ Go(r, [pc |-> "place"]) /\ Won(r)
      \/ Go(r, Ended(r, 500, "")) /\ Tried(r)
  BY <1>0, <1>1, CommitIs, ZenonT(30)
<1>3. ASSUME Go(r, [pc |-> "place"]), Won(r) PROVE Proceeds(r)
  BY <1>0, <1>3, GoTurns DEF Proceeds
<1> QED
  BY <1>0, <1>2, <1>3, LosesIs, ZenonT(30)

\* The destination is refused, or the body is read.
LEMMA PlaceIs ==
  ASSUME NEW r \in Requests, Typing, Place(r)
  PROVE  Fails(r) \/ Goes(r)
<1>0. Quiet /\ req[r].pc = "place"
  BY DEF Place, Quiet, disk
<1>1. \/ Go(r, [pc |-> "open2"]) \/ Go(r, [pc |-> "stream"])
      \/ Go(r, Ended(r, 500, "")) \/ Go(r, Ended(r, 409, ""))
  BY DEF Place
<1>2. ASSUME NEW status, status # 0, Go(r, Ended(r, status, "")) PROVE Fails(r)
  BY <1>0, <1>2, FailsIs
<1>3. ASSUME Go(r, [pc |-> "open2"]) PROVE Goes(r)
  BY <1>0, <1>3, GoTurns, SMTT(30), ZenonT(30) DEF Goes
<1>4. ASSUME Go(r, [pc |-> "stream"]) PROVE Goes(r)
  BY <1>0, <1>4, GoTurns DEF Goes
<1> QED
  BY <1>1, <1>2, <1>3, <1>4, Statuses, ZenonT(30)

\* The body is staged in a file of its own, or refused.
LEMMA StreamIs ==
  ASSUME NEW r \in Requests, Typing, Stream(r)
  PROVE  Fails(r) \/ Streams(r)
<1>0. req[r].pc = "stream" /\ UNCHANGED <<conns, durable, file, backups, moves>>
  BY ZenonT(30) DEF Stream
<1> DEFINE b == asked[r].body
           stopped == (IF b.size > Limit(r) THEN {413} ELSE {})
                        \cup (IF b.broken THEN {400} ELSE {})
                        \cup (IF b.ctype = "multipart" /\ b.parts > 1 THEN {415} ELSE {})
           all == (IF stopped = {} THEN {0} ELSE stopped) \cup (IF req[r].cut THEN {400} ELSE {})
<1>1. \/ Go(r, Ended(r, 500, "")) /\ temps' = temps
      \/ /\ temps' = temps \cup {r}
         /\ \E status \in all : Go(r, IF status # 0 THEN Ended(r, status, "") ELSE [pc |-> "open2"])
  BY DEF Stream
<1> HIDE DEF all
<1>2. ASSUME NEW status, status # 0, Go(r, Ended(r, status, "")), temps' = temps \/ temps' = temps \cup {r} PROVE Fails(r)
  <2>1. Ends(req[r], req'[r], "")
    BY <1>2, GoEnds
  <2> QED
    BY <1>0, <1>2, <2>1 DEF Fails
<1>3. ASSUME Go(r, [pc |-> "open2"]), temps' = temps \cup {r} PROVE Streams(r)
  BY <1>0, <1>3, GoTurns DEF Streams
<1>4. ASSUME NEW status, Go(r, IF status # 0 THEN Ended(r, status, "") ELSE [pc |-> "open2"]), temps' = temps \cup {r}
      PROVE  Fails(r) \/ Streams(r)
  <2>1. CASE status # 0
    BY <2>1, <1>2, <1>4
  <2>2. CASE status = 0
    BY <2>2, <1>3, <1>4
  <2> QED
    BY <2>1, <2>2
<1>5. CASE Go(r, Ended(r, 500, "")) /\ temps' = temps
  BY <1>2, <1>5, Statuses, ZenonT(30)
<1>6. CASE /\ temps' = temps \cup {r}
           /\ \E status \in all : Go(r, IF status # 0 THEN Ended(r, status, "") ELSE [pc |-> "open2"])
  BY <1>4, <1>6
<1> QED
  BY <1>1, <1>5, <1>6, ZenonT(30)

\* The steps of the swap: backup, move, restore, drop.
LEMMA SwapIs ==
  ASSUME NEW r \in Requests, Typing, SwapStat(r) \/ SwapBackup(r) \/ SwapMove(r) \/ SwapRestore(r) \/ SwapDrop(r)
  PROVE  Goes(r) \/ BacksUp(r) \/ SwapFails(r) \/ MovesIn(r) \/ Restores(r) \/ Drops(r)
<1>1. CASE SwapStat(r)
  <2>0. Quiet /\ req[r].pc = "swap"
    BY <1>1 DEF SwapStat, Quiet, disk
  <2>1. Go(r, [pc |-> "backup"]) \/ Go(r, [pc |-> "move"])
    BY <1>1, SMTT(30), ZenonT(30) DEF SwapStat
  <2>2. Turns(req[r], req'[r], "backup") \/ Turns(req[r], req'[r], "move")
    BY <2>1, GoTurns
  <2> QED
    BY <2>0, <2>2, SMTT(30), ZenonT(30) DEF Goes
<1>2. CASE SwapBackup(r)
  <2>1. ASSUME Go(r, [pc |-> "move"]), file # {}, backups' = [backups EXCEPT ![r] = file], file' = {}, UNCHANGED temps
        PROVE  BacksUp(r)
    BY <1>2, <2>1, GoTurns, ZenonT(30) DEF BacksUp, SwapBackup
  <2>2. ASSUME Go(r, Ended(r, 500, "swap")), temps' = temps \ {r}, UNCHANGED <<file, backups>>
        PROVE  SwapFails(r)
    BY <1>2, <2>2, GoEnds, Statuses, ZenonT(30) DEF SwapFails, SwapBackup
  <2> QED
    BY <1>2, <2>1, <2>2, ZenonT(30) DEF SwapBackup
<1>3. CASE SwapMove(r)
  <2>1. ASSUME Go(r, [pc |-> "drop"]), file' = {r} /\ temps' = temps \ {r} /\ moves' = Append(moves, r)
        PROVE  MovesIn(r)
    BY <1>3, <2>1, GoTurns, ZenonT(30) DEF MovesIn, SwapMove
  <2>2. ASSUME Go(r, [pc |-> "restore"]), UNCHANGED <<file, temps, moves>>
        PROVE  Goes(r)
    <3>1. Quiet /\ req[r].pc = "move"
      BY <1>3, <2>2 DEF SwapMove, Quiet
    <3> QED
      BY <3>1, <2>2, GoTurns, Zenon DEF Goes
  <2> QED
    BY <1>3, <2>1, <2>2, ZenonT(30) DEF SwapMove
<1>4. CASE SwapRestore(r)
  <2>1. Ends(req[r], req'[r], "restored")
    BY <1>4, GoEnds, Statuses, SMTT(30), ZenonT(30) DEF SwapRestore
  <2> QED
    BY <1>4, <2>1, ZenonT(30) DEF SwapRestore, Restores
<1>5. CASE SwapDrop(r)
  <2>1. ShowsRoute(r, "second")
    BY <1>5, RenderRouteIs, SMTT(30), ZenonT(30) DEF SwapDrop
  <2> QED
    BY <1>5, <2>1, SMTT(30), ZenonT(30) DEF SwapDrop, Drops
<1> QED
  BY <1>1, <1>2, <1>3, <1>4, <1>5, SMTT(30), ZenonT(30)

\* The end of a request.
LEMMA FinishIs ==
  ASSUME NEW r \in Requests, Typing, Finish(r)
  PROVE  Finishes(r)
<1>1. PICK f : f = [pc |-> "done", resp |-> Empty, acc |-> Silent, after |-> "", found |-> Missing]
  OBVIOUS
<1>2. Go(r, f)
  BY <1>1, ZenonT(30) DEF Finish
<1>3. DOMAIN f = {"pc", "resp", "acc", "after", "found"} /\ f.pc = "done" /\ f.acc = Silent
  BY <1>1, ZenonT(30)
<1>4. Changes(req[r], req'[r], {"pc", "resp", "acc", "after", "found"}) /\ req'[r].pc = "done" /\ req'[r].acc = Silent
  BY <1>2, <1>3, GoSets DEF Fields
<1> QED
  BY <1>4 DEF Finish, Finishes

\* Every step of a handler has one of the outcomes.
LEMMA StepIs ==
  ASSUME NEW r \in Requests, Typing, Step(r)
  PROVE  \/ Fails(r) \/ Raises(r) \/ Loses(r) \/ Replies(r) \/ Shows(r) \/ Begins(r)
         \/ ToGate(r) \/ ToHandle(r) \/ Ungated(r) \/ Opens(r) \/ ToUpload(r)
         \/ ChainGoes(r) \/ ChainStops(r) \/ GatePasses(r) \/ ChainEnds(r)
         \/ Goes(r) \/ RelAnswers(r) \/ Invokes(r) \/ Commits(r) \/ Decides(r) \/ Proceeds(r)
         \/ Streams(r) \/ BacksUp(r) \/ SwapFails(r) \/ MovesIn(r) \/ Restores(r) \/ Drops(r)
         \/ Finishes(r)
<1>1. CASE Routing(r)
  BY <1>1, DispatchIs, GateIs, OpenChainIs, RunChainIs, HandledIs, ChainPassedIs, SMTT(30), ZenonT(30) DEF Routing
<1>2. CASE Rendered(r)
  BY <1>2, TemplateIs, RelReadIs, StaticIs, ServeFileIs DEF Rendered
<1>3. CASE Routed(r)
  BY <1>3, HandleRouteIs, CallIs, CommitRouteIs DEF Routed
<1>4. CASE Uploading(r)
  <2>1. CASE SwapStat(r) \/ SwapBackup(r) \/ SwapMove(r) \/ SwapRestore(r) \/ SwapDrop(r)
    BY <2>1, SwapIs
  <2>2. CASE handleUploadRoute(r) \/ FirstCall(r) \/ CommitFirst(r) \/ Place(r) \/ Stream(r)
    BY <2>2, HandleUploadIs, FirstCallIs, CommitFirstIs, PlaceIs, StreamIs
  <2>3. CASE OpenSecond(r) \/ SecondCall(r) \/ CommitSecond(r)
    BY <2>3, OpenSecondIs, CallIs, CommitSecondIs
  <2> QED
    BY <1>4, <2>1, <2>2, <2>3, Zenon DEF Uploading
<1>5. CASE handleRel(r)
  BY <1>5, HandleRelIs
<1>6. CASE Finish(r)
  BY <1>6, FinishIs
<1> QED
  BY <1>1, <1>2, <1>3, <1>4, <1>5, <1>6, ZenonT(30) DEF Step

\* The other handlers stay as they are.
Only(r) == DOMAIN req' = Requests /\ \A s \in Requests \ {r} : req'[s] = req[s]

\* A handler changes no other.
LEMMA GoOnly ==
  ASSUME NEW r \in Requests, Typing, NEW f, Go(r, f)
  PROVE  Only(r)
BY Known, GoIs, Zenon DEF Only

\* Nor does any step of it.
LEMMA OthersStay ==
  ASSUME NEW r \in Requests, Typing, Step(r)
  PROVE  Only(r)
<1>1. CASE Routing(r)
  <2>1. CASE Dispatch(r) \/ GateMiddleware(r) \/ OpenChain(r)
    BY <2>1, GoOnly DEF Dispatch, GateMiddleware, OpenChain, Open
  <2>2. CASE runMiddlewareChain(r)
    BY <2>2, GoOnly, ZenonT(30) DEF runMiddlewareChain
  <2>3. CASE Handled(r) \/ ChainPassed(r)
    BY <2>3, GoOnly, ZenonT(30) DEF Handled, ChainPassed, Commit
  <2> QED
    BY <1>1, <2>1, <2>2, <2>3, SMTT(30), ZenonT(30) DEF Routing
<1>2. CASE Rendered(r)
  BY <1>2, GoOnly, ZenonT(30) DEF Rendered, writeTemplateResponse, renderFullControlResponse, executeRelRead, serveStaticFileOrJet,
              serveResolvedStatic, ServeFile, Open, Commit
<1>3. CASE Routed(r)
  BY <1>3, GoOnly, ZenonT(30) DEF Routed, handleRoute, invokeRoute, Invoke, CommitRoute, Commit
<1>4. CASE Uploading(r)
  <2>1. CASE SwapStat(r) \/ SwapBackup(r) \/ SwapMove(r) \/ SwapRestore(r) \/ SwapDrop(r)
    BY <2>1, GoOnly, ZenonT(30) DEF SwapStat, SwapBackup, SwapMove, SwapRestore, SwapDrop
  <2>2. CASE handleUploadRoute(r) \/ FirstCall(r) \/ CommitFirst(r) \/ Place(r) \/ Stream(r)
    <3>1. CASE handleUploadRoute(r) \/ Place(r)
      BY <3>1, GoOnly, ZenonT(30) DEF handleUploadRoute, Place
    <3>2. CASE FirstCall(r) \/ CommitFirst(r)
      BY <3>2, GoOnly, Zenon DEF FirstCall, CommitFirst, Commit
    <3>3. CASE Stream(r)
      <4> DEFINE b == asked[r].body
                 stopped == (IF b.size > Limit(r) THEN {413} ELSE {})
                              \cup (IF b.broken THEN {400} ELSE {})
                              \cup (IF b.ctype = "multipart" /\ b.parts > 1 THEN {415} ELSE {})
                 all == (IF stopped = {} THEN {0} ELSE stopped) \cup (IF req[r].cut THEN {400} ELSE {})
      <4>1. \/ Go(r, Ended(r, 500, ""))
            \/ \E status \in all : Go(r, IF status # 0 THEN Ended(r, status, "") ELSE [pc |-> "open2"])
        BY <3>3 DEF Stream
      <4> HIDE DEF all
      <4> QED
        BY <4>1, GoOnly, ZenonT(30)
    <3> QED
      BY <2>2, <3>1, <3>2, <3>3
  <2>3. CASE OpenSecond(r) \/ SecondCall(r) \/ CommitSecond(r)
    BY <2>3, GoOnly, ZenonT(30) DEF OpenSecond, SecondCall, CommitSecond, Open, Invoke, Commit
  <2> QED
    BY <1>4, <2>1, <2>2, <2>3 DEF Uploading
<1>5. CASE handleRel(r)
  BY <1>5, GoOnly, ZenonT(30) DEF handleRel, Open, Commit
<1>6. CASE Finish(r)
  BY <1>6, GoOnly DEF Finish
<1> QED
  BY <1>1, <1>2, <1>3, <1>4, <1>5, <1>6 DEF Step

-----------------------------------------------------------------------------
(* Types and stages.                                                       *)

\* What is known of one handler.
Local(q) == QType(q) /\ Stage(q) /\ Answering(q)

\* Typing, of one handler.
LEMMA Locally == ASSUME NEW r \in Requests, Typing PROVE Local(req[r])
BY DEF Typing, Local

\* A handler that ends its request with an answer.
LEMMA EndsLocal ==
  ASSUME NEW q, NEW z, NEW from, Local(q), Ends(q, z, from)
  PROVE  Local(z)
<1>1. QType(z)
  BY ZenonT(30) DEF Local, Ends, Changes, QType, Speaks, Pcs, Working
<1>2. Stage(z)
  BY ZenonT(30) DEF Local, Ends, Stage, Early, FirstTx, Between, Swapping, Showing, Querying
<1>3. Answering(z)
  BY Zenon DEF Local, Ends, Answering, Speaks, Over
<1> QED
  BY <1>1, <1>2, <1>3 DEF Local

\* A handler that renders an answer.
LEMMA SaysLocal ==
  ASSUME NEW q, NEW z, NEW from, Local(q), Says(q, z, from), q.pc \in Showing \cup {"static"}
  PROVE  Local(z)
<1>0. z.pc \in {"handled", "finish"}
  BY DEF Local, Says, Stage
<1>1. QType(z)
  BY <1>0, ZenonT(30) DEF Local, Says, Changes, QType, Speaks, Pcs, Working
<1>2. Stage(z)
  BY <1>0, ZenonT(30) DEF Local, Stage, Early, FirstTx, Between, Swapping, Showing, Querying
<1>3. Answering(z)
  BY <1>0, Zenon DEF Local, Says, Answering, Speaks, Over
<1> QED
  BY <1>1, <1>2, <1>3, SMTT(30), ZenonT(30) DEF Local

\* Only the point changes.
LEMMA TurnsLocal ==
  ASSUME NEW q, NEW z, NEW p, Local(q), Turns(q, z, p), q.pc \in Between \cup Swapping, p \in Between \cup Swapping
  PROVE  Local(z)
<1>1. QType(z)
  BY DEF Local, Turns, Changes, QType, Pcs, Working, Between, Swapping
<1>2. Stage(z)
  BY ZenonT(30) DEF Local, Turns, Changes, Stage, Early, FirstTx, Between, Swapping, Showing, Querying
<1>3. Answering(z)
  BY DEF Local, Turns, Changes, Answering, Over, Between, Swapping
<1> QED
  BY <1>1, <1>2, <1>3, SMTT(30), ZenonT(30) DEF Local

\* A handler that starts to render.
LEMMA RendersLocal ==
  ASSUME NEW w, NEW q, NEW z, NEW said, NEW by, NEW acc, NEW resp, NEW after, Local(q),
         Renders(w, q, z, said, by, acc, resp, after), q.out.status = 0,
         by.from \in {"middleware", "route", "second"}, after \in {"handled", "finish"},
         after = "handled" => by.from = "middleware" /\ q.mode # ""
  PROVE  Local(z)
<1>0. z.pc \in Showing /\ q.mode = z.mode
  BY ZenonT(30) DEF Renders, Changes, Showing
<1>1. QType(z)
  BY <1>0, ZenonT(30) DEF Local, Renders, Changes, Applies, QType, Pcs, Working, Showing
<1>2. Stage(z)
  BY <1>0, ZenonT(30) DEF Local, QType, Renders, Stage, Early, FirstTx, Between, Swapping, Showing, Querying
<1>3. Answering(z)
  BY <1>0, ZenonT(30) DEF Local, Renders, Applies, Answering, Over, Showing
<1> QED
  BY <1>1, <1>2, <1>3, ZenonT(30) DEF Local

\* A handler that passed its gate.
LEMMA ForwardsLocal ==
  ASSUME NEW w, NEW q, NEW z, NEW acc, Local(q), Forwards(w, q, z, acc), q.pc \in {"gate", "chain"}, q.route = {}
  PROVE  Local(z)
<1>0. z.pc \in {"rel", "static"} /\ z.route = {} /\ q.mode = z.mode /\ q.out.status = 0
  BY DEF Forwards, Changes, Local, Stage, Answering, Over
<1>4. z.pc = "static" => z.by.from = "static"
  BY <1>0 DEF Forwards, NoOne
<1>1. QType(z)
  BY <1>0 DEF Local, Forwards, Changes, Applies, QType, Pcs, Working
<1>2. Stage(z)
  BY <1>0, <1>4 DEF Forwards, Stage, Early, FirstTx, Between, Swapping, Showing, Querying
<1>3. Answering(z)
  BY <1>0, ZenonT(30) DEF Local, Forwards, Applies, Answering, Over
<1> QED
  BY <1>1, <1>2, <1>3 DEF Local

\* A step leaves the state of its handler as it should be.
LEMMA LocalStep ==
  ASSUME NEW r \in Requests, Typing, Step(r)
  PROVE  Local(req'[r])
<1>0. Local(req[r])
  BY Locally
<1>1. CASE Fails(r)
  BY <1>0, <1>1, EndsLocal, ZenonT(30) DEF Fails
<1>2. CASE Raises(r)
  BY <1>0, <1>2, EndsLocal DEF Raises
<1>3. CASE Loses(r)
  BY <1>0, <1>3, EndsLocal, ZenonT(30) DEF Loses
<1>4. CASE Replies(r)
  BY <1>0, <1>4, SaysLocal DEF Replies
<1>5. CASE Shows(r)
  <2>1. QType(req'[r])
    BY <1>0, <1>5, ZenonT(30) DEF Shows, Local, Changes, QType, Pcs, Working
  <2>2. Stage(req'[r])
    BY <1>0, <1>5, ZenonT(30) DEF Shows, Local, Changes, Stage, QType, Early, FirstTx, Between, Swapping, Showing, Querying, Over
  <2>3. Answering(req'[r])
    BY <1>0, <1>5, ZenonT(30) DEF Shows, Local, Changes, Answering, Early, FirstTx, Between, Swapping, Showing, Querying, Over
  <2> QED
    BY <2>1, <2>2, <2>3 DEF Local
<1>6. CASE Begins(r)
  <2>1. QType(req'[r])
    BY <1>0, <1>6, Zenon DEF Begins, Local, Changes, QType, Pcs, Working, BeginsAt
  <2>2. Stage(req'[r])
    BY <1>0, <1>6, ZenonT(30) DEF Begins, Local, Changes, Stage, QType, Early, FirstTx, Between, Swapping, Showing, Querying, Over, BeginsAt
  <2>3. Answering(req'[r])
    BY <1>0, <1>6, ZenonT(30) DEF Begins, Local, Changes, Answering, Early, FirstTx, Between, Swapping, Showing, Querying, Over, BeginsAt
  <2> QED
    BY <2>1, <2>2, <2>3 DEF Local
<1>7. CASE ToGate(r)
  <2>1. QType(req'[r])
    BY <1>0, <1>7, ZenonT(30) DEF ToGate, Local, Changes, QType, Pcs, Working
  <2>2. Stage(req'[r])
    BY <1>0, <1>7, ZenonT(30) DEF ToGate, Local, Changes, Stage, QType, Early, FirstTx, Between, Swapping, Showing, Querying, Over
  <2>3. Answering(req'[r])
    BY <1>0, <1>7, ZenonT(30) DEF ToGate, Local, Changes, Answering, Early, FirstTx, Between, Swapping, Showing, Querying, Over
  <2> QED
    BY <2>1, <2>2, <2>3 DEF Local
<1>8. CASE ToHandle(r)
  <2>1. QType(req'[r])
    BY <1>0, <1>8, ZenonT(30) DEF ToHandle, Local, Changes, QType, Pcs, Working
  <2>2. Stage(req'[r])
    BY <1>0, <1>8, ZenonT(30) DEF ToHandle, Local, Changes, Stage, QType, Early, FirstTx, Between, Swapping, Showing, Querying, Over
  <2>3. Answering(req'[r])
    BY <1>0, <1>8, ZenonT(30) DEF ToHandle, Local, Changes, Answering, Early, FirstTx, Between, Swapping, Showing, Querying, Over
  <2> QED
    BY <2>1, <2>2, <2>3 DEF Local
<1>9. CASE Ungated(r)
  <2>1. req[r].route = {}
    BY <1>0, <1>9, ZenonT(30) DEF Ungated, Local, Stage
  <2> QED
    BY <1>0, <1>9, <2>1, ForwardsLocal, ZenonT(30) DEF Ungated
<1>10. CASE Opens(r)
  <2>1. QType(req'[r])
    BY <1>0, <1>10, ZenonT(30) DEF Opens, Local, Changes, QType, Pcs, Working
  <2>2. Stage(req'[r])
    BY <1>0, <1>10, ZenonT(30) DEF Opens, Local, Changes, Stage, QType, Early, FirstTx, Between, Swapping, Showing, Querying, Over
  <2>3. Answering(req'[r])
    BY <1>0, <1>10, ZenonT(30) DEF Opens, Local, Changes, Answering, Early, FirstTx, Between, Swapping, Showing, Querying, Over
  <2> QED
    BY <2>1, <2>2, <2>3 DEF Local
<1>11. CASE ToUpload(r)
  <2>1. QType(req'[r])
    BY <1>0, <1>11, ZenonT(30) DEF ToUpload, Local, Changes, QType, Pcs, Working
  <2>2. Stage(req'[r])
    BY <1>0, <1>11, ZenonT(30) DEF ToUpload, Local, Changes, Stage, QType, Early, FirstTx, Between, Swapping, Showing, Querying, Over
  <2>3. Answering(req'[r])
    BY <1>0, <1>11, ZenonT(30) DEF ToUpload, Local, Changes, Answering, Early, FirstTx, Between, Swapping, Showing, Querying, Over
  <2> QED
    BY <2>1, <2>2, <2>3 DEF Local
<1>12. CASE ChainGoes(r)
  <2>1. QType(req'[r])
    BY <1>0, <1>12, Zenon DEF ChainGoes, Local, Changes, QType, Pcs, Working, IsAcc, mergeSideEffects
  <2>2. Stage(req'[r])
    BY <1>0, <1>12, ZenonT(30) DEF ChainGoes, Local, Changes, Stage, QType, Early, FirstTx, Between, Swapping, Showing, Querying, Over
  <2>3. Answering(req'[r])
    BY <1>0, <1>12, ZenonT(30) DEF ChainGoes, Local, Changes, Answering, Early, FirstTx, Between, Swapping, Showing, Querying, Over
  <2> QED
    BY <2>1, <2>2, <2>3 DEF Local
<1>13. CASE ChainStops(r)
  <2>1. req[r].out.status = 0 /\ req[r].mode # ""
    BY <1>0, <1>13, ZenonT(30) DEF ChainStops, Local, Stage, Answering, Over
  <2> QED
    BY <1>0, <1>13, <2>1, RendersLocal, ZenonT(30) DEF ChainStops
<1>14. CASE GatePasses(r)
  <2>1. req[r].route = {}
    BY <1>0, <1>14, ZenonT(30) DEF GatePasses, Local, Stage
  <2> QED
    BY <1>0, <1>14, <2>1, ForwardsLocal, ZenonT(30) DEF GatePasses
<1>15. CASE ChainEnds(r)
  <2>1. QType(req'[r])
    BY <1>0, <1>15, Zenon DEF ChainEnds, Local, Changes, QType, Pcs, Working
  <2>2. Stage(req'[r])
    BY <1>0, <1>15, ZenonT(30) DEF ChainEnds, Local, Changes, Stage, QType, Early, FirstTx, Between, Swapping, Showing, Querying, Over
  <2>3. Answering(req'[r])
    BY <1>0, <1>15, ZenonT(30) DEF ChainEnds, Local, Changes, Answering, Early, FirstTx, Between, Swapping, Showing, Querying, Over
  <2> QED
    BY <2>1, <2>2, <2>3 DEF Local
<1>16. CASE Goes(r)
  <2>1. CASE req[r].pc = "rel" /\ Turns(req[r], req'[r], "relopen")
    <3>1. QType(req'[r])
      BY <1>0, <2>1, ZenonT(30) DEF Goes, Turns, Local, Changes, QType, Pcs, Working
    <3>2. Stage(req'[r])
      BY <1>0, <2>1, ZenonT(30) DEF Goes, Turns, Local, Changes, Stage, QType, Early, FirstTx, Between, Swapping, Showing, Querying, Over
    <3>3. Answering(req'[r])
      BY <1>0, <2>1, ZenonT(30) DEF Goes, Turns, Local, Changes, Answering, Early, FirstTx, Between, Swapping, Showing, Querying, Over
    <3> QED
      BY <3>1, <3>2, <3>3 DEF Local
  <2>2. CASE ~(req[r].pc = "rel" /\ Turns(req[r], req'[r], "relopen"))
    BY <1>0, <1>16, <2>2, TurnsLocal, ZenonT(30) DEF Goes, Between, Swapping
  <2> QED
    BY <2>1, <2>2
<1>17. CASE RelAnswers(r)
  BY <1>0, <1>17, EndsLocal DEF RelAnswers
<1>18. CASE Invokes(r)
  <2>1. QType(req'[r])
    BY <1>0, <1>18, Zenon DEF Invokes, Local, Changes, QType, Pcs, Working
  <2>2. Stage(req'[r])
    BY <1>0, <1>18, ZenonT(30) DEF Invokes, Local, Changes, Stage, QType, Early, FirstTx, Between, Swapping, Showing, Querying, Over
  <2>3. Answering(req'[r])
    BY <1>0, <1>18, ZenonT(30) DEF Invokes, Local, Changes, Answering, Early, FirstTx, Between, Swapping, Showing, Querying, Over
  <2> QED
    BY <2>1, <2>2, <2>3 DEF Local
<1>19. CASE Commits(r)
  <2>1. req[r].out.status = 0
    BY <1>0, <1>19 DEF Commits, Local, Answering, Over
  <2> QED
    BY <1>0, <1>19, <2>1, RendersLocal, ZenonT(30) DEF Commits, ShowsRoute
<1>20. CASE Decides(r)
  <2>1. QType(req'[r])
    BY <1>0, <1>20, ZenonT(30) DEF Decides, Local, Changes, QType, Pcs, Working
  <2>2. Stage(req'[r])
    BY <1>0, <1>20, ZenonT(30) DEF Decides, Local, Changes, Stage, QType, Early, FirstTx, Between, Swapping, Showing, Querying, Over
  <2>3. Answering(req'[r])
    BY <1>0, <1>20, ZenonT(30) DEF Decides, Local, Changes, Answering, Early, FirstTx, Between, Swapping, Showing, Querying, Over
  <2> QED
    BY <2>1, <2>2, <2>3 DEF Local
<1>21. CASE Proceeds(r)
  <2>1. QType(req'[r])
    BY <1>0, <1>21, Zenon DEF Proceeds, Turns, Local, Changes, QType, Pcs, Working
  <2>2. Stage(req'[r])
    BY <1>0, <1>21, ZenonT(30) DEF Proceeds, Turns, Local, Changes, Stage, QType, Early, FirstTx, Between, Swapping, Showing, Querying, Over
  <2>3. Answering(req'[r])
    BY <1>0, <1>21, ZenonT(30) DEF Proceeds, Turns, Local, Changes, Answering, Early, FirstTx, Between, Swapping, Showing, Querying, Over
  <2> QED
    BY <2>1, <2>2, <2>3 DEF Local
<1>22. CASE Streams(r)
  BY <1>0, <1>22, TurnsLocal, ZenonT(30) DEF Streams, Between, Swapping
<1>23. CASE BacksUp(r)
  BY <1>0, <1>23, TurnsLocal, ZenonT(30) DEF BacksUp, Between, Swapping
<1>24. CASE SwapFails(r)
  BY <1>0, <1>24, EndsLocal, SMTT(30), ZenonT(30) DEF SwapFails
<1>25. CASE MovesIn(r)
  BY <1>0, <1>25, TurnsLocal, SMTT(30), ZenonT(30) DEF MovesIn, Between, Swapping
<1>26. CASE Restores(r)
  BY <1>0, <1>26, EndsLocal DEF Restores
<1>27. CASE Drops(r)
  <2>1. req[r].out.status = 0
    BY <1>0, <1>27 DEF Drops, Local, Answering, Over
  <2> QED
    BY <1>0, <1>27, <2>1, RendersLocal, ZenonT(30) DEF Drops, ShowsRoute
<1>28. CASE Finishes(r)
  <2>1. QType(req'[r])
    BY <1>0, <1>28, Zenon DEF Finishes, Local, Changes, QType, Pcs, Working, IsAcc, Silent
  <2>2. Stage(req'[r])
    BY <1>0, <1>28, ZenonT(30) DEF Finishes, Local, Changes, Stage, QType, Early, FirstTx, Between, Swapping, Showing, Querying, Over
  <2>3. Answering(req'[r])
    BY <1>0, <1>28, Zenon DEF Finishes, Local, Changes, Answering, Early, FirstTx, Between, Swapping, Showing, Querying, Over
  <2> QED
    BY <2>1, <2>2, <2>3 DEF Local
<1> QED
  BY StepIs, <1>1, <1>2, <1>3, <1>4, <1>5, <1>6, <1>7, <1>8, <1>9, <1>10, <1>11, <1>12, <1>13, <1>14, <1>15, <1>16, <1>17, <1>18, <1>19, <1>20, <1>21, <1>22, <1>23, <1>24, <1>25, <1>26, <1>27, <1>28, SMTT(30), ZenonT(30)

\* So does a step of the whole.
LEMMA TypingStep ==
  ASSUME Typing, [Next]_vars
  PROVE  Typing'
<1>1. ASSUME NEW r \in Requests, Step(r) PROVE Typing'
  <2>1. DOMAIN req' = Requests /\ \A s \in Requests \ {r} : req'[s] = req[s]
    BY <1>1, OthersStay DEF Only
  <2>2. ASSUME NEW s \in Requests PROVE Local(req'[s])
    BY <1>1, <2>1, LocalStep, Locally
  <2>3. up' = up
    BY <1>1 DEF Step
  <2> QED
    BY <2>1, <2>2, <2>3 DEF Typing, Local
<1>2. ASSUME NEW r \in Requests, Cancel(r) PROVE Typing'
  <2>1. up' = up /\ req[r].pc \notin {"new", "done"} /\ req' = [req EXCEPT ![r].cut = TRUE]
    BY <1>2 DEF Cancel
  <2>2. DOMAIN req' = Requests /\ \A s \in Requests \ {r} : req'[s] = req[s]
    BY <2>1 DEF Typing
  <2>3. Changes(req[r], req'[r], {"cut"}) /\ req'[r].cut = TRUE
    BY <2>1, Known DEF Changes, IsReq, Fields
  <2>4. QType(req'[r])
    BY <2>3, Locally, ZenonT(30) DEF Local, QType, Changes
  <2>8. /\ req'[r].pc = req[r].pc /\ req'[r].mode = req[r].mode /\ req'[r].next = req[r].next
        /\ req'[r].route = req[r].route /\ req'[r].chain = req[r].chain /\ req'[r].by = req[r].by
        /\ req'[r].after = req[r].after
    BY <2>3, Zenon DEF Changes
  <2>9. Stage(req[r])
    BY Locally DEF Local
  <2>5. Stage(req'[r])
    BY <2>8, <2>9, ZenonT(30) DEF Stage
  <2>6. Answering(req'[r])
    BY <2>3, Locally, ZenonT(30) DEF Local, Answering, Changes
  <2>7. ASSUME NEW s \in Requests PROVE Local(req'[s])
    BY <2>2, <2>4, <2>5, <2>6, Locally, Zenon DEF Local
  <2> QED
    BY <2>1, <2>2, <2>7, Zenon DEF Typing, Local
<1>3. CASE Crash
  BY <1>3, Zenon DEF Crash, Typing
<1>4. CASE UNCHANGED vars
  BY <1>4 DEF vars, Typing
<1> QED
  BY <1>1, <1>2, <1>3, <1>4, SMTT(30), ZenonT(30) DEF Next, Done

-----------------------------------------------------------------------------
(* The disk.                                                               *)

Contents == {{}} \cup {{x} : x \in Requests \cup {"old"}}

\* The file, and the backups, hold nothing or one content.
Filed == file \in Contents /\ DOMAIN backups = Requests /\ \A r \in Requests : backups[r] \in Contents


\* The outcomes that leave the files alone.
Elsewhere(r) ==
  \/ Raises(r) \/ Loses(r) \/ Replies(r) \/ Shows(r) \/ Begins(r) \/ ToGate(r) \/ ToHandle(r) \/ Ungated(r)
  \/ Opens(r) \/ ToUpload(r) \/ ChainGoes(r) \/ ChainStops(r) \/ GatePasses(r) \/ ChainEnds(r) \/ Goes(r)
  \/ RelAnswers(r) \/ Invokes(r) \/ Commits(r) \/ Decides(r) \/ Proceeds(r)

\* Only these outcomes may touch the disk.
LEMMA StepOnDisk ==
  ASSUME NEW r \in Requests, Typing, Step(r)
  PROVE  \/ Fails(r) \/ Streams(r) \/ BacksUp(r) \/ SwapFails(r) \/ MovesIn(r) \/ Restores(r) \/ Drops(r)
         \/ Finishes(r) \/ Elsewhere(r)
BY StepIs DEF Elsewhere

\* The others leave it as it was.
LEMMA ElsewhereIs ==
  ASSUME NEW r \in Requests, Typing, Elsewhere(r)
  PROVE  Still
<1>1. CASE Raises(r) \/ Loses(r) \/ Replies(r) \/ GatePasses(r) \/ RelAnswers(r) \/ Commits(r) \/ Proceeds(r)
  BY <1>1, ZenonT(30) DEF Raises, Loses, Replies, GatePasses, RelAnswers, Commits, Proceeds, Won, Tried, Quiet, Still
<1>2. CASE ChainGoes(r) \/ ChainStops(r) \/ Invokes(r) \/ Decides(r) \/ Begins(r)
  BY <1>2, ZenonT(30) DEF ChainGoes, ChainStops, Invokes, Decides, Called, Begins
<1>3. CASE Shows(r) \/ ToGate(r) \/ ToHandle(r) \/ Ungated(r) \/ Opens(r) \/ ToUpload(r) \/ ChainEnds(r) \/ Goes(r)
  BY <1>3, ZenonT(30) DEF Shows, ToGate, ToHandle, Ungated, Opens, ToUpload, ChainEnds, Goes, Quiet, Still
<1> QED
  BY <1>1, <1>2, <1>3 DEF Elsewhere

\* A step leaves at most one content in each place.
LEMMA FiledStep ==
  ASSUME Typing, Filed, [Next]_vars
  PROVE  Filed'
<1>1. ASSUME NEW r \in Requests, Step(r) PROVE Filed'
  <2>1. CASE BacksUp(r)
    BY <2>1 DEF BacksUp, Filed, Contents
  <2>2. CASE MovesIn(r)
    BY <2>2 DEF MovesIn, Filed, Contents
  <2>3. CASE Restores(r)
    <3>1. \/ file' = backups[r] /\ backups' = [backups EXCEPT ![r] = {}]
          \/ UNCHANGED <<file, backups>>
      BY <2>3 DEF Restores
    <3> QED
      BY <3>1 DEF Filed, Contents
  <2>4. CASE Drops(r)
    <3>1. backups' = [backups EXCEPT ![r] = {}] /\ file' = file
      BY <2>4 DEF Drops
    <3> QED
      BY <3>1 DEF Filed, Contents
  <2>5. CASE Fails(r) \/ Streams(r) \/ SwapFails(r) \/ Finishes(r) \/ Elsewhere(r)
    <3>1. UNCHANGED <<file, backups>>
      BY <2>5, ElsewhereIs, Zenon DEF Fails, Streams, SwapFails, Finishes, Still
    <3> QED
      BY <3>1 DEF Filed
  <2> QED
    BY <1>1, StepOnDisk, <2>1, <2>2, <2>3, <2>4, <2>5, SMTT(30), ZenonT(30)
<1>2. CASE \E r \in Requests : Cancel(r)
  BY <1>2, Zenon DEF Cancel, disk, Filed
<1>3. CASE Crash
  BY <1>3, Zenon DEF Crash, disk, Filed
<1>4. CASE UNCHANGED vars
  BY <1>4, Zenon DEF vars, Filed
<1> QED
  BY <1>1, <1>2, <1>3, <1>4, SMTT(30), ZenonT(30) DEF Next, Done

-----------------------------------------------------------------------------
(* The start.                                                              *)

\* A handler before its request, and one that has none.
LEMMA FreshIs ==
  ASSUME Init, NEW r \in Requests
  PROVE  /\ IsReq(req[r]) /\ req[r].pc \in {"new", "done"} /\ req[r].mode = "" /\ req[r].route = {}
         /\ req[r].chain = <<>> /\ req[r].said = <<>> /\ req[r].acc = Silent /\ req[r].by = NoOne
         /\ req[r].out = NoAnswer /\ req[r].cookies = <<>> /\ req[r].cut = FALSE
         /\ (r \notin DOMAIN asked => req[r].pc = "done")
<1>1. IsReq(Fresh)
  BY Zenon DEF Fresh, IsReq, Fields
<1>2. req[r] = Fresh \/ (r \notin DOMAIN asked /\ req[r] = [Fresh EXCEPT !.pc = "done"])
  BY SMTT(30), ZenonT(30) DEF Init
<1>3. /\ Fresh.pc = "new" /\ Fresh.mode = "" /\ Fresh.route = {}
      /\ Fresh.chain = <<>> /\ Fresh.said = <<>> /\ Fresh.acc = Silent /\ Fresh.by = NoOne
      /\ Fresh.out = NoAnswer /\ Fresh.cookies = <<>> /\ Fresh.cut = FALSE
  BY SMTT(30), ZenonT(30) DEF Fresh
<1>4. CASE req[r] = Fresh /\ r \in DOMAIN asked
  BY <1>1, <1>3, <1>4, ZenonT(30)
<1>5. CASE r \notin DOMAIN asked
  <2>1. req[r] = [Fresh EXCEPT !.pc = "done"]
    BY <1>5 DEF Init
  <2>2. IsReq(req[r]) /\ req[r].pc = "done"
    BY <1>1, <2>1 DEF IsReq, Fields
  <2>3. /\ req[r].mode = "" /\ req[r].route = {}
        /\ req[r].chain = <<>> /\ req[r].said = <<>> /\ req[r].acc = Silent /\ req[r].by = NoOne
        /\ req[r].out = NoAnswer /\ req[r].cookies = <<>> /\ req[r].cut = FALSE
    BY <1>1, <1>3, <2>1 DEF IsReq, Fields
  <2> QED
    BY <2>2, <2>3
<1> QED
  BY <1>2, <1>4, <1>5

\* Every handler is well typed before its request.
LEMMA TypingInit == Init => Typing
<1> SUFFICES ASSUME Init PROVE Typing
  BY SMTT(30), ZenonT(30)
<1>1. /\ DOMAIN Silent = {"jwt", "header"} /\ DOMAIN NoAnswer = {"status", "from", "header"}
      /\ NoOne.from = "" /\ NoAnswer.status = 0 /\ NoAnswer.from = ""
  BY SMTT(30), ZenonT(30) DEF Silent, NoAnswer, NoOne
<1>2. ASSUME NEW r \in Requests PROVE QType(req[r])
  BY <1>1, FreshIs DEF QType, Pcs, Working, IsOut, IsAcc
<1>3. ASSUME NEW r \in Requests PROVE Stage(req[r])
  BY <1>1, FreshIs, ZenonT(30) DEF Stage, Early, FirstTx, Between, Swapping, Showing, Querying
<1>4. ASSUME NEW r \in Requests PROVE Answering(req[r])
  BY <1>1, FreshIs DEF Answering, Over
<1>5. DOMAIN req = Requests /\ up \in BOOLEAN
  BY DEF Init
<1> QED
  BY <1>2, <1>3, <1>4, <1>5 DEF Typing

\* The file is the old one, or there is none, and there is no backup.
LEMMA FiledInit == Init => Filed
<1> SUFFICES ASSUME Init PROVE Filed
  OBVIOUS
<1>1. backups = [r \in Requests |-> {}] /\ file = IF site.old THEN {"old"} ELSE {}
  BY DEF Init
<1> QED
  BY <1>1 DEF Filed, Contents

=============================================================================
