----------------------------- MODULE GateProofs -----------------------------
(***************************************************************************)
(* Proofs about Routes for every registry that BuildRegistry can return:   *)
(* the gates that ran before a request reaches what it came for, and the   *)
(* cookies and headers of its answer.                                      *)
(***************************************************************************)
EXTENDS RoutesSteps, RegistryProofs

-----------------------------------------------------------------------------
(* What was said last.                                                     *)

Jwts == {"unset", "null", "role"}

\* One more function was heard.
LEMMA HeardIs ==
  ASSUME NEW said, Listing(said), NEW fn, NEW from, NEW resp, NEW s, s = Hears(said, fn, from, resp)
  PROVE  /\ Listing(s) /\ Len(said) \in Nat /\ DOMAIN said = 1..Len(said) /\ Len(s) = Len(said) + 1
         /\ \A i \in DOMAIN said : s[i] = said[i]
         /\ s[Len(said) + 1].fn = fn /\ s[Len(said) + 1].from = from
         /\ LastOfKey(s, "jwt") = IF resp.jwt # "unset" THEN resp.jwt ELSE LastOfKey(said, "jwt")
         /\ LastOfKey(s, "header") = IF resp.header # "unset" THEN resp.header ELSE LastOfKey(said, "header")
<1>1. PICK e : e = [fn |-> fn, from |-> from, jwt |-> resp.jwt, header |-> resp.header]
  BY Zenon
<1>2. e.fn = fn /\ e.from = from /\ e["jwt"] = resp.jwt /\ e["header"] = resp.header
  BY <1>1
<1>3. s = Append(said, e)
  BY <1>1 DEF Hears
<1>4. /\ Listing(s) /\ Len(said) \in Nat /\ DOMAIN said = 1..Len(said) /\ Len(s) = Len(said) + 1
      /\ \A i \in DOMAIN said : s[i] = said[i]
      /\ s[Len(said) + 1] = e
  BY <1>3, Appended
<1>5. LastOfKey(s, "jwt") = IF resp.jwt # "unset" THEN resp.jwt ELSE LastOfKey(said, "jwt")
  BY <1>2, <1>3, LastAppend
<1>6. LastOfKey(s, "header") = IF resp.header # "unset" THEN resp.header ELSE LastOfKey(said, "header")
  BY <1>2, <1>3, LastAppend
<1> QED
  BY <1>2, <1>4, <1>5, <1>6

\* It was one more.
LEMMA HeardMore ==
  ASSUME NEW said, Listing(said), NEW fn, NEW from, NEW resp, NEW s, s = Hears(said, fn, from, resp)
  PROVE  OneMoreSaid(said, s, fn, from)
BY HeardIs DEF OneMoreSaid

\* What was heard, accumulated.
LEMMA MergeIs ==
  ASSUME NEW acc, IsAcc(acc), NEW resp, NEW m, m = mergeSideEffects(acc, resp)
  PROVE  /\ IsAcc(m)
         /\ m.jwt = IF resp.jwt # "unset" THEN resp.jwt ELSE acc.jwt
         /\ m.header = IF resp.header # "unset" THEN resp.header ELSE acc.header
BY DEF mergeSideEffects, IsAcc

-----------------------------------------------------------------------------
(* Cookies.                                                                *)

Allows(w, ident) == w.allowed = {} \/ ident \in w.allowed

\* A renewal that may be due.
LEMMA DueAdded ==
  ASSUME NEW c, Listing(c), Renewed(c) = {}, NEW due, IsDue(due), NEW z, z = c \o due
  PROVE  /\ Listing(z) /\ (AllSet(c) => AllSet(z))
         /\ \A i, j \in Renewed(z) : i = j
<1>1. CASE due = <<>>
  <2>1. z = c
    BY <1>1, ConcatIs
  <2> QED
    BY <2>1
<1>2. CASE due # <<>>
  <2>1. PICK e : due = <<e>> /\ e.op = "set"
    BY <1>2 DEF IsDue
  <2>2. z = c \o <<e>>
    BY <2>1
  <2> QED
    BY <2>1, <2>2, OneMore, Zenon
<1> QED
  BY <1>1, <1>2

-----------------------------------------------------------------------------
(* Cookies and headers.                                                    *)

Tellers == {"middleware", "route", "second"}

\* The header and the last cookie are what was said last.
Told(w, said, header, ident, cookies) ==
  /\ header = LastOfKey(said, "header")
  /\ Allows(w, ident) =>
       /\ LastOfKey(said, "jwt") \in Jwts
       /\ LastOfKey(said, "jwt") = "null" => EndsIn(cookies, "clear")
       /\ LastOfKey(said, "jwt") = "role" => EndsIn(cookies, "mint")
       /\ LastOfKey(said, "jwt") = "unset" => AllSet(cookies)

\* The points by what is known there: the accumulated keys are the last
\* words; they are once the response is added; no cookie yet; renewals only;
\* not renewed.
Hearing == Early \cup {"chain", "call", "first", "commit1", "place", "stream", "open2", "second"}
Knowing == {"commit", "commit2"} \cup Swapping
Bare == Early \cup {"chain"}
Renewing == {"call", "commit", "first", "commit1"} \cup Between \cup Swapping
Unrenewed == {"rel", "relopen"}

Words(w, q) ==
  /\ Listing(q.said) /\ Listing(q.cookies) /\ q.acc.jwt \in Jwts
  /\ q.pc \in Hearing =>
       /\ q.out.header = "unset"
       /\ q.acc.jwt = LastOfKey(q.said, "jwt") /\ q.acc.header = LastOfKey(q.said, "header")
  /\ q.pc \in Knowing =>
       /\ q.out.header = "unset" /\ q.resp.jwt \in Jwts
       /\ mergeSideEffects(q.acc, q.resp).jwt = LastOfKey(q.said, "jwt")
       /\ mergeSideEffects(q.acc, q.resp).header = LastOfKey(q.said, "header")
  /\ q.pc \in Bare => q.cookies = <<>>
  /\ q.pc \in Renewing => AllSet(q.cookies)
  /\ q.pc \in Unrenewed => Renewed(q.cookies) = {}
  /\ (q.pc \in Showing /\ q.by.from \in Tellers) \/ q.out.from \in Tellers =>
       Told(w, q.said, q.out.header, q.by.ident, q.cookies)
  /\ (q.pc \in Showing /\ q.by.from = "middleware") \/ q.out.from = "middleware" => Renewed(q.cookies) = {}
  /\ q.out.from = "raised" /\ q.chain # <<>> => Renewed(q.cookies) = {}
  /\ \A i, j \in Renewed(q.cookies) : i = j

\* No cookie is no renewal.
LEMMA NoCookies == Listing(<<>>) /\ Renewed(<<>>) = {} /\ AllSet(<<>>)
BY DEF Listing, Renewed, AllSet

\* A handler that ends its request.
LEMMA EndsWords ==
  ASSUME NEW w, NEW q, NEW z, NEW from, Words(w, q), Local(q), Ends(q, z, from),
         from \in {"", "raised", "rel", "swap", "restored"},
         from = "raised" /\ q.chain # <<>> => q.pc = "chain"
  PROVE  Words(w, z)
<1>1. /\ z.pc = "finish" /\ z.said = q.said /\ z.acc = q.acc /\ z.cookies = q.cookies /\ z.by = q.by
      /\ z.chain = q.chain /\ z.out.header = q.out.header
  BY DEF Ends, Changes, Speaks
<1>2. z.out.from \in Tellers => q.out.from = z.out.from
  BY DEF Ends, Speaks, Tellers
<1>3. z.out.from = "raised" => q.out.from = "raised" \/ from = "raised"
  BY DEF Ends, Speaks
<1>4. q.pc = "chain" => Renewed(q.cookies) = {}
  BY NoCookies DEF Words, Bare
<1> QED
  BY <1>1, <1>2, <1>3, <1>4
     DEF Words, Hearing, Knowing, Bare, Renewing, Unrenewed, Early, Between, Swapping, Showing, Tellers

\* A handler that writes the answer it was about to show.
LEMMA SaysWords ==
  ASSUME NEW w, NEW q, NEW z, NEW from, Words(w, q), Local(q), Says(q, z, from), q.pc \in Showing \cup {"static"},
         from \in Tellers \cup {"raised"} => from = q.by.from
  PROVE  Words(w, z)
<1>1. /\ z.pc \in {"handled", "finish"} /\ z.said = q.said /\ z.acc = q.acc /\ z.cookies = q.cookies /\ z.by = q.by
      /\ z.chain = q.chain /\ z.out.header = q.out.header
  BY DEF Says, Changes, Speaks, Local, Stage
<1>2. q.out.status = 0
  BY DEF Local, Answering, Over, Showing
<1>3. z.out.from = from
  BY <1>2 DEF Says, Speaks
<1>4. from \in Tellers \cup {"raised"} => from \in Tellers /\ q.pc \in Showing
  BY DEF Local, Stage, Tellers
<1> QED
  BY <1>1, <1>3, <1>4
     DEF Words, Hearing, Knowing, Bare, Renewing, Unrenewed, Early, Between, Swapping, Showing, Tellers

\* A handler that only moves on.
LEMMA MovesWords ==
  ASSUME NEW w, NEW q, NEW z, Words(w, q),
         z.said = q.said, z.cookies = q.cookies, z.out = q.out, z.by = q.by,
         z.chain = q.chain \/ q.out.from # "raised",
         z.acc.jwt \in Jwts,
         z.pc \in Hearing \cup Knowing => z.acc = q.acc,
         z.pc \in Knowing => z.resp = q.resp,
         z.pc \in Hearing => q.pc \in Hearing,
         z.pc \in Knowing => q.pc \in Knowing,
         z.pc \in Bare => q.pc \in Bare,
         z.pc \in Renewing => q.pc \in Renewing,
         z.pc \in Unrenewed => q.pc \in Unrenewed,
         z.pc \in Showing => q.pc \in Showing \/ q.by.from \notin Tellers
  PROVE  Words(w, z)
<1>1. Listing(z.said) /\ Listing(z.cookies) /\ z.acc.jwt \in Jwts
  BY DEF Words
<1>2. z.pc \in Hearing =>
       /\ z.out.header = "unset"
       /\ z.acc.jwt = LastOfKey(z.said, "jwt") /\ z.acc.header = LastOfKey(z.said, "header")
  BY DEF Words
<1>3. z.pc \in Knowing =>
       /\ z.out.header = "unset" /\ z.resp.jwt \in Jwts
       /\ mergeSideEffects(z.acc, z.resp).jwt = LastOfKey(z.said, "jwt")
       /\ mergeSideEffects(z.acc, z.resp).header = LastOfKey(z.said, "header")
  BY DEF Words
<1>4. /\ z.pc \in Bare => z.cookies = <<>>
      /\ z.pc \in Renewing => AllSet(z.cookies)
      /\ z.pc \in Unrenewed => Renewed(z.cookies) = {}
  BY DEF Words
<1>5. (z.pc \in Showing /\ z.by.from \in Tellers) \/ z.out.from \in Tellers =>
       Told(w, z.said, z.out.header, z.by.ident, z.cookies)
  BY DEF Words
<1>6. (z.pc \in Showing /\ z.by.from = "middleware") \/ z.out.from = "middleware" => Renewed(z.cookies) = {}
  BY DEF Words, Tellers
<1>7. z.out.from = "raised" /\ z.chain # <<>> => Renewed(z.cookies) = {}
  BY DEF Words
<1>8. \A i, j \in Renewed(z.cookies) : i = j
  BY DEF Words
<1> QED
  BY <1>1, <1>2, <1>3, <1>4, <1>5, <1>6, <1>7, <1>8 DEF Words

\* A handler that starts to show a function's answer.
LEMMA RendersWords ==
  ASSUME NEW w, NEW q, NEW z, NEW said, NEW by, NEW acc, NEW resp, NEW after, Words(w, q), Local(q),
         Renders(w, q, z, said, by, acc, resp, after), Listing(said), q.out.header = "unset", q.out.status = 0,
         AllSet(q.cookies), by.from = "middleware" => Renewed(q.cookies) = {},
         NEW m, m = mergeSideEffects(acc, resp), m.jwt \in Jwts,
         m.jwt = LastOfKey(said, "jwt"), m.header = LastOfKey(said, "header")
  PROVE  Words(w, z)
<1>1. /\ z.pc \in {"static_file", "render"} /\ z.said = said /\ z.by = by /\ z.acc = q.acc /\ z.chain = q.chain
      /\ z.cookies = q.cookies \o JwtCookies(w, by.ident, m.jwt)
      /\ z.out.from = q.out.from
      /\ z.out.header = IF m.header = "unset" THEN q.out.header ELSE m.header
  BY DEF Renders, Changes, Applies
<1>2. q.out.from = "" /\ z.out.header = m.header
  BY <1>1 DEF Local, Answering
<1>3. Listing(q.cookies) /\ q.acc.jwt \in Jwts /\ \A i, j \in Renewed(q.cookies) : i = j
  BY DEF Words
<1>4. /\ Listing(z.cookies) /\ Renewed(z.cookies) = Renewed(q.cookies)
      /\ m.jwt = "unset" => z.cookies = q.cookies
      /\ Allows(w, by.ident) /\ m.jwt = "null" => EndsIn(z.cookies, "clear")
      /\ Allows(w, by.ident) /\ m.jwt = "role" => EndsIn(z.cookies, "mint")
  <2>1. PICK c, d, y : c = q.cookies /\ y = z.cookies /\ d = JwtCookies(w, by.ident, m.jwt)
    OBVIOUS
  <2>2. Listing(c) /\ y = c \o d
    BY <1>1, <1>3, <2>1
  <2>3. CASE m.jwt = "unset" \/ ~Allows(w, by.ident)
    <3>1. d = <<>>
      BY <2>1, <2>3 DEF JwtCookies, Allows
    <3>2. y = c
      BY <2>2, <3>1, NothingAdded
    <3> QED
      BY <1>3, <2>1, <2>3, <3>2
  <2>4. CASE m.jwt = "null" /\ Allows(w, by.ident)
    <3>1. PICK e : e = [op |-> "clear"]
      BY Zenon
    <3>2. e.op = "clear" /\ d = <<e>>
      BY <2>1, <2>4, <3>1 DEF JwtCookies, Allows
    <3>3. Listing(y) /\ Renewed(y) = Renewed(c) /\ EndsIn(y, e.op)
      BY <2>2, <3>2, WordAdded, ZenonT(30)
    <3> QED
      BY <2>1, <2>4, <3>2, <3>3
  <2>5. CASE m.jwt = "role" /\ Allows(w, by.ident)
    <3>1. PICK e : e = [op |-> "mint"]
      BY Zenon
    <3>2. e.op = "mint" /\ d = <<e>>
      BY <2>1, <2>5, <3>1 DEF JwtCookies, Allows
    <3>3. Listing(y) /\ Renewed(y) = Renewed(c) /\ EndsIn(y, e.op)
      BY <2>2, <3>2, WordAdded, ZenonT(30)
    <3> QED
      BY <2>1, <2>5, <3>2, <3>3
  <2> QED
    BY <2>3, <2>4, <2>5 DEF Jwts
<1>5. Told(w, said, z.out.header, by.ident, z.cookies)
  BY <1>2, <1>4 DEF Told
<1> QED
  BY <1>1, <1>2, <1>3, <1>4, <1>5
     DEF Words, Hearing, Knowing, Bare, Renewing, Unrenewed, Early, Between, Swapping, Showing, Tellers

\* A request that the gate lets through.
LEMMA ForwardsWords ==
  ASSUME NEW w, NEW q, NEW z, NEW acc, Words(w, q), Local(q), Forwards(w, q, z, acc), q.out.status = 0,
         q.cookies = <<>>, acc.jwt \in Jwts, q.next \in {"rel", "static"}
  PROVE  Words(w, z)
<1>1. /\ z.pc \in {"rel", "static"} /\ z.said = q.said /\ z.acc = q.acc /\ z.chain = q.chain
      /\ z.cookies = q.cookies \o JwtCookies(w, 0, acc.jwt)
      /\ z.out.from = q.out.from
  BY DEF Forwards, Changes, Applies
<1>2. q.out.from = ""
  BY DEF Local, Answering
<1>3. Listing(q.cookies) /\ q.acc.jwt \in Jwts /\ Listing(q.said)
  BY DEF Words
<1>4. Listing(z.cookies) /\ Renewed(z.cookies) = {}
  <2>1. PICK c, d, y : c = q.cookies /\ y = z.cookies /\ d = JwtCookies(w, 0, acc.jwt)
    OBVIOUS
  <2>2. Listing(c) /\ y = c \o d
    BY <1>1, <1>3, <2>1
  <2>3. PICK e : e = [op |-> IF acc.jwt = "null" THEN "clear" ELSE "mint"]
    BY Zenon
  <2>4. e.op # "set" /\ (d = <<>> \/ d = <<e>>)
    BY <2>1, <2>3 DEF JwtCookies
  <2>5. Listing(y) /\ Renewed(y) = Renewed(c)
    <3>1. CASE d = <<>>
      <4>1. y = c
        BY <2>2, <3>1, NothingAdded
      <4> QED
        BY <2>2, <4>1
    <3>2. CASE d = <<e>>
      BY <2>2, <2>4, <3>2, WordAdded, Zenon
    <3> QED
      BY <2>4, <3>1, <3>2
  <2> QED
    BY <2>1, <2>5, NoCookies
<1> QED
  BY <1>1, <1>2, <1>3, <1>4
     DEF Words, Hearing, Knowing, Bare, Renewing, Unrenewed, Early, Between, Swapping, Showing, Tellers

\* A middleware that lets the request go on.
LEMMA ChainGoesWords ==
  ASSUME NEW w, NEW q, NEW z, NEW fn, NEW from, NEW resp, Words(w, q), Local(q), q.pc = "chain", z.pc = q.pc,
         resp.jwt \in Jwts, z.said = Hears(q.said, fn, from, resp), z.acc = mergeSideEffects(q.acc, resp),
         z.cookies = q.cookies, z.out = q.out
  PROVE  Words(w, z)
<1>1. /\ Listing(q.said) /\ q.acc.jwt \in Jwts /\ q.cookies = <<>> /\ q.out.header = "unset"
      /\ q.acc.jwt = LastOfKey(q.said, "jwt") /\ q.acc.header = LastOfKey(q.said, "header")
  BY DEF Words, Hearing, Bare
<1>2. /\ Listing(z.said)
      /\ LastOfKey(z.said, "jwt") = IF resp.jwt # "unset" THEN resp.jwt ELSE LastOfKey(q.said, "jwt")
      /\ LastOfKey(z.said, "header") = IF resp.header # "unset" THEN resp.header ELSE LastOfKey(q.said, "header")
  BY <1>1, HeardIs
<1>3. /\ z.acc.jwt = IF resp.jwt # "unset" THEN resp.jwt ELSE q.acc.jwt
      /\ z.acc.header = IF resp.header # "unset" THEN resp.header ELSE q.acc.header
  <2>1. IsAcc(q.acc)
    BY DEF Local, QType
  <2> QED
    BY <2>1, MergeIs
<1>4. z.acc.jwt \in Jwts /\ z.acc.jwt = LastOfKey(z.said, "jwt") /\ z.acc.header = LastOfKey(z.said, "header")
  BY <1>1, <1>2, <1>3
<1>5. q.out.from = ""
  BY DEF Local, Answering, Over
<1> QED
  BY <1>1, <1>2, <1>4, <1>5, NoCookies
     DEF Words, Hearing, Knowing, Bare, Renewing, Unrenewed, Early, Between, Swapping, Showing, Tellers

\* The route's function answers.
LEMMA InvokesWords ==
  ASSUME NEW w, NEW q, NEW z, NEW fn, NEW from, NEW resp, Words(w, q), Local(q), q.pc \in {"call", "second"},
         z.pc \in {"commit", "commit2"}, z.resp = resp,
         resp.jwt \in Jwts, z.said = Hears(q.said, fn, from, resp), z.acc = q.acc,
         z.cookies = q.cookies, z.out = q.out
  PROVE  Words(w, z)
<1>1. /\ Listing(q.said) /\ Listing(q.cookies) /\ q.acc.jwt \in Jwts /\ AllSet(q.cookies) /\ q.out.header = "unset"
      /\ q.acc.jwt = LastOfKey(q.said, "jwt") /\ q.acc.header = LastOfKey(q.said, "header")
      /\ \A i, j \in Renewed(q.cookies) : i = j
  BY DEF Words, Hearing, Renewing, Between
<1>2. /\ Listing(z.said)
      /\ LastOfKey(z.said, "jwt") = IF resp.jwt # "unset" THEN resp.jwt ELSE LastOfKey(q.said, "jwt")
      /\ LastOfKey(z.said, "header") = IF resp.header # "unset" THEN resp.header ELSE LastOfKey(q.said, "header")
  BY <1>1, HeardIs
<1>3. PICK m : m = mergeSideEffects(z.acc, z.resp)
  OBVIOUS
<1>4. /\ m.jwt = IF resp.jwt # "unset" THEN resp.jwt ELSE q.acc.jwt
      /\ m.header = IF resp.header # "unset" THEN resp.header ELSE q.acc.header
  <2>1. IsAcc(q.acc)
    BY DEF Local, QType
  <2> QED
    BY <1>3, <2>1, MergeIs
<1>5. m.jwt = LastOfKey(z.said, "jwt") /\ m.header = LastOfKey(z.said, "header")
  BY <1>1, <1>2, <1>4
<1>6. q.out.from = ""
  BY DEF Local, Answering, Over
<1> QED
  BY <1>1, <1>2, <1>3, <1>5, <1>6, ZenonT(30)
     DEF Words, Hearing, Knowing, Bare, Renewing, Unrenewed, Early, Between, Swapping, Showing, Tellers

\* The session is renewed when it is due.
LEMMA DueWords ==
  ASSUME NEW w, NEW q, NEW z, NEW due, IsDue(due), Words(w, q), Local(q), z.cookies = q.cookies \o due,
         \/ q.pc = "chain" /\ z.pc \in {"call", "first"}
         \/ q.pc = "relopen" /\ z.pc = "relrun",
         z.said = q.said, z.acc = q.acc, z.out = q.out
  PROVE  Words(w, z)
<1>1. Listing(q.cookies) /\ Listing(q.said) /\ Renewed(q.cookies) = {} /\ q.acc.jwt \in Jwts
  BY NoCookies DEF Words, Bare, Unrenewed
<1>2. Listing(z.cookies) /\ (AllSet(q.cookies) => AllSet(z.cookies)) /\ \A i, j \in Renewed(z.cookies) : i = j
  <2>1. PICK c, y : c = q.cookies /\ y = z.cookies
    BY Zenon
  <2>2. Listing(c) /\ Renewed(c) = {} /\ y = c \o due
    BY <1>1, <2>1
  <2>3. Listing(y) /\ (AllSet(c) => AllSet(y)) /\ \A i, j \in Renewed(y) : i = j
    BY <2>2, DueAdded, Zenon
  <2> QED
    BY <2>1, <2>3
<1>3. q.out.from = ""
  BY DEF Local, Answering, Over
<1>4. q.pc = "chain" =>
        /\ AllSet(q.cookies) /\ q.out.header = "unset"
        /\ q.acc.jwt = LastOfKey(q.said, "jwt") /\ q.acc.header = LastOfKey(q.said, "header")
  BY NoCookies DEF Words, Bare, Hearing
<1> QED
  BY <1>1, <1>2, <1>3, <1>4, ZenonT(30)
     DEF Words, Hearing, Knowing, Bare, Renewing, Unrenewed, Early, Between, Swapping, Showing, Tellers

\* The site is one of those that are built, and serves what is asked of it.
Sited == \E s \in Scenarios : site = Build(Sites[s.site]) /\ asked = s.asked

\* What functions answer about the session is one of three things.
LEMMA ResponsesAre ==
  ASSUME Sited
  PROVE  \A resp \in site.responses : resp.jwt \in Jwts
<1>1. PICK s \in Scenarios : site = Build(Sites[s.site])
  BY DEF Sited
<1>2. site.responses = Sites[s.site].responses
  BY <1>1 DEF Build
<1> QED
  BY <1>2, RoutesAssumption DEF Jwts

\* Also a function that gives a body only.
LEMMA AnswersAre ==
  ASSUME Sited, NEW route, NEW resp \in Answers(route)
  PROVE  resp.jwt \in Jwts
<1>1. CASE resp \in site.responses
  BY <1>1, ResponsesAre
<1>2. CASE resp \notin site.responses
  <2>1. resp = Single
    BY <1>2 DEF Answers
  <2>2. resp.jwt = "unset"
    BY <2>1 DEF Single, Empty
  <2> QED
    BY <2>2 DEF Jwts
<1> QED
  BY <1>1, <1>2

\* A step leaves the words of its handler as they should be.
LEMMA WordsStep ==
  ASSUME NEW r \in Requests, Typing, Filed, Sited, Words(site, req[r]), Step(r)
  PROVE  Words(site, req'[r])
<1>0. Local(req[r])
  BY Locally
<1> DEFINE w == site
           q == req[r]
           z == req'[r]
<1>a. q.acc.jwt \in Jwts
  BY DEF Words
<1>b. q.pc \notin Over \cup {"handled"} => q.out.status = 0 /\ q.out.from = ""
  BY <1>0 DEF Local, Answering
<1>1. CASE Fails(r) \/ Loses(r) \/ RelAnswers(r) \/ SwapFails(r) \/ Restores(r)
  BY <1>0, <1>1, EndsWords DEF Fails, Loses, RelAnswers, SwapFails, Restores
<1>2. CASE Raises(r)
  <2>1. Ends(q, z, "raised") /\ (q.chain # <<>> => q.pc = "chain")
    BY <1>0, <1>2 DEF Raises, Local, Stage, Between
  <2> QED
    BY <1>0, <2>1, EndsWords
<1>3. CASE Replies(r)
  <2>1. PICK from \in {"", "site", "template", q.by.from} \cup file : Says(q, z, from)
    BY <1>3 DEF Replies
  <2>2. q.pc \in Showing \cup {"static"}
    BY <1>3 DEF Replies
  <2>3. from \in Tellers \cup {"raised"} => from = q.by.from
    <3>1. from \in file => from \notin Tellers \cup {"raised"}
      BY RoutesAssumption DEF Filed, Contents, Sources, Tellers
    <3> QED
      BY <2>1, <3>1 DEF Tellers
  <2> QED
    BY <1>0, <2>1, <2>2, <2>3, SaysWords
<1>4. CASE Shows(r)
  <2>1. /\ q.pc \in {"static_file", "static", "render"} /\ z.pc \in {"serve", "render", "relfunc"}
        /\ z.said = q.said /\ z.cookies = q.cookies /\ z.out = q.out /\ z.by = q.by /\ z.chain = q.chain /\ z.acc = q.acc
    BY <1>4 DEF Shows, Changes
  <2>2. q.pc \in Showing \/ q.by.from \notin Tellers
    BY <1>0, <2>1 DEF Local, Stage, Tellers, Showing
  <2>3. z.pc \notin Hearing \cup Knowing \cup Bare \cup Renewing \cup Unrenewed
    BY <2>1 DEF Hearing, Knowing, Bare, Renewing, Unrenewed, Early, Between, Swapping
  <2> QED
    BY <1>a, <2>1, <2>2, <2>3, MovesWords
<1>5. CASE Begins(r) /\ q.pc = "relopen"
  <2>1. /\ z.pc = "relrun" /\ z.said = q.said /\ z.out = q.out /\ z.acc = q.acc
    BY <1>5, Zenon DEF Begins, Changes, BeginsAt
  <2>2. PICK due : IsDue(due) /\ z.cookies = q.cookies \o due
    BY <1>5, ZenonT(30) DEF Begins
  <2> QED
    BY <1>0, <1>5, <2>1, <2>2, DueWords, ZenonT(30)
<1>6. CASE Begins(r) /\ q.pc # "relopen"
  <2>1. /\ q.pc \in {"open", "relfunc", "open2"} /\ z.pc = BeginsAt(q.pc)
        /\ z.said = q.said /\ z.cookies = q.cookies /\ z.out = q.out /\ z.by = q.by /\ z.chain = q.chain /\ z.acc = q.acc
    BY <1>6, ZenonT(30) DEF Begins, Changes
  <2>2. /\ z.pc \in Hearing => q.pc \in Hearing
        /\ z.pc \in Bare => q.pc \in Bare
        /\ z.pc \in Renewing => q.pc \in Renewing
        /\ z.pc \in Showing => q.pc \in Showing
        /\ z.pc \notin Knowing \cup Unrenewed
    BY <2>1 DEF BeginsAt, Hearing, Knowing, Bare, Renewing, Unrenewed, Early, Between, Swapping, Showing
  <2> QED
    BY <1>a, <2>1, <2>2, MovesWords
<1>7. CASE ToGate(r) \/ ToHandle(r) \/ Opens(r) \/ ToUpload(r)
  <2>1. /\ q.pc \in Early /\ z.pc \in Early
        /\ z.said = q.said /\ z.cookies = q.cookies /\ z.out = q.out /\ z.by = q.by /\ z.acc = q.acc
    BY <1>7, ZenonT(30) DEF ToGate, ToHandle, Opens, ToUpload, Changes, Early
  <2>2. q.out.from # "raised"
    BY <1>b, <2>1, ZenonT(30) DEF Early, Over
  <2>3. /\ z.pc \in Hearing /\ q.pc \in Hearing /\ z.pc \in Bare /\ q.pc \in Bare
        /\ z.pc \notin Knowing \cup Renewing \cup Unrenewed \cup Showing
    BY <2>1 DEF Hearing, Knowing, Bare, Renewing, Unrenewed, Early, Between, Swapping, Showing
  <2> QED
    BY <1>a, <2>1, <2>2, <2>3, MovesWords
<1>8. CASE Ungated(r)
  <2>1. /\ q.pc = "gate" /\ Forwards(w, q, z, Silent) /\ q.out.status = 0 /\ q.next \in {"rel", "static"}
    BY <1>0, <1>b, <1>8, ZenonT(30) DEF Ungated, Local, Stage, Over
  <2>2. q.cookies = <<>>
    BY <2>1, Zenon DEF Words, Bare, Early
  <2>3. Silent.jwt \in Jwts
    BY DEF Silent, Jwts
  <2> QED
    BY <1>0, <2>1, <2>2, <2>3, ForwardsWords
<1>9. CASE GatePasses(r)
  <2>1. /\ q.pc = "chain" /\ Forwards(w, q, z, q.acc) /\ q.out.status = 0 /\ q.next \in {"rel", "static"}
    BY <1>0, <1>b, <1>9 DEF GatePasses, Local, Stage, Over
  <2>2. q.cookies = <<>>
    BY <2>1, ZenonT(30) DEF Words, Bare, Early
  <2> QED
    BY <1>0, <1>a, <2>1, <2>2, ForwardsWords
<1>10. CASE ChainGoes(r)
  <2>1. PICK resp \in site.responses :
          /\ z.said = Hears(q.said, Head(q.chain).fn, "middleware", resp)
          /\ z.acc = mergeSideEffects(q.acc, resp)
    BY <1>10 DEF ChainGoes
  <2>2. resp.jwt \in Jwts
    BY <2>1, ResponsesAre
  <2>3. q.pc = "chain" /\ z.pc = q.pc /\ z.cookies = q.cookies /\ z.out = q.out
    BY <1>10, ZenonT(30) DEF ChainGoes, Changes
  <2> QED
    BY <1>0, <2>1, <2>2, <2>3, ChainGoesWords
<1>11. CASE ChainStops(r)
  <2>1. q.pc = "chain"
    BY <1>11, Zenon DEF ChainStops
  <2>2. PICK fn : fn = Head(q.chain).fn
    OBVIOUS
  <2>3. PICK resp, by :
          /\ resp \in site.responses /\ by.from = "middleware"
          /\ Renders(w, q, z, Hears(q.said, fn, "middleware", resp), by,
                     mergeSideEffects(q.acc, resp), resp, "handled")
    BY <1>11, <2>2, Zenon DEF ChainStops
  <2>4. PICK said, acc, m : /\ said = Hears(q.said, fn, "middleware", resp)
                            /\ acc = mergeSideEffects(q.acc, resp) /\ m = mergeSideEffects(acc, resp)
    OBVIOUS
  <2>5. /\ Listing(q.said) /\ q.cookies = <<>> /\ q.out.header = "unset" /\ q.out.status = 0
        /\ q.acc.jwt = LastOfKey(q.said, "jwt") /\ q.acc.header = LastOfKey(q.said, "header")
    BY <1>b, <2>1, ZenonT(30) DEF Words, Hearing, Bare, Over
  <2>6. resp.jwt \in Jwts /\ IsAcc(q.acc)
    BY <1>0, <2>3, ResponsesAre DEF Local, QType
  <2>7. /\ Listing(said)
        /\ LastOfKey(said, "jwt") = IF resp.jwt # "unset" THEN resp.jwt ELSE LastOfKey(q.said, "jwt")
        /\ LastOfKey(said, "header") = IF resp.header # "unset" THEN resp.header ELSE LastOfKey(q.said, "header")
    BY <2>4, <2>5, HeardIs
  <2>8. /\ IsAcc(acc)
        /\ acc.jwt = IF resp.jwt # "unset" THEN resp.jwt ELSE q.acc.jwt
        /\ acc.header = IF resp.header # "unset" THEN resp.header ELSE q.acc.header
    BY <2>4, <2>6, MergeIs
  <2>9. /\ m.jwt = IF resp.jwt # "unset" THEN resp.jwt ELSE acc.jwt
        /\ m.header = IF resp.header # "unset" THEN resp.header ELSE acc.header
    BY <2>4, <2>8, MergeIs
  <2>10. m.jwt \in Jwts /\ m.jwt = LastOfKey(said, "jwt") /\ m.header = LastOfKey(said, "header")
    BY <1>a, <2>5, <2>6, <2>7, <2>8, <2>9
  <2>11. AllSet(q.cookies) /\ Renewed(q.cookies) = {}
    BY <2>5, NoCookies
  <2>12. Renders(w, q, z, said, by, acc, resp, "handled")
    BY <2>3, <2>4
  <2> QED
    BY <1>0, <2>4, <2>5, <2>7, <2>10, <2>11, <2>12, RendersWords, ZenonT(30)
<1>12. CASE ChainEnds(r)
  <2>1. /\ q.pc = "chain" /\ z.pc \in {"call", "first"} /\ z.said = q.said /\ z.out = q.out /\ z.acc = q.acc
    BY <1>12 DEF ChainEnds, Changes
  <2>2. PICK due : IsDue(due) /\ z.cookies = q.cookies \o due
    BY <1>12 DEF ChainEnds
  <2> QED
    BY <1>0, <2>1, <2>2, DueWords, ZenonT(30)
<1>13. CASE Invokes(r)
  <2>1. PICK route \in q.route : \E resp \in Answers(route) :
          /\ z.resp = resp
          /\ z.said = Hears(q.said, route.fn, IF q.pc = "call" THEN "route" ELSE "second", resp)
    BY <1>13 DEF Invokes
  <2>4. PICK resp \in Answers(route) :
          /\ z.resp = resp
          /\ z.said = Hears(q.said, route.fn, IF q.pc = "call" THEN "route" ELSE "second", resp)
    BY <2>1
  <2>2. resp.jwt \in Jwts
    BY <2>4, AnswersAre
  <2>3. /\ q.pc \in {"call", "second"} /\ z.pc \in {"commit", "commit2"} /\ z.cookies = q.cookies /\ z.out = q.out
        /\ z.acc = q.acc
    BY <1>13, ZenonT(30) DEF Invokes, Changes
  <2> QED
    BY <1>0, <2>2, <2>3, <2>4, InvokesWords
<1>14. CASE Commits(r) \/ Drops(r)
  <2>1. q.pc \in {"commit", "commit2", "drop"}
    BY <1>14, ZenonT(30) DEF Commits, Drops
  <2>2. PICK by : /\ by.from \in {"route", "second"}
                  /\ Renders(w, q, z, q.said, by, q.acc, q.resp, "finish")
    BY <1>14 DEF Commits, Drops, ShowsRoute
  <2>3. PICK m : m = mergeSideEffects(q.acc, q.resp)
    OBVIOUS
  <2>4. /\ Listing(q.said) /\ AllSet(q.cookies) /\ q.out.header = "unset" /\ q.out.status = 0
        /\ q.resp.jwt \in Jwts /\ m.jwt = LastOfKey(q.said, "jwt") /\ m.header = LastOfKey(q.said, "header")
    BY <1>b, <2>1, <2>3, ZenonT(30) DEF Words, Knowing, Renewing, Between, Swapping, Over
  <2>5. IsAcc(q.acc)
    BY <1>0, ZenonT(30) DEF Local, QType
  <2>6. m.jwt = IF q.resp.jwt # "unset" THEN q.resp.jwt ELSE q.acc.jwt
    BY <2>3, <2>5, MergeIs
  <2>7. m.jwt \in Jwts
    BY <1>a, <2>4, <2>6
  <2> QED
    BY <1>0, <2>2, <2>3, <2>4, <2>7, RendersWords, ZenonT(30)
<1>15. CASE Goes(r) \/ Decides(r) \/ Proceeds(r) \/ Streams(r) \/ BacksUp(r) \/ MovesIn(r)
  <2>1. /\ \/ q.pc = "rel" /\ z.pc = "relopen"
           \/ q.pc = "first" /\ z.pc = "commit1"
           \/ q.pc \in {"commit1", "place", "stream"} /\ z.pc \in {"place", "stream", "open2"}
           \/ q.pc \in {"commit2"} \cup Swapping /\ z.pc \in Swapping /\ z.resp = q.resp
        /\ z.said = q.said /\ z.cookies = q.cookies /\ z.out = q.out /\ z.by = q.by /\ z.chain = q.chain /\ z.acc = q.acc
    BY <1>15, ZenonT(30) DEF Goes, Decides, Proceeds, Streams, BacksUp, MovesIn, Turns, Changes, Swapping
  <2>2. /\ z.pc \in Hearing => q.pc \in Hearing
        /\ z.pc \in Knowing => q.pc \in Knowing /\ z.resp = q.resp
        /\ z.pc \in Bare => q.pc \in Bare
        /\ z.pc \in Renewing => q.pc \in Renewing
        /\ z.pc \in Unrenewed => q.pc \in Unrenewed
        /\ z.pc \notin Showing
    BY <2>1 DEF Hearing, Knowing, Bare, Renewing, Unrenewed, Early, Between, Swapping, Showing
  <2> QED
    BY <1>a, <2>1, <2>2, MovesWords
<1>16. CASE Finishes(r)
  <2>1. /\ z.pc = "done" /\ z.acc = Silent
        /\ z.said = q.said /\ z.cookies = q.cookies /\ z.out = q.out /\ z.by = q.by /\ z.chain = q.chain
    BY <1>16, ZenonT(30) DEF Finishes, Changes
  <2>2. z.acc.jwt \in Jwts
    BY <2>1 DEF Silent, Jwts
  <2>3. z.pc \notin Hearing \cup Knowing \cup Bare \cup Renewing \cup Unrenewed \cup Showing
    BY <2>1 DEF Hearing, Knowing, Bare, Renewing, Unrenewed, Early, Between, Swapping, Showing
  <2> QED
    BY <2>1, <2>2, <2>3, MovesWords
<1> QED
  BY StepIs, <1>1, <1>2, <1>3, <1>4, <1>5, <1>6, <1>7, <1>8, <1>9, <1>10, <1>11, <1>12, <1>13, <1>14, <1>15, <1>16, ZenonT(30)

-----------------------------------------------------------------------------
(* The gate.                                                               *)

TargetOf(a, q) == IF q.route = {} THEN a.path ELSE (CHOOSE e \in q.route : TRUE).anonPath
ChainOf(w, a, q) == MiddlewareChain(w.registry, TargetOf(a, q))

Past == Querying \cup {"static", "call", "commit", "first", "commit1"} \cup Between \cup Swapping

Gated(w, a, q) ==
  /\ q.pc = "new" => Listing(a.path)
  /\ q.pc \in Early => q.said = <<>>
  /\ \A x, y \in q.route : x = y
  /\ q.pc \in {"open", "chain"} => InChain(ChainOf(w, a, q), q.said, q.chain)
  /\ (q.pc \in Past \/ q.by.from \in {"rel", "static", "route", "second"}) /\ ~Exempt(a.path) =>
       PastChain(ChainOf(w, a, q), q.said)

\* The registry of the site is well formed.
LEMMA SiteWellFormed ==
  ASSUME Sited
  PROVE  WellFormed(site.registry)
<1>1. PICK s \in Scenarios : site = Build(Sites[s.site])
  BY DEF Sited
<1>2. PICK fns, config, anon : fns = Sites[s.site].functions /\ config = Sites[s.site].config /\ anon = Sites[s.site].anonymous
  BY ZenonT(30)
<1>3. site.registry = BuildRegistry(fns, config, anon)
  BY <1>1, <1>2 DEF Build
<1>4. Introspected(fns, config)
  BY <1>2, RoutesAssumption
<1> QED
  BY <1>3, <1>4, RegistryIsWellFormed

\* Every chain of it is a sequence.
LEMMA ChainListed ==
  ASSUME Sited, NEW target
  PROVE  Listing(MiddlewareChain(site.registry, target))
BY SiteWellFormed, ChainCovers DEF Covers

\* The gates of a request depend on its route alone.
LEMMA SameTarget ==
  ASSUME NEW w, NEW a, NEW q, NEW z, z.route = q.route
  PROVE  ChainOf(w, a, z) = ChainOf(w, a, q)
BY DEF ChainOf, TargetOf

Behind == {"rel", "static", "route", "second"}

\* A handler that hears nothing.
LEMMA MovesGated ==
  ASSUME NEW w, NEW a, NEW q, NEW z, Gated(w, a, q),
         z.route = q.route, z.said = q.said, z.pc # "new",
         z.pc \in Early => q.pc \in Early,
         z.pc \in {"open", "chain"} => q.pc \in {"open", "chain"} /\ z.chain = q.chain,
         z.pc \in Past \/ z.by.from \in Behind => q.pc \in Past \/ q.by.from \in Behind
  PROVE  Gated(w, a, z)
<1>1. ChainOf(w, a, z) = ChainOf(w, a, q)
  BY SameTarget
<1>2. z.pc \in {"open", "chain"} => InChain(ChainOf(w, a, z), z.said, z.chain)
  BY <1>1 DEF Gated
<1>3. (z.pc \in Past \/ z.by.from \in {"rel", "static", "route", "second"}) /\ ~Exempt(a.path) =>
        PastChain(ChainOf(w, a, z), z.said)
  BY <1>1 DEF Gated, Behind
<1>4. (z.pc \in Early => z.said = <<>>) /\ \A x, y \in z.route : x = y
  BY DEF Gated
<1> QED
  BY <1>2, <1>3, <1>4 DEF Gated

\* A handler that goes behind the gate.
LEMMA PassesGated ==
  ASSUME NEW w, NEW a, NEW q, NEW z, Gated(w, a, q), z.route = q.route, z.said = q.said,
         z.pc \notin Early \cup {"chain"}, Exempt(a.path) \/ PastChain(ChainOf(w, a, q), q.said)
  PROVE  Gated(w, a, z)
<1>1. ChainOf(w, a, z) = ChainOf(w, a, q)
  BY SameTarget
<1> QED
  BY <1>1 DEF Gated, Early

\* A step leaves the gate of its handler as it should be.
LEMMA GatedStep ==
  ASSUME NEW r \in Requests, Typing, Sited, Gated(site, asked[r], req[r]), Step(r)
  PROVE  Gated(site, asked[r], req'[r])
<1>0. Local(req[r]) /\ Local(req'[r])
  BY Locally, LocalStep, ZenonT(30)
<1> DEFINE w == site
           a == asked[r]
           q == req[r]
           z == req'[r]
<1>1. CASE Fails(r) \/ Raises(r) \/ Loses(r) \/ RelAnswers(r) \/ SwapFails(r) \/ Restores(r)
  <2>1. z.pc = "finish" /\ z.route = q.route /\ z.said = q.said /\ z.by = q.by
    BY <1>1, ZenonT(30) DEF Fails, Raises, Loses, RelAnswers, SwapFails, Restores, Ends, Changes
  <2>2. z.pc \notin Early \cup Past
    BY <2>1 DEF Early, Past, Querying, Between, Swapping
  <2> QED
    BY <2>1, <2>2, MovesGated DEF Early
<1>2. CASE Replies(r)
  <2>1. z.route = q.route /\ z.said = q.said /\ z.by = q.by /\ z.pc \in {"handled", "finish"}
    BY <1>0, <1>2, ZenonT(30) DEF Replies, Says, Changes, Local, Stage
  <2>2. z.pc \notin Early \cup Past
    BY <2>1 DEF Early, Past, Querying, Between, Swapping
  <2> QED
    BY <2>1, <2>2, MovesGated DEF Early
<1>3. CASE Shows(r)
  <2>1. z.route = q.route /\ z.said = q.said /\ z.by = q.by /\ z.pc \in {"serve", "render", "relfunc"}
    BY <1>3 DEF Shows, Changes
  <2>2. z.pc \notin Early \cup Past
    BY <2>1 DEF Early, Past, Querying, Between, Swapping
  <2> QED
    BY <2>1, <2>2, MovesGated DEF Early
<1>4. CASE Begins(r)
  <2>1. /\ q.pc \in {"open", "relfunc", "relopen", "open2"} /\ z.pc = BeginsAt(q.pc)
        /\ z.route = q.route /\ z.said = q.said /\ z.by = q.by /\ z.chain = q.chain
    BY <1>4, ZenonT(30) DEF Begins, Changes
  <2>2. z.pc \notin Early /\ (z.pc \in Past => q.pc \in Past) /\ (z.pc = "chain" => q.pc = "open")
    BY <2>1, ZenonT(30) DEF BeginsAt, Early, Past, Querying, Between, Swapping
  <2> QED
    BY <2>1, <2>2, MovesGated DEF Early
<1>5. CASE ToGate(r) \/ ToUpload(r)
  <2>1. /\ q.pc \in Early /\ z.pc \in {"gate", "upload"} /\ z.route = q.route /\ z.said = q.said /\ z.by = q.by
    BY <1>5, ZenonT(30) DEF ToGate, ToUpload, Changes, Early
  <2>2. z.pc \notin Past
    BY <2>1 DEF Past, Querying, Between, Swapping
  <2> QED
    BY <2>1, <2>2, MovesGated, ZenonT(30)
<1>6. CASE ToHandle(r)
  <2>1. /\ q.pc = "new" /\ z.pc = "handle" /\ z.said = q.said /\ z.by = q.by
        /\ z.route = Reached(site.registry, a.method, a.path).routes
    BY <1>6, ZenonT(30) DEF ToHandle, Changes, Registered
  <2>2. Listing(a.path) /\ z.said = <<>>
    BY <2>1, ZenonT(30) DEF Gated, Early
  <2>3. \A x, y \in z.route : x = y
    <3>1. PICK registry, method, path : registry = site.registry /\ method = a.method /\ path = a.path
      OBVIOUS
    <3>2. WellFormed(registry) /\ Listing(path)
      BY <2>2, <3>1, SiteWellFormed
    <3>3. \A x, y \in Reached(registry, method, path).routes : x = y
      BY <3>2, ReachedIsOne
    <3> QED
      BY <2>1, <3>1, <3>3
  <2>4. z.by.from = "" /\ z.pc \notin Past
    BY <1>0, <2>1, ZenonT(30) DEF Local, Stage, Early, Past, Querying, Between, Swapping
  <2> QED
    BY <2>1, <2>2, <2>3, <2>4, ZenonT(30) DEF Gated
<1>7. CASE Ungated(r)
  <2>1. /\ q.pc = "gate" /\ q.said = <<>> /\ z.said = q.said /\ z.route = q.route /\ z.pc = q.next
        /\ Exempt(a.path) \/ MiddlewareChain(site.registry, a.path) = <<>>
    BY <1>7 DEF Ungated, Forwards, Changes, Gated, Early, Registered
  <2>2. q.route = {} /\ z.pc \in {"rel", "static"}
    BY <1>0, <2>1, ZenonT(30) DEF Local, Stage
  <2>3. ChainOf(w, a, q) = MiddlewareChain(site.registry, a.path)
    BY <2>2, ZenonT(30) DEF ChainOf, TargetOf
  <2>4. PastChain(<<>>, <<>>)
    BY EmptyListing, ChainStarts, ChainOver, ZenonT(30)
  <2>5. Exempt(a.path) \/ PastChain(ChainOf(w, a, q), q.said)
    BY <2>1, <2>3, <2>4
  <2> QED
    BY <2>1, <2>2, <2>5, PassesGated, ZenonT(30) DEF Early
<1>8. CASE Opens(r)
  <2>1. /\ q.pc \in Early /\ q.said = <<>> /\ z.said = q.said /\ z.route = q.route /\ z.pc = "open" /\ z.by = q.by
    BY <1>8, ZenonT(30) DEF Opens, Changes, Gated, Early
  <2>2. PICK full : full = ChainOf(w, a, q)
    BY ZenonT(30)
  <2>3. z.chain = full
    <3>1. CASE q.pc = "gate"
      <4>1. q.route = {}
        BY <1>0, <3>1, ZenonT(30) DEF Local, Stage
      <4> QED
        BY <1>8, <2>2, <3>1, <4>1, ZenonT(30) DEF Opens, Registered, ChainOf, TargetOf
    <3>2. CASE q.pc # "gate"
      <4>1. PICK e \in q.route : z.chain = MiddlewareChain(site.registry, e.anonPath)
        BY <1>8, <3>2 DEF Opens, Registered
      <4>2. (CHOOSE x \in q.route : TRUE) = e
        BY <4>1, ZenonT(30) DEF Gated
      <4> QED
        BY <2>2, <4>1, <4>2, ZenonT(30) DEF ChainOf, TargetOf
    <3> QED
      BY <3>1, <3>2, ZenonT(30)
  <2>4. Listing(full)
    BY <2>2, ChainListed DEF ChainOf
  <2>5. InChain(full, z.said, z.chain)
    BY <2>1, <2>3, <2>4, ChainStarts
  <2>6. z.by.from = "" /\ z.pc \notin Past
    BY <1>0, <2>1, ZenonT(30) DEF Local, Stage, Early, Past, Querying, Between, Swapping
  <2>7. ChainOf(w, a, z) = full
    BY <2>1, <2>2 DEF ChainOf, TargetOf
  <2> QED
    BY <2>1, <2>5, <2>6, <2>7, ZenonT(30) DEF Gated
<1>9. CASE ChainGoes(r)
  <2>1. /\ q.pc = "chain" /\ z.pc = "chain" /\ q.chain # <<>> /\ z.route = q.route /\ z.by = q.by
        /\ z.chain = Tail(q.chain)
    BY <1>9, ZenonT(30) DEF ChainGoes, Changes
  <2>2. PICK resp : z.said = Hears(q.said, Head(q.chain).fn, "middleware", resp)
    BY <1>9, ZenonT(30) DEF ChainGoes
  <2>3. InChain(ChainOf(w, a, q), q.said, q.chain)
    BY <2>1, ZenonT(30) DEF Gated
  <2>4. InChain(ChainOf(w, a, q), z.said, z.chain)
    <3>1. Listing(q.said)
      BY <2>3 DEF InChain
    <3>2. PICK fn : fn = Head(q.chain).fn
      BY Zenon
    <3>3. OneMoreSaid(q.said, z.said, fn, "middleware")
      BY <2>2, <3>1, <3>2, HeardMore, Zenon
    <3> QED
      BY <2>1, <2>3, <3>2, <3>3, ChainOn, ZenonT(30)
  <2>5. z.by.from = "" /\ z.pc \notin Past \cup Early
    BY <1>0, <2>1, ZenonT(30) DEF Local, Stage, FirstTx, Early, Past, Querying, Between, Swapping
  <2>6. ChainOf(w, a, z) = ChainOf(w, a, q)
    BY <2>1, SameTarget
  <2>7. \A x, y \in z.route : x = y
    BY <2>1, ZenonT(30) DEF Gated
  <2> QED
    BY <2>1, <2>4, <2>5, <2>6, <2>7, ZenonT(30) DEF Gated
<1>10. CASE ChainStops(r)
  <2>1. z.route = q.route /\ z.pc \in {"static_file", "render"} /\ z.by.from = "middleware"
    BY <1>10, ZenonT(30) DEF ChainStops, Renders, Changes
  <2>2. z.pc \notin Early \cup Past
    BY <2>1, ZenonT(30) DEF Early, Past, Querying, Between, Swapping
  <2>3. \A x, y \in z.route : x = y
    BY <2>1, ZenonT(30) DEF Gated
  <2> QED
    BY <2>1, <2>2, <2>3, ZenonT(30) DEF Gated, Early
<1>11. CASE GatePasses(r) \/ ChainEnds(r)
  <2>1. /\ q.pc = "chain" /\ q.chain = <<>> /\ z.said = q.said /\ z.route = q.route
        /\ z.pc \in {q.next, "call", "first"} /\ (q.mode = "gate" \/ z.pc # q.next \/ z.pc \in {"call", "first"})
    BY <1>11 DEF GatePasses, ChainEnds, Forwards, Changes
  <2>2. z.pc \notin Early \cup {"chain"}
    BY <1>0, <2>1, ZenonT(30) DEF Local, Stage, Early
  <2>3. PastChain(ChainOf(w, a, q), q.said)
    BY <2>1, ChainOver, ZenonT(30) DEF Gated
  <2> QED
    BY <2>1, <2>2, <2>3, PassesGated, ZenonT(30)
<1>12. CASE Invokes(r)
  <2>1. /\ q.pc \in {"call", "second"} /\ z.pc \in {"commit", "commit2"} /\ z.route = q.route
    BY <1>12, ZenonT(30) DEF Invokes, Changes
  <2>2. PICK fn, from, resp : from # "middleware" /\ z.said = Hears(q.said, fn, from, resp)
    <3>1. PICK route \in q.route : \E resp \in Answers(route) :
            z.said = Hears(q.said, route.fn, IF q.pc = "call" THEN "route" ELSE "second", resp)
      BY <1>12, ZenonT(30) DEF Invokes
    <3>2. "route" # "middleware" /\ "second" # "middleware"
      OBVIOUS
    <3> QED
      BY <3>1, <3>2
  <2>3. ~Exempt(a.path) => PastChain(ChainOf(w, a, q), q.said)
    BY <2>1, ZenonT(30) DEF Gated, Past, Between
  <2>4. ~Exempt(a.path) => PastChain(ChainOf(w, a, z), z.said)
    <3>1. ChainOf(w, a, z) = ChainOf(w, a, q)
      BY <2>1, SameTarget
    <3>2. ASSUME ~Exempt(a.path) PROVE PastChain(ChainOf(w, a, q), z.said)
      <4>1. PastChain(ChainOf(w, a, q), q.said) /\ Listing(q.said)
        BY <2>3, <3>2 DEF PastChain
      <4>2. OneMoreSaid(q.said, z.said, fn, from)
        BY <2>2, <4>1, HeardMore, Zenon
      <4> QED
        BY <2>2, <4>1, <4>2, PastOn, Zenon
    <3> QED
      BY <3>1, <3>2
  <2>5. z.pc \notin Early \cup {"chain"} /\ \A x, y \in z.route : x = y
    BY <2>1, ZenonT(30) DEF Early, Gated
  <2> QED
    BY <2>4, <2>5, ZenonT(30) DEF Gated, Early
<1>13. CASE Commits(r) \/ Drops(r)
  <2>1. /\ q.pc \in {"commit", "commit2", "drop"} /\ z.pc \in {"static_file", "render"}
        /\ z.route = q.route /\ z.said = q.said
    BY <1>13, ZenonT(30) DEF Commits, Drops, ShowsRoute, Renders, Changes
  <2>2. q.pc \in Past /\ z.pc \notin Early \cup {"chain"}
    BY <2>1 DEF Early, Past, Between, Swapping
  <2> QED
    BY <2>1, <2>2, MovesGated DEF Early
<1>14. CASE Goes(r) \/ Decides(r) \/ Proceeds(r) \/ Streams(r) \/ BacksUp(r) \/ MovesIn(r)
  <2>1. /\ q.pc \in {"rel", "first", "commit1", "place", "stream", "commit2"} \cup Swapping
        /\ z.pc \in {"relopen", "commit1", "place", "stream", "open2"} \cup Swapping
        /\ z.route = q.route /\ z.said = q.said
    BY <1>14, ZenonT(30) DEF Goes, Decides, Proceeds, Streams, BacksUp, MovesIn, Turns, Changes, Swapping
  <2>2. q.pc \in Past /\ z.pc \notin Early \cup {"chain"}
    BY <2>1 DEF Early, Past, Querying, Between, Swapping
  <2> QED
    BY <2>1, <2>2, MovesGated DEF Early
<1>15. CASE Finishes(r)
  <2>1. z.pc = "done" /\ z.route = q.route /\ z.said = q.said /\ z.by = q.by
    BY <1>15, ZenonT(30) DEF Finishes, Changes
  <2>2. z.pc \notin Early \cup Past
    BY <2>1, ZenonT(30) DEF Early, Past, Querying, Between, Swapping
  <2> QED
    BY <2>1, <2>2, MovesGated DEF Early
<1> QED
  BY StepIs, <1>1, <1>2, <1>3, <1>4, <1>5, <1>6, <1>7, <1>8, <1>9, <1>10, <1>11, <1>12, <1>13, <1>14, <1>15, ZenonT(30)

\* The site is one that was built, and every handler keeps its words and its
\* gate.
GateInv == Sited /\ \A r \in Requests : Words(site, req[r]) /\ Gated(site, asked[r], req[r])

\* Before its request a handler has heard nothing.
LEMMA GateInit == Init => GateInv
<1> SUFFICES ASSUME Init PROVE GateInv
  OBVIOUS
<1>1. Sited
  BY DEF Init, Sited
<1>0. /\ Silent.jwt = "unset" /\ Silent.header = "unset" /\ NoAnswer.header = "unset" /\ NoAnswer.from = ""
      /\ NoOne.from = ""
  BY DEF Silent, NoAnswer, NoOne
<1>2. ASSUME NEW r \in Requests PROVE Words(site, req[r])
  <2>1. PICK q : q = req[r]
    OBVIOUS
  <2>2. /\ q.pc \in {"new", "done"} /\ q.chain = <<>> /\ q.said = <<>> /\ q.cookies = <<>>
        /\ q.acc.jwt = "unset" /\ q.acc.header = "unset" /\ q.out.header = "unset" /\ q.out.from = ""
    BY <1>0, <2>1, FreshIs
  <2>3. LastOfKey(<<>>, "jwt") = "unset" /\ LastOfKey(<<>>, "header") = "unset"
    BY DEF LastOfKey
  <2>4. /\ q.pc \notin Knowing \cup Renewing \cup Unrenewed \cup Showing
        /\ q.out.from \notin Tellers \cup {"raised", "middleware"} /\ q.acc.jwt \in Jwts
    BY <2>2 DEF Knowing, Renewing, Unrenewed, Showing, Swapping, Between, Tellers, Jwts
  <2>5. Words(site, q)
    BY <2>2, <2>3, <2>4, NoCookies, ZenonT(30) DEF Words
  <2> QED
    BY <2>1, <2>5
<1>3. ASSUME NEW r \in Requests PROVE Gated(site, asked[r], req[r])
  <2>1. /\ req[r].pc \in {"new", "done"} /\ req[r].said = <<>> /\ req[r].route = {} /\ req[r].by.from = ""
        /\ (req[r].pc = "new" => r \in DOMAIN asked)
    BY <1>0, FreshIs
  <2>2. \A x \in DOMAIN asked : Listing(asked[x].path)
    BY <1>1, RoutesAssumption DEF Sited
  <2>3. req[r].pc \notin Past \cup {"open", "chain"}
    BY <2>1 DEF Past, Querying, Between, Swapping
  <2> QED
    BY <2>1, <2>2, <2>3, ZenonT(30) DEF Gated
<1> QED
  BY <1>1, <1>2, <1>3, ZenonT(30) DEF GateInv

\* Every step keeps the words and the gates of all handlers.
LEMMA GateStep == Typing /\ Filed /\ GateInv /\ [Next]_vars => GateInv'
<1> SUFFICES ASSUME Typing, Filed, GateInv, [Next]_vars PROVE GateInv'
  OBVIOUS
<1>1. Typing /\ Filed /\ Sited
  BY DEF GateInv
<1>2. CASE UNCHANGED vars
  BY <1>2 DEF vars, GateInv, Sited
<1>3. ASSUME NEW r \in Requests, Step(r) PROVE GateInv'
  <2>1. site' = site /\ asked' = asked /\ \A s \in Requests \ {r} : req'[s] = req[s]
    BY <1>1, <1>3, OthersStay, ZenonT(30) DEF Only, Step
  <2>2. Words(site, req'[r])
    BY <1>1, <1>3, WordsStep DEF GateInv
  <2>3. Gated(site, asked[r], req'[r])
    BY <1>1, <1>3, GatedStep DEF GateInv
  <2>4. ASSUME NEW s \in Requests PROVE Words(site, req'[s]) /\ Gated(site, asked[s], req'[s])
    BY <2>1, <2>2, <2>3 DEF GateInv
  <2> QED
    BY <1>1, <2>1, <2>4 DEF GateInv, Sited
<1>4. ASSUME NEW r \in Requests, Cancel(r) PROVE GateInv'
  <2>1. site' = site /\ asked' = asked /\ DOMAIN req = Requests /\ IsReq(req[r])
    BY <1>1, <1>4 DEF Cancel, Typing, QType
  <2>2. \A s \in Requests \ {r} : req'[s] = req[s]
    BY <1>4, <2>1 DEF Cancel
  <2>3. PICK q, z : q = req[r] /\ z = req'[r]
    OBVIOUS
  <2>4. /\ z.pc = q.pc /\ z.said = q.said /\ z.cookies = q.cookies /\ z.acc = q.acc /\ z.out = q.out
        /\ z.resp = q.resp /\ z.by = q.by /\ z.chain = q.chain /\ z.route = q.route
    <3>1. z = [q EXCEPT !.cut = TRUE] /\ IsReq(q)
      BY <1>4, <2>1, <2>3 DEF Cancel
    <3> QED
      BY <3>1 DEF IsReq, Fields
  <2>5. Words(site, q) /\ Gated(site, asked[r], q)
    BY <2>3 DEF GateInv
  <2>6. Words(site, z)
    BY <2>4, <2>5, ZenonT(30) DEF Words
  <2>7. Gated(site, asked[r], z)
    BY <2>4, <2>5, ZenonT(30) DEF Gated, ChainOf, TargetOf
  <2>8. ASSUME NEW s \in Requests PROVE Words(site, req'[s]) /\ Gated(site, asked[s], req'[s])
    BY <2>2, <2>3, <2>6, <2>7, ZenonT(30) DEF GateInv
  <2> QED
    BY <1>1, <2>1, <2>8 DEF GateInv, Sited
<1>5. CASE Crash
  BY <1>5 DEF Crash, GateInv, Sited
<1>6. CASE Done
  BY <1>6 DEF Done, vars, GateInv, Sited
<1> QED
  BY <1>2, <1>3, <1>4, <1>5, <1>6 DEF Next

\* In every behaviour each handler has heard the gates in front of it in order
\* and knows the last word on the session and the header (runMiddlewareChain,
\* mergeSideEffects).
THEOREM GateAlways == Spec => []GateInv
<1>1. Init => Typing /\ Filed /\ GateInv
  BY TypingInit, FiledInit, GateInit
<1>2. Typing /\ Filed /\ GateInv /\ [Next]_vars => (Typing /\ Filed /\ GateInv)'
  BY TypingStep, FiledStep, GateStep
<1> QED
  BY <1>1, <1>2, PTL DEF Spec

\* The cookies and headers of an answer are the last the functions asked for,
\* a session that a function sets or clears comes after a renewal, there is at
\* most one renewal, and none in a request that a middleware answered or broke
\* off (LastWordWins: mergeSideEffects, renderFullControlResponse, Renew).
THEOREM LastWords == Spec => []LastWordWins
<1>1. GateInv => LastWordWins
  <2> SUFFICES ASSUME GateInv, NEW r \in Requests
               PROVE  LET out == req[r].out
                          renewals == {i \in DOMAIN req[r].cookies : req[r].cookies[i].op = "set"}
                      IN /\ out.from \in {"middleware", "route", "second"} => out.header = LastSaid(r, "header")
                         /\ out.from \in {"middleware", "route", "second"} /\ authFunctionAllowed(req[r].by.ident) =>
                              CASE LastSaid(r, "jwt") = "null" -> req[r].cookies[Len(req[r].cookies)].op = "clear"
                                [] LastSaid(r, "jwt") = "role" -> req[r].cookies[Len(req[r].cookies)].op = "mint"
                                [] OTHER -> \A i \in DOMAIN req[r].cookies : i \in renewals
                         /\ out.from = "middleware" => renewals = {}
                         /\ out.from = "raised" /\ req[r].chain # <<>> => renewals = {}
                         /\ Cardinality(renewals) <= 1
    BY DEF LastWordWins
  <2> DEFINE q == req[r]
             jwt == LastOfKey(q.said, "jwt")
  <2>0. PICK R : R = Renewed(q.cookies)
    OBVIOUS
  <2>1. R = {i \in DOMAIN req[r].cookies : req[r].cookies[i].op = "set"}
    BY <2>0 DEF Renewed
  <2>2. LastSaid(r, "jwt") = jwt /\ LastSaid(r, "header") = LastOfKey(q.said, "header")
    BY DEF LastSaid, LastOfKey
  <2>3. Words(site, q)
    BY DEF GateInv
  <2>4. q.out.from \in Tellers => Told(site, q.said, q.out.header, q.by.ident, q.cookies)
    BY <2>3, ZenonT(30) DEF Words
  <2>5. (q.out.from = "middleware" => R = {}) /\ (q.out.from = "raised" /\ q.chain # <<>> => R = {})
    BY <2>0, <2>3, ZenonT(30) DEF Words
  <2>6. Cardinality(R) <= 1
    <3>1. \A i, j \in R : i = j
      BY <2>0, <2>3, ZenonT(30) DEF Words
    <3>2. CASE R = {}
      BY <3>2, FS_EmptySet
    <3>3. ASSUME NEW i \in R PROVE Cardinality(R) <= 1
      <4>1. R = {i}
        BY <3>1
      <4> QED
        BY <4>1, FS_Singleton, Cardinality({i}) = 1
    <3> QED
      BY <3>2, <3>3
  <2>7. ASSUME q.out.from \in Tellers, authFunctionAllowed(q.by.ident)
        PROVE  CASE jwt = "null" -> q.cookies[Len(q.cookies)].op = "clear"
                 [] jwt = "role" -> q.cookies[Len(q.cookies)].op = "mint"
                 [] OTHER -> \A i \in DOMAIN q.cookies : i \in R
    <3>1. /\ jwt \in Jwts
          /\ jwt = "null" => EndsIn(q.cookies, "clear")
          /\ jwt = "role" => EndsIn(q.cookies, "mint")
          /\ jwt = "unset" => AllSet(q.cookies)
      BY <2>4, <2>7 DEF Told, Allows, authFunctionAllowed
    <3>2. CASE jwt = "null"
      BY <3>1, <3>2 DEF EndsIn
    <3>3. CASE jwt = "role"
      BY <3>1, <3>3 DEF EndsIn
    <3>4. CASE jwt = "unset"
      <4>1. \A i \in DOMAIN q.cookies : i \in R
        BY <2>0, <3>1, <3>4 DEF AllSet, Renewed
      <4> QED
        BY <3>4, <4>1
    <3> QED
      BY <3>1, <3>2, <3>3, <3>4 DEF Jwts
  <2>8. q.out.from \in Tellers => q.out.header = LastOfKey(q.said, "header")
    BY <2>4 DEF Told
  <2> QED
    BY <2>1, <2>2, <2>5, <2>6, <2>7, <2>8 DEF Tellers
<1> QED
  BY <1>1, GateAlways, PTL

\* Whatever a request came for is reached only after every middleware in
\* front of it has run and let it pass, an outer one before an inner one
\* (GatedFirst: GateMiddleware, runMiddlewareChain, the order of the registry).
THEOREM GateFirst == Spec => []GatedFirst
<1>1. GateInv => GatedFirst
  <2> SUFFICES ASSUME GateInv, NEW r \in Requests, Reaches(r), ~Exempt(asked[r].path)
               PROVE  /\ {req[r].said[i].fn : i \in Ran(r)} = {m.fn : m \in GatesOf(Target(r))}
                      /\ \A i, j \in Ran(r) : req[r].said[i].fn = req[r].said[j].fn => i = j
                      /\ \A a, b \in GatesOf(Target(r)) : \A i, j \in Ran(r) :
                           /\ req[r].said[i].fn = a.fn /\ req[r].said[j].fn = b.fn
                           /\ Leads(a.anonPath, b.anonPath) /\ a.anonPath # b.anonPath
                           => i < j
    BY ZenonT(30) DEF GatedFirst
  <2>1. PICK said, target, full : said = req[r].said /\ target = Target(r) /\ full = MiddlewareChain(site.registry, target)
    BY Zenon
  <2>2. PICK gates : gates = Covering(site.registry, target)
    OBVIOUS
  <2>3. GatesOf(Target(r)) = gates
    BY <2>1, <2>2 DEF GatesOf, Covering, Registered
  <2>14. PICK registry : registry = site.registry
    OBVIOUS
  <2>15. WellFormed(registry) /\ full = MiddlewareChain(registry, target) /\ gates = Covering(registry, target)
    BY <2>1, <2>2, <2>14, SiteWellFormed DEF GateInv
  <2>4. /\ Listing(full)
        /\ {full[i].fn : i \in DOMAIN full} = {m.fn : m \in gates}
        /\ \A i, j \in DOMAIN full : full[i].fn = full[j].fn => i = j
        /\ \A a, b \in gates : \A i, j \in DOMAIN full :
             full[i].fn = a.fn /\ full[j].fn = b.fn /\ Leads(a.anonPath, b.anonPath) /\ a.anonPath # b.anonPath => i < j
    <3>1. Covers(full, gates)
      BY <2>15, ChainCovers
    <3> QED
      BY <3>1 DEF Covers
  <2>5. req[r].pc \in Past \/ req[r].by.from \in {"rel", "static", "route", "second"}
    BY DEF Reaches, Past, Querying, Between
  <2>6. ChainOf(site, asked[r], req[r]) = full
    BY <2>1 DEF ChainOf, TargetOf, Target
  <2>7. PastChain(full, said)
    BY <2>1, <2>5, <2>6, ZenonT(30) DEF GateInv, Gated
  <2>8. Ran(r) = DOMAIN full
    <3>1. PICK n \in Nat, m \in Nat : n = Len(full) /\ DOMAIN full = 1..n /\ m = Len(said) /\ DOMAIN said = 1..m /\ n <= m
      BY <2>7, ListingIs DEF PastChain
    <3>2. \A i \in 1..m : said[i].from = "middleware" <=> i <= n
      BY <2>7, <3>1 DEF PastChain
    <3>3. Ran(r) = {i \in 1..m : said[i].from = "middleware"}
      BY <2>1, <3>1 DEF Ran
    <3>4. ASSUME NEW i PROVE i \in Ran(r) <=> i \in 1..n
      BY <3>1, <3>2, <3>3
    <3> QED
      BY <3>1, <3>4, ZenonT(30)
  <2>9. \A i \in DOMAIN full : said[i].fn = full[i].fn
    BY <2>7 DEF PastChain
  <2>10. {said[i].fn : i \in DOMAIN full} = {full[i].fn : i \in DOMAIN full}
    BY <2>9
  <2>11. {req[r].said[i].fn : i \in Ran(r)} = {m.fn : m \in GatesOf(Target(r))}
    <3>1. {req[r].said[i].fn : i \in Ran(r)} = {said[i].fn : i \in DOMAIN full}
      BY <2>1, <2>8
    <3>2. {said[i].fn : i \in DOMAIN full} = {m.fn : m \in gates}
      BY <2>4, <2>10, Zenon
    <3>3. {m.fn : m \in gates} = {m.fn : m \in GatesOf(Target(r))}
      BY <2>3
    <3> QED
      BY <3>1, <3>2, <3>3, ZenonT(30)
  <2>12. ASSUME NEW i \in Ran(r), NEW j \in Ran(r), req[r].said[i].fn = req[r].said[j].fn PROVE i = j
    <3>1. i \in DOMAIN full /\ j \in DOMAIN full /\ full[i].fn = full[j].fn
      BY <2>1, <2>8, <2>9, <2>12
    <3> QED
      BY <2>4, <3>1
  <2>13. ASSUME NEW a \in GatesOf(Target(r)), NEW b \in GatesOf(Target(r)), NEW i \in Ran(r), NEW j \in Ran(r),
                req[r].said[i].fn = a.fn, req[r].said[j].fn = b.fn,
                Leads(a.anonPath, b.anonPath), a.anonPath # b.anonPath
         PROVE  i < j
    <3>1. i \in DOMAIN full /\ j \in DOMAIN full /\ full[i].fn = a.fn /\ full[j].fn = b.fn
      BY <2>1, <2>8, <2>9, <2>13, ZenonT(30)
    <3> QED
      BY <2>3, <2>4, <2>13, <3>1, ZenonT(30)
  <2> QED
    BY <2>11, <2>12, <2>13, ZenonT(30)
<1> QED
  BY <1>1, GateAlways, PTL

=============================================================================
