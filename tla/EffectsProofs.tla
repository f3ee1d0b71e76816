---------------------------- MODULE EffectsProofs ---------------------------
(***************************************************************************)
(* Proofs about Routes: what of a request is committed when it is answered,*)
(* and what is at the path of an upload, with other requests, failures and *)
(* a crash between any two steps.                                          *)
(***************************************************************************)
EXTENDS RoutesProofs

-----------------------------------------------------------------------------
(* Effects.                                                                *)

\* A sequence, and what it is when an element is added.
LEMMA AppendIs ==
  ASSUME NEW s, NEW e, Listing(s)
  PROVE /\ Listing(Append(s, e))
        /\ Len(s) \in Nat /\ DOMAIN s = 1..Len(s)
        /\ DOMAIN Append(s, e) = 1..Len(s) + 1
        /\ \A i \in DOMAIN s : Append(s, e)[i] = s[i]
        /\ Append(s, e)[Len(s) + 1] = e
<1>1. PICK S : s \in Seq(S) /\ e \in S
  <2> DEFINE S == {s[i] : i \in DOMAIN s} \cup {e}
  <2>1. s \in Seq(S) /\ e \in S
    BY DEF Listing
  <2> QED
    BY <2>1
<1>2. Append(s, e) \in Seq(S)
  BY <1>1
<1>3. Append(s, e) \in Seq({Append(s, e)[i] : i \in DOMAIN Append(s, e)})
  BY <1>2
<1>4. Len(s) \in Nat /\ DOMAIN s = 1..Len(s)
  BY <1>1
<1>5. Len(Append(s, e)) = Len(s) + 1
  BY <1>1
<1>6. DOMAIN Append(s, e) = 1..Len(s) + 1
  BY <1>2, <1>5
<1>7. \A i \in DOMAIN s : Append(s, e)[i] = s[i]
  BY <1>1
<1>8. Append(s, e)[Len(s) + 1] = e
  BY <1>1
<1> QED
  BY <1>3, <1>4, <1>6, <1>7, <1>8 DEF Listing

\* The effects of the middleware that ran.
GateEffects(r, said) == {<<r, "gate", said[i].fn>> : i \in {j \in DOMAIN said : said[j].from = "middleware"}}

\* What one more hearing adds to the effects of the gates.
LEMMA HearsIs ==
  ASSUME NEW r, NEW said, NEW fn, NEW from, NEW resp, Listing(said), NEW s, s = Hears(said, fn, from, resp)
  PROVE  /\ Listing(s)
         /\ from # "middleware" => GateEffects(r, s) = GateEffects(r, said)
         /\ from = "middleware" => GateEffects(r, s) = GateEffects(r, said) \cup {<<r, "gate", fn>>}
<1>1. PICK e : e = [fn |-> fn, from |-> from, jwt |-> resp.jwt, header |-> resp.header]
  BY Zenon
<1>2. s = Append(said, e) /\ e.fn = fn /\ e.from = from
  BY <1>1 DEF Hears
<1>3. PICK n : n = Len(said) + 1
  OBVIOUS
<1>4. /\ Listing(s) /\ DOMAIN s = DOMAIN said \cup {n} /\ n \notin DOMAIN said
      /\ \A i \in DOMAIN said : s[i] = said[i]
      /\ s[n] = e
  BY <1>2, <1>3, AppendIs
<1>5. from # "middleware" => GateEffects(r, s) = GateEffects(r, said)
  BY <1>2, <1>4 DEF GateEffects
<1>6. from = "middleware" => GateEffects(r, s) = GateEffects(r, said) \cup {<<r, "gate", fn>>}
  BY <1>2, <1>4 DEF GateEffects
<1> QED
  BY <1>4, <1>5, <1>6

\* A middleware was heard, and the function of a route.
LEMMA GateHeard ==
  ASSUME NEW r, NEW said, Listing(said), NEW fn, NEW resp, NEW s, s = Hears(said, fn, "middleware", resp)
  PROVE  Listing(s) /\ GateEffects(r, s) = GateEffects(r, said) \cup {<<r, "gate", fn>>}
BY HearsIs

\* The function of a route adds none.
LEMMA RouteHeard ==
  ASSUME NEW r, NEW said, Listing(said), NEW fn, NEW from, from # "middleware", NEW resp,
         NEW s, s = Hears(said, fn, from, resp)
  PROVE  Listing(s) /\ GateEffects(r, s) = GateEffects(r, said)
BY HearsIs

\* What is committed of r, by where its handler is and what it has answered.
Committed(r, q, d) ==
  /\ Listing(q.said)
  /\ q.pc \in Early => GateEffects(r, q.said) = {}
  /\ q.pc \in Early \cup FirstTx => \A e \in d : e[1] # r
  /\ q.pc \in Between =>
       /\ {<<r, "first">>} \cup GateEffects(r, q.said) \subseteq d
       /\ {<<r, "route">>, <<r, "second">>, <<r, "rel">>} \cap d = {}
  /\ q.pc \in Swapping \/ (q.pc \in Showing /\ q.by.from = "second") \/ q.out.from = "second" =>
       {<<r, "first">>, <<r, "second">>} \cup GateEffects(r, q.said) \subseteq d
  /\ (q.pc \in Showing /\ q.by.from = "route") \/ q.out.from = "route" =>
       {<<r, "route">>} \cup GateEffects(r, q.said) \subseteq d
  /\ q.out.from = "rel" => <<r, "rel">> \in d
  /\ q.out.from = "raised" =>
       /\ q.pc \in Over
       /\ {<<r, "route">>, <<r, "second">>, <<r, "rel">>} \cap d = {}
       /\ q.mode # "upload" => \A e \in d : e[1] # r

\* What a handler has done in the transaction it is in.
Transacting == {"chain", "call", "commit", "first", "commit1", "second", "commit2", "relrun"}
Owed(r, q) ==
  CASE q.pc \in {"chain", "call", "first"} -> GateEffects(r, q.said)
    [] q.pc = "commit" -> {<<r, "route">>} \cup GateEffects(r, q.said)
    [] q.pc = "commit1" -> {<<r, "first">>} \cup GateEffects(r, q.said)
    [] q.pc = "commit2" -> {<<r, "second">>}
    [] q.pc = "relrun" -> {<<r, "rel">>}
    [] OTHER -> {}

Pending(r, q, pool) ==
  q.pc \in Transacting =>
    \E c \in Conns : pool[c].owner = r /\ pool[c].use = UseAt(q) /\ Owed(r, q) \subseteq pool[c].pend

Effects ==
  /\ \A r \in Requests : Committed(r, req[r], durable)
  /\ up => \A r \in Requests : Pending(r, req[r], conns)

\* The commit of another request's transaction.
LEMMA CommittedOther ==
  ASSUME NEW s, NEW q, NEW d, NEW D, d \subseteq D, \A e \in D \ d : e[1] # s, Committed(s, q, d)
  PROVE  Committed(s, q, D)
<1>1. \A x : <<s, x>> \in D => <<s, x>> \in d
  OBVIOUS
<1>2. (\A e \in d : e[1] # s) => \A e \in D : e[1] # s
  OBVIOUS
<1> QED
  BY <1>1, <1>2 DEF Committed

\* A handler that ends its request.
LEMMA EndsCommitted ==
  ASSUME NEW r, NEW q, NEW z, NEW from, NEW d, NEW D, d \subseteq D, Committed(r, q, d), Local(q), Ends(q, z, from),
         q.pc \notin Over, from \in {"", "raised", "rel", "swap", "restored"},
         from = "rel" => <<r, "rel">> \in D,
         from = "raised" => /\ {<<r, "route">>, <<r, "second">>, <<r, "rel">>} \cap D = {}
                            /\ q.mode # "upload" => \A e \in D : e[1] # r
  PROVE  Committed(r, z, D)
<1>1. z.pc = "finish" /\ z.said = q.said /\ z.mode = q.mode
  BY DEF Ends, Changes
<1>2. CASE q.out.status = 0
  <2>1. z.out.from = from
    BY <1>2 DEF Ends, Speaks
  <2> QED
    BY <1>1, <2>1 DEF Committed, Early, FirstTx, Between, Swapping, Showing, Over
<1>3. CASE q.out.status # 0
  <2>1. z.out = q.out
    BY <1>3 DEF Ends, Speaks
  <2> QED
    BY <1>1, <2>1 DEF Committed, Early, FirstTx, Between, Swapping, Showing, Over
<1> QED
  BY <1>2, <1>3

\* A handler that writes the answer it was about to show.
LEMMA SaysCommitted ==
  ASSUME NEW r, NEW q, NEW z, NEW from, NEW d, NEW D, d \subseteq D, Committed(r, q, d), Local(q), Says(q, z, from),
         q.pc \in Showing \cup {"static"}, from \in {"route", "second", "rel", "raised"} => from = q.by.from
  PROVE  Committed(r, z, D)
<1>1. z.pc \in {"handled", "finish"} /\ z.said = q.said /\ z.mode = q.mode /\ q.out.status = 0
  BY DEF Says, Changes, Local, Stage, Answering, Over, Showing
<1>2. z.out.from = from
  BY <1>1 DEF Says, Speaks
<1>3. from \in {"route", "second", "rel", "raised"} => from \in {"route", "second"} /\ q.pc \in Showing
  BY DEF Local, Stage
<1> QED
  BY <1>1, <1>2, <1>3 DEF Committed, Early, FirstTx, Between, Swapping, Showing, Over

\* What a transaction of r has in it.
LEMMA WorkIs ==
  ASSUME NEW r \in Requests, Typing, Pool, NEW e \in Work(r)
  PROVE  e[1] = r /\ (UseAt(req[r]) = "first" => e[2] \in {"gate", "first"})
<1>1. PICK c \in Mine(r) : e \in conns[c].pend
  BY DEF Work
<1>2. c \in Conns /\ conns[c].owner = r /\ conns[c].use = UseAt(req[r])
  BY <1>1 DEF Mine, Held
<1>3. Holding(r, req[r], conns[c])
  BY <1>2 DEF Pool
<1> QED
  BY <1>1, <1>2, <1>3 DEF Holding

\* What a handler is owed is in its transaction.
LEMMA OwedIs ==
  ASSUME NEW r \in Requests, Pending(r, req[r], conns), req[r].pc \in Transacting
  PROVE  Owed(r, req[r]) \subseteq Work(r)
<1>1. PICK c \in Conns : /\ conns[c].owner = r /\ conns[c].use = UseAt(req[r])
                         /\ Owed(r, req[r]) \subseteq conns[c].pend
  BY DEF Pending
<1>2. c \in Mine(r)
  BY <1>1 DEF Mine, Held
<1> QED
  BY <1>1, <1>2 DEF Work

\* A step of r commits nothing of another's.
LEMMA DurableGrows ==
  ASSUME NEW r \in Requests, Typing, Pool, Step(r)
  PROVE  durable \subseteq durable' /\ \A e \in durable' \ durable : e[1] = r
<1>1. ASSUME durable' \in {durable, durable \cup Work(r)}
      PROVE  durable \subseteq durable' /\ \A e \in durable' \ durable : e[1] = r
  BY <1>1, WorkIs
<1>4. CASE Raises(r) \/ Loses(r) \/ Replies(r) \/ GatePasses(r) \/ RelAnswers(r) \/ Commits(r) \/ Proceeds(r)
  BY <1>1, <1>4 DEF Raises, Loses, Replies, GatePasses, RelAnswers, Commits, Proceeds, Won, Tried, Quiet
<1>5. CASE ChainGoes(r) \/ ChainStops(r) \/ Invokes(r) \/ Decides(r)
  BY <1>5 DEF ChainGoes, ChainStops, Invokes, Decides, Called
<1>6. CASE Begins(r)
  BY <1>6 DEF Begins
<1>7. CASE Finishes(r)
  BY <1>7, SMTT(30), ZenonT(30) DEF Finishes
<1>8. CASE Fails(r) \/ Streams(r) \/ BacksUp(r) \/ SwapFails(r) \/ MovesIn(r) \/ Restores(r) \/ Drops(r)
  BY <1>8, ZenonT(30) DEF Fails, Streams, BacksUp, SwapFails, MovesIn, Restores, Drops
<1>9. CASE Shows(r) \/ ToGate(r) \/ ToHandle(r) \/ Ungated(r) \/ Opens(r) \/ ToUpload(r) \/ ChainEnds(r) \/ Goes(r)
  BY <1>9, SMTT(30), ZenonT(30) DEF Shows, ToGate, ToHandle, Ungated, Opens, ToUpload, ChainEnds, Goes, Quiet
<1> QED
  BY StepIs, <1>4, <1>5, <1>6, <1>7, <1>8, <1>9, SMTT(30), ZenonT(30)

\* What is committed of r after its own step.
LEMMA CommittedStep ==
  ASSUME NEW r \in Requests, Typing, Pool, DiskTyping, Effects, up, Step(r)
  PROVE  Committed(r, req'[r], durable')
<1>0. /\ Local(req[r]) /\ Committed(r, req[r], durable) /\ Pending(r, req[r], conns)
      /\ durable \subseteq durable'
  BY Locally, DurableGrows DEF Effects
<1>a. req[r].pc \notin Over \cup {"handled"} => req[r].out.from = ""
  BY <1>0 DEF Local, Answering
<1>b. Listing(req[r].said)
  BY <1>0 DEF Committed
<1>1. CASE Fails(r)
  <2>1. Ends(req[r], req'[r], "") /\ req[r].pc \notin Over
    BY <1>1 DEF Fails, Early, Over
  <2> QED
    BY <1>0, <2>1, EndsCommitted, ZenonT(30)
<1>2. CASE Raises(r)
  <2>1. Ends(req[r], req'[r], "raised") /\ req[r].pc \notin Over /\ durable' = durable
    BY <1>2 DEF Raises, Over
  <2>2. CASE req[r].pc \in FirstTx
    <3>1. \A e \in durable : e[1] # r
      BY <1>0, <2>2 DEF Committed
    <3>2. {<<r, "route">>, <<r, "second">>, <<r, "rel">>} \cap durable' = {}
      BY <2>1, <3>1
    <3> QED
      BY <1>0, <2>1, <3>1, <3>2, EndsCommitted, ZenonT(30)
  <2>3. CASE req[r].pc = "second"
    <3>1. req[r].mode = "upload"
      BY <1>0, <2>3, ZenonT(30) DEF Local, Stage, Between
    <3>2. {<<r, "route">>, <<r, "second">>, <<r, "rel">>} \cap durable' = {}
      BY <1>0, <2>1, <2>3, SMTT(30), ZenonT(30) DEF Committed, Between
    <3> QED
      BY <1>0, <2>1, <3>1, <3>2, EndsCommitted, ZenonT(30)
  <2> QED
    BY <1>2, <2>2, <2>3 DEF Raises, FirstTx
<1>3. CASE Loses(r)
  <2>1. Ends(req[r], req'[r], "") /\ req[r].pc \notin Over
    BY <1>3, ZenonT(30) DEF Loses, Early, Over
  <2> QED
    BY <1>0, <2>1, EndsCommitted
<1>4. CASE Replies(r)
  <2>1. PICK from \in {"", "site", "template", req[r].by.from} \cup file : Says(req[r], req'[r], from)
    BY <1>4 DEF Replies
  <2>2. from \in {"route", "second", "rel", "raised"} => from = req[r].by.from
    BY RoutesAssumption, ZenonT(30) DEF DiskTyping, Filed, Contents, Sources
  <2>3. req[r].pc \in Showing \cup {"static"}
    BY <1>4 DEF Replies
  <2> QED
    BY <1>0, <2>1, <2>2, <2>3, SaysCommitted, ZenonT(30)
<1>5. CASE Shows(r)
  <2>1. durable' = durable /\ req'[r].out.from = "" /\ req'[r].said = req[r].said /\ req'[r].by = req[r].by
    BY <1>a, <1>5 DEF Shows, Quiet, Changes, Over
  <2>2. req'[r].pc \in Showing /\ (req[r].pc \in Showing \/ req[r].by.from = "static")
    BY <1>0, <1>5, ZenonT(30) DEF Shows, Local, Stage, Showing
  <2> QED
    BY <1>0, <2>1, <2>2, ZenonT(30) DEF Committed, Early, FirstTx, Between, Swapping, Showing, Over
<1>6. CASE Begins(r)
  <2>1. durable' = durable
    BY <1>6, ZenonT(30) DEF Begins
  <2>2. req'[r].out.from = "" /\ req'[r].said = req[r].said
    BY <1>a, <1>6 DEF Begins, Changes, Over, Early, FirstTx, Between, Swapping, Showing, Over, BeginsAt
  <2> QED
    BY <1>0, <1>6, <2>1, <2>2, ZenonT(30) DEF Begins, Committed, Changes, Early, FirstTx, Between, Swapping, Showing, Over, BeginsAt
<1>7. CASE ToGate(r)
  <2>1. durable' = durable
    BY <1>7, SMTT(30), ZenonT(30) DEF ToGate, Quiet
  <2>2. req'[r].out.from = "" /\ req'[r].said = req[r].said
    BY <1>a, <1>7 DEF ToGate, Changes, Over, Early, FirstTx, Between, Swapping, Showing, Over
  <2> QED
    BY <1>0, <1>7, <2>1, <2>2, ZenonT(30) DEF ToGate, Committed, Changes, Early, FirstTx, Between, Swapping, Showing, Over
<1>8. CASE ToHandle(r)
  <2>1. durable' = durable
    BY <1>8, SMTT(30), ZenonT(30) DEF ToHandle, Quiet
  <2>2. req'[r].out.from = "" /\ req'[r].said = req[r].said
    BY <1>a, <1>8, ZenonT(30) DEF ToHandle, Changes, Over, Early, FirstTx, Between, Swapping, Showing, Over
  <2> QED
    BY <1>0, <1>8, <2>1, <2>2, ZenonT(30) DEF ToHandle, Committed, Changes, Early, FirstTx, Between, Swapping, Showing, Over
<1>9. CASE Ungated(r)
  <2>1. durable' = durable /\ req'[r].out.from = "" /\ req'[r].said = req[r].said
    BY <1>a, <1>9, ZenonT(30) DEF Ungated, Quiet, Forwards, Applies, Changes, Over
  <2>2. req'[r].pc \in {"rel", "static"}
    BY <1>0, <1>9, ZenonT(30) DEF Ungated, Forwards, Local, Stage
  <2> QED
    BY <1>0, <2>1, <2>2, ZenonT(30) DEF Committed, Early, FirstTx, Between, Swapping, Showing, Over
<1>10. CASE Opens(r)
  <2>1. durable' = durable
    BY <1>10, SMTT(30), ZenonT(30) DEF Opens, Quiet
  <2>2. req'[r].out.from = "" /\ req'[r].said = req[r].said
    BY <1>a, <1>10 DEF Opens, Changes, Over, Early, FirstTx, Between, Swapping, Showing, Over
  <2> QED
    BY <1>0, <1>10, <2>1, <2>2, ZenonT(30) DEF Opens, Committed, Changes, Early, FirstTx, Between, Swapping, Showing, Over
<1>11. CASE ToUpload(r)
  <2>1. durable' = durable
    BY <1>11, SMTT(30), ZenonT(30) DEF ToUpload, Quiet
  <2>2. req'[r].out.from = "" /\ req'[r].said = req[r].said
    BY <1>a, <1>11, ZenonT(30) DEF ToUpload, Changes, Over, Early, FirstTx, Between, Swapping, Showing, Over
  <2> QED
    BY <1>0, <1>11, <2>1, <2>2, ZenonT(30) DEF ToUpload, Committed, Changes, Early, FirstTx, Between, Swapping, Showing, Over
<1>12. CASE ChainGoes(r)
  <2>1. durable' = durable /\ req'[r].out.from = "" /\ req'[r].pc = "chain" /\ req[r].pc = "chain"
    BY <1>a, <1>12, ZenonT(30) DEF ChainGoes, Called, Changes, Over
  <2>3. PICK resp : req'[r].said = Hears(req[r].said, Head(req[r].chain).fn, "middleware", resp)
    BY <1>12 DEF ChainGoes
  <2>2. Listing(req'[r].said)
    BY <1>b, <2>3, GateHeard, SMTT(30), ZenonT(30)
  <2> QED
    BY <1>0, <2>1, <2>2, ZenonT(30) DEF Committed, Early, FirstTx, Between, Swapping, Showing, Over
<1>13. CASE ChainStops(r)
  <2>1. durable' = durable /\ req'[r].out.from = ""
    BY <1>a, <1>13, ZenonT(30) DEF ChainStops, Called, Renders, Applies, Over
  <2>2. req'[r].pc \in Showing /\ req'[r].by.from = "middleware"
    BY <1>13 DEF ChainStops, Renders, Showing
  <2>4. PICK resp : req'[r].said = Hears(req[r].said, Head(req[r].chain).fn, "middleware", resp)
    BY <1>13, SMTT(30), ZenonT(30) DEF ChainStops, Renders
  <2>3. Listing(req'[r].said)
    BY <1>b, <2>4, GateHeard
  <2> QED
    BY <2>1, <2>2, <2>3, ZenonT(30) DEF Committed, Early, FirstTx, Between, Swapping, Showing, Over
<1>14. CASE GatePasses(r)
  <2>1. req'[r].out.from = "" /\ req'[r].said = req[r].said
    BY <1>a, <1>14 DEF GatePasses, Forwards, Applies, Changes, Over
  <2>2. req'[r].pc \in {"rel", "static"}
    BY <1>0, <1>14 DEF GatePasses, Forwards, Local, Stage
  <2> QED
    BY <1>0, <2>1, <2>2, ZenonT(30) DEF Committed, Early, FirstTx, Between, Swapping, Showing, Over
<1>15. CASE ChainEnds(r)
  <2>1. durable' = durable
    BY <1>15, SMTT(30), ZenonT(30) DEF ChainEnds, Quiet
  <2>2. req'[r].out.from = "" /\ req'[r].said = req[r].said
    BY <1>a, <1>15 DEF ChainEnds, Changes, Over, Early, FirstTx, Between, Swapping, Showing, Over
  <2> QED
    BY <1>0, <1>15, <2>1, <2>2, ZenonT(30) DEF ChainEnds, Committed, Changes, Early, FirstTx, Between, Swapping, Showing, Over
<1>16. CASE Goes(r)
  <2>1. durable' = durable
    BY <1>16, ZenonT(30) DEF Goes, Quiet
  <2>2. req'[r].out.from = "" /\ req'[r].said = req[r].said
    BY <1>a, <1>16, ZenonT(30) DEF Goes, Changes, Over, Early, FirstTx, Between, Swapping, Showing, Over, Turns
  <2> QED
    BY <1>0, <1>16, <2>1, <2>2, ZenonT(30) DEF Goes, Committed, Changes, Early, FirstTx, Between, Swapping, Showing, Over, Turns
<1>17. CASE RelAnswers(r)
  <2>1. Ends(req[r], req'[r], "rel") /\ req[r].pc \notin Over
    BY <1>17 DEF RelAnswers, Over
  <2>2. <<r, "rel">> \in durable'
    BY <1>0, <1>17, OwedIs, SMTT(30), ZenonT(30) DEF RelAnswers, Owed, Transacting, Won
  <2> QED
    BY <1>0, <2>1, <2>2, EndsCommitted, ZenonT(30)
<1>18. CASE Invokes(r)
  <2>1. durable' = durable /\ req'[r].out.from = ""
    BY <1>a, <1>18, ZenonT(30) DEF Invokes, Called, Changes, Over
  <2>2. Listing(req'[r].said) /\ GateEffects(r, req'[r].said) = GateEffects(r, req[r].said)
    <3>1. PICK route \in req[r].route : \E resp \in Answers(route) :
            req'[r].said = Hears(req[r].said, route.fn, IF req[r].pc = "call" THEN "route" ELSE "second", resp)
      BY <1>18 DEF Invokes
    <3>2. PICK fn, from, resp : req'[r].said = Hears(req[r].said, fn, from, resp) /\ from # "middleware"
      BY <3>1, SMTT(30), ZenonT(30)
    <3> QED
      BY <1>b, <3>2, RouteHeard, SMTT(30), ZenonT(30)
  <2>3. (req[r].pc = "call" /\ req'[r].pc = "commit") \/ (req[r].pc = "second" /\ req'[r].pc = "commit2")
    BY <1>18 DEF Invokes
  <2> QED
    BY <1>0, <2>1, <2>2, <2>3, ZenonT(30) DEF Committed, Early, FirstTx, Between, Swapping, Showing, Over
<1>19. CASE Commits(r)
  <2>1. /\ req'[r].out.from = "" /\ req'[r].said = req[r].said /\ req'[r].pc \in Showing
        /\ req'[r].by.from = IF req[r].pc = "commit" THEN "route" ELSE "second"
    BY <1>a, <1>19, ZenonT(30) DEF Commits, ShowsRoute, Renders, Applies, Showing, Over
  <2>2. req[r].pc \in {"commit", "commit2"} /\ durable' = durable \cup Work(r)
    BY <1>19 DEF Commits, Won
  <2>3. Owed(r, req[r]) \subseteq durable'
    BY <1>0, <2>2, OwedIs, SMTT(30), ZenonT(30) DEF Transacting
  <2>4. CASE req[r].pc = "commit"
    <3>1. {<<r, "route">>} \cup GateEffects(r, req'[r].said) \subseteq durable'
      BY <2>1, <2>3, <2>4, ZenonT(30) DEF Owed
    <3> QED
      BY <1>0, <2>1, <2>4, <3>1, ZenonT(30) DEF Committed, Early, FirstTx, Between, Swapping, Showing, Over
  <2>5. CASE req[r].pc = "commit2"
    <3>1. <<r, "second">> \in durable'
      BY <2>3, <2>5, SMTT(30), ZenonT(30) DEF Owed
    <3>2. {<<r, "first">>} \cup GateEffects(r, req[r].said) \subseteq durable
      BY <1>0, <2>5 DEF Committed, Between
    <3> QED
      BY <1>0, <2>1, <2>5, <3>1, <3>2, ZenonT(30) DEF Committed, Early, FirstTx, Between, Swapping, Showing, Over
  <2> QED
    BY <2>2, <2>4, <2>5, SMTT(30), ZenonT(30)
<1>20. CASE Decides(r)
  <2>1. durable' = durable
    BY <1>20, ZenonT(30) DEF Decides, Called
  <2>2. req'[r].out.from = "" /\ req'[r].said = req[r].said
    BY <1>a, <1>20 DEF Decides, Changes, Over, Early, FirstTx, Between, Swapping, Showing, Over
  <2> QED
    BY <1>0, <1>20, <2>1, <2>2, ZenonT(30) DEF Decides, Committed, Changes, Early, FirstTx, Between, Swapping, Showing, Over
<1>21. CASE Proceeds(r)
  <2>1. req'[r].out.from = "" /\ req'[r].said = req[r].said
    BY <1>a, <1>21, ZenonT(30) DEF Proceeds, Turns, Changes, Over
  <2>2. req[r].pc \in {"commit1", "commit2"} /\ durable' = durable \cup Work(r)
    BY <1>21, ZenonT(30) DEF Proceeds, Won
  <2>3. Owed(r, req[r]) \subseteq durable'
    BY <1>0, <2>2, OwedIs, SMTT(30), ZenonT(30) DEF Transacting
  <2>4. CASE req[r].pc = "commit1"
    <3>1. {<<r, "first">>} \cup GateEffects(r, req'[r].said) \subseteq durable'
      BY <2>1, <2>3, <2>4, ZenonT(30) DEF Owed
    <3>2. req'[r].pc = "place"
      BY <1>21, <2>4 DEF Proceeds, Turns
    <3>3. UseAt(req[r]) = "first"
      BY <1>0, <2>4, ZenonT(30) DEF UseAt, Local, Stage
    <3>4. \A e \in durable : e[1] # r
      BY <1>0, <2>4 DEF Committed, FirstTx
    <3>5. ASSUME NEW x \in {"route", "second", "rel"}, <<r, x>> \in durable' PROVE FALSE
      <4>0. PICK e : e = <<r, x>>
        BY ZenonT(30)
      <4>1. e[1] = r /\ e[2] = x
        BY <4>0
      <4>2. e \in Work(r)
        BY <2>2, <3>4, <3>5, <4>0, <4>1, SMTT(30), ZenonT(30)
      <4> QED
        BY <3>3, <4>1, <4>2, WorkIs, SMTT(30), ZenonT(30)
    <3>6. {<<r, "route">>, <<r, "second">>, <<r, "rel">>} \cap durable' = {}
      BY <3>5
    <3> QED
      BY <1>0, <2>1, <3>1, <3>2, <3>6, ZenonT(30) DEF Committed, Early, FirstTx, Between, Swapping, Showing, Over
  <2>5. CASE req[r].pc = "commit2"
    <3>1. <<r, "second">> \in durable'
      BY <2>3, <2>5 DEF Owed
    <3>2. {<<r, "first">>} \cup GateEffects(r, req[r].said) \subseteq durable
      BY <1>0, <2>5 DEF Committed, Between
    <3>3. req'[r].pc = "swap"
      BY <1>21, <2>5 DEF Proceeds, Turns
    <3> QED
      BY <1>0, <2>1, <3>1, <3>2, <3>3, ZenonT(30) DEF Committed, Early, FirstTx, Between, Swapping, Showing, Over
  <2> QED
    BY <2>2, <2>4, <2>5, ZenonT(30)
<1>22. CASE Streams(r)
  <2>1. durable' = durable
    BY <1>22 DEF Streams
  <2>2. req'[r].out.from = "" /\ req'[r].said = req[r].said
    BY <1>a, <1>22, ZenonT(30) DEF Streams, Changes, Over, Early, FirstTx, Between, Swapping, Showing, Over, Turns
  <2> QED
    BY <1>0, <1>22, <2>1, <2>2, ZenonT(30) DEF Streams, Committed, Changes, Early, FirstTx, Between, Swapping, Showing, Over, Turns
<1>23. CASE BacksUp(r)
  <2>1. durable' = durable
    BY <1>23, SMTT(30), ZenonT(30) DEF BacksUp
  <2>2. req'[r].out.from = "" /\ req'[r].said = req[r].said
    BY <1>a, <1>23, ZenonT(30) DEF BacksUp, Changes, Over, Early, FirstTx, Between, Swapping, Showing, Over, Turns
  <2> QED
    BY <1>0, <1>23, <2>1, <2>2, ZenonT(30) DEF BacksUp, Committed, Changes, Early, FirstTx, Between, Swapping, Showing, Over, Turns
<1>24. CASE SwapFails(r)
  <2>1. Ends(req[r], req'[r], "swap") /\ req[r].pc \notin Over
    BY <1>24 DEF SwapFails, Early, Over
  <2> QED
    BY <1>0, <2>1, EndsCommitted, ZenonT(30)
<1>25. CASE MovesIn(r)
  <2>1. durable' = durable
    BY <1>25 DEF MovesIn
  <2>2. req'[r].out.from = "" /\ req'[r].said = req[r].said
    BY <1>a, <1>25, ZenonT(30) DEF MovesIn, Changes, Over, Early, FirstTx, Between, Swapping, Showing, Over, Turns
  <2> QED
    BY <1>0, <1>25, <2>1, <2>2, ZenonT(30) DEF MovesIn, Committed, Changes, Early, FirstTx, Between, Swapping, Showing, Over, Turns
<1>26. CASE Restores(r)
  <2>1. Ends(req[r], req'[r], "restored") /\ req[r].pc \notin Over
    BY <1>26, SMTT(30), ZenonT(30) DEF Restores, Early, Over
  <2> QED
    BY <1>0, <2>1, EndsCommitted, ZenonT(30)
<1>27. CASE Drops(r)
  <2>1. /\ req'[r].out.from = "" /\ req'[r].said = req[r].said /\ req'[r].pc \in Showing
        /\ req'[r].by.from = "second"
    BY <1>a, <1>27, ZenonT(30) DEF Drops, ShowsRoute, Renders, Applies, Showing, Over
  <2>2. durable' = durable /\ req[r].pc = "drop"
    BY <1>27 DEF Drops
  <2> QED
    BY <1>0, <2>1, <2>2 DEF Committed, Early, FirstTx, Between, Swapping, Showing, Over
<1>28. CASE Finishes(r)
  <2>1. durable' = durable /\ req'[r].out = req[r].out /\ req'[r].said = req[r].said /\ req'[r].mode = req[r].mode
    BY <1>28, Zenon DEF Finishes, Changes
  <2> QED
    BY <1>0, <1>28, <2>1, ZenonT(30) DEF Finishes, Committed, Early, FirstTx, Between, Swapping, Showing, Over
<1> QED
  BY StepIs, <1>1, <1>2, <1>3, <1>4, <1>5, <1>6, <1>7, <1>8, <1>9, <1>10, <1>11, <1>12, <1>13, <1>14, <1>15, <1>16, <1>17, <1>18, <1>19, <1>20, <1>21, <1>22, <1>23, <1>24, <1>25, <1>26, <1>27, <1>28, SMTT(30), ZenonT(30)

\* The client goes away: nothing but the handler's flag changes.
LEMMA CancelIs ==
  ASSUME NEW r \in Requests, Typing, Cancel(r)
  PROVE  /\ Only(r) /\ Changes(req[r], req'[r], {"cut"})
         /\ UNCHANGED <<site, asked, conns, durable, file, temps, backups, moves, up>>
<1>1. req' = [req EXCEPT ![r].cut = TRUE]
  BY DEF Cancel
<1>2. Only(r)
  BY <1>1 DEF Only, Typing
<1>3. Changes(req[r], req'[r], {"cut"})
  BY <1>1, Known, SMTT(30), ZenonT(30) DEF Changes, IsReq, Fields
<1> QED
  BY <1>2, <1>3 DEF Cancel, disk

\* What r owes after its own step is in its transaction.
LEMMA PendingStep ==
  ASSUME NEW r \in Requests, Typing, Pool, Effects, up, Step(r)
  PROVE  Pending(r, req'[r], conns')
<1>0. /\ Local(req[r]) /\ Committed(r, req[r], durable) /\ Pending(r, req[r], conns) /\ Listing(req[r].said)
  BY Locally, ZenonT(30) DEF Effects, Committed
<1>1. CASE Begins(r)
  <2>1. PICK d, k : /\ d \in Free /\ conns' = [conns EXCEPT ![d] = k]
                    /\ k = [owner |-> r, use |-> UseAt(req'[r]), role |-> req[r].sess.role,
                            pend |-> BeginsWith(r, req[r].pc)]
    BY <1>1, ZenonT(30) DEF Begins
  <2>2. d \in Conns /\ conns'[d] = k /\ k.owner = r /\ k.use = UseAt(req'[r]) /\ k.pend = BeginsWith(r, req[r].pc)
    BY <2>1, Zenon DEF Free, Pool
  <2>3. req'[r].said = req[r].said /\ req'[r].pc = BeginsAt(req[r].pc)
    BY <1>1, Zenon DEF Begins, Changes
  <2>4. req'[r].pc \in Transacting => Owed(r, req'[r]) \subseteq BeginsWith(r, req[r].pc)
    <3>1. CASE req[r].pc = "open"
      <4>1. GateEffects(r, req'[r].said) = {}
        BY <1>0, <2>3, <3>1, ZenonT(30) DEF Committed, Early
      <4> QED
        BY <2>3, <3>1, <4>1 DEF BeginsAt, Owed
    <3>2. CASE req[r].pc \in {"relopen", "open2"}
      BY <2>3, <3>2 DEF BeginsAt, BeginsWith, Owed
    <3>3. CASE req[r].pc = "relfunc"
      BY <2>3, <3>3, SMTT(30), ZenonT(30) DEF BeginsAt, Transacting
    <3> QED
      BY <1>1, <3>1, <3>2, <3>3, ZenonT(30) DEF Begins
  <2> QED
    BY <2>2, <2>4 DEF Pending
<1>2. ASSUME NEW effect, Called(r, effect), req[r].pc \in Transacting, UseAt(req'[r]) = UseAt(req[r]),
             Owed(r, req'[r]) \subseteq Owed(r, req[r]) \cup {effect}
      PROVE  Pending(r, req'[r], conns')
  <2>1. PICK c \in Conns : conns[c].owner = r /\ conns[c].use = UseAt(req[r]) /\ Owed(r, req[r]) \subseteq conns[c].pend
    BY <1>0, <1>2, SMTT(30), ZenonT(30) DEF Pending
  <2>2. c \in Mine(r)
    BY <2>1, SMTT(30), ZenonT(30) DEF Mine, Held
  <2>3. conns'[c].owner = r /\ conns'[c].use = UseAt(req[r]) /\ conns'[c].pend = conns[c].pend \cup {effect}
    BY <1>2, <2>2, CalledIs, SMTT(30), ZenonT(30)
  <2> QED
    BY <1>2, <2>1, <2>3, SMTT(30), ZenonT(30) DEF Pending
<1>3. CASE ChainGoes(r)
  <2>1. PICK resp : req'[r].said = Hears(req[r].said, Head(req[r].chain).fn, "middleware", resp)
    BY <1>3 DEF ChainGoes
  <2>2. GateEffects(r, req'[r].said) = GateEffects(r, req[r].said) \cup {<<r, "gate", Head(req[r].chain).fn>>}
    <3>1. PICK said, s, fn : said = req[r].said /\ s = req'[r].said /\ fn = Head(req[r].chain).fn
      BY SMTT(30), ZenonT(30)
    <3>2. Listing(said) /\ s = Hears(said, fn, "middleware", resp)
      BY <1>0, <2>1, <3>1, SMTT(30), ZenonT(30)
    <3>3. GateEffects(r, s) = GateEffects(r, said) \cup {<<r, "gate", fn>>}
      BY <3>2, GateHeard
    <3> QED
      BY <3>1, <3>3
  <2>3. req[r].pc = "chain" /\ req'[r].pc = "chain" /\ req'[r].mode = req[r].mode
    BY <1>3, ZenonT(30) DEF ChainGoes, Changes
  <2>4. UseAt(req'[r]) = UseAt(req[r])
    BY <2>3 DEF UseAt
  <2>5. Owed(r, req[r]) = GateEffects(r, req[r].said) /\ Owed(r, req'[r]) = GateEffects(r, req'[r].said)
    BY <2>3, SMTT(30), ZenonT(30) DEF Owed
  <2>6. Called(r, <<r, "gate", Head(req[r].chain).fn>>)
    BY <1>3 DEF ChainGoes
  <2> QED
    BY <1>2, <2>2, <2>3, <2>4, <2>5, <2>6, SMTT(30), ZenonT(30) DEF Transacting
<1>4. CASE Invokes(r)
  <2>1. PICK fn, from, resp : /\ req'[r].said = Hears(req[r].said, fn, from, resp)
                              /\ from = IF req[r].pc = "call" THEN "route" ELSE "second"
    BY <1>4 DEF Invokes
  <2>7. from # "middleware"
    BY <2>1, SMTT(30), ZenonT(30)
  <2>2. GateEffects(r, req'[r].said) = GateEffects(r, req[r].said)
    BY <1>0, <2>1, <2>7, RouteHeard, SMTT(30), ZenonT(30)
  <2>3. /\ req[r].pc \in {"call", "second"} /\ req'[r].mode = req[r].mode
        /\ req'[r].pc = IF req[r].pc = "call" THEN "commit" ELSE "commit2"
    BY <1>4 DEF Invokes, Changes
  <2>4. UseAt(req'[r]) = UseAt(req[r])
    BY <2>3, SMTT(30), ZenonT(30) DEF UseAt
  <2>5. CASE req[r].pc = "call"
    <3>1. Called(r, <<r, "route">>)
      BY <1>4, <2>5 DEF Invokes
    <3>2. Owed(r, req[r]) = GateEffects(r, req[r].said) /\ Owed(r, req'[r]) = {<<r, "route">>} \cup GateEffects(r, req'[r].said)
      BY <2>3, <2>5, SMTT(30), ZenonT(30) DEF Owed
    <3> QED
      BY <1>2, <2>2, <2>4, <2>5, <3>1, <3>2, SMTT(30), ZenonT(30) DEF Transacting
  <2>6. CASE req[r].pc = "second"
    <3>1. Called(r, <<r, "second">>)
      BY <1>4, <2>6 DEF Invokes
    <3>2. Owed(r, req'[r]) = {<<r, "second">>}
      BY <2>3, <2>6, SMTT(30), ZenonT(30) DEF Owed
    <3> QED
      BY <1>2, <2>4, <2>6, <3>1, <3>2, SMTT(30), ZenonT(30) DEF Transacting
  <2> QED
    BY <2>3, <2>5, <2>6, SMTT(30), ZenonT(30)
<1>5. CASE Decides(r)
  <2>1. req[r].pc = "first" /\ req'[r].pc = "commit1" /\ req'[r].mode = req[r].mode /\ req'[r].said = req[r].said
    BY <1>5 DEF Decides, Changes
  <2>2. UseAt(req'[r]) = UseAt(req[r])
    BY <2>1 DEF UseAt
  <2>3. Owed(r, req[r]) = GateEffects(r, req[r].said) /\ Owed(r, req'[r]) = {<<r, "first">>} \cup GateEffects(r, req[r].said)
    BY <2>1 DEF Owed
  <2>4. Called(r, <<r, "first">>)
    BY <1>5, SMTT(30), ZenonT(30) DEF Decides
  <2> QED
    BY <1>2, <2>1, <2>2, <2>3, <2>4, SMTT(30), ZenonT(30) DEF Transacting
<1>6. CASE ChainEnds(r)
  <2>1. /\ req[r].pc = "chain" /\ req'[r].pc \in {"first", "call"} /\ req'[r].mode = req[r].mode
        /\ req'[r].said = req[r].said /\ conns' = conns
    BY <1>6, SMTT(30), ZenonT(30) DEF ChainEnds, Changes, Quiet
  <2>2. UseAt(req'[r]) = UseAt(req[r])
    BY <2>1 DEF UseAt
  <2>3. Owed(r, req[r]) = GateEffects(r, req[r].said) /\ Owed(r, req'[r]) = GateEffects(r, req[r].said)
    BY <2>1, SMTT(30), ZenonT(30) DEF Owed
  <2> QED
    BY <1>0, <2>1, <2>2, <2>3, SMTT(30), ZenonT(30) DEF Pending, Transacting
<1>7. ASSUME req'[r].pc \notin Transacting PROVE Pending(r, req'[r], conns')
  BY <1>7 DEF Pending
<1>8. CASE Fails(r) \/ Raises(r) \/ Loses(r) \/ RelAnswers(r) \/ SwapFails(r) \/ Restores(r)
  BY <1>7, <1>8, ZenonT(30) DEF Fails, Raises, Loses, RelAnswers, SwapFails, Restores, Ends, Transacting
<1>9. CASE Replies(r)
  <2>1. req'[r].pc \in {"handled", "finish"}
    BY <1>0, <1>9, ZenonT(30) DEF Replies, Says, Local, Stage
  <2> QED
    BY <1>7, <2>1 DEF Transacting
<1>10. CASE Shows(r) \/ ToGate(r) \/ ToHandle(r) \/ Opens(r) \/ ToUpload(r) \/ Finishes(r)
  BY <1>7, <1>10, ZenonT(30) DEF Shows, ToGate, ToHandle, Opens, ToUpload, Finishes, Transacting
<1>11. CASE Ungated(r) \/ GatePasses(r)
  <2>1. req'[r].pc \in {"rel", "static"}
    BY <1>0, <1>11 DEF Ungated, GatePasses, Forwards, Local, Stage
  <2> QED
    BY <1>7, <2>1 DEF Transacting
<1>12. CASE ChainStops(r) \/ Commits(r) \/ Drops(r)
  BY <1>7, <1>12, ZenonT(30) DEF ChainStops, Commits, Drops, ShowsRoute, Renders, Transacting
<1>13. CASE Goes(r) \/ Proceeds(r) \/ Streams(r) \/ BacksUp(r) \/ MovesIn(r)
  BY <1>7, <1>13, ZenonT(30) DEF Goes, Proceeds, Streams, BacksUp, MovesIn, Turns, Transacting
<1> QED
  BY StepIs, <1>1, <1>3, <1>4, <1>5, <1>6, <1>8, <1>9, <1>10, <1>11, <1>12, <1>13, SMTT(30), ZenonT(30)

\* Every step keeps what is committed and what is pending in accord with
\* the handlers.
LEMMA EffectsStep ==
  ASSUME Typing, Pool, DiskTyping, Effects, [Next]_vars
  PROVE  Effects'
<1>1. ASSUME NEW r \in Requests, Step(r) PROVE Effects'
  <2>0. up /\ up' = up
    BY <1>1 DEF Step
  <2>1. Committed(r, req'[r], durable') /\ Pending(r, req'[r], conns')
    BY <1>1, <2>0, CommittedStep, PendingStep
  <2>2. ASSUME NEW s \in Requests \ {r} PROVE Committed(s, req'[s], durable') /\ Pending(s, req'[s], conns')
    <3>1. req'[s] = req[s]
      BY <1>1, OthersStay DEF Only
    <3>2. durable \subseteq durable' /\ \A e \in durable' \ durable : e[1] # s
      BY <1>1, DurableGrows
    <3>3. Committed(s, req'[s], durable')
      BY <3>1, <3>2, CommittedOther, SMTT(30), ZenonT(30) DEF Effects
    <3>4. \A c \in Conns : conns[c].owner = s => conns'[c] = conns[c]
      BY <1>1, ConnSteps, RoutesAssumption DEF ConnStep
    <3>5. Pending(s, req[s], conns)
      BY <2>0, SMTT(30), ZenonT(30) DEF Effects
    <3>6. Pending(s, req'[s], conns')
      BY <3>1, <3>4, <3>5, SMTT(30), ZenonT(30) DEF Pending
    <3> QED
      BY <3>3, <3>6
  <2> QED
    BY <2>1, <2>2, Zenon DEF Effects
<1>2. ASSUME NEW r \in Requests, Cancel(r) PROVE Effects'
  <2>1. /\ Only(r) /\ Changes(req[r], req'[r], {"cut"})
        /\ UNCHANGED <<conns, durable, up>>
    BY <1>2, CancelIs, SMTT(30), ZenonT(30)
  <2>2. /\ req'[r].pc = req[r].pc /\ req'[r].said = req[r].said /\ req'[r].by = req[r].by /\ req'[r].out = req[r].out
        /\ req'[r].mode = req[r].mode
    BY <2>1 DEF Changes
  <2>3. Committed(r, req'[r], durable')
    <3>1. Committed(r, req[r], durable)
      BY DEF Effects
    <3> QED
      BY <2>1, <2>2, <3>1, Zenon DEF Committed
  <2>4. up => Pending(r, req'[r], conns')
    <3>1. up => Pending(r, req[r], conns)
      BY DEF Effects
    <3>2. Owed(r, req'[r]) = Owed(r, req[r]) /\ UseAt(req'[r]) = UseAt(req[r])
      BY <2>2 DEF Owed, UseAt
    <3> QED
      BY <2>1, <2>2, <3>1, <3>2, Zenon DEF Pending
  <2> QED
    BY <2>1, <2>3, <2>4 DEF Effects, Only
<1>3. CASE Crash
  BY <1>3 DEF Crash, Effects
<1>4. CASE UNCHANGED vars
  BY <1>4 DEF vars, Effects
<1> QED
  BY <1>1, <1>2, <1>3, <1>4, ZenonT(30) DEF Next, Done

-----------------------------------------------------------------------------
(* Files.                                                                  *)

\* What an answer shows, once it is written, stays; before, it is one of the
\* usual sources or the file.
LEMMA OutStep ==
  ASSUME NEW r \in Requests, Typing, Step(r)
  PROVE  /\ req[r].out.status # 0 => req'[r].out.from = req[r].out.from
         /\ req[r].out.status = 0 => req'[r].out.from \in Sources \cup file
<1>0. Local(req[r])
  BY Locally
<1>a. req[r].out.status = 0 => req[r].out.from = ""
  BY <1>0 DEF Local, Answering
<1>1. ASSUME NEW from \in Sources, Ends(req[r], req'[r], from)
      PROVE  /\ req[r].out.status # 0 => req'[r].out.from = req[r].out.from
             /\ req[r].out.status = 0 => req'[r].out.from \in Sources \cup file
  BY <1>1, Zenon DEF Ends, Speaks
<1>2. ASSUME req'[r].out.from = req[r].out.from
      PROVE  /\ req[r].out.status # 0 => req'[r].out.from = req[r].out.from
             /\ req[r].out.status = 0 => req'[r].out.from \in Sources \cup file
  BY <1>a, <1>2 DEF Sources
<1>3. CASE Fails(r) \/ Raises(r) \/ Loses(r) \/ RelAnswers(r) \/ SwapFails(r) \/ Restores(r)
  <2>1. \E from \in {"", "raised", "rel", "swap", "restored"} : Ends(req[r], req'[r], from)
    BY <1>3, ZenonT(30) DEF Fails, Raises, Loses, RelAnswers, SwapFails, Restores
  <2> QED
    BY <1>1, <2>1, Zenon DEF Sources
<1>4. CASE Replies(r)
  <2>1. PICK from \in {"", "site", "template", req[r].by.from} \cup file : Says(req[r], req'[r], from)
    BY <1>4 DEF Replies
  <2>2. req[r].by.from \in {"middleware", "static", "route", "second"}
    BY <1>0, <1>4, ZenonT(30) DEF Replies, Local, Stage
  <2>3. from \in Sources \cup file
    BY <2>1, <2>2 DEF Sources
  <2> QED
    BY <2>1, <2>3 DEF Says, Speaks
<1>5. CASE Shows(r) \/ Begins(r) \/ ToGate(r) \/ ToHandle(r) \/ Opens(r) \/ ToUpload(r) \/ Finishes(r)
  BY <1>2, <1>5, ZenonT(30) DEF Shows, Begins, ToGate, ToHandle, Opens, ToUpload, Finishes, Changes
<1>6. CASE Ungated(r) \/ GatePasses(r)
  BY <1>2, <1>6, ZenonT(30) DEF Ungated, GatePasses, Forwards, Applies
<1>7. CASE ChainStops(r) \/ Commits(r) \/ Drops(r)
  BY <1>2, <1>7, ZenonT(30) DEF ChainStops, Commits, Drops, ShowsRoute, Renders, Applies
<1>8. CASE ChainGoes(r) \/ ChainEnds(r) \/ Invokes(r) \/ Decides(r)
  BY <1>2, <1>8, ZenonT(30) DEF ChainGoes, ChainEnds, Invokes, Decides, Changes
<1>9. CASE Goes(r) \/ Proceeds(r) \/ Streams(r) \/ BacksUp(r) \/ MovesIn(r)
  BY <1>2, <1>9, ZenonT(30) DEF Goes, Proceeds, Streams, BacksUp, MovesIn, Turns, Changes
<1> QED
  BY StepIs, <1>3, <1>4, <1>5, <1>6, <1>7, <1>8, <1>9, ZenonT(30)

\* What a step of r does to the files.
LEMMA FilesStep ==
  ASSUME NEW r \in Requests, Typing, DiskTyping, Step(r)
  PROVE  \/ UNCHANGED <<file, backups, moves>>
         \/ req[r].pc = "backup" /\ file' = {} /\ backups' = [backups EXCEPT ![r] = file] /\ UNCHANGED moves
         \/ req[r].pc = "move" /\ file' = {r} /\ moves' = Append(moves, r) /\ UNCHANGED backups
         \/ /\ req[r].pc = "restore" /\ backups[r] # {} /\ file' = backups[r]
            /\ backups' = [backups EXCEPT ![r] = {}] /\ UNCHANGED moves
         \/ req[r].pc = "drop" /\ backups' = [backups EXCEPT ![r] = {}] /\ UNCHANGED <<file, moves>>
<1>1. CASE Fails(r) \/ Streams(r) \/ SwapFails(r) \/ Finishes(r)
  BY <1>1, ZenonT(30) DEF Fails, Streams, SwapFails, Finishes
<1>2. CASE Elsewhere(r)
  BY <1>2, ElsewhereIs DEF Still
<1>3. CASE BacksUp(r)
  BY <1>3 DEF BacksUp
<1>4. CASE MovesIn(r)
  BY <1>4 DEF MovesIn
<1>5. CASE Restores(r)
  BY <1>5 DEF Restores
<1>6. CASE Drops(r)
  BY <1>6 DEF Drops
<1> QED
  BY StepOnDisk, <1>1, <1>2, <1>3, <1>4, <1>5, <1>6, ZenonT(30)

\* A content that is on disk or was served is one whose upload is committed.
Stored ==
  /\ \A r \in Requests : r \in file => <<r, "second">> \in durable
  /\ \A r, s \in Requests : r \in backups[s] => <<r, "second">> \in durable
  /\ \A r, s \in Requests : req[s].out.from = r => <<r, "second">> \in durable

\* Every step leaves only committed uploads in files.
LEMMA StoredStep ==
  ASSUME Typing, Pool, DiskTyping, Effects, Stored, [Next]_vars
  PROVE  Stored'
<1>1. ASSUME NEW r \in Requests, Step(r) PROVE Stored'
  <2>1. durable \subseteq durable'
    BY <1>1, DurableGrows
  <2>2. req[r].pc = "move" => <<r, "second">> \in durable
    BY ZenonT(30) DEF Effects, Committed, Swapping
  <2>3. DOMAIN backups = Requests
    BY DEF DiskTyping, Filed
  <2>4. ASSUME NEW x \in Requests, x \in file' PROVE <<x, "second">> \in durable'
    BY <1>1, <2>1, <2>2, <2>4, FilesStep, SMTT(30), ZenonT(30) DEF Stored
  <2>5. ASSUME NEW x \in Requests, NEW s \in Requests, x \in backups'[s] PROVE <<x, "second">> \in durable'
    BY <1>1, <2>1, <2>3, <2>5, FilesStep DEF Stored
  <2>6. ASSUME NEW x \in Requests, NEW s \in Requests, req'[s].out.from = x PROVE <<x, "second">> \in durable'
    <3>1. CASE s = r
      <4>1. req[r].out.from = x \/ x \in file
        BY <1>1, <2>6, <3>1, OutStep, RoutesAssumption, SMTT(30), ZenonT(30)
      <4> QED
        BY <2>1, <3>1, <4>1, SMTT(30), ZenonT(30) DEF Stored
    <3>2. CASE s # r
      BY <1>1, <2>1, <2>6, <3>2, OthersStay, SMTT(30), ZenonT(30) DEF Only, Stored
    <3> QED
      BY <3>1, <3>2
  <2> QED
    BY <2>4, <2>5, <2>6 DEF Stored
<1>2. ASSUME NEW r \in Requests, Cancel(r) PROVE Stored'
  <2>1. /\ Only(r) /\ req'[r].out = req[r].out /\ UNCHANGED <<durable, file, backups>>
    BY <1>2, CancelIs, SMTT(30), ZenonT(30) DEF Changes
  <2> QED
    BY <2>1, SMTT(30), ZenonT(30) DEF Stored, Only
<1>3. CASE Crash
  BY <1>3 DEF Crash, disk, Stored
<1>4. CASE UNCHANGED vars
  BY <1>4 DEF vars, Stored
<1> QED
  BY <1>1, <1>2, <1>3, <1>4, SMTT(30), ZenonT(30) DEF Next, Done

\* The content an upload put in place last, or the one from before.
Newest == IF moves = <<>> THEN "old" ELSE moves[Len(moves)]
Restored == \E r \in Requests : req[r].out.from = "restored"

\* A backup is made and dropped in the course of a swap, or left behind by it.
\* The content that is not at its path is in a backup nobody is about to drop.
Kept ==
  /\ \A r \in Requests : backups[r] # {} => req[r].pc \in {"move", "restore", "drop"} \cup Over
  /\ site.old \/ moves # <<>> =>
       /\ file # {} \/ \E s \in Requests : backups[s] # {} /\ req[s].pc # "drop"
       /\ Restored \/ Newest \in file \/ \E s \in Requests : Newest \in backups[s] /\ req[s].pc # "drop"

\* Only a rename into place leads to the backup's end.
LEMMA ElsewherePc ==
  ASSUME NEW r \in Requests, Typing, Elsewhere(r)
  PROVE  req'[r].pc # "drop" /\ (req[r].pc = "move" => req'[r].pc = "restore")
<1>0. Stage(req[r])
  BY Locally DEF Local
<1>1. CASE Raises(r) \/ Loses(r) \/ RelAnswers(r)
  BY <1>1, ZenonT(30) DEF Raises, Loses, RelAnswers, Ends
<1>2. CASE Replies(r)
  BY <1>0, <1>2, ZenonT(30) DEF Replies, Says, Stage, Showing
<1>3. CASE Shows(r) \/ Begins(r)
  BY <1>3, ZenonT(30) DEF Shows, Begins, BeginsAt
<1>4. CASE ToGate(r) \/ ToHandle(r) \/ Opens(r) \/ ToUpload(r)
  BY <1>4, Zenon DEF ToGate, ToHandle, Opens, ToUpload
<1>5. CASE ChainGoes(r) \/ ChainStops(r) \/ ChainEnds(r)
  BY <1>5, Zenon DEF ChainGoes, ChainStops, ChainEnds, Renders, Changes
<1>6. CASE Ungated(r) \/ GatePasses(r)
  BY <1>0, <1>6, ZenonT(30) DEF Ungated, GatePasses, Forwards, Stage
<1>7. CASE Goes(r) \/ Proceeds(r)
  BY <1>7, SMTT(30), ZenonT(30) DEF Goes, Proceeds, Turns
<1>8. CASE Invokes(r) \/ Decides(r)
  BY <1>8 DEF Invokes, Decides
<1>9. CASE Commits(r)
  BY <1>9, ZenonT(30) DEF Commits, ShowsRoute, Renders
<1> QED
  BY <1>1, <1>2, <1>3, <1>4, <1>5, <1>6, <1>7, <1>8, <1>9, ZenonT(30) DEF Elsewhere

\* A step that moves no file.
LEMMA KeptQuiet ==
  ASSUME NEW r \in Requests, Typing, DiskTyping, Kept, Only(r), UNCHANGED <<site, file, backups, moves>>,
         req'[r].pc # "drop", Restored => Restored',
         backups[r] # {} => req'[r].pc \in {"move", "restore", "drop"} \cup Over
  PROVE  Kept'
<1>1. Newest' = Newest
  BY DEF Newest
<1>2. \A s \in Requests : req[s].pc # "drop" => req'[s].pc # "drop"
  BY SMTT(30), ZenonT(30) DEF Only
<1>3. \A s \in Requests : backups'[s] # {} => req'[s].pc \in {"move", "restore", "drop"} \cup Over
  BY DEF Kept, Only
<1>4. site.old \/ moves # <<>> =>
        /\ file # {} \/ \E s \in Requests : backups[s] # {} /\ req'[s].pc # "drop"
        /\ Restored' \/ Newest \in file \/ \E s \in Requests : Newest \in backups[s] /\ req'[s].pc # "drop"
  BY <1>2 DEF Kept
<1> QED
  BY <1>1, <1>3, <1>4, ZenonT(30) DEF Kept

\* A restored file stays on record.
LEMMA RestoredStays ==
  ASSUME NEW r \in Requests, Typing, Step(r), Restored
  PROVE  Restored'
<1>1. PICK s \in Requests : req[s].out.from = "restored"
  BY DEF Restored
<1>2. CASE s # r
  BY <1>1, <1>2, OthersStay DEF Restored, Only
<1>3. CASE s = r
  <2>1. req[r].out.status # 0
    BY <1>1, <1>3, Locally, ZenonT(30) DEF Local, Answering
  <2> QED
    BY <1>1, <1>3, <2>1, OutStep, SMTT(30), ZenonT(30) DEF Restored
<1> QED
  BY <1>2, <1>3

\* Every step keeps the newest content somewhere.
LEMMA KeptStep ==
  ASSUME Typing, DiskTyping, Kept, [Next]_vars
  PROVE  Kept'
<1>1. ASSUME NEW r \in Requests, Step(r) PROVE Kept'
  <2>0. /\ Only(r) /\ (Restored => Restored') /\ site' = site /\ DOMAIN backups = Requests
        /\ \A s \in Requests \ {r} : req'[s] = req[s]
    BY <1>1, OthersStay, RestoredStays, SMTT(30), ZenonT(30) DEF Step, DiskTyping, Filed, Only
  <2>1. CASE Fails(r) \/ Streams(r) \/ SwapFails(r) \/ Finishes(r)
    <3>1. /\ UNCHANGED <<file, backups, moves>> /\ req'[r].pc \in {"finish", "done", "open2"}
          /\ req'[r].pc = "open2" => req[r].pc = "stream"
      BY <2>1, ZenonT(30) DEF Fails, Streams, SwapFails, Finishes, Ends, Turns
    <3>2. backups[r] # {} => req'[r].pc \in {"move", "restore", "drop"} \cup Over
      BY <3>1 DEF Kept, Over
    <3> QED
      BY <2>0, <3>1, <3>2, KeptQuiet
  <2>2. CASE Elsewhere(r)
    <3>1. UNCHANGED <<file, backups, moves>>
      BY <2>2, ElsewhereIs DEF Still
    <3>2. backups[r] # {} => req[r].pc = "move"
      BY <2>2, Onward, SMTT(30), ZenonT(30) DEF Kept, Early, Swapping, Over
    <3> QED
      BY <2>0, <2>2, <3>1, <3>2, ElsewherePc, KeptQuiet, SMTT(30), ZenonT(30)
  <2>3. CASE BacksUp(r)
    <3>1. /\ req'[r].pc = "move" /\ file' = {} /\ file # {} /\ backups' = [backups EXCEPT ![r] = file]
          /\ moves' = moves /\ req[r].pc = "backup"
      BY <2>3, SMTT(30), ZenonT(30) DEF BacksUp, Turns
    <3>2. backups[r] = {} /\ backups'[r] = file /\ \A s \in Requests \ {r} : backups'[s] = backups[s]
      BY <2>0, <3>1, SMTT(30), ZenonT(30) DEF Kept, Over
    <3>3. Newest' = Newest
      BY <3>1 DEF Newest
    <3>4. \A s \in Requests : backups'[s] # {} => req'[s].pc \in {"move", "restore", "drop"} \cup Over
      BY <2>0, <3>1, <3>2 DEF Kept
    <3>5. \E s \in Requests : backups'[s] # {} /\ req'[s].pc # "drop"
      BY <3>1, <3>2, SMTT(30), ZenonT(30)
    <3>6. site.old \/ moves # <<>> => Restored' \/ \E s \in Requests : Newest \in backups'[s] /\ req'[s].pc # "drop"
      BY <2>0, <3>1, <3>2, SMTT(30), ZenonT(30) DEF Kept
    <3> QED
      BY <2>0, <3>1, <3>3, <3>4, <3>5, <3>6, SMTT(30), ZenonT(30) DEF Kept
  <2>4. CASE MovesIn(r)
    <3>1. /\ req'[r].pc = "drop" /\ file' = {r} /\ moves' = Append(moves, r) /\ backups' = backups /\ req[r].pc = "move"
      BY <2>4 DEF MovesIn, Turns
    <3>2. moves' # <<>> /\ moves'[Len(moves')] = r
      BY <3>1 DEF DiskTyping, Filed
    <3>3. Newest' = r
      BY <3>2, SMTT(30), ZenonT(30) DEF Newest
    <3>4. \A s \in Requests : backups'[s] # {} => req'[s].pc \in {"move", "restore", "drop"} \cup Over
      BY <2>0, <3>1 DEF Kept
    <3> QED
      BY <3>1, <3>3, <3>4 DEF Kept
  <2>5. CASE Restores(r)
    <3>1. /\ req'[r].pc = "finish" /\ moves' = moves /\ req[r].pc = "restore"
          /\ \/ backups[r] # {} /\ file' = backups[r] /\ backups' = [backups EXCEPT ![r] = {}]
             \/ UNCHANGED <<file, backups>>
      BY <2>5, Zenon DEF Restores, Ends
    <3>2. Restored'
      <4>1. req[r].out.status = 0
        BY <3>1, Locally, ZenonT(30) DEF Local, Answering, Over
      <4>2. req'[r].out.from = "restored"
        BY <2>5, <4>1, SMTT(30), ZenonT(30) DEF Restores, Ends, Speaks
      <4> QED
        BY <4>2, SMTT(30), ZenonT(30) DEF Restored
    <3>3. CASE UNCHANGED <<file, backups>>
      BY <2>0, <3>1, <3>2, <3>3, KeptQuiet, SMTT(30), ZenonT(30) DEF Over
    <3>4. CASE backups[r] # {} /\ file' = backups[r] /\ backups' = [backups EXCEPT ![r] = {}]
      <4>1. \A s \in Requests : backups'[s] # {} => req'[s].pc \in {"move", "restore", "drop"} \cup Over
        BY <2>0, <3>4 DEF Kept
      <4> QED
        BY <3>2, <3>4, <4>1, SMTT(30), ZenonT(30) DEF Kept
    <3> QED
      BY <3>1, <3>3, <3>4
  <2>6. CASE Drops(r)
    <3>1. /\ req'[r].pc # "drop" /\ moves' = moves /\ file' = file /\ req[r].pc = "drop"
          /\ backups' = [backups EXCEPT ![r] = {}]
      BY <2>6, ZenonT(30) DEF Drops, ShowsRoute, Renders
    <3>2. backups'[r] = {} /\ \A s \in Requests \ {r} : backups'[s] = backups[s]
      BY <2>0, <3>1
    <3>3. Newest' = Newest
      BY <3>1 DEF Newest
    <3>4. \A s \in Requests : backups'[s] # {} => req'[s].pc \in {"move", "restore", "drop"} \cup Over
      BY <2>0, <3>2, ZenonT(30) DEF Kept
    <3>5. \A s \in Requests : req[s].pc # "drop" => s # r /\ req'[s].pc # "drop" /\ backups'[s] = backups[s]
      BY <2>0, <3>1, <3>2, SMTT(30), ZenonT(30)
    <3>6. site.old \/ moves # <<>> =>
            /\ file # {} \/ \E s \in Requests : backups'[s] # {} /\ req'[s].pc # "drop"
            /\ Restored' \/ Newest \in file \/ \E s \in Requests : Newest \in backups'[s] /\ req'[s].pc # "drop"
      BY <2>0, <3>5, SMTT(30), ZenonT(30) DEF Kept
    <3> QED
      BY <2>0, <3>1, <3>3, <3>4, <3>6, ZenonT(30) DEF Kept
  <2> QED
    BY <1>1, StepOnDisk, <2>1, <2>2, <2>3, <2>4, <2>5, <2>6, SMTT(30), ZenonT(30)
<1>2. ASSUME NEW r \in Requests, Cancel(r) PROVE Kept'
  <2>1. /\ Only(r) /\ req'[r].out = req[r].out /\ req'[r].pc = req[r].pc /\ UNCHANGED <<site, file, backups, moves>>
    BY <1>2, CancelIs, ZenonT(30) DEF Changes
  <2>2. Newest' = Newest
    BY <2>1 DEF Newest
  <2>3. Restored' = Restored
    BY <2>1 DEF Restored, Only
  <2>4. \A s \in Requests : req'[s].pc = req[s].pc
    BY <2>1, SMTT(30), ZenonT(30) DEF Only
  <2> QED
    BY <2>1, <2>2, <2>3, <2>4 DEF Kept
<1>3. CASE Crash
  BY <1>3, SMTT(30), ZenonT(30) DEF Crash, disk, Kept, Newest, Restored
<1>4. CASE UNCHANGED vars
  BY <1>4 DEF vars, Kept, Newest, Restored
<1> QED
  BY <1>1, <1>2, <1>3, <1>4, SMTT(30), ZenonT(30) DEF Next, Done

-----------------------------------------------------------------------------
(* The invariant, and what follows.                                        *)

Inv == Sound /\ Effects /\ Stored /\ Kept

\* Nothing is committed, stored or moved when the server starts.
LEMMA RestInit == Init => Effects /\ Stored /\ Kept
<1> SUFFICES ASSUME Init PROVE Effects /\ Stored /\ Kept
  OBVIOUS
<1>1. /\ DOMAIN conns = Conns /\ (\A c \in Conns : conns[c] = Idle) /\ durable = {} /\ temps = {}
      /\ backups = [r \in Requests |-> {}] /\ moves = <<>> /\ up = TRUE
      /\ file = IF site.old THEN {"old"} ELSE {}
  BY DEF Init
<1>a. NoAnswer.from = ""
  BY SMTT(30), ZenonT(30) DEF NoAnswer
<1>4. ASSUME NEW r \in Requests PROVE Committed(r, req[r], durable) /\ Pending(r, req[r], conns)
  <2>1. req[r].pc \in {"new", "done"} /\ req[r].said = <<>> /\ req[r].out.from = ""
    BY <1>a, FreshIs
  <2>4. Listing(<<>>) /\ GateEffects(r, <<>>) = {}
    BY DEF Listing, GateEffects
  <2>2. Listing(req[r].said) /\ GateEffects(r, req[r].said) = {}
    BY <2>1, <2>4
  <2>3. Committed(r, req[r], durable)
    BY <1>1, <2>1, <2>2, ZenonT(30) DEF Committed, Early, FirstTx, Between, Swapping, Showing, Over
  <2> QED
    BY <2>1, <2>3, ZenonT(30) DEF Pending, Transacting
<1>5. Effects
  BY <1>4, SMTT(30), ZenonT(30) DEF Effects
<1>6. Stored
  <2>1. \A s \in Requests : req[s].out.from = ""
    BY <1>a, FreshIs, ZenonT(30)
  <2> QED
    BY <1>1, <2>1, RoutesAssumption, ZenonT(30) DEF Stored, Sources
<1>7. Kept
  BY <1>1 DEF Kept, Newest
<1> QED
  BY <1>5, <1>6, <1>7

\* The invariant holds of every behaviour.
THEOREM Invariance == Spec => []Inv
<1>1. Init => Inv
  BY SoundInit, RestInit DEF Inv
<1>2. Inv /\ [Next]_vars => Inv'
  BY SoundStep, EffectsStep, StoredStep, KeptStep DEF Inv, Sound
<1> QED
  BY <1>1, <1>2, PTL DEF Spec

\* An answer that shows what a function or a query returned is sent only once
\* its transaction is committed, with the middleware's of the same transaction;
\* the answer of a function that raised leaves nothing of its transaction
\* (AnswerMatchesDatabase: handleRoute, handleUploadRoute, handleRel).
THEOREM AnswersMatch == Spec => []AnswerMatchesDatabase
<1>1. Inv => AnswerMatchesDatabase
  <2> SUFFICES ASSUME Inv, NEW r \in Requests
               PROVE  /\ req[r].out.from \in {"route", "second", "rel"} => <<r, req[r].out.from>> \in durable
                      /\ req[r].out.from = "second" => <<r, "first">> \in durable
                      /\ req[r].out.from \in {"route", "second"} =>
                           \A i \in Ran(r) : <<r, "gate", req[r].said[i].fn>> \in durable
                      /\ req[r].out.from = "raised" =>
                           /\ {<<r, "route">>, <<r, "second">>, <<r, "rel">>} \cap durable = {}
                           /\ req[r].mode # "upload" => {e \in durable : e[1] = r} = {}
    BY DEF AnswerMatchesDatabase
  <2>1. Committed(r, req[r], durable)
    BY SMTT(30), ZenonT(30) DEF Inv, Effects
  <2>2. req[r].out.from \in {"route", "second", "rel"} => <<r, req[r].out.from>> \in durable
    BY <2>1, SMTT(30), ZenonT(30) DEF Committed
  <2>3. req[r].out.from = "second" => <<r, "first">> \in durable
    BY <2>1, SMTT(30), ZenonT(30) DEF Committed
  <2>4. req[r].out.from \in {"route", "second"} => \A i \in Ran(r) : <<r, "gate", req[r].said[i].fn>> \in durable
    <3>1. req[r].out.from \in {"route", "second"} => GateEffects(r, req[r].said) \subseteq durable
      BY <2>1 DEF Committed
    <3> QED
      BY <3>1, SMTT(30), ZenonT(30) DEF GateEffects, Ran
  <2>5. req[r].out.from = "raised" =>
          /\ {<<r, "route">>, <<r, "second">>, <<r, "rel">>} \cap durable = {}
          /\ req[r].mode # "upload" => {e \in durable : e[1] = r} = {}
    BY <2>1, ZenonT(30) DEF Committed
  <2> QED
    BY <2>2, <2>3, <2>4, <2>5, SMTT(30), ZenonT(30)
<1> QED
  BY <1>1, Invariance, PTL

\* What is at the path of an upload, is kept as a backup of it or is served was
\* there before or belongs to an upload whose second call is committed, also when
\* the process dies (FileIsCommitted: the swap follows the commit).
THEOREM FilesCommitted == Spec => []FileIsCommitted
<1>1. Inv => FileIsCommitted
  BY ZenonT(30) DEF Inv, Stored, FileIsCommitted
<1> QED
  BY <1>1, Invariance, PTL

\* Once a file is in place some content always stays on disk, and the newest
\* one unless a swap had to be undone (ContentKept: swapUploadIntoPlace,
\* with races, failures and a crash between any two of its steps).
THEOREM ContentStays == Spec => []ContentKept
<1>1. Inv => ContentKept
  BY DEF Inv, Kept, Newest, Restored, ContentKept
<1> QED
  BY <1>1, Invariance, PTL

=============================================================================
