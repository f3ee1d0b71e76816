---------------------------- MODULE RoutesProofs ----------------------------
(***************************************************************************)
(* Proofs about Routes for every set of requests, every pool, every site   *)
(* and every answer of its functions: who holds the connections, and whose *)
(* the staging files are.                                                  *)
(***************************************************************************)
EXTENDS RoutesSteps

-----------------------------------------------------------------------------
(* The pool.                                                               *)

\* A connection that handler r, in state q, has.
Holding(r, q, k) ==
  /\ k.use \in {"main", "first", "second", "nested", "rel"}
  /\ q.pc \notin Early \cup {"done"}
  /\ k.role \in {"", q.sess.role}
  /\ \A e \in k.pend : e[1] = r
  /\ k.use = "first" => \A e \in k.pend : e[2] \in {"gate", "first"}
  /\ k.use = "nested" => q.pc = "relread"
  /\ k.use = "rel" => q.pc = "relrun"
  /\ k.use = "first" => /\ q.mode = "upload"
                        /\ \/ q.pc \in {"chain", "first", "commit1", "handled"}
                           \/ q.pc \in Showing /\ q.after = "handled"
  /\ k.use = "main" => q.mode # "upload"
  /\ k.use = "second" => q.mode = "upload"

ConnOk(k) ==
  /\ DOMAIN k = {"owner", "use", "role", "pend"}
  /\ k.owner \in Requests \cup {Nobody}
  /\ k.owner = Nobody => k = Idle

Pool ==
  /\ DOMAIN conns = Conns
  /\ \A c \in Conns : ConnOk(conns[c])
  /\ \A c \in Conns, r \in Requests : conns[c].owner = r => Holding(r, req[r], conns[c])

\* Of one connection: handler r, which is in state q now, may have changed
\* it from k to j.
ConnStep(r, q, k, j) ==
  /\ ConnOk(j)
  /\ j = k \/ (k.owner \in {r, Nobody} /\ j.owner \in {r, Nobody})
  /\ j.owner = r => Holding(r, q, j)

\* What the end of a transaction leaves of its connection.
LEMMA EndTxIs ==
  ASSUME NEW r \in Requests, Typing, Pool, EndTx(r), NEW c \in Conns
  PROVE  IF c \in Mine(r)
         THEN \/ conns'[c] = Idle /\ UseAt(req[r]) \in {"first", "rel", "nested"}
              \/ /\ UseAt(req[r]) \in {"main", "second"} /\ DOMAIN conns'[c] = {"owner", "use", "role", "pend"}
                 /\ conns'[c].owner = r /\ conns'[c].use = UseAt(req[r])
                 /\ conns'[c].role = "" /\ conns'[c].pend = {}
         ELSE conns'[c] = conns[c]
<1>0. ConnOk(conns[c])
  BY DEF Pool
<1>1. CASE c \notin Mine(r)
  BY <1>1, Zenon DEF EndTx, Release, Rollback
<1>2. CASE c \in Mine(r) /\ UseAt(req[r]) \in {"first", "rel", "nested"}
  BY <1>2 DEF EndTx, Release
<1>3. CASE c \in Mine(r) /\ UseAt(req[r]) \notin {"first", "rel", "nested"}
  <2>1. conns'[c] = [conns[c] EXCEPT !.role = "", !.pend = {}]
    BY <1>3, Zenon DEF EndTx, Rollback
  <2>2. conns[c].owner = r /\ conns[c].use = UseAt(req[r])
    BY <1>3 DEF Mine, Held
  <2>3. UseAt(req[r]) \in {"main", "second"}
    BY <1>3 DEF UseAt
  <2> QED
    BY <1>0, <1>3, <2>1, <2>2, <2>3 DEF ConnOk
<1> QED
  BY <1>1, <1>2, <1>3

\* What a call leaves.
LEMMA CalledIs ==
  ASSUME NEW r \in Requests, Typing, Pool, NEW effect, Called(r, effect), NEW c \in Conns
  PROVE  IF c \in Mine(r)
         THEN /\ DOMAIN conns'[c] = {"owner", "use", "role", "pend"}
              /\ conns'[c].owner = r /\ conns'[c].use = UseAt(req[r]) /\ conns'[c].role = conns[c].role
              /\ conns'[c].pend = conns[c].pend \cup {effect}
         ELSE conns'[c] = conns[c]
<1>0. ConnOk(conns[c])
  BY DEF Pool
<1>1. CASE c \notin Mine(r)
  BY <1>1 DEF Called, Calls
<1>2. CASE c \in Mine(r)
  <2>1. conns'[c] = [conns[c] EXCEPT !.pend = @ \cup {effect}]
    BY <1>2 DEF Called, Calls
  <2>2. conns[c].owner = r /\ conns[c].use = UseAt(req[r])
    BY <1>2 DEF Mine, Held
  <2> QED
    BY <1>0, <1>2, <2>1, <2>2 DEF ConnOk
<1> QED
  BY <1>1, <1>2

\* An idle connection.
LEMMA IdleIs == ConnOk(Idle) /\ Idle.owner = Nobody
<1>1. Idle.owner = Nobody /\ DOMAIN Idle = {"owner", "use", "role", "pend"}
  BY DEF Idle
<1> QED
  BY <1>1 DEF ConnOk

\* A connection that is untouched.
LEMMA SameConn ==
  ASSUME NEW r \in Requests, Typing, Pool, NEW c \in Conns, conns'[c] = conns[c],
         conns[c].owner = r /\ Holding(r, req[r], conns[c]) => Holding(r, req'[r], conns[c])
  PROVE  ConnStep(r, req'[r], conns[c], conns'[c])
BY DEF Pool, ConnStep

\* A handler that only moves on keeps what it holds.
LEMMA QuietConn ==
  ASSUME NEW r \in Requests, Typing, Pool, conns' = conns, NEW c \in Conns,
         req'[r].mode = req[r].mode, req'[r].sess = req[r].sess,
         req[r].pc \in Early
           \/ (/\ req[r].pc \notin {"relread", "relrun"} /\ req'[r].pc \notin Early \cup {"done"}
               /\ (req[r].pc \in {"chain", "first", "commit1", "handled"} /\ req[r].mode = "upload" =>
                     req'[r].pc \in {"chain", "first", "commit1", "handled"})
               /\ req[r].pc \in Showing =>
                    \/ req'[r].pc \in Showing /\ req'[r].after = req[r].after
                    \/ req'[r].pc = req[r].after)
  PROVE  ConnStep(r, req'[r], conns[c], conns'[c])
<1>1. ASSUME conns[c].owner = r, Holding(r, req[r], conns[c]) PROVE Holding(r, req'[r], conns[c])
  BY <1>1 DEF Holding
<1> QED
  BY <1>1, SameConn

\* The end of a transaction leaves every connection to its holder.
LEMMA EndTxConn ==
  ASSUME NEW r \in Requests, Typing, Pool, EndTx(r), NEW c \in Conns,
         req'[r].mode = req[r].mode, req'[r].pc \notin Early \cup {"done"},
         req'[r].sess = req[r].sess \/ UseAt(req[r]) = "main",
         UseAt(req[r]) = "main" => req[r].mode # "upload",
         UseAt(req[r]) = "second" => req[r].mode = "upload",
         \A k \in {"nested", "rel", "first"} :
            Holding(r, req[r], conns[c]) /\ conns[c].use = k =>
              UseAt(req[r]) = k \/ (k = "first" /\ req'[r].pc = "handled")
  PROVE  ConnStep(r, req'[r], conns[c], conns'[c])
<1>1. CASE c \in Mine(r)
  <2>1. \/ conns'[c] = Idle
        \/ /\ UseAt(req[r]) \in {"main", "second"} /\ DOMAIN conns'[c] = {"owner", "use", "role", "pend"}
           /\ conns'[c].owner = r /\ conns'[c].use = UseAt(req[r])
           /\ conns'[c].role = "" /\ conns'[c].pend = {}
    BY <1>1, EndTxIs
  <2>2. conns[c].owner = r
    BY <1>1 DEF Mine, Held
  <2>3. Nobody \notin Requests
    BY RoutesAssumption
  <2>4. CASE conns'[c] = Idle
    BY <2>2, <2>3, <2>4, IdleIs DEF ConnStep
  <2>5. CASE conns'[c] # Idle
    <3>1. Holding(r, req'[r], conns'[c])
      BY <2>1, <2>5 DEF Holding
    <3>2. ConnOk(conns'[c])
      BY <2>1, <2>3, <2>5 DEF ConnOk
    <3> QED
      BY <2>1, <2>2, <2>5, <3>1, <3>2, ZenonT(30) DEF ConnStep
  <2> QED
    BY <2>4, <2>5
<1>2. CASE c \notin Mine(r)
  <2>1. conns'[c] = conns[c]
    BY <1>2, EndTxIs, ZenonT(30)
  <2>2. ASSUME conns[c].owner = r, Holding(r, req[r], conns[c]) PROVE Holding(r, req'[r], conns[c])
    <3>1. conns[c].use # UseAt(req[r])
      BY <1>2, <2>2, SMTT(30), ZenonT(30) DEF Mine, Held
    <3>2. conns[c].use \in {"main", "second"} \/ (conns[c].use = "first" /\ req'[r].pc = "handled")
      BY <2>2, <3>1, ZenonT(30) DEF Holding
    <3>3. req'[r].sess = req[r].sess
      BY <2>2, <3>1, <3>2 DEF Holding
    <3> QED
      BY <2>2, <3>2, <3>3 DEF Holding
  <2> QED
    BY <2>1, <2>2, SameConn
<1> QED
  BY <1>1, <1>2

\* So does a call inside one.
LEMMA CalledConn ==
  ASSUME NEW r \in Requests, Typing, Pool, NEW effect, Called(r, effect), effect[1] = r, NEW c \in Conns,
         UseAt(req[r]) = "first" => effect[2] \in {"gate", "first"},
         req'[r].mode = req[r].mode, req'[r].sess = req[r].sess, req'[r].pc \notin Early \cup {"done"},
         req[r].pc \notin Showing \cup {"relrun", "handled"},
         UseAt(req[r]) = "first" =>
           \/ req'[r].pc \in {"chain", "first", "commit1"}
           \/ req'[r].pc \in Showing /\ req'[r].after = "handled",
         UseAt(req[r]) = "first" \/ req[r].pc \notin {"chain", "first", "commit1"} \/ req[r].mode # "upload"
  PROVE  ConnStep(r, req'[r], conns[c], conns'[c])
<1>1. CASE c \in Mine(r)
  <2>1. /\ DOMAIN conns'[c] = {"owner", "use", "role", "pend"}
        /\ conns'[c].owner = r /\ conns'[c].use = UseAt(req[r]) /\ conns'[c].role = conns[c].role
        /\ conns'[c].pend = conns[c].pend \cup {effect}
    BY <1>1, CalledIs
  <2>2. conns[c].owner = r /\ conns[c].use = UseAt(req[r])
    BY <1>1 DEF Mine, Held
  <2>3. Nobody \notin Requests
    BY RoutesAssumption
  <2>4. Holding(r, req[r], conns[c])
    BY <2>2 DEF Pool
  <2>5. Holding(r, req'[r], conns'[c])
    BY <2>1, <2>2, <2>4 DEF Holding, Showing
  <2>6. ConnOk(conns'[c])
    BY <2>1, <2>3 DEF ConnOk
  <2> QED
    BY <2>1, <2>2, <2>5, <2>6 DEF ConnStep
<1>2. CASE c \notin Mine(r)
  <2>1. conns'[c] = conns[c]
    BY <1>2, CalledIs, SMTT(30), ZenonT(30)
  <2>2. ASSUME conns[c].owner = r, Holding(r, req[r], conns[c]) PROVE Holding(r, req'[r], conns[c])
    <3>1. conns[c].use # UseAt(req[r])
      BY <1>2, <2>2 DEF Mine, Held
    <3> QED
      BY <2>2, <3>1 DEF Holding, Showing
  <2> QED
    BY <2>1, <2>2, SameConn
<1> QED
  BY <1>1, <1>2

\* A transaction that begins.
LEMMA BeginsConn ==
  ASSUME NEW r \in Requests, Typing, Pool, Begins(r), NEW c \in Conns
  PROVE  ConnStep(r, req'[r], conns[c], conns'[c])
<1>0. Local(req[r]) /\ Nobody \notin Requests
  BY Locally, RoutesAssumption, SMTT(30), ZenonT(30)
<1>1. /\ req[r].pc \in {"open", "relfunc", "relopen", "open2"} /\ req'[r].pc = BeginsAt(req[r].pc)
      /\ req'[r].mode = req[r].mode /\ req'[r].sess = req[r].sess
  BY DEF Begins, Changes
<1>2. PICK d, k : /\ d \in Free /\ conns' = [conns EXCEPT ![d] = k]
                  /\ k = [owner |-> r, use |-> UseAt(req'[r]), role |-> req[r].sess.role,
                          pend |-> BeginsWith(r, req[r].pc)]
  BY Zenon DEF Begins
<1>3. /\ DOMAIN k = {"owner", "use", "role", "pend"} /\ k.owner = r /\ k.use = UseAt(req'[r])
      /\ k.role = req'[r].sess.role /\ k.pend = BeginsWith(r, req[r].pc)
  BY <1>1, <1>2
<1>4. \A e \in k.pend : e[1] = r
  BY <1>3 DEF BeginsWith
<1>8. k.use = "first" => k.pend = {}
  BY <1>1, <1>3 DEF BeginsWith, BeginsAt, UseAt
<1>5. DOMAIN conns = Conns
  BY DEF Pool
<1>6. CASE c = d
  <2>1. conns'[c] = k /\ conns[c].owner = Nobody
    BY <1>2, <1>5, <1>6 DEF Free
  <2>2. ConnOk(k)
    BY <1>0, <1>3 DEF ConnOk
  <2>3. req[r].pc = "open" => req[r].mode # ""
    BY <1>0 DEF Local, Stage
  <2>4. req[r].pc = "open2" => req[r].mode = "upload"
    BY <1>0 DEF Local, Stage, Between
  <2>5. Holding(r, req'[r], k)
    BY <1>1, <1>3, <1>4, <1>8, <2>3, <2>4, ZenonT(30) DEF Holding, UseAt, BeginsAt, Early
  <2> QED
    BY <1>3, <2>1, <2>2, <2>5 DEF ConnStep
<1>7. CASE c # d
  <2>1. conns'[c] = conns[c]
    BY <1>2, <1>5, <1>7
  <2>2. ASSUME conns[c].owner = r, Holding(r, req[r], conns[c]) PROVE Holding(r, req'[r], conns[c])
    <3>1. req[r].pc \in {"relfunc", "relopen", "open2"} /\ conns[c].use \in {"main", "second", "first"}
      BY <1>1, <2>2 DEF Holding, Early
    <3>2. CASE req[r].pc = "relfunc"
      <4>1. req'[r].after = req[r].after
        BY ZenonT(30) DEF Begins, Changes
      <4> QED
        BY <1>1, <2>2, <3>1, <3>2, <4>1, ZenonT(30) DEF Holding, BeginsAt, Showing, Early
    <3>3. CASE req[r].pc # "relfunc"
      BY <1>1, <2>2, <3>1, <3>3, ZenonT(30) DEF Holding, BeginsAt, Showing, Early
    <3> QED
      BY <3>2, <3>3
  <2> QED
    BY <2>1, <2>2, SameConn
<1> QED
  BY <1>6, <1>7

\* The deferred functions give back what is left.
LEMMA FinishesConn ==
  ASSUME NEW r \in Requests, Typing, Pool, Finishes(r), NEW c \in Conns
  PROVE  ConnStep(r, req'[r], conns[c], conns'[c])
<1>1. CASE conns[c].owner = r
  <2>1. Holding(r, req[r], conns[c])
    BY <1>1 DEF Pool
  <2>2. conns[c].use \in {"main", "second"}
    BY <2>1, ZenonT(30) DEF Holding, Finishes, Showing
  <2>3. conns'[c] = Idle
    BY <1>1, <2>2, ZenonT(30) DEF Finishes, Release, Held
  <2> QED
    BY <1>1, <2>3, IdleIs, RoutesAssumption DEF ConnStep
<1>2. CASE conns[c].owner # r
  <2>1. conns'[c] = conns[c]
    BY <1>2 DEF Finishes, Release, Held
  <2> QED
    BY <1>2, <2>1, SameConn
<1> QED
  BY <1>1, <1>2

\* The connections are always the same.
LEMMA PoolDomain ==
  ASSUME NEW r \in Requests, Typing, Pool, Step(r)
  PROVE  DOMAIN conns' = Conns
<1>1. EndTx(r) => DOMAIN conns' = Conns
  BY Zenon DEF EndTx, Release, Rollback
<1>2. \A effect : Called(r, effect) => DOMAIN conns' = Conns
  BY DEF Called, Calls
<1>3. conns' = conns => DOMAIN conns' = Conns
  BY DEF Pool
<1>4. CASE Raises(r) \/ Loses(r) \/ Replies(r) \/ GatePasses(r) \/ RelAnswers(r) \/ Commits(r) \/ Proceeds(r)
  BY <1>1, <1>3, <1>4, ZenonT(30) DEF Raises, Loses, Replies, GatePasses, RelAnswers, Commits, Proceeds, Won, Tried, Quiet
<1>5. CASE ChainGoes(r) \/ ChainStops(r) \/ Invokes(r) \/ Decides(r)
  BY <1>2, <1>5, ZenonT(30) DEF ChainGoes, ChainStops, Invokes, Decides
<1>6. CASE Begins(r)
  BY <1>6 DEF Begins, Pool
<1>7. CASE Finishes(r)
  BY <1>7 DEF Finishes, Release
<1>8. CASE Fails(r) \/ Streams(r) \/ BacksUp(r) \/ SwapFails(r) \/ MovesIn(r) \/ Restores(r) \/ Drops(r)
  BY <1>3, <1>8 DEF Fails, Streams, BacksUp, SwapFails, MovesIn, Restores, Drops
<1>9. CASE Shows(r) \/ ToGate(r) \/ ToHandle(r) \/ Ungated(r) \/ Opens(r) \/ ToUpload(r) \/ ChainEnds(r) \/ Goes(r)
  BY <1>3, <1>9, ZenonT(30) DEF Shows, ToGate, ToHandle, Ungated, Opens, ToUpload, ChainEnds, Goes, Quiet
<1> QED
  BY StepIs, <1>4, <1>5, <1>6, <1>7, <1>8, <1>9

\* A step of one handler, on one connection.
LEMMA ConnSteps ==
  ASSUME NEW r \in Requests, Typing, Pool, Step(r), NEW c \in Conns
  PROVE  ConnStep(r, req'[r], conns[c], conns'[c])
<1>0. Stage(req[r])
  BY Locally DEF Local
<1>1. CASE Fails(r)
  BY <1>0, <1>1, QuietConn, ZenonT(30) DEF Fails, Changes, Early, Showing, Ends
<1>2. CASE Raises(r)
  <2>1. EndTx(r)
    BY <1>2, ZenonT(30) DEF Raises, Won, Tried
  <2>2. req'[r].mode = req[r].mode /\ req'[r].pc \notin Early \cup {"done"}
    BY <1>0, <1>2, ZenonT(30) DEF Raises, Early, Showing, Ends, Changes
  <2>3. req'[r].sess = req[r].sess \/ UseAt(req[r]) = "main"
    BY <1>0, <1>2, ZenonT(30) DEF Raises, UseAt, Ends, Changes
  <2>4. /\ UseAt(req[r]) = "main" => req[r].mode # "upload"
        /\ UseAt(req[r]) = "second" => req[r].mode = "upload"
    BY <1>0 DEF UseAt, Stage, Between
  <2>5. \A k \in {"nested", "rel", "first"} :
           Holding(r, req[r], conns[c]) /\ conns[c].use = k =>
             UseAt(req[r]) = k \/ (k = "first" /\ req'[r].pc = "handled")
    BY <1>2, ZenonT(30) DEF Raises, Holding, UseAt, Showing, Ends, Changes
  <2> QED
    BY <2>1, <2>2, <2>3, <2>4, <2>5, EndTxConn, ZenonT(30)
<1>3. CASE Loses(r)
  <2>1. EndTx(r)
    BY <1>3 DEF Loses, Won, Tried
  <2>2. req'[r].mode = req[r].mode /\ req'[r].pc \notin Early \cup {"done"}
    BY <1>0, <1>3, ZenonT(30) DEF Loses, Early, Showing, Ends, Changes
  <2>3. req'[r].sess = req[r].sess \/ UseAt(req[r]) = "main"
    BY <1>0, <1>3, ZenonT(30) DEF Loses, UseAt, Ends, Changes
  <2>4. /\ UseAt(req[r]) = "main" => req[r].mode # "upload"
        /\ UseAt(req[r]) = "second" => req[r].mode = "upload"
    BY <1>0 DEF UseAt, Stage, Between
  <2>5. \A k \in {"nested", "rel", "first"} :
           Holding(r, req[r], conns[c]) /\ conns[c].use = k =>
             UseAt(req[r]) = k \/ (k = "first" /\ req'[r].pc = "handled")
    BY <1>3, ZenonT(30) DEF Loses, Holding, UseAt, Showing, Ends, Changes
  <2> QED
    BY <2>1, <2>2, <2>3, <2>4, <2>5, EndTxConn
<1>4. CASE Replies(r)
  <2>1. CASE req[r].pc = "relread"
    <3>1. EndTx(r)
      BY <1>4, <2>1 DEF Replies, Won, Tried
    <3>2. req'[r].mode = req[r].mode /\ req'[r].pc \notin Early \cup {"done"}
      BY <1>0, <1>4, <2>1, ZenonT(30) DEF Replies, Early, Showing, Says, Changes, Stage
    <3>3. req'[r].sess = req[r].sess \/ UseAt(req[r]) = "main"
      BY <1>0, <1>4, <2>1, ZenonT(30) DEF Replies, UseAt, Says, Changes, Stage
    <3>4. /\ UseAt(req[r]) = "main" => req[r].mode # "upload"
          /\ UseAt(req[r]) = "second" => req[r].mode = "upload"
      BY <1>0 DEF UseAt, Stage, Between
    <3>5. \A k \in {"nested", "rel", "first"} :
             Holding(r, req[r], conns[c]) /\ conns[c].use = k =>
               UseAt(req[r]) = k \/ (k = "first" /\ req'[r].pc = "handled")
      BY <1>4, <2>1, ZenonT(30) DEF Replies, Holding, UseAt, Showing, Says, Changes, Stage
    <3> QED
      BY <3>1, <3>2, <3>3, <3>4, <3>5, EndTxConn
  <2>2. CASE req[r].pc # "relread"
    <3>1. /\ conns' = conns /\ req'[r].mode = req[r].mode /\ req'[r].sess = req[r].sess
          /\ req'[r].pc = req[r].after /\ req[r].pc \in Showing \cup {"static"}
      BY <1>4, <2>2, ZenonT(30) DEF Replies, Says, Changes, Quiet
    <3>2. req[r].after \in {"handled", "finish"}
      BY <1>0, <3>1, ZenonT(30) DEF Stage
    <3> QED
      BY <2>2, <3>1, <3>2, QuietConn, ZenonT(30) DEF Early, Showing
  <2> QED
    BY <2>1, <2>2, SMTT(30), ZenonT(30)
<1>5. CASE Shows(r)
  BY <1>0, <1>5, QuietConn, ZenonT(30) DEF Shows, Changes, Early, Showing, Quiet
<1>6. CASE Begins(r)
  BY <1>6, BeginsConn
<1>7. CASE ToGate(r)
  BY <1>0, <1>7, QuietConn, ZenonT(30) DEF ToGate, Changes, Early, Showing, Quiet
<1>8. CASE ToHandle(r)
  BY <1>0, <1>8, QuietConn, ZenonT(30) DEF ToHandle, Changes, Early, Showing, Quiet
<1>9. CASE Ungated(r)
  <2>1. req[r].pc \in Early /\ conns' = conns
    BY <1>9 DEF Ungated, Early, Quiet
  <2>2. ~Holding(r, req[r], conns[c])
    BY <2>1, ZenonT(30) DEF Holding
  <2> QED
    BY <2>1, <2>2, SameConn
<1>10. CASE Opens(r)
  <2>1. req[r].pc \in Early /\ conns' = conns
    BY <1>10, SMTT(30), ZenonT(30) DEF Opens, Early, Quiet
  <2>2. ~Holding(r, req[r], conns[c])
    BY <2>1 DEF Holding
  <2> QED
    BY <2>1, <2>2, SameConn
<1>11. CASE ToUpload(r)
  <2>1. req[r].pc \in Early /\ conns' = conns
    BY <1>11 DEF ToUpload, Early, Quiet
  <2>2. ~Holding(r, req[r], conns[c])
    BY <2>1 DEF Holding
  <2> QED
    BY <2>1, <2>2, SameConn
<1>12. CASE ChainGoes(r)
  <2>0. PICK effect : effect = <<r, "gate", Head(req[r].chain).fn>>
    BY ZenonT(30)
  <2>1. Called(r, effect)
    BY <1>12, <2>0, SMTT(30), ZenonT(30) DEF ChainGoes
  <2>6. UseAt(req[r]) = "first" => req[r].pc # "call" /\ req[r].pc # "second"
    BY <1>0 DEF UseAt, Stage
  <2>7. effect[1] = r /\ (UseAt(req[r]) = "first" => effect[2] \in {"gate", "first"})
    BY <1>12, <2>0, <2>6 DEF ChainGoes
  <2>2. /\ req'[r].mode = req[r].mode /\ req'[r].sess = req[r].sess
        /\ req[r].pc \in {"chain", "call", "first", "second"}
    BY <1>12, ZenonT(30) DEF ChainGoes, Changes
  <2>3. req'[r].pc \notin Early \cup {"done"}
    BY <1>12, ZenonT(30) DEF ChainGoes, Changes, Early
  <2>4. UseAt(req[r]) = "first" =>
           \/ req'[r].pc \in {"chain", "first", "commit1"}
           \/ req'[r].pc \in Showing /\ req'[r].after = "handled"
    BY <1>0, <1>12, ZenonT(30) DEF ChainGoes, Changes, UseAt, Stage, Showing
  <2>5. UseAt(req[r]) = "first" \/ req[r].pc \notin {"chain", "first", "commit1"} \/ req[r].mode # "upload"
    BY <2>2, SMTT(30), ZenonT(30) DEF UseAt
  <2> QED
    BY <2>1, <2>2, <2>3, <2>4, <2>5, <2>7, CalledConn, ZenonT(30) DEF Showing
<1>13. CASE ChainStops(r)
  <2>0. PICK effect : effect = <<r, "gate", Head(req[r].chain).fn>>
    OBVIOUS
  <2>1. Called(r, effect)
    BY <1>13, <2>0, ZenonT(30) DEF ChainStops
  <2>6. UseAt(req[r]) = "first" => req[r].pc # "call" /\ req[r].pc # "second"
    BY <1>0 DEF UseAt, Stage
  <2>7. effect[1] = r /\ (UseAt(req[r]) = "first" => effect[2] \in {"gate", "first"})
    BY <1>13, <2>0, <2>6 DEF ChainStops
  <2>2. /\ req'[r].mode = req[r].mode /\ req'[r].sess = req[r].sess
        /\ req[r].pc \in {"chain", "call", "first", "second"}
    BY <1>13, ZenonT(30) DEF ChainStops, Changes, Renders
  <2>3. req'[r].pc \notin Early \cup {"done"}
    BY <1>13, ZenonT(30) DEF ChainStops, Changes, Early, Renders
  <2>4. UseAt(req[r]) = "first" =>
           \/ req'[r].pc \in {"chain", "first", "commit1"}
           \/ req'[r].pc \in Showing /\ req'[r].after = "handled"
    BY <1>0, <1>13, ZenonT(30) DEF ChainStops, Changes, UseAt, Stage, Showing, Renders
  <2>5. UseAt(req[r]) = "first" \/ req[r].pc \notin {"chain", "first", "commit1"} \/ req[r].mode # "upload"
    BY <2>2 DEF UseAt
  <2> QED
    BY <2>1, <2>2, <2>3, <2>4, <2>5, <2>7, CalledConn, SMTT(30), ZenonT(30) DEF Showing
<1>14. CASE GatePasses(r)
  <2>1. EndTx(r)
    BY <1>14, Zenon DEF GatePasses, Won, Tried
  <2>2. req'[r].mode = req[r].mode /\ req'[r].pc \notin Early \cup {"done"}
    BY <1>0, <1>14 DEF GatePasses, Early, Showing, Forwards, Changes, Stage
  <2>3. req'[r].sess = req[r].sess \/ UseAt(req[r]) = "main"
    BY <1>0, <1>14, ZenonT(30) DEF GatePasses, UseAt, Forwards, Changes, Stage
  <2>4. /\ UseAt(req[r]) = "main" => req[r].mode # "upload"
        /\ UseAt(req[r]) = "second" => req[r].mode = "upload"
    BY <1>0 DEF UseAt, Stage, Between
  <2>5. \A k \in {"nested", "rel", "first"} :
           Holding(r, req[r], conns[c]) /\ conns[c].use = k =>
             UseAt(req[r]) = k \/ (k = "first" /\ req'[r].pc = "handled")
    BY <1>14 DEF GatePasses, Holding, UseAt, Showing, Forwards, Changes, Stage
  <2> QED
    BY <2>1, <2>2, <2>3, <2>4, <2>5, EndTxConn
<1>15. CASE ChainEnds(r)
  BY <1>0, <1>15, QuietConn, ZenonT(30) DEF ChainEnds, Changes, Early, Showing, Quiet
<1>16. CASE Goes(r)
  BY <1>0, <1>16, QuietConn, ZenonT(30) DEF Goes, Changes, Early, Showing, Quiet, Turns
<1>17. CASE RelAnswers(r)
  <2>1. EndTx(r)
    BY <1>17 DEF RelAnswers, Won, Tried
  <2>2. req'[r].mode = req[r].mode /\ req'[r].pc \notin Early \cup {"done"}
    BY <1>0, <1>17, ZenonT(30) DEF RelAnswers, Early, Showing, Ends, Changes
  <2>3. req'[r].sess = req[r].sess \/ UseAt(req[r]) = "main"
    BY <1>0, <1>17 DEF RelAnswers, UseAt, Ends, Changes
  <2>4. /\ UseAt(req[r]) = "main" => req[r].mode # "upload"
        /\ UseAt(req[r]) = "second" => req[r].mode = "upload"
    BY <1>0 DEF UseAt, Stage, Between
  <2>5. \A k \in {"nested", "rel", "first"} :
           Holding(r, req[r], conns[c]) /\ conns[c].use = k =>
             UseAt(req[r]) = k \/ (k = "first" /\ req'[r].pc = "handled")
    BY <1>17, ZenonT(30) DEF RelAnswers, Holding, UseAt, Showing, Ends, Changes
  <2> QED
    BY <2>1, <2>2, <2>3, <2>4, <2>5, EndTxConn
<1>18. CASE Invokes(r)
  <2>0. PICK effect : effect = <<r, IF req[r].pc = "call" THEN "route" ELSE "second">>
    BY ZenonT(30)
  <2>1. Called(r, effect)
    BY <1>18, <2>0, SMTT(30), ZenonT(30) DEF Invokes
  <2>6. UseAt(req[r]) = "first" => req[r].pc # "call" /\ req[r].pc # "second"
    BY <1>0 DEF UseAt, Stage
  <2>7. effect[1] = r /\ (UseAt(req[r]) = "first" => effect[2] \in {"gate", "first"})
    BY <1>18, <2>0, <2>6 DEF Invokes
  <2>2. /\ req'[r].mode = req[r].mode /\ req'[r].sess = req[r].sess
        /\ req[r].pc \in {"chain", "call", "first", "second"}
    BY <1>18, ZenonT(30) DEF Invokes, Changes
  <2>3. req'[r].pc \notin Early \cup {"done"}
    BY <1>18, ZenonT(30) DEF Invokes, Changes, Early
  <2>4. UseAt(req[r]) = "first" =>
           \/ req'[r].pc \in {"chain", "first", "commit1"}
           \/ req'[r].pc \in Showing /\ req'[r].after = "handled"
    BY <1>0, <1>18, ZenonT(30) DEF Invokes, Changes, UseAt, Stage, Showing
  <2>5. UseAt(req[r]) = "first" \/ req[r].pc \notin {"chain", "first", "commit1"} \/ req[r].mode # "upload"
    BY <2>2 DEF UseAt
  <2> QED
    BY <2>1, <2>2, <2>3, <2>4, <2>5, <2>7, CalledConn DEF Showing
<1>19. CASE Commits(r)
  <2>1. EndTx(r)
    BY <1>19, ZenonT(30) DEF Commits, Won, Tried
  <2>2. req'[r].mode = req[r].mode /\ req'[r].pc \notin Early \cup {"done"}
    BY <1>0, <1>19, ZenonT(30) DEF Commits, Early, Showing, Renders, Changes, ShowsRoute
  <2>3. req'[r].sess = req[r].sess \/ UseAt(req[r]) = "main"
    BY <1>0, <1>19, ZenonT(30) DEF Commits, UseAt, Renders, Changes, ShowsRoute
  <2>4. /\ UseAt(req[r]) = "main" => req[r].mode # "upload"
        /\ UseAt(req[r]) = "second" => req[r].mode = "upload"
    BY <1>0 DEF UseAt, Stage, Between
  <2>5. \A k \in {"nested", "rel", "first"} :
           Holding(r, req[r], conns[c]) /\ conns[c].use = k =>
             UseAt(req[r]) = k \/ (k = "first" /\ req'[r].pc = "handled")
    BY <1>19, ZenonT(30) DEF Commits, Holding, UseAt, Showing, Renders, Changes, ShowsRoute
  <2> QED
    BY <2>1, <2>2, <2>3, <2>4, <2>5, EndTxConn
<1>20. CASE Decides(r)
  <2>0. PICK effect : effect = <<r, "first">>
    BY ZenonT(30)
  <2>1. Called(r, effect)
    BY <1>20, <2>0 DEF Decides
  <2>6. UseAt(req[r]) = "first" => req[r].pc # "call" /\ req[r].pc # "second"
    BY <1>0 DEF UseAt, Stage
  <2>7. effect[1] = r /\ (UseAt(req[r]) = "first" => effect[2] \in {"gate", "first"})
    BY <1>20, <2>0, <2>6, ZenonT(30) DEF Decides
  <2>2. /\ req'[r].mode = req[r].mode /\ req'[r].sess = req[r].sess
        /\ req[r].pc \in {"chain", "call", "first", "second"}
    BY <1>20, ZenonT(30) DEF Decides, Changes
  <2>3. req'[r].pc \notin Early \cup {"done"}
    BY <1>20 DEF Decides, Changes, Early
  <2>4. UseAt(req[r]) = "first" =>
           \/ req'[r].pc \in {"chain", "first", "commit1"}
           \/ req'[r].pc \in Showing /\ req'[r].after = "handled"
    BY <1>0, <1>20, ZenonT(30) DEF Decides, Changes, UseAt, Stage, Showing
  <2>5. UseAt(req[r]) = "first" \/ req[r].pc \notin {"chain", "first", "commit1"} \/ req[r].mode # "upload"
    BY <2>2 DEF UseAt
  <2> QED
    BY <2>1, <2>2, <2>3, <2>4, <2>5, <2>7, CalledConn DEF Showing
<1>21. CASE Proceeds(r)
  <2>1. EndTx(r)
    BY <1>21, ZenonT(30) DEF Proceeds, Won, Tried
  <2>2. req'[r].mode = req[r].mode /\ req'[r].pc \notin Early \cup {"done"}
    BY <1>0, <1>21, ZenonT(30) DEF Proceeds, Early, Showing, Turns, Changes
  <2>3. req'[r].sess = req[r].sess \/ UseAt(req[r]) = "main"
    BY <1>0, <1>21, ZenonT(30) DEF Proceeds, UseAt, Turns, Changes
  <2>4. /\ UseAt(req[r]) = "main" => req[r].mode # "upload"
        /\ UseAt(req[r]) = "second" => req[r].mode = "upload"
    BY <1>0 DEF UseAt, Stage, Between
  <2>5. \A k \in {"nested", "rel", "first"} :
           Holding(r, req[r], conns[c]) /\ conns[c].use = k =>
             UseAt(req[r]) = k \/ (k = "first" /\ req'[r].pc = "handled")
    BY <1>21, ZenonT(30) DEF Proceeds, Holding, UseAt, Showing, Turns, Changes
  <2> QED
    BY <2>1, <2>2, <2>3, <2>4, <2>5, EndTxConn
<1>22. CASE Streams(r)
  BY <1>0, <1>22, QuietConn, ZenonT(30) DEF Streams, Changes, Early, Showing, Turns
<1>23. CASE BacksUp(r)
  BY <1>0, <1>23, QuietConn, ZenonT(30) DEF BacksUp, Changes, Early, Showing, Turns
<1>24. CASE SwapFails(r)
  BY <1>0, <1>24, QuietConn, ZenonT(30) DEF SwapFails, Changes, Early, Showing, Ends
<1>25. CASE MovesIn(r)
  BY <1>0, <1>25, QuietConn, ZenonT(30) DEF MovesIn, Changes, Early, Showing, Turns
<1>26. CASE Restores(r)
  BY <1>0, <1>26, QuietConn, ZenonT(30) DEF Restores, Changes, Early, Showing, Ends
<1>27. CASE Drops(r)
  BY <1>0, <1>27, QuietConn, ZenonT(30) DEF Drops, Changes, Early, Showing, ShowsRoute, Renders
<1>28. CASE Finishes(r)
  BY <1>28, FinishesConn
<1> QED
  BY StepIs, <1>1, <1>2, <1>3, <1>4, <1>5, <1>6, <1>7, <1>8, <1>9, <1>10, <1>11, <1>12, <1>13, <1>14, <1>15, <1>16, <1>17, <1>18, <1>19, <1>20, <1>21, <1>22, <1>23, <1>24, <1>25, <1>26, <1>27, <1>28, ZenonT(30)

\* The pool stays in order.
LEMMA PoolStep ==
  ASSUME Typing, Pool, [Next]_vars
  PROVE  Pool'
<1>1. ASSUME NEW r \in Requests, Step(r) PROVE Pool'
  <2>1. DOMAIN conns' = Conns
    BY <1>1, PoolDomain
  <2>2. ASSUME NEW c \in Conns PROVE ConnStep(r, req'[r], conns[c], conns'[c])
    BY <1>1, ConnSteps
  <2>3. ASSUME NEW c \in Conns PROVE ConnOk(conns'[c])
    BY <2>2 DEF ConnStep
  <2>4. ASSUME NEW c \in Conns, NEW s \in Requests, conns'[c].owner = s PROVE Holding(s, req'[s], conns'[c])
    <3>1. CASE s = r
      BY <2>2, <2>4, <3>1 DEF ConnStep
    <3>2. CASE s # r
      <4>1. conns'[c] = conns[c]
        BY <2>2, <2>4, <3>2, RoutesAssumption DEF ConnStep
      <4>2. req'[s] = req[s]
        BY <1>1, <3>2, OthersStay DEF Only
      <4> QED
        BY <2>4, <4>1, <4>2, SMTT(30), ZenonT(30) DEF Pool
    <3> QED
      BY <3>1, <3>2
  <2> QED
    BY <2>1, <2>3, <2>4 DEF Pool
<1>2. ASSUME NEW r \in Requests, Cancel(r) PROVE Pool'
  <2>1. /\ DOMAIN req' = Requests /\ \A s \in Requests \ {r} : req'[s] = req[s]
        /\ Changes(req[r], req'[r], {"cut"}) /\ conns' = conns
    BY <1>2, Known DEF Cancel, Changes, IsReq, Fields
  <2>2. ASSUME NEW c \in Conns, NEW s \in Requests, conns'[c].owner = s PROVE Holding(s, req'[s], conns'[c])
    <3>1. Holding(s, req[s], conns[c])
      BY <2>1, <2>2, Zenon DEF Pool
    <3> QED
      BY <2>1, <3>1, ZenonT(30) DEF Holding, Changes
  <2> QED
    BY <2>1, <2>2 DEF Pool
<1>3. CASE Crash
  <2>1. \A c \in Conns : conns'[c] = Idle
    BY <1>3 DEF Crash
  <2>2. DOMAIN conns' = Conns
    BY <1>3 DEF Crash
  <2>3. \A c \in Conns : ConnOk(conns'[c]) /\ conns'[c].owner \notin Requests
    BY <2>1, IdleIs, RoutesAssumption
  <2> QED
    BY <2>2, <2>3 DEF Pool
<1>4. CASE UNCHANGED vars
  BY <1>4 DEF vars, Pool
<1> QED
  BY <1>1, <1>2, <1>3, <1>4, SMTT(30), ZenonT(30) DEF Next, Done

-----------------------------------------------------------------------------
(* The disk.                                                               *)

DiskTyping ==
  /\ Filed
  /\ temps \subseteq Requests
  /\ \A r \in temps : req[r].pc \notin Early \cup {"done"}
  /\ moves \in Seq(Requests)

\* They never lead back, nor to the end.
LEMMA Onward ==
  ASSUME NEW r \in Requests, Typing, Elsewhere(r), req[r].pc \notin Early
  PROVE  req'[r].pc \notin Early \cup {"done"} /\ req[r].pc \notin (Swapping \ {"swap", "move"}) \cup Over
<1>0. Stage(req[r])
  BY Locally DEF Local
<1>1. CASE Raises(r) \/ Loses(r) \/ RelAnswers(r)
  BY <1>1 DEF Raises, Loses, RelAnswers, Ends, Early, Swapping, Over
<1>2. CASE Replies(r)
  BY <1>0, <1>2, ZenonT(30) DEF Replies, Says, Stage, Early, Showing, Swapping, Over
<1>3. CASE Shows(r) \/ Begins(r)
  BY <1>3, ZenonT(30) DEF Shows, Begins, BeginsAt, Early, Swapping, Over
<1>4. CASE ToGate(r) \/ ToHandle(r) \/ Ungated(r) \/ Opens(r) \/ ToUpload(r)
  BY <1>4, ZenonT(30) DEF ToGate, ToHandle, Ungated, Opens, ToUpload, Early
<1>5. CASE ChainGoes(r) \/ ChainStops(r) \/ ChainEnds(r)
  BY <1>5, Zenon DEF ChainGoes, ChainStops, ChainEnds, Renders, Changes, Early, Swapping, Over
<1>6. CASE GatePasses(r)
  BY <1>0, <1>6, ZenonT(30) DEF GatePasses, Forwards, Stage, Early, Swapping, Over
<1>7. CASE Goes(r) \/ Proceeds(r)
  BY <1>7, SMTT(30), ZenonT(30) DEF Goes, Proceeds, Turns, Early, Swapping, Over
<1>8. CASE Invokes(r) \/ Decides(r)
  BY <1>8 DEF Invokes, Decides, Early, Swapping, Over
<1>9. CASE Commits(r)
  BY <1>9, ZenonT(30) DEF Commits, ShowsRoute, Renders, Early, Swapping, Over
<1> QED
  BY <1>1, <1>2, <1>3, <1>4, <1>5, <1>6, <1>7, <1>8, <1>9, ZenonT(30) DEF Elsewhere

\* Every step keeps the types of what is on disk.
LEMMA DiskStep ==
  ASSUME Typing, DiskTyping, [Next]_vars
  PROVE  DiskTyping'
<1>0. Filed'
  BY FiledStep DEF DiskTyping
<1>1. ASSUME NEW r \in Requests, Step(r) PROVE DiskTyping'
  <2>0. \A s \in Requests \ {r} : req'[s] = req[s]
    BY <1>1, OthersStay DEF Only
  <2>1. CASE Fails(r)
    <3>1. req[r].pc \in Early => temps' = temps /\ r \notin temps
      BY <2>1 DEF Fails, Early, DiskTyping
    <3>2. req'[r].pc = "finish" /\ moves' = moves /\ temps' \in {temps, temps \cup {r}}
      BY <2>1 DEF Fails, Ends
    <3> QED
      BY <1>0, <2>0, <3>2 DEF DiskTyping, Early
  <2>2. CASE Streams(r)
    <3>1. req'[r].pc = "open2" /\ moves' = moves /\ temps' = temps \cup {r}
      BY <2>2, ZenonT(30) DEF Streams, Turns
    <3> QED
      BY <1>0, <2>0, <3>1 DEF DiskTyping, Early
  <2>3. CASE BacksUp(r)
    <3>1. req'[r].pc = "move" /\ UNCHANGED <<temps, moves>>
      BY <2>3 DEF BacksUp, Turns
    <3> QED
      BY <1>0, <2>0, <3>1 DEF DiskTyping, Early
  <2>4. CASE SwapFails(r)
    <3>1. moves' = moves /\ temps' = temps \ {r}
      BY <2>4 DEF SwapFails
    <3> QED
      BY <1>0, <2>0, <3>1 DEF DiskTyping
  <2>5. CASE MovesIn(r)
    <3>1. temps' = temps \ {r} /\ moves' = Append(moves, r)
      BY <2>5 DEF MovesIn
    <3>2. moves' \in Seq(Requests)
      BY <3>1 DEF DiskTyping
    <3> QED
      BY <1>0, <2>0, <3>1, <3>2 DEF DiskTyping
  <2>6. CASE Restores(r)
    <3>1. temps' = temps \ {r} /\ moves' = moves
      BY <2>6 DEF Restores
    <3> QED
      BY <1>0, <2>0, <3>1 DEF DiskTyping
  <2>7. CASE Drops(r)
    <3>1. req'[r].pc \notin Early \cup {"done"}
      BY <2>7 DEF Drops, ShowsRoute, Renders, Early
    <3>2. UNCHANGED <<temps, moves>>
      BY <2>7, SMTT(30), ZenonT(30) DEF Drops
    <3> QED
      BY <1>0, <2>0, <3>1, <3>2, SMTT(30), ZenonT(30) DEF DiskTyping
  <2>8. CASE Finishes(r)
    <3>1. moves' = moves /\ temps' = temps \ {r}
      BY <2>8 DEF Finishes
    <3> QED
      BY <1>0, <2>0, <3>1 DEF DiskTyping
  <2>9. CASE Elsewhere(r)
    <3>1. UNCHANGED <<temps, moves>>
      BY <2>9, ElsewhereIs DEF Still
    <3>2. r \in temps => req'[r].pc \notin Early \cup {"done"}
      BY <2>9, Onward DEF DiskTyping
    <3> QED
      BY <1>0, <2>0, <3>1, <3>2, SMTT(30), ZenonT(30) DEF DiskTyping
  <2> QED
    BY <1>1, StepOnDisk, <2>1, <2>2, <2>3, <2>4, <2>5, <2>6, <2>7, <2>8, <2>9, SMTT(30), ZenonT(30)
<1>2. ASSUME NEW r \in Requests, Cancel(r) PROVE DiskTyping'
  <2>1. /\ DOMAIN req' = Requests /\ \A s \in Requests \ {r} : req'[s] = req[s]
        /\ req'[r].pc = req[r].pc /\ UNCHANGED <<temps, moves>>
    BY <1>2, Known DEF Cancel, disk, IsReq, Fields
  <2> QED
    BY <1>0, <2>1 DEF DiskTyping
<1>3. CASE Crash
  BY <1>0, <1>3 DEF Crash, disk, DiskTyping
<1>4. CASE UNCHANGED vars
  BY <1>0, <1>4 DEF vars, DiskTyping
<1> QED
  BY <1>1, <1>2, <1>3, <1>4 DEF Next, Done

-----------------------------------------------------------------------------
(* The invariant, and what follows.                                        *)

Sound == Typing /\ Pool /\ DiskTyping

\* The pool and the disk are in order when the server starts.
LEMMA SoundInit == Init => Sound
<1> SUFFICES ASSUME Init PROVE Sound
  OBVIOUS
<1>1. /\ DOMAIN conns = Conns /\ (\A c \in Conns : conns[c] = Idle) /\ temps = {}
      /\ moves = <<>>
  BY DEF Init
<1>2. Pool
  BY <1>1, IdleIs, RoutesAssumption, Zenon DEF Pool
<1>3. DiskTyping
  BY <1>1, FiledInit DEF DiskTyping
<1> QED
  BY <1>2, <1>3, TypingInit DEF Sound

\* And every step keeps them so.
LEMMA SoundStep == Sound /\ [Next]_vars => Sound'
BY TypingStep, PoolStep, DiskStep DEF Sound

\* In every behaviour each handler is where its fields say it can be, each
\* connection is idle or held by a handler that is still going to give it back,
\* and the files belong to someone (handleRoute, handleUploadRoute, handleRel,
\* GateMiddleware and the pool they share).
THEOREM SoundAlways == Spec => []Sound
BY SoundInit, SoundStep, PTL DEF Spec

\* The types of the state, and of its connections: an idle one has no role
\* set, a held one only its request's (TypeOK).
THEOREM TypeCorrect == Spec => []TypeOK
<1>1. Sound => TypeOK
  <2> SUFFICES ASSUME Sound PROVE TypeOK
    OBVIOUS
  <2>1. \A r \in Requests : /\ req[r].pc \in Pcs
                            /\ req[r].mode \in {"", "gate", "route", "upload"}
                            /\ req[r].cut \in BOOLEAN
    BY ZenonT(30) DEF Sound, Typing, QType
  <2>2. ASSUME NEW c \in Conns
        PROVE  /\ conns[c].owner \in Requests \cup {Nobody}
               /\ conns[c].owner = Nobody => conns[c] = Idle
               /\ conns[c].owner # Nobody => conns[c].role \in {"", req[conns[c].owner].sess.role}
    BY DEF Sound, Pool, ConnOk, Holding
  <2>3. /\ file \in {{}} \cup {{x} : x \in Requests \cup {"old"}}
        /\ temps \subseteq Requests
        /\ \A r \in Requests : backups[r] \in {{}} \cup {{x} : x \in Requests \cup {"old"}}
    BY SMTT(30), ZenonT(30) DEF Sound, DiskTyping, Filed, Contents
  <2>4. up \in BOOLEAN
    BY DEF Sound, Typing
  <2> QED
    BY <2>1, <2>2, <2>3, <2>4 DEF TypeOK
<1> QED
  BY <1>1, SoundAlways, PTL

\* A request that is over holds no connection and has no staging file,
\* whichever of its returns was taken (NothingLeaks: handleUploadRoute's
\* explicit releases and the deferred ones of the others).
THEOREM NoLeaks == Spec => []NothingLeaks
<1>1. Sound => NothingLeaks
  BY DEF Sound, Pool, Holding, DiskTyping, NothingLeaks
<1> QED
  BY <1>1, SoundAlways, PTL

=============================================================================
