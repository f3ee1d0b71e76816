------------------------------ MODULE SignOn ------------------------------
(***************************************************************************)
(* Signing in with OpenID Connect and SAML (package sso), and the session   *)
(* that follows, for one browser with several tabs.                         *)
(*                                                                         *)
(* A flow is one sign-in, from /login to the callback; its random state and *)
(* nonce are the flow's own name. The provider and the browser are external.*)
(* A request carries the cookies the browser had when it was sent, and its  *)
(* answer changes those the browser has by then. A token also has the       *)
(* secret it was signed with.                                               *)
(***************************************************************************)
EXTENDS Session, Secret, TLC

CONSTANTS Flows, Tabs,
          MaxAge,         \* jwt.max_age
          StateMaxAge,    \* the Max-Age of the state cookie
          MaxNow          \* bound on time

ASSUME SignOnAssumption == MaxAge \in Nat \ {0} /\ StateMaxAge \in Nat /\ MaxNow \in Nat

VARIABLES providers,  \* those that are configured, among "oidc" and "saml"
          now,        \* seconds
          endpoint,   \* of each provider: [up (is it mounted), ready, holder (of
                      \* its mutex)]
          flow,       \* [kind, pc, state, session, then (after ensureReady)]
          tab,        \* a request of the session: [pc, session], "closed" when unused
          jar,        \* the browser's cookies: [state, session], sets of at
                      \* most one
          signed,     \* observed: the times a callback signed the user in
          seen,       \* observed: when the session was last used, 0 once it lapsed
          lapsed      \* observed: was it left alone too long since, or ended

signVars == <<now, endpoint, flow, tab, jar, signed, seen, lapsed>>

Unlocked == "nobody"
Booting == "boot"       \* the goroutine that builds
AtRest == [pc |-> "rest", state |-> {}, session |-> {}, then |-> ""]

\* Where a request is being handled; at "away" the user is at the provider.
InFlight == {"check", "lock", "fetch", "redirect", "back", "exchange", "acs", "invoke"}

To(f, fields) == flow' = [flow EXCEPT ![f] = fields @@ @]
Done(f) == [pc |-> "done", state |-> {}, session |-> {}]

Sign(t) == [role |-> t.role, iat |-> t.iat, exp |-> t.exp, auth |-> t.auth, by |-> t.by, key |-> secret]
VerifyRequest(session) == Verify({t \in session : t.key = secret}, now)

-----------------------------------------------------------------------------
(* Discovery of a provider, under its mutex.                               *)

\* newOidcEndpoint and newSamlEndpoint try once, while the server builds.
\* An entry without a key pair is skipped.
Discover(p, mounted) ==
  /\ endpoint[p].holder = Booting
  /\ \E ok \in BOOLEAN :
       endpoint' = [endpoint EXCEPT ![p] = [up |-> mounted, ready |-> mounted /\ ok, holder |-> Unlocked]]
  /\ UNCHANGED <<now, flow, tab, jar, signed, seen, lapsed>>

\* ensureReady reads the flag under the mutex, and gives the mutex back.
Check(f) ==
  LET p == flow[f].kind IN
  /\ flow[f].pc = "check" /\ endpoint[p].holder = Unlocked
  /\ To(f, [pc |-> IF endpoint[p].ready THEN flow[f].then ELSE "lock"])
  /\ UNCHANGED <<now, endpoint, tab, jar, signed, seen, lapsed>>

\* discover and fetchMetadata look again once they have it.
Lock(f) ==
  LET p == flow[f].kind IN
  /\ flow[f].pc = "lock" /\ endpoint[p].holder = Unlocked
  /\ IF endpoint[p].ready THEN To(f, [pc |-> flow[f].then]) /\ UNCHANGED endpoint
     ELSE /\ To(f, [pc |-> "fetch"])
          /\ endpoint' = [endpoint EXCEPT ![p].holder = f]
  /\ UNCHANGED <<now, tab, jar, signed, seen, lapsed>>

\* Mutant: an early return keeps the mutex.
FetchKeepsMutex(f) ==
  LET p == flow[f].kind IN
  /\ flow[f].pc = "fetch"
  /\ \/ /\ endpoint' = [endpoint EXCEPT ![p].ready = TRUE, ![p].holder = Unlocked]
        /\ To(f, [pc |-> flow[f].then])
     \/ UNCHANGED endpoint /\ To(f, Done(f))
  /\ UNCHANGED <<now, tab, jar, signed, seen, lapsed>>

\* The provider answers, fails, or the client gives up: 503.
Fetch(f) ==
  LET p == flow[f].kind IN
  /\ flow[f].pc = "fetch"
  /\ \E ok \in BOOLEAN :
       /\ endpoint' = [endpoint EXCEPT ![p].ready = ok, ![p].holder = Unlocked]
       /\ To(f, IF ok THEN [pc |-> flow[f].then] ELSE Done(f))
  /\ UNCHANGED <<now, tab, jar, signed, seen, lapsed>>

-----------------------------------------------------------------------------
(* The two ends of a sign-in.                                              *)

\* The user begins. A provider may also begin with SAML, without a login.
Begin(f) ==
  /\ flow[f].pc = "rest" /\ flow[f].kind \in providers /\ endpoint[flow[f].kind].up
  /\ \/ To(f, [pc |-> "check", then |-> "redirect"])
     \/ flow[f].kind = "saml" /\ To(f, [pc |-> "away"])
  /\ UNCHANGED <<now, endpoint, tab, jar, signed, seen, lapsed>>

\* There is one state cookie per provider: a second login replaces it.
oidcLoginHandler(f) ==
  /\ flow[f].pc = "redirect" /\ flow[f].kind = "oidc" /\ endpoint["oidc"].holder = Unlocked
  /\ \/ To(f, Done(f)) /\ UNCHANGED jar
     \/ To(f, [pc |-> "away"]) /\ jar' = [jar EXCEPT !.state = {[flow |-> f, at |-> now]}]
  /\ UNCHANGED <<now, endpoint, tab, signed, seen, lapsed>>

samlLoginHandler(f) ==
  /\ flow[f].pc = "redirect" /\ flow[f].kind = "saml"
  /\ To(f, Done(f)) \/ To(f, [pc |-> "away"])
  /\ UNCHANGED <<now, endpoint, tab, jar, signed, seen, lapsed>>

\* The provider sends the browser back. A cross-site POST, as SAML's is,
\* does not carry the session cookie.
Return(f) ==
  /\ flow[f].pc = "away" /\ endpoint[flow[f].kind].up
  /\ To(f, IF flow[f].kind = "oidc"
           THEN [pc |-> "back", state |-> {c \in jar.state : now < c.at + StateMaxAge}, session |-> jar.session]
           ELSE [pc |-> "check", then |-> "acs", session |-> {}])
  /\ UNCHANGED <<now, endpoint, tab, jar, signed, seen, lapsed>>

\* Nothing is retried here. The cookie is cleared before it is looked at; the
\* browser does so when the answer comes.
oidcCallbackHandler(f) ==
  /\ flow[f].pc = "back" /\ endpoint["oidc"].holder = Unlocked
  /\ LET cookie == flow[f].state
     IN \/ /\ ~endpoint["oidc"].ready \/ cookie = {}
           /\ To(f, Done(f)) /\ UNCHANGED jar
        \/ /\ endpoint["oidc"].ready /\ cookie # {}
           /\ \/ To(f, Done(f)) /\ jar' = [jar EXCEPT !.state = {}]   \* a state or a code that does not do
              \/ /\ \A c \in cookie : c.flow = f
                 /\ To(f, [pc |-> "exchange"]) /\ UNCHANGED jar
  /\ UNCHANGED <<now, endpoint, tab, signed, seen, lapsed>>

\* The code, the ID token with its nonce, and the userinfo.
Exchange(f) ==
  /\ flow[f].pc = "exchange"
  /\ \/ To(f, Done(f)) /\ jar' = [jar EXCEPT !.state = {}]
     \/ /\ \A c \in flow[f].state : c.flow = f
        /\ To(f, [pc |-> "invoke"]) /\ UNCHANGED jar
  /\ UNCHANGED <<now, endpoint, tab, signed, seen, lapsed>>

samlAcsHandler(f) ==
  /\ flow[f].pc = "acs"
  /\ To(f, Done(f)) \/ To(f, [pc |-> "invoke"])
  /\ UNCHANGED <<now, endpoint, tab, jar, signed, seen, lapsed>>

\* The callback function fails or is not configured, or its response signs
\* the user in, out, or neither.
invokeCallback(f) ==
  /\ flow[f].pc = "invoke"
  /\ To(f, Done(f))
  /\ LET state == IF flow[f].kind = "oidc" THEN {} ELSE jar.state
     IN \/ jar' = [jar EXCEPT !.state = state] /\ UNCHANGED <<signed, seen, lapsed>>
        \/ /\ jar' = [state |-> state, session |-> {}]
           /\ lapsed' = TRUE /\ seen' = 0 /\ UNCHANGED signed
        \/ /\ jar' = [state |-> state, session |-> {Sign(Mint("user", now, MaxAge, now))}]
           /\ signed' = signed \cup {now} /\ seen' = now /\ lapsed' = FALSE
  /\ UNCHANGED <<now, endpoint, tab>>

-----------------------------------------------------------------------------
(* The session.                                                            *)

Visit(v) ==
  /\ tab[v].pc = "rest"
  /\ tab' = [tab EXCEPT ![v] = [pc |-> "sent", session |-> jar.session]]
  /\ UNCHANGED <<now, endpoint, flow, jar, signed, seen, lapsed>>

\* The longest a session may be left alone without being lost.
Gap == MaxAge - (RenewAfter * MaxAge) \div 100

\* Any handler, after its checks: the session is renewed when that is due.
Renewing(v) ==
  /\ tab[v].pc = "sent"
  /\ tab' = [tab EXCEPT ![v] = [pc |-> "rest", session |-> {}]]
  /\ LET claims == VerifyRequest(tab[v].session)
         cookies == RenewIfDue(claims, now)
     IN /\ jar' = [jar EXCEPT !.session = IF cookies = <<>> THEN @ ELSE {cookies[1].token}]
        /\ IF claims = {} THEN UNCHANGED <<seen, lapsed>>
           ELSE /\ lapsed' = (lapsed \/ now - seen >= Gap \/ tab[v].session # jar.session)
                /\ seen' = IF lapsed' THEN 0 ELSE now
  /\ UNCHANGED <<now, endpoint, flow, signed>>

\* A function answers with a null jwt.
Logout(v) ==
  /\ tab[v].pc = "sent"
  /\ tab' = [tab EXCEPT ![v] = [pc |-> "rest", session |-> {}]]
  /\ jar' = [jar EXCEPT !.session = {}]
  /\ lapsed' = TRUE /\ seen' = 0
  /\ UNCHANGED <<now, endpoint, flow, signed>>

Pass == now < MaxNow /\ now' = now + 1 /\ UNCHANGED <<endpoint, flow, tab, jar, signed, seen, lapsed>>

Handler(f) == Check(f) \/ Lock(f) \/ oidcLoginHandler(f) \/ samlLoginHandler(f)
                \/ oidcCallbackHandler(f) \/ Exchange(f) \/ samlAcsHandler(f)
\* What nothing in the code bounds: the provider's metadata, and the database.
Elsewhere(f) == Fetch(f) \/ invokeCallback(f)
Outside == (\E f \in Flows : Begin(f) \/ Return(f)) \/ (\E v \in Tabs : Visit(v) \/ Renewing(v) \/ Logout(v)) \/ Pass

\* The build starts with new endpoints, and holds each until it has tried.
Rebuilt == [p \in {"oidc", "saml"} |->
              [up |-> FALSE, ready |-> FALSE, holder |-> IF p \in providers THEN Booting ELSE Unlocked]]
Tried(p) == endpoint[p].holder # Booting

-----------------------------------------------------------------------------

\* A session that is accepted goes back to a callback that signed the user
\* in, no longer ago than jwt.max_session_age, however often it was renewed,
\* and each of its tokens is good for jwt.max_age. As long as the browser
\* comes back before what renewal leaves of a token has run out, the session
\* is not lost until that age, nor when the server dies and starts again with
\* a secret that has a file (Verify, ShouldRenew, Renew, handleResponseJwt,
\* resolveGenValue).
SessionIsEarned ==
  /\ \A t \in UNION {VerifyRequest(s) : s \in {jar.session} \cup {tab[v].session : v \in Tabs}} :
       /\ t.auth \in signed /\ now <= t.auth + MaxSessionAge
       /\ t.iat <= now /\ t.exp = t.iat + MaxAge
  /\ \A t \in jar.session :
       ~lapsed /\ now - seen < Gap /\ now <= t.auth + MaxSessionAge /\ secret # {}
         => VerifyRequest(jar.session) # {}

=============================================================================
