------------------------------ MODULE Session ------------------------------
(***************************************************************************)
(* The session token and who a request is: jwt's Mint, Verify and Renew,    *)
(* reqauth's Authenticate and Begin.                                        *)
(*                                                                         *)
(* Times are seconds. A token is the set of at most one record              *)
(* [role, iat, exp, auth, by]: a request without a cookie carries {}. by    *)
(* says who signed it: "rel" with jwt.secret and jwt.algorithm, or "other". *)
(* role is "" when the claim is missing, auth is -1 when auth_time is. The  *)
(* free-form claims are left out.                                           *)
(***************************************************************************)
EXTENDS Integers

CONSTANTS MaxSessionAge,   \* jwt.max_session_age
          RenewAfter,      \* jwt.renew_after, in hundredths
          AnonymousRole    \* query.anonymous_role, "" when unset

ASSUME SessionAssumption ==
  /\ MaxSessionAge \in Nat
  /\ RenewAfter \in 0..100

Mint(role, authTime, maxage, now) ==
  [role |-> role, iat |-> now, exp |-> now + maxage, auth |-> authTime, by |-> "rel"]

\* A token that fails any of the checks is no session at all.
Verify(token, now) ==
  {t \in token : /\ t.by = "rel"
                 /\ now < t.exp
                 /\ t.auth # -1
                 /\ ~(now > t.auth + MaxSessionAge)
                 /\ t.role # ""}

ShouldRenew(t, now) ==
  LET lifespan == t.exp - t.iat
  IN lifespan > 0 /\ (now - t.iat) * 100 > RenewAfter * lifespan

\* Mutant: a renewal counts as a sign-in.
RenewAndSignIn(t, now) == [t EXCEPT !.iat = now, !.exp = now + (t.exp - t.iat), !.auth = now]
Renew(t, now) == [t EXCEPT !.iat = now, !.exp = now + (t.exp - t.iat)]

\* The cookies a renewal sends: a sequence, empty when none is due.
RenewIfDue(claims, now) ==
  IF \E t \in claims : ShouldRenew(t, now)
  THEN <<[op |-> "set", token |-> Renew(CHOOSE t \in claims : TRUE, now)]>>
  ELSE <<>>

ResolveRole(claims) ==
  IF claims = {} THEN AnonymousRole ELSE (CHOOSE t \in claims : TRUE).role

NewSession(claims) == [claims |-> claims, verified |-> claims # {}, role |-> ResolveRole(claims)]

\* The session, and whether it is refused with a 401.
Authenticate(token, now, anonymousRoleExists) ==
  LET claims == Verify(token, now)
  IN [sess |-> NewSession(claims), refused |-> claims = {} /\ ~anonymousRoleExists]

=============================================================================
