------------------------------- MODULE MCBoot -------------------------------
(* Boot for TLC.                                                            *)
EXTENDS Boot

CONSTANTS f1, f2, v1, v2

NoCommand == [budget |-> 0, cmd |-> {}, timeout |-> 1]
Line(places, text) == {[places |-> places, quoted |-> TRUE, text |-> text]}
Commands == {Line(<<>>, TRUE), Line(<<<<"unset">>>>, TRUE), Line(<<<<"unset", "">>>>, FALSE),
             Line(<<<<"unset", "x">>>>, FALSE), {[places |-> <<>>, quoted |-> FALSE, text |-> TRUE]}}
Timed == {[NoCommand EXCEPT !.budget = b] : b \in {5, 24, 31}}
           \cup {[NoCommand EXCEPT !.cmd = c, !.timeout = 3] : c \in Commands}

None == <<>>
Own == [certs |-> <<"cert1", "cert2">>, keys |-> <<"key1", "key2">>]
Theirs == [certs |-> <<"certA">>, keys |-> <<"keyA">>]
Plain == [certs |-> None, keys |-> None]
Half == [certs |-> <<"certA">>, keys |-> None]
MCPaths == {"cert1", "cert2", "key1", "key2", "certA", "keyA"}
Entries(E, dirs) == [shared |-> Own, entries |-> E, dirs |-> dirs]
NoSaml == Entries(<<>>, {})

\* jwt.secret: generated, in a directory that may be missing, over files that
\* may be unreadable; or only read.
Generated == [form |-> "gen", paths |-> <<"s1", "s2">>, dirs |-> {"s2"}, files |-> [p \in {"s1", "s2"} |-> Missing]]
Loads == [form : {"gen", "default", "plain"}, paths : {<<"s1", "s2">>}, dirs : {{"s2"}},
          files : [{"s1", "s2"} -> {Missing, Unreadable, Other}]]
           \cup {[Generated EXCEPT !.paths = <<>>]}
Idle == [f \in Flows |-> "oidc"]
Scenario(c, s, from) ==
  [conf |-> c, saml |-> s, source |-> Generated, providers |-> {}, kinds |-> Idle, tabs |-> {}, boots |-> from, now |-> 0]
Browser(s, k, tabs, from, at, src) ==
  [conf |-> NoCommand, saml |-> s, source |-> src, providers |-> {k[f] : f \in Flows} \ {"none"}, kinds |-> k,
   tabs |-> tabs, boots |-> from, now |-> at]

\* The start alone; the key pairs over three builds; two sign-ins at once;
\* one sign-in, and the session that follows it; the configured secrets.
Starts == {Scenario(c, NoSaml, IF c.cmd = {} THEN 3 ELSE 2) : c \in Timed}
Builds == {Scenario(NoCommand, Entries([a |-> e, b |-> Plain], dirs), 1) :
             e \in {Theirs, Plain}, dirs \in {{}, {"cert2", "certA"}, {"cert1", "cert2"}}}
Logins == {Browser(Entries([a |-> Plain], {}), (f1 :> "oidc") @@ (f2 :> k), {v1}, 2, MaxNow - StateMaxAge, Generated) :
             k \in {"oidc", "saml"}}
Visits == {Browser(NoSaml, (f1 :> "oidc") @@ (f2 :> "none"), Tabs, 2, 0, Generated),
           Browser(NoSaml, (f1 :> "oidc") @@ (f2 :> "none"), {v1}, 2, 0, [Generated EXCEPT !.dirs = {}])}
Secrets == {[Scenario(NoCommand, NoSaml, 1) EXCEPT !.source = src] : src \in Loads}
MCScenarios == Starts \cup Builds \cup Logins \cup Visits \cup Secrets

\* An entry with a certificate of its own and no key path.
HalfScenarios == {Scenario(NoCommand, Entries([a |-> Half], {"cert1", "certA"}), 1)}

=============================================================================
