-------------------------------- MODULE Boot --------------------------------
(***************************************************************************)
(* The life of the process: its configuration, Start, the build with the    *)
(* sign-on endpoints, serving, Reload, and a crash followed by another      *)
(* start. The files of the secret and of the key pairs and the browser's    *)
(* cookies outlive it.                                                      *)
(***************************************************************************)
EXTENDS StartUp, Secret, KeyPair, SignOn

CONSTANTS Scenarios,   \* configurations, what a browser does with them, and
                       \* what is left of the two bounds
          MaxBoots     \* bound on starts and reloads

ASSUME BootAssumption ==
  /\ MaxBoots \in Nat
  /\ \A s \in Scenarios :
       /\ s.conf.budget \in Int /\ s.now \in Nat
       /\ s.source.form \in {"gen", "default", "plain"}
       /\ s.source.files \in [DOMAIN s.source.files -> Int]
       /\ s.source.paths \in Seq(DOMAIN s.source.files)

VARIABLE boots

fixed == <<conf, saml, providers, source>>
vars == <<fixed, boots, startVars, secretVars, keyVars, signVars>>

Init ==
  /\ \E s \in Scenarios :
       /\ conf = s.conf /\ saml = s.saml /\ providers = s.providers
       /\ source = s.source /\ vault = s.source.files
       /\ flow = [f \in Flows |-> [kind |-> s.kinds[f]] @@ AtRest]
       /\ tab = [v \in Tabs |-> [pc |-> IF v \in s.tabs THEN "rest" ELSE "closed", session |-> {}]]
       /\ boots = s.boots /\ now = s.now
       /\ endpoint = Rebuilt /\ pair = NoPairs /\ trusted = NoPairs
  /\ step = "load" /\ reload = FALSE /\ clock = 0 /\ until = 0 /\ proc = NoProc
  /\ wait = [deadline |-> 0, delay |-> FirstDelay, late |-> FALSE, past |-> 0]
  /\ disk = [p \in Paths |-> 0] /\ todo = {} /\ writing = {} /\ made = 0
  /\ secret = {} /\ drawn = 0 /\ stowing = {}
  /\ jar = [state |-> {}, session |-> {}]
  /\ signed = {} /\ seen = 0 /\ lapsed = TRUE

\* The configuration is loaded. Another value in it may be refused.
Load ==
  /\ step = "load"
  /\ \/ /\ resolveFileValue \/ Ephemeral \/ Stowed
        /\ \E next \in {"start", "failed"} : Goto(next, 0)
     \/ resolveGenValue /\ UNCHANGED <<step, clock, until>>
     \/ (Unresolved \/ (stowing # {} /\ Cut)) /\ Goto("failed", 0)
  /\ UNCHANGED <<fixed, boots, reload, wait, proc, keyVars, signVars>>

InStart == Starting /\ UNCHANGED <<fixed, secretVars, boots, keyVars, signVars>>
InCommand == Command /\ UNCHANGED <<fixed, secretVars, boots, keyVars, signVars>>
Ending(A) == step = "command" /\ A /\ UNCHANGED <<step, reload, clock, until, wait, fixed, secretVars, boots, keyVars, signVars>>
Time == Tick /\ UNCHANGED <<fixed, secretVars, boots, keyVars, signVars>>

\* A build has endpoints of its own: the OpenID ones first, then the key
\* pairs, then the SAML ones.
BeginMount ==
  /\ step = "build"
  /\ step' = "mount" /\ todo' = Mount /\ pair' = NoPairs /\ endpoint' = Rebuilt
  /\ UNCHANGED <<fixed, secretVars, boots, reload, clock, until, wait, proc, disk, writing, made, trusted,
                 now, flow, tab, jar, signed, seen, lapsed>>
Discoveries ==
  /\ step = "mount"
  /\ \/ Discover("oidc", TRUE)
     \/ /\ Tried("oidc") /\ todo = {}
        /\ Discover("saml", \E e \in DOMAIN saml.entries : pair[e] # {})
  /\ UNCHANGED <<fixed, secretVars, boots, startVars, keyVars>>
Pairs == step = "mount" /\ Tried("oidc") /\ Pairing /\ UNCHANGED <<fixed, secretVars, boots, startVars, signVars>>
\* A registry that cannot be built ends Start; a Reload keeps what it had.
BuildFails ==
  /\ step = "build"
  /\ Goto(IF reload THEN "serving" ELSE "failed", 0) /\ reload' = FALSE
  /\ UNCHANGED <<fixed, secretVars, boots, wait, proc, keyVars, signVars>>
Serve ==
  /\ step = "mount" /\ todo = {} /\ Tried("oidc") /\ Tried("saml")
  /\ step' = "serving" /\ reload' = FALSE
  /\ UNCHANGED <<fixed, secretVars, boots, clock, until, wait, proc, keyVars, signVars>>

Handling(f) == step = "serving" /\ Handler(f) /\ UNCHANGED <<fixed, secretVars, boots, startVars, keyVars>>
Answered(f) == step = "serving" /\ Elsewhere(f) /\ UNCHANGED <<fixed, secretVars, boots, startVars, keyVars>>
Browsing == step = "serving" /\ Outside /\ UNCHANGED <<fixed, secretVars, boots, startVars, keyVars>>

\* Nothing is being handled once Drain has returned.
Reload ==
  /\ step = "serving" /\ boots < MaxBoots
  /\ \A f \in Flows : flow[f].pc \notin InFlight
  /\ \A v \in Tabs : tab[v].pc # "sent"
  /\ boots' = boots + 1 /\ reload' = TRUE
  /\ Goto("dmut", 0)
  /\ UNCHANGED <<fixed, secretVars, wait, proc, keyVars, signVars>>

\* The process dies, or gave up, and is started again. The requests it was
\* handling are lost, and so is what it left behind.
Crash ==
  /\ boots < MaxBoots
  /\ boots' = boots + 1 /\ reload' = FALSE
  /\ Goto("load", 0) /\ proc' = NoProc
  /\ Cut /\ Forget
  /\ endpoint' = Rebuilt
  /\ flow' = [f \in Flows |-> IF flow[f].pc \in InFlight THEN Done(f) @@ flow[f] ELSE flow[f]]
  /\ tab' = [v \in Tabs |-> IF tab[v].pc = "sent" THEN [pc |-> "rest", session |-> {}] ELSE tab[v]]
  /\ lapsed' = (lapsed \/ ~Persisted) /\ seen' = IF lapsed' THEN 0 ELSE seen
  /\ UNCHANGED <<fixed, wait, now, jar, signed>>

\* Start has given up, or the server waits for a request.
AtEnd ==
  /\ step = "failed" \/ (step = "serving" /\ \A f \in Flows : flow[f].pc \notin InFlight)
  /\ UNCHANGED <<fixed, secretVars, boots, startVars, keyVars, signVars>>

Next == Load \/ InStart \/ InCommand \/ Ending(Kill) \/ Ending(logLinesEnds) \/ Ending(LeftBehindEnds)
          \/ Time \/ BeginMount \/ BuildFails \/ Discoveries \/ Pairs \/ Serve
          \/ (\E f \in Flows : Handling(f) \/ Answered(f)) \/ Browsing \/ Reload \/ Crash \/ AtEnd

\* Go's scheduler and its timers. Nothing is assumed of the command, its
\* timeout has to do, nor of what the command leaves behind, of a provider
\* asked for its metadata, or of the callback function.
Fairness ==
  /\ WF_vars(Load) /\ WF_vars(InStart) /\ WF_vars(Time)
  /\ WF_vars(Ending(Kill)) /\ WF_vars(Ending(logLinesEnds))
  /\ WF_vars(BeginMount \/ BuildFails \/ Pairs \/ Serve)
  /\ \A f \in Flows : WF_vars(Handling(f))

Spec == Init /\ [][Next]_vars /\ Fairness

-----------------------------------------------------------------------------

Asking == step = "mount" /\ ~(Tried("oidc") /\ (todo = {} => Tried("saml")))

\* When those the code waits for without a limit come back in the end, Start
\* and Reload end, and so does every request of a sign-in: no timer, no
\* command that hangs or floods its pipes, and no request that waits for the
\* mutex of an endpoint holds them up for ever (waitReady, runCmd, logLines,
\* discover, fetchMetadata, ensureReady).
EveryoneReturns ==
  /\ []<>(proc.left = {}) /\ []<>~Asking
  /\ \A f \in Flows : []<>(flow[f].pc \notin {"fetch", "invoke"})
  => /\ step \notin {"serving", "failed"} ~> step \in {"serving", "failed"}
     /\ \A f \in Flows : flow[f].pc \in InFlight ~> flow[f].pc \notin InFlight

=============================================================================
