------------------------------ MODULE StartUp ------------------------------
(***************************************************************************)
(* boot.Start up to the build: waiting for Postgres (pg/waitready.go), then *)
(* dmut and reload.cmd (package reloadcmd), then introspection. A Reload    *)
(* runs the same two commands and introspects again.                        *)
(*                                                                         *)
(* clock counts half seconds since the step at hand began. A sleep may last *)
(* up to Slack longer than asked for; every other timer fires when it is    *)
(* due. The command is a process that may leave another one behind, which   *)
(* keeps the pipes it inherited open.                                       *)
(***************************************************************************)
EXTENDS Integers, Sequences, FiniteSets, FiniteSetsExt

CONSTANTS FirstDelay, MaxDelay, AttemptMax,   \* waitFirstDelay, waitMaxDelay, waitAttemptMax
          Slack

ASSUME StartUpAssumption ==
  /\ FirstDelay \in Nat \ {0} /\ MaxDelay \in Nat /\ AttemptMax \in Nat \ {0}
  /\ Slack \in Nat

VARIABLES conf,    \* the configuration: [budget (pg.connect_timeout), cmd
                   \* (reload.cmd, a set of at most one), timeout
                   \* (reload.timeout), ...]
          step,    \* where Start or Reload is
          reload,  \* is it a Reload
          clock,
          until,   \* when the timer at hand fires
          wait,    \* waitReady's locals, late: has a sleep lasted too long,
                   \* past: the attempts begun at or past the deadline
          proc     \* the command: its child, the pipes of a process it left
                   \* behind, and the pipes that are still being read

startVars == <<step, reload, clock, until, wait, proc>>

Pipes == {"stdout", "stderr"}
NoProc == [child |-> "none", left |-> {}, readers |-> {}]

\* An attempt is clipped to what remains, unless nothing does.
\* Mutant: it never is.
Unclipped(c, deadline) == AttemptMax
Timeout(c, deadline) == IF deadline - c \in 1..(AttemptMax - 1) THEN deadline - c ELSE AttemptMax

\* An attempt begins at c.
Attempt(c, w) ==
  /\ step' = "attempt" /\ clock' = c
  /\ until' = c + Timeout(c, w.deadline)
  /\ wait' = [w EXCEPT !.past = IF c >= w.deadline THEN @ + 1 ELSE @]

waitReady ==
  /\ step = "start"
  /\ Attempt(0, [deadline |-> conf.budget, delay |-> FirstDelay, late |-> FALSE, past |-> 0])
  /\ UNCHANGED <<reload, proc>>

\* The step after this one, on a clock of its own.
Goto(s, timer) == step' = s /\ clock' = 0 /\ until' = timer

\* The context of Start is never cancelled. Any error that is not known to
\* be transient ends the wait.
AttemptEnds(outcome) ==
  /\ step = "attempt"
  /\ \/ outcome = "ready" /\ Goto("dmut", 0) /\ UNCHANGED wait
     \/ /\ outcome = "transient" /\ clock + wait.delay < wait.deadline
        /\ step' = "sleep" /\ until' = clock + wait.delay
        /\ wait' = [wait EXCEPT !.delay = Min({2 * wait.delay, MaxDelay})]
        /\ UNCHANGED clock
     \/ /\ outcome = "permanent" \/ (outcome = "transient" /\ clock + wait.delay >= wait.deadline)
        /\ Goto("failed", 0) /\ UNCHANGED wait
  /\ UNCHANGED <<reload, proc>>

WakeUp ==
  /\ step = "sleep" /\ clock >= until
  /\ Attempt(clock, [wait EXCEPT !.late = @ \/ clock > until])
  /\ UNCHANGED <<reload, proc>>

\* In-process: dmut returns when its context ends. Its error is joined with
\* the command's and only logged, so the command is tried in any case.
runDmut ==
  /\ step = "dmut"
  /\ Goto("cmd", 0)
  /\ UNCHANGED <<reload, wait, proc>>

-----------------------------------------------------------------------------
(* reload.cmd.                                                             *)

\* A placeholder is the sequence of its segments' values, "unset" for a name
\* that has none. The last of several is a literal.
resolve(p) == IF Len(p) = 1 THEN p[1]
              ELSE LET set == {i \in 1..(Len(p) - 1) : p[i] \notin {"unset", ""}}
                   IN IF set = {} THEN p[Len(p)] ELSE p[Min(set)]
interpolate(cmd) == [i \in DOMAIN cmd.places |-> resolve(cmd.places[i])]

\* Errors before there is a process: a name without value and default, a
\* line shlex cannot split or that has no word.
Unrunnable(cmd) ==
  LET line == interpolate(cmd)
  IN \/ \E i \in DOMAIN line : line[i] = "unset"
     \/ ~cmd.quoted
     \/ ~cmd.text /\ \A i \in DOMAIN line : line[i] = ""

runCmd ==
  /\ step = "cmd"
  /\ \/ /\ \A cmd \in conf.cmd : Unrunnable(cmd)
        /\ Goto("introspect", 0) /\ UNCHANGED proc
     \/ /\ \E cmd \in conf.cmd : ~Unrunnable(cmd)
        /\ \/ Goto("introspect", 0) /\ UNCHANGED proc          \* Start fails
           \/ /\ Goto("command", conf.timeout)
              /\ proc' = [child |-> "running", left |-> {}, readers |-> Pipes]
  /\ UNCHANGED <<reload, wait>>

Alive == proc.child \in {"running", "blocked"}

\* What the child does: it leaves a process behind, or exits.
Spawn == proc.child = "running" /\ proc.left = {} /\ \E S \in SUBSET Pipes \ {{}} : proc' = [proc EXCEPT !.left = S]
Exit == proc.child = "running" /\ \E code \in {"zero", "nonzero"} : proc' = [proc EXCEPT !.child = code]

\* logLines stops at a line longer than its buffer; a child that goes on
\* writing to that pipe blocks.
logLinesGivesUp ==
  \E p \in proc.readers : \E child \in {"running", "blocked"} :
    proc.child = "running" /\ proc' = [proc EXCEPT !.readers = @ \ {p}, !.child = child]
logLinesEnds ==
  \E p \in proc.readers \ proc.left : ~Alive /\ proc' = [proc EXCEPT !.readers = @ \ {p}]

\* The context of the command ends: the child is killed, and only the child.
Kill == clock >= until /\ Alive /\ proc' = [proc EXCEPT !.child = "killed"]

LeftBehindEnds == proc.left # {} /\ proc' = [proc EXCEPT !.left = {}]

Command == /\ step = "command"
           /\ Spawn \/ Exit \/ logLinesGivesUp
           /\ UNCHANGED <<step, reload, clock, until, wait>>

\* wg.Wait, then cmd.Wait, whose error is only logged.
CmdWait ==
  /\ step = "command" /\ proc.readers = {} /\ ~Alive
  /\ Goto("introspect", 0)
  /\ proc' = NoProc
  /\ UNCHANGED <<reload, wait>>

\* A failing introspection ends Start, not a Reload.
Introspect ==
  /\ step = "introspect"
  /\ \/ Goto("build", 0)
     \/ ~reload /\ Goto("failed", 0)
  /\ UNCHANGED <<reload, wait, proc>>

\* How far time may go before something has to happen. Past the timeout of
\* the command one tick stands for any.
Due == CASE step = "attempt" -> until
         [] step = "sleep" -> until + Slack
         [] step = "command" -> IF Alive THEN until ELSE IF proc.left = {} THEN clock ELSE until + 1
         [] OTHER -> 0
Tick == clock < Due /\ clock' = clock + 1 /\ UNCHANGED <<step, reload, until, wait, proc>>

Starting == waitReady \/ WakeUp \/ runDmut \/ runCmd \/ CmdWait \/ Introspect
              \/ \E outcome \in {"ready", "transient", "permanent"} : AttemptEnds(outcome)

-----------------------------------------------------------------------------

\* The wait for Postgres keeps to its budget: at most one attempt begins at
\* or past the deadline, when a sleep lasted too long or there is no budget
\* at all, and it is capped; every other one is over by the deadline
\* (waitReady's schedule).
WaitIsBounded ==
  step \in {"attempt", "sleep"} =>
    /\ wait.past <= 1
    /\ until <= wait.deadline \/ wait.past = 1
    /\ wait.past = 1 => wait.late \/ wait.deadline <= 0
    /\ clock <= Max({wait.deadline, 0}) + Slack + AttemptMax

=============================================================================
