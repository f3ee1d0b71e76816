------------------------------ MODULE Secret ------------------------------
(***************************************************************************)
(* jwt.secret as the configuration is loaded (config/loader.go): a $FILE$   *)
(* value in one of its three forms, over a list of paths. A generated value *)
(* is written to a file that outlives the process, which may die while it   *)
(* writes.                                                                  *)
(*                                                                         *)
(* Generated values are numbered from 1. A file holds one of them, or is    *)
(* Missing, Unreadable, or holds a text of another length.                  *)
(***************************************************************************)
EXTENDS Integers, Sequences, FiniteSets, FiniteSetsExt

VARIABLES source,   \* the configured value: [form, paths, dirs (the paths whose
                    \* directory exists), files (what they hold at first)]
          vault,    \* what each path holds
          secret,   \* the process' jwt.secret: a set of at most one
          drawn,    \* the number of values generated
          stowing   \* the path that is being written: a set of at most one

secretVars == <<vault, secret, drawn, stowing>>

Fallback == 0
Missing == -1
Unreadable == -2
Other == -3

Places == DOMAIN source.paths
Held(i) == vault[source.paths[i]]
First(S) == IF S = {} THEN {} ELSE {Min(S)}

\* Any error moves on to the next candidate.
readFirstExisting == {Held(i) : i \in First({i \in Places : Held(i) \notin {Missing, Unreadable}})}

\* $GEN$'s first pass.
Existing == {Held(i) : i \in First({i \in Places : Held(i) # Missing})}

\* Its second pass: the first candidate whose directory exists.
Creatable == {source.paths[i] : i \in First({i \in Places : source.paths[i] \in source.dirs})}

\* What the files say. For $GEN$ a candidate that cannot be read, or whose
\* length is another, is fatal.
Value == CASE source.form = "default" -> IF readFirstExisting = {} THEN {Fallback} ELSE readFirstExisting
           [] source.form = "plain"   -> readFirstExisting
           [] source.form = "gen"     -> Existing \ {Unreadable, Other}
Generates == source.form = "gen" /\ source.paths # <<>> /\ Existing = {}

resolveFileValue ==
  /\ stowing = {} /\ ~Generates /\ Value # {}
  /\ secret' = Value
  /\ UNCHANGED <<vault, drawn, stowing>>
Unresolved == stowing = {} /\ ~Generates /\ Value = {} /\ UNCHANGED secretVars

\* The third pass: a value for this run only.
Ephemeral ==
  /\ stowing = {} /\ Generates /\ Creatable = {}
  /\ drawn' = drawn + 1 /\ secret' = {drawn + 1}
  /\ UNCHANGED <<vault, stowing>>

resolveGenValue ==
  /\ stowing = {} /\ Generates /\ Creatable # {}
  /\ drawn' = drawn + 1 /\ stowing' = Creatable
  /\ UNCHANGED <<vault, secret>>

Stowed ==
  \E p \in stowing :
    /\ vault' = [vault EXCEPT ![p] = drawn]
    /\ secret' = {drawn} /\ stowing' = {}
    /\ UNCHANGED drawn

\* A write that fails, or that the death of the process cuts off, leaves no
\* file or a shorter one.
Cut ==
  /\ \/ UNCHANGED vault
     \/ \E p \in stowing : vault' = [vault EXCEPT ![p] = Other]
  /\ stowing' = {} /\ secret' = {}
  /\ UNCHANGED drawn

\* Will the secret be there at the next start?
Persisted == source.form # "gen" \/ Creatable # {} \/ Existing # {}

=============================================================================
