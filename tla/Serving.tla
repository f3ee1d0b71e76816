------------------------------ MODULE Serving ------------------------------
(***************************************************************************)
(* What boot.ReloadableHandler promises to its requests, with the          *)
(* mechanism left out: at any moment one snapshot is served, a request     *)
(* takes the snapshot served when its handler starts, and the served       *)
(* snapshot is replaced, as a whole, only while no handler is running.     *)
(* (boot/snapshot.go, type Snapshot: "a reload builds another and replaces *)
(* the first as a whole, so a request never sees half of each".)           *)
(***************************************************************************)
EXTENDS Naturals

CONSTANT Requests

VARIABLES served,   \* the snapshot requests are served from
          active,   \* the requests whose handler is running
          view      \* the snapshot each request took

\* A snapshot is built from one introspection of the database (db) and one
\* reading of the files on disk: well-known queries, templates (files).
Snapshots == [db : Nat, files : Nat]

vars == <<served, active, view>>

Init == /\ served \in Snapshots
        /\ active = {}
        /\ view = [r \in Requests |-> served]

Begin(r) == /\ r \notin active
            /\ active' = active \cup {r}
            /\ view' = [view EXCEPT ![r] = served]
            /\ UNCHANGED served

End(r) == /\ r \in active
          /\ active' = active \ {r}
          /\ UNCHANGED <<served, view>>

Replace == /\ active = {}
           /\ served' \in Snapshots
           /\ UNCHANGED <<active, view>>

Next == \/ \E r \in Requests : Begin(r) \/ End(r)
        \/ Replace

Spec == Init /\ [][Next]_vars

============================================================================
