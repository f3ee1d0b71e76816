------------------------------ MODULE MCReload ------------------------------
(***************************************************************************)
(* Instance of Reload for TLC; the values of the constants are in the      *)
(* cfgs. Requests and connections are interchangeable in the               *)
(* specification and in the safety properties.                             *)
(***************************************************************************)
EXTENDS Reload, TLC

Symmetry == Permutations(Requests) \cup Permutations(Conns)
=============================================================================
