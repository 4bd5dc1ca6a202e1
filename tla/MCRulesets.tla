----------------------------- MODULE MCRulesets -----------------------------
(***************************************************************************)
(* Model checking the ruleset service.  Keys, documents, processes and     *)
(* request slots are model values; each .cfg picks how many, the highest   *)
(* version number, the operations clients issue and the faults.            *)
(***************************************************************************)
EXTENDS RulesetProperties, TLC

\* Request slots are interchangeable; used in runs without liveness.
RequestSymmetry == Permutations(Requests)

\* So are processes, and documents that can all be published.
ClusterSymmetry == RequestSymmetry \cup Permutations(Nodes) \cup Permutations(Docs)
=============================================================================
