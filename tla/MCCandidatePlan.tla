---------------------------- MODULE MCCandidatePlan ----------------------------
(* Two plugins, two sidecars, one base, and a component of no plan. *)
EXTENDS CandidatePlan, TLC

CONSTANTS p1, p2, s1, s2, contract, stranger

\* Plugins are alike, and so are sidecars: entries are told apart by their order.
Alike == Permutations(Plugins) \cup Permutations(Sidecars)
================================================================================
