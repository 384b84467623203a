-------------------------- MODULE MCPredicateEngine --------------------------
(* Values of the constants of PredicateEngine for TLC. *)
EXTENDS PredicateEngine, TLC

AllKinds == {"Predicate_1or2and3", "Predicate_1and2", "Predicate_1element"}
OrKind == {"Predicate_1or2and3"}

\* Neither the triggers nor the predicates are told apart by the engine.
Symmetry == Permutations(Triggers) \cup Permutations(Predicates)
=============================================================================
