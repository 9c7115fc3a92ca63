-------------------------- MODULE MC_LearningChain --------------------------
(* Three results an adapter may return: a proven change, a change of which    *)
(* it cannot say whether it took place, and a failure.                        *)
EXTENDS LearningChain, TLC

Returned(success, verified) ==
  [performed |-> TRUE, given |-> TRUE, matches |-> TRUE, truncated |-> FALSE,
   success |-> success, verified |-> verified, mutated |-> success]

MCResults == {Returned(TRUE, "yes"), Returned(TRUE, "unknown"), Returned(FALSE, "unknown")}

MCKinds == {"not_performed", "failed", "unproven_mutation"}

Symmetry == Permutations(Reviews) \cup Permutations(Steps)

=============================================================================
