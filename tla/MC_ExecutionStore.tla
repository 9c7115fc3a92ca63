------------------------- MODULE MC_ExecutionStore -------------------------
(* A small store for TLC.  Ids, reviews and, in this module, steps are      *)
(* interchangeable.                                                        *)
EXTENDS ExecutionStore, TLC

\* Records end at different readings only where no write fails and Core does not
\* restart, so that the whole fits in memory.
OneTrouble == now > 1 => faults + restarts = 0

Symmetry == Permutations(Execs) \cup Permutations(Reviews) \cup Permutations(Steps)

=============================================================================
