------------------------- MODULE MC_Orchestration -------------------------
EXTENDS Orchestration, TLC

\* The second read takes its input from both steps before it; the first from none.
MCSources == [s \in Steps |-> IF s = 3 THEN {1, 2} ELSE {}]

\* A preview's or the review's time passes only where no write fails and Core does not
\* restart: MC_PreviewStore and MC_PlanReview have all three together.
OneTrouble == now > 1 \/ ~eligible => faults + restarts = 0

Symmetry == Permutations(Threads) \cup Permutations(Previews)

=============================================================================
