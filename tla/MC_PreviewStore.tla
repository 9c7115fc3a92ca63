-------------------------- MODULE MC_PreviewStore --------------------------
(* Two executions of one step share three previews and two slots.          *)
EXTENDS PreviewStore, TLC

Symmetry == Permutations(Previews) \cup Permutations(Execs)

=============================================================================
