-------------------------- MODULE MC_MemoryWriting --------------------------
(* Two requests, two proposals and one addition by the person.              *)
EXTENDS MemoryWriting, TLC

Symmetry == Permutations(Threads) \cup Permutations(Proposals)

=============================================================================
