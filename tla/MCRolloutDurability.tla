------------------------- MODULE MCRolloutDurability -------------------------
(* Finite instances of RolloutDurability for TLC.                          *)
EXTENDS RolloutDurability, TLC

\* Rollouts that carry no evaluation are interchangeable, RPC threads are too.
Symmetry == Permutations(Chunk \ Evaluation) \cup Permutations(Worker)

=============================================================================
