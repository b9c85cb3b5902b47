--------------------------- MODULE MCPoolInstances --------------------------
(***************************************************************************)
(* Instances of PoolInstances for TLC.  Names, handlers and ticks are      *)
(* interchangeable; symmetry is not used where liveness is checked.        *)
(***************************************************************************)
EXTENDS PoolInstances, TLC

Symmetry ==
  Permutations(Ids) \cup Permutations(Clients) \cup Permutations(Sweeps)

=============================================================================
