----------------------------- MODULE MCKeyedMutex ---------------------------
(***************************************************************************)
(* Instances of KeyedMutex for TLC.                                        *)
(***************************************************************************)
EXTENDS KeyedMutex, TLC

Symmetry == Permutations(Keys)

=============================================================================
