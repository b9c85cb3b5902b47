-------------------------- MODULE MCStackOperations -------------------------
(***************************************************************************)
(* Instances of StackOperations for TLC.  Processes are interchangeable    *)
(* and each returns to idle, so permuting them is a symmetry; it is not    *)
(* used where liveness is checked.                                         *)
(***************************************************************************)
EXTENDS StackOperations, TLC

Symmetry == Permutations(Procs)

=============================================================================
