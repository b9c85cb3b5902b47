--------------------------- MODULE MCDeployments ---------------------------
(* Deployments as TLC checks it: the constants are in the .cfg files.  The  *)
(* containers are numbered in the order of their runs, so they are not      *)
(* interchangeable and there is no symmetry to declare.                     *)
EXTENDS Deployments

=============================================================================
