----------------------------- MODULE MCJobPools -----------------------------
(***************************************************************************)
(* Instances of JobPools for TLC.  Runs are numbered, so there is nothing   *)
(* to permute.                                                              *)
(***************************************************************************)
EXTENDS JobPools

=============================================================================
