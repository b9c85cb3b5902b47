------------------------ MODULE MCNetworkMemberships ------------------------
(***************************************************************************)
(* Instances of NetworkMemberships for TLC.                                *)
(***************************************************************************)
EXTENDS NetworkMemberships

=============================================================================
