------------------------ MODULE MCTriggerRegistries -------------------------
(***************************************************************************)
(* Instances of TriggerRegistries for TLC.                                 *)
(***************************************************************************)
EXTENDS TriggerRegistries

=============================================================================
