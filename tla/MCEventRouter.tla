---------------------------- MODULE MCEventRouter ----------------------------
(* EventRouter on the small instances its configurations give. *)
EXTENDS EventRouter
==============================================================================
