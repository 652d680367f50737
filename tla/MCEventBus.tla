---------------------------- MODULE MCEventBus ----------------------------
(* Two replicas; a poison message, garbage, and one that can be handled. *)
EXTENDS EventBus
=============================================================================
