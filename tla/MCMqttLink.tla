------------------------------ MODULE MCMqttLink ------------------------------
(* An instance for TLC. *)
EXTENDS MqttLink
=============================================================================
