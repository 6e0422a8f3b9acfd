---------------------------- MODULE MCMqttClient ----------------------------
(* MqttClient for TLC. *)
EXTENDS MqttClient, TLC
=============================================================================
