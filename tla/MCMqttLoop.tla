----------------------------- MODULE MCMqttLoop -----------------------------
(***************************************************************************)
(* Instances of MqttLoop for TLC: a queue of two or three commands, one or *)
(* two breaks of the link.                                                 *)
(***************************************************************************)
EXTENDS MqttLoop

Reasons == {"none", "request", "fault"}
=============================================================================
