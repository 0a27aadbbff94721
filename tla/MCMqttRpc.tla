----------------------------- MODULE MCMqttRpc -----------------------------
(* MqttRpc with the values TLC explores. *)
EXTENDS MqttRpc

CONSTANT Reaching   \* the calls whose request may reach the responder

\* Lost, delivered, or delivered twice; and lost in any case.
DeliveriesOf == [c \in Calls |-> IF c \in Reaching THEN 0 .. 2 ELSE {0}]
=============================================================================
