------------------------------ MODULE MCBroker ------------------------------
(* Four calls over queues of two descriptors whose indices wrap after     *)
(* four submissions: the transmit queue wraps within two public calls.    *)
EXTENDS Broker
=============================================================================
