-------------------------- MODULE MCServiceBridge --------------------------
(* Instances of ServiceBridge and NostrApi for TLC. *)
EXTENDS NostrApi

CONSTANTS a, b

=============================================================================
