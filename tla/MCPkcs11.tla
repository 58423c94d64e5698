------------------------------ MODULE MCPkcs11 ------------------------------
(* Instances of Pkcs11 for TLC. *)
EXTENDS Pkcs11

CONSTANTS t1, t2, k1, k2, k3

raw(t, k) == [key_type |-> t, key |-> k]

(* The list before and after the phone has changed: an unusable key in     *)
(* front, then gone, so that the others move, and one more than CKA_ID     *)
(* tells apart.                                                            *)
MCRawLists == { <<raw("other", k3), raw("ed25519", k1), raw("ed25519", k2)>>,
                <<raw("ed25519", k1), raw("ed25519", k2), raw("ed25519", k3)>> }
=============================================================================
