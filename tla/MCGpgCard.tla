----------------------------- MODULE MCGpgCard -----------------------------
(* Instances of GpgCard and GpgKeys for TLC. *)
EXTENDS GpgKeys, TLC

CONSTANTS s1, s2

\* A shim that signs, and one that makes its first request only, with which
\* it competes for the avatar.  A late line in a later request: MCLateMaxId.
MCMaxId == s1 :> 2 @@ s2 :> 1
MCLateMaxId == s1 :> 4
=============================================================================
