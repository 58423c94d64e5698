------------------------------ MODULE MCAvatar ------------------------------
(* Instances of Avatar for TLC. *)
EXTENDS Avatar, TLC

CONSTANTS km1, km2, alice, bob, anon, r1, r2, ssh, gpg, u1

MCNpubForm == [i \in {alice, bob, anon} |->
                 CASE i = alice -> "point"
                   [] i = bob -> "off_curve"
                   [] OTHER -> "malformed"]

MCUserMap == [i \in {alice} |-> u1]

attach(con, xpub, sig, npub, realm, id, svcs) ==
  [connector |-> con, login_xpub |-> xpub, sig |-> sig, identity_npub |-> npub,
   realm_xpub |-> realm, identity |-> id, services |-> svcs]

sv(t, q) == [type |-> t, seq |-> q]

(* With HardenedBase = 2 and SeqModulus = 4: seq 2 cannot be derived, seq 5 *)
(* is cut to 1.                                                             *)
GoodAttach   == attach(TRUE, "ours", "valid", alice, r1, None, <<sv(ssh, 0), sv(gpg, 5)>>)
OtherRealm   == attach(TRUE, "absent", "absent", alice, r2, None, <<sv(ssh, 1)>>)
HardenedSeq  == attach(TRUE, "ours", "valid", alice, r1, None, <<sv(ssh, 0), sv(gpg, 2)>>)
TwiceSsh     == attach(TRUE, "ours", "valid", alice, r1, None, <<sv(ssh, 0), sv(ssh, 1)>>)
LegacyAttach == attach(FALSE, "absent", "absent", None, None, None, <<sv(ssh, 0)>>)
LegacyAlice  == attach(FALSE, "absent", "absent", None, None, alice, << >>)
LegacyBob    == attach(FALSE, "absent", "absent", None, None, bob, << >>)
ForeignLogin == attach(TRUE, "foreign", "valid", bob, r1, None, << >>)
BadSig       == attach(TRUE, "ours", "forged", alice, r1, None, << >>)
BrokenSig    == attach(TRUE, "ours", "malformed", bob, r1, None, << >>)
NoNpub       == attach(TRUE, "ours", "valid", None, r1, alice, << >>)
OffCurve     == attach(TRUE, "ours", "valid", bob, r1, None, << >>)

MCAttachRequests == {GoodAttach, OtherRealm, HardenedSeq, LegacyAttach}
MCAllRequests == MCAttachRequests \cup
  {TwiceSsh, LegacyAlice, LegacyBob, ForeignLogin, BadSig, BrokenSig, NoNpub,
   OffCurve}
MCAllMethods == Method
MCSymmetry == Permutations({km1, km2})
MCAttachDetach == {"attach", "detach"}
=============================================================================
