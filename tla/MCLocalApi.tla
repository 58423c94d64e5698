----------------------------- MODULE MCLocalApi -----------------------------
(* Instances of LocalApi for TLC. *)
EXTENDS LocalApi, TLC

CONSTANTS km1, alice, bob, r1, r2, ssh, gpg, u1, c1, c2

MCNpubForm == [i \in {alice, bob} |-> "point"]
MCUserMap == [i \in {alice} |-> u1]
MCNoUserMap == [i \in {} |-> u1]

attach(npub, realm, svcs) ==
  [connector |-> TRUE, login_xpub |-> "ours", sig |-> "valid",
   identity_npub |-> npub, realm_xpub |-> realm, identity |-> None,
   services |-> svcs]

sv(t, q) == [type |-> t, seq |-> q]

(* One phone attaches for alice and, later, for bob: the service keys of   *)
(* the avatar are the same in all sessions.  Seq 2 is hardened.            *)
MCOneRequest == {attach(alice, r1, <<sv(ssh, 0)>>)}
MCTwoRequests == MCOneRequest \cup {attach(bob, r2, <<sv(ssh, 0)>>)}
MCLiveRequests == MCOneRequest \cup {attach(alice, r2, << >>),
                                     attach(bob, r2, <<sv(ssh, 0), sv(ssh, 2)>>)}
MCMethods == {"attach", "detach"}
MCSymmetry == Permutations({c1, c2})

(* The responses to KeyMasters are written and never read: states that     *)
(* differ in them alone are one.                                           *)
MCView == <<relay, nextId, sessions, pc, cur, done, listeners, sockfile, boots,
            laVars>>
=============================================================================
