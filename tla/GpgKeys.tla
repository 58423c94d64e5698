------------------------------ MODULE GpgKeys ------------------------------
(***************************************************************************)
(* Which key a command of scd-shim (crates/scd-shim/src/main.rs) names.    *)
(* The KeyMaster's list of identities is taken apart when the shim starts; *)
(* gpg-agent then names keys by keygrip or by keyref, as LEARN and KEYINFO *)
(* told it, and the KeyMaster is told a position in its own list.          *)
(*                                                                         *)
(* A list says of each identity whether it is usable (an Ed25519 key of 32 *)
(* bytes that decodes); a key is its position in the list.  A keygrip is a *)
(* hash of the key, so it names that key and no other.                     *)
(***************************************************************************)
EXTENDS GpgCard

Grip(key) == [kind |-> "keygrip", of |-> key]
Ref(n) == [kind |-> "keyref", of |-> n]

(* OPENPGP.1, OPENPGP.3 and, from the third on, OPENPGP.1 again. *)
KeyrefOf(i) == IF i = 2 THEN Ref(3) ELSE Ref(1)

(* The filter_map, as far as the n-th of the list. *)
Usable(raw) ==
  LET upto[n \in 0 .. Len(raw)] ==
        IF n = 0 THEN << >>
        ELSE IF raw[n] THEN Append(upto[n-1], n) ELSE upto[n-1]
  IN  upto[Len(raw)]

(* Mutant: the position after the unusable ones are gone. *)
MutIdentities(raw) ==
  [i \in 1 .. Len(Usable(raw)) |->
     [public_key |-> Usable(raw)[i], index |-> i - 1,
      keygrip |-> Grip(Usable(raw)[i]), keyref |-> KeyrefOf(i)]]

identities(raw) ==
  [i \in 1 .. Len(Usable(raw)) |->
     [public_key |-> Usable(raw)[i], index |-> Usable(raw)[i] - 1,
      keygrip |-> Grip(Usable(raw)[i]), keyref |-> KeyrefOf(i)]]

(* The first identity of that name, as a set of at most one. *)
Find(ids, name) ==
  {ids[i] : i \in {j \in DOMAIN ids :
     /\ name \in {ids[j].keygrip, ids[j].keyref}
     /\ \A k \in 1 .. j - 1 : name \notin {ids[k].keygrip, ids[k].keyref}}}

handle_readkey(ids, name) == Find(ids, name)

(* A name that no identity has stands for OPENPGP.3. *)
handle_pksign(ids, name) ==
  IF Find(ids, name) # {} THEN Find(ids, name) ELSE Find(ids, Ref(3))

(* KEYPAIRINFO and KEYINFO lines. *)
handle_learn(ids) == {<<ids[i].keygrip, ids[i].keyref>> : i \in DOMAIN ids}

(* GETATTR $AUTHKEYID. *)
AuthKey(ids) == Find(ids, Ref(3))

-----------------------------------------------------------------------------
(* For every line of LEARN: the keygrip names one key, the same to READKEY *)
(* and PKSIGN, and the position that goes to the KeyMaster is that key's   *)
(* in its list; so does the keyref, with up to two identities; and the key *)
(* for authentication is one that LEARN lists.                             *)
NamesAgree(raw) ==
  LET ids == identities(raw) IN
  /\ \A line \in handle_learn(ids) :
       /\ handle_pksign(ids, line[1]) = handle_readkey(ids, line[1])
       /\ \E id \in handle_readkey(ids, line[1]) :
            /\ handle_readkey(ids, line[1]) = {id}
            /\ Grip(id.index + 1) = line[1]
            /\ id.public_key = id.index + 1
            /\ raw[id.index + 1]
            /\ Len(ids) <= 2 => handle_pksign(ids, line[2]) = {id}
       /\ handle_pksign(ids, line[2]) = handle_readkey(ids, line[2])
  /\ \A id \in AuthKey(ids) : <<id.keygrip, id.keyref>> \in handle_learn(ids)

Lists == UNION {[1 .. n -> BOOLEAN] : n \in 0 .. 4}

ListsAgree == \A raw \in Lists : NamesAgree(raw)

(* A shim that serves LEARN tells gpg-agent names under which its later    *)
(* PKSIGN signs with the key meant.                                        *)
SignsNamedKey ==
  learner # None /\ shims[learner].pc = "cmd" => ListsAgree
=============================================================================
