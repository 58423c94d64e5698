------------------------------ MODULE NostrApi ------------------------------
(***************************************************************************)
(* The methods of km-nostr-sa as its client library, km-nostr-client, uses *)
(* them.  A byte string is hexadecimal between library and km-nostr-sa and *)
(* base64 between km-nostr-sa and the KeyMaster; km-nostr-sa converts the  *)
(* fields it lists by method, and each crate has a list of its own.        *)
(***************************************************************************)
EXTENDS ServiceBridge

-----------------------------------------------------------------------------
(* km-nostr-client: the parameters each method of the library sends, and   *)
(* the fields of the result, or of each item of it, that it reads.  A field *)
(* is named with the form it is written in.                                *)

Sends ==
  [ get_public_keys             |-> [f \in {} |-> "hex"],
    sign_event                  |-> [public_key |-> "hex", event_hash |-> "hex"],
    nip44_encrypt               |-> [public_key |-> "hex", peer_public_key |-> "hex",
                                     plaintext |-> "text"],
    nip44_decrypt               |-> [public_key |-> "hex", peer_public_key |-> "hex",
                                     ciphertext |-> "text"],
    get_mls_pubkey              |-> [nostr_pubkey |-> "hex", device_id |-> "null"],
    mls_sign                    |-> [mls_pubkey |-> "hex", data |-> "hex"],
    sign_account_identity_proof |-> [account_identity |-> "hex",
                                     mls_signature_public_key |-> "hex",
                                     ciphersuite |-> "number",
                                     signature_scheme |-> "number"],
    mls_hpke_pubkey_at          |-> [mls_pubkey |-> "hex", key_type |-> "number",
                                     index |-> "number"],
    mls_hpke_dh                 |-> [hpke_pubkey |-> "hex", peer_public |-> "hex"],
    mls_hpke_decap              |-> [hpke_pubkey |-> "hex", peer_public |-> "hex"],
    mls_next_hpke_init_key      |-> [mls_pubkey |-> "hex",
                                     current_hpke_pubkey |-> "hex"] ]

Reads ==
  [ get_public_keys             |-> [public_key |-> "hex"],
    sign_event                  |-> [signature |-> "hex"],
    nip44_encrypt               |-> [ciphertext |-> "text"],
    nip44_decrypt               |-> [plaintext |-> "text"],
    get_mls_pubkey              |-> [mls_pubkey |-> "hex"],
    mls_sign                    |-> [signature |-> "hex"],
    sign_account_identity_proof |-> [signature |-> "hex"],
    mls_hpke_pubkey_at          |-> [hpke_pubkey |-> "hex"],
    mls_hpke_dh                 |-> [dh_result |-> "hex"],
    mls_hpke_decap              |-> [dh_result |-> "hex"],
    mls_next_hpke_init_key      |-> [hpke_pubkey |-> "hex", index |-> "number"] ]

Method == DOMAIN Sends

-----------------------------------------------------------------------------
(* km-nostr-sa. *)

(* hex_to_base64_field and base64_to_hex_field: a field that is absent, is *)
(* no string or does not decode stays as it is.                            *)
Rewrite(obj, fields, from, to) ==
  [f \in DOMAIN obj |-> IF f \in fields /\ obj[f] = from THEN to ELSE obj[f]]

translate_request_params(method, params) ==
  LET fields ==
        CASE method = "sign_event" -> {"public_key", "event_hash"}
          [] method \in {"nip44_encrypt", "nip44_decrypt"} ->
               {"public_key", "peer_public_key"}
          [] method = "get_mls_pubkey" -> {"nostr_pubkey"}
          [] method = "mls_sign" -> {"mls_pubkey", "data"}
          [] method = "sign_account_identity_proof" ->
               {"account_identity", "mls_signature_public_key"}
          [] method = "mls_hpke_pubkey_at" -> {"mls_pubkey"}
          [] method \in {"mls_hpke_dh", "mls_hpke_decap"} ->
               {"hpke_pubkey", "peer_public"}
          [] method = "mls_next_hpke_init_key" ->
               {"mls_pubkey", "current_hpke_pubkey"}
          [] OTHER -> {}
  IN  Rewrite(params, fields, "hex", "base64")

(* Mutant: the newest methods were forgotten. *)
MutTranslateResult(method, result) ==
  Rewrite(result, {"public_key", "signature", "mls_pubkey"}, "base64", "hex")

translate_response_result(method, result) ==
  LET fields ==
        CASE method = "get_public_keys" -> {"public_key"}
          [] method \in {"sign_event", "mls_sign", "sign_account_identity_proof"} ->
               {"signature"}
          [] method = "get_mls_pubkey" -> {"mls_pubkey"}
          [] method \in {"mls_hpke_pubkey_at", "mls_next_hpke_init_key"} ->
               {"hpke_pubkey"}
          [] method \in {"mls_hpke_dh", "mls_hpke_decap"} -> {"dh_result"}
          [] OTHER -> {}
  IN  Rewrite(result, fields, "base64", "hex")

(* External: the KeyMaster answers with the fields the library reads, byte *)
(* strings in base64.                                                      *)
KmResult(method) ==
  Rewrite(Reads[method], DOMAIN Reads[method], "hex", "base64")

-----------------------------------------------------------------------------
(* The lists of the two crates agree.  Whatever the method of a request    *)
(* under way, the KeyMaster gets the library's byte strings in base64 and  *)
(* all else as it was sent; and an answer that has reached its client has  *)
(* every field in the form in which the library reads it.                  *)
FieldsConverted ==
  program = "nostr" =>
    /\ req # None => \A m \in Method :
         LET sent == Sends[m]
             got  == translate_request_params(m, sent)
         IN  \A f \in DOMAIN sent :
               got[f] = IF sent[f] = "hex" THEN "base64" ELSE sent[f]
    /\ (\E c \in Clients : clients[c].reply = "answer") => \A m \in Method :
         translate_response_result(m, KmResult(m)) = Reads[m]
=============================================================================
