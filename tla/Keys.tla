-------------------------------- MODULE Keys --------------------------------
(***************************************************************************)
(* The key store of crates/bergshamra-keys (key.rs, manager.rs): what a    *)
(* key is, and the lookups every other component goes through.             *)
(*                                                                         *)
(* A key is a record: its optional name, the kind of its KeyData, whether  *)
(* the private half is present, the size in bytes of a symmetric key, the  *)
(* key material (an abstract value: two keys verify the same signatures    *)
(* iff they have the same material) and its certificate chain.             *)
(*                                                                         *)
(* A lookup returns an INDEX into the sequence of keys, 0 standing for     *)
(* Rust's None; "first" is always the smallest index, because every        *)
(* lookup is an iterator `find' over the Vec in insertion order.           *)
(***************************************************************************)
EXTENDS Naturals, Sequences

\* The name of a key that has none (Key.name = None).
NoName == "-"

\* The kinds of KeyData whose raw bytes can be handed to a cipher or a MAC.
SymmetricKinds == {"Hmac", "Aes", "Des3"}

\* The kinds of KeyData that have no SigningKey counterpart.
NonSigningKinds == {"Aes", "Des3", "Dh", "X25519"}

\* The kinds to_key_value_xml and to_spki_der have a result for.
KeyValueKinds == {"Rsa", "Ec", "Dsa", "Dh", "X25519"}
SpkiKinds == {"Rsa", "Ec", "Pq", "Ed25519"}

\* A Vec of anything.
IsSeq(s) == s \in Seq({s[i] : i \in DOMAIN s})

\* Smallest element of a set of indices, 0 (None) when there is none.
FirstOf(S) == IF S = {} THEN 0 ELSE CHOOSE i \in S : \A j \in S : i <= j

\* Option::or_else on two lookups.
OrElse(i, j) == IF i # 0 THEN i ELSE j

find_by_name(ks, n) == FirstOf({i \in DOMAIN ks : ks[i].name # NoName /\ ks[i].name = n})

find_kind(ks, kind) == FirstOf({i \in DOMAIN ks : ks[i].kind = kind})

find_rsa_private(ks) == FirstOf({i \in DOMAIN ks : ks[i].kind = "Rsa" /\ ks[i].priv})

find_aes_by_size(ks, size) ==
    FirstOf({i \in DOMAIN ks : ks[i].kind = "Aes" /\ ks[i].size = size})

\* first_key() is an error on an empty store: 0 here.
first_key(ks) == IF Len(ks) = 0 THEN 0 ELSE 1

\* find_key_by_serial: the first key whose chain starts with a certificate of
\* that serial number; keys without a chain are skipped.
find_key_by_serial(ks, serial) ==
    FirstOf({i \in DOMAIN ks : Len(ks[i].chain) > 0 /\ ks[i].chain[1].serial = serial})

HasSymmetricBytes(k) == k.kind \in SymmetricKinds

HasSigningKey(k) == k.kind \notin NonSigningKinds
=============================================================================
