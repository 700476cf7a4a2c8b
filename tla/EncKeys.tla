------------------------------- MODULE EncKeys -------------------------------
(***************************************************************************)
(* Key selection of crates/bergshamra-enc: which key encrypts the data,    *)
(* which key-encryption key an <EncryptedKey> uses, on either side.        *)
(*                                                                         *)
(* The document (the first EncryptedData and all EncryptedKeys):           *)
(*   method  EncryptionMethod: size of the key (0: unsupported), auth      *)
(*           (GCM rather than CBC)                                         *)
(*   kids    the children of the EncryptedData's KeyInfo, tagged t:        *)
(*           KeyName name; EncryptedKey ek, RetrievalMethod ek (an index   *)
(*           into eks, 0 when the id is not there); DerivedKey master, kdf *)
(*   eks     the EncryptedKeys in document order: method, size, auth,      *)
(*           names (KeyNames of its KeyInfo), agree (<<>> or one           *)
(*           AgreementMethod: alg, orig, recip, kdf), form (the literal    *)
(*           text of its CipherValue while empty)                          *)
(*                                                                         *)
(* Key bytes are a record: a tuple saying where they come from, and their  *)
(* number.                                                                 *)
(***************************************************************************)
EXTENDS Keys, Integers

Bytes(v, n) == [val |-> v, len |-> n]
NoBytes == Bytes(<<>>, 0)

SymmetricBytes(ks, i) == IF i = 0 \/ ~HasSymmetricBytes(ks[i]) THEN NoBytes
                         ELSE Bytes(<<"raw", ks[i].mat>>, ks[i].size)

\* find_by_name followed by symmetric_key_bytes.
NamedBytes(ks, n) == SymmetricBytes(ks, find_by_name(ks, n))

\* The first KeyName of a KeyInfo.
FirstName(names) == IF names = <<>> THEN NoName ELSE names[1]

\* resolve_derived_key: a named master key must exist and be symmetric, an unnamed one
\* is the first key of the manager; ConcatKDF and PBKDF2 only.
resolve_derived_key(c, ks, size) ==
    LET master == IF c.master # NoName THEN NamedBytes(ks, c.master)
                                       ELSE SymmetricBytes(ks, first_key(ks))
    IN  IF master = NoBytes \/ c.kdf \notin {"ConcatKdf", "Pbkdf2"} THEN NoBytes
        ELSE Bytes(<<"kdf", master.val>>, size)

\* The key-encryption key of an EncryptedKey that uses a block cipher.
resolve_encrypted_key_kek(ek, ks) ==
    LET named == NamedBytes(ks, FirstName(ek.names))
    IN  IF named # NoBytes THEN named ELSE SymmetricBytes(ks, first_key(ks))

\* AES key wrap with a managed key: one of the right size, else any AES key.
AesKek(ek, ks) == SymmetricBytes(ks, OrElse(find_aes_by_size(ks, ek.size), find_kind(ks, "Aes")))

Des3Kek(ks) == SymmetricBytes(ks, OrElse(find_kind(ks, "Des3"), first_key(ks)))

-----------------------------------------------------------------------------
(* The HSM bindings: per method, whether it is configured, the variants    *)
(* (here: sizes) it is bound to, and its key.                              *)

HsmKek(h, ek) == IF ek.size \in h.sizes THEN Bytes(<<"raw", h.mat>>, ek.size) ELSE NoBytes

-----------------------------------------------------------------------------
(* Key agreement.                                                          *)

AgreementKind(alg) == CASE alg = "EcdhEs" -> "Ec" [] alg = "DhEs" -> "Dh"
                        [] alg = "X25519" -> "X25519" [] OTHER -> "none"

\* The first key of a kind, if that one has its private half.
FirstPrivate(ks, kind) == LET i == find_kind(ks, kind)
                          IN  IF i # 0 /\ ks[i].priv THEN i ELSE 0

\* resolve_originator_key and resolve_recipient_key: a name the manager knows, else a
\* fixed order of kinds, whatever the agreement algorithm is.
resolve_originator_key(a, ks) ==
    OrElse(find_by_name(ks, a.orig), OrElse(FirstPrivate(ks, "Dh"), FirstPrivate(ks, "Ec")))

resolve_recipient_key(a, ks) ==
    OrElse(find_by_name(ks, a.recip),
           OrElse(FirstPrivate(ks, "Dh"), OrElse(FirstPrivate(ks, "X25519"), FirstPrivate(ks, "Ec"))))

\* The shared secret of two key pairs, through the key derivation.
Agreed(m, n, kdf, size) == Bytes(<<"dh", {m, n}, kdf>>, size)

\* resolve_agreement_method_encrypt: the recipient must be named; no X25519, no HKDF.
resolve_agreement_method_encrypt(a, ks, size) ==
    LET o == resolve_originator_key(a, ks)
        r == find_by_name(ks, a.recip)
    IN  IF \/ o = 0 \/ r = 0
           \/ a.alg \notin {"EcdhEs", "DhEs"}
           \/ a.kdf \notin {"none", "ConcatKdf", "Pbkdf2"}
        THEN NoBytes
        ELSE IF /\ ks[o].kind = AgreementKind(a.alg) /\ ks[o].priv
                /\ ks[r].kind = AgreementKind(a.alg)
             THEN Agreed(ks[o].mat, ks[r].mat, a.kdf, size) ELSE NoBytes

\* resolve_agreement_method_kek: `public' is the key found in OriginatorKeyInfo.
resolve_agreement_method_kek(a, ks, public, size) ==
    LET r == resolve_recipient_key(a, ks)
    IN  IF public = <<>> \/ r = 0 \/ a.kdf \notin {"none", "ConcatKdf", "Pbkdf2", "Hkdf"}
        THEN NoBytes
        ELSE IF ks[r].kind = AgreementKind(a.alg) /\ ks[r].priv
             THEN Agreed(public[1], ks[r].mat, a.kdf, size) ELSE NoBytes

-----------------------------------------------------------------------------
(* The key-encryption keys; NoBytes stands for every error.                *)

\* resolve_encrypted_key_rsa: by KeyName, else the first RSA key.
RsaPublicKek(ek, ks) ==
    LET i == find_by_name(ks, FirstName(ek.names))
        j == IF i # 0 /\ ks[i].kind = "Rsa" THEN i ELSE find_kind(ks, "Rsa")
    IN  IF j = 0 THEN NoBytes ELSE Bytes(<<"raw", ks[j].mat>>, ek.size)

\* Decryption takes the first RSA private key, whatever the KeyName says.
RsaPrivateKek(ek, ks) ==
    LET j == OrElse(find_rsa_private(ks), find_kind(ks, "Rsa"))
    IN  IF j = 0 \/ ~ks[j].priv THEN NoBytes ELSE Bytes(<<"raw", ks[j].mat>>, ek.size)

WrapKek(ek, c) ==
    CASE ek.method = "Rsa" ->
           IF c.hsm.rsa.on THEN HsmKek(c.hsm.rsa, ek) ELSE RsaPublicKek(ek, c.keys)
      [] ek.method = "KwAes" ->
           IF c.hsm.kw.on THEN HsmKek(c.hsm.kw, ek)
           ELSE IF ek.agree # <<>>
                THEN resolve_agreement_method_encrypt(ek.agree[1], c.keys, ek.size)
                ELSE AesKek(ek, c.keys)
      [] ek.method = "KwDes3" -> Des3Kek(c.keys)
      [] ek.method = "Cipher" -> resolve_encrypted_key_kek(ek, c.keys)
      [] OTHER -> NoBytes

UnwrapKek(ek, c, public) ==
    CASE ek.method = "Rsa" ->
           IF c.hsm.rsa.on THEN HsmKek(c.hsm.rsa, ek) ELSE RsaPrivateKek(ek, c.keys)
      [] ek.method = "KwAes" ->
           IF c.hsm.kw.on THEN HsmKek(c.hsm.kw, ek)
           ELSE IF ek.agree # <<>>
                THEN resolve_agreement_method_kek(ek.agree[1], c.keys, public, ek.size)
                ELSE AesKek(ek, c.keys)
      [] ek.method = "KwDes3" -> Des3Kek(c.keys)
      [] ek.method = "Cipher" -> resolve_encrypted_key_kek(ek, c.keys)
      [] OTHER -> NoBytes

\* A key of the wrong length is an error of the wrapping and of the cipher.
Usable(kek, ek) == kek # NoBytes /\ kek.len = ek.size
=============================================================================
