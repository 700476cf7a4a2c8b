------------------------------- MODULE KeyInfo -------------------------------
(***************************************************************************)
(* Selection of the verification key from a <KeyInfo> element              *)
(* (crates/bergshamra-keys/src/keyinfo.rs and the KeyInfo helpers of       *)
(* crates/bergshamra-dsig/src/verify.rs).                                  *)
(*                                                                         *)
(* The children of a KeyInfo are a sequence of records with a tag t:       *)
(*   KeyName          name                                                 *)
(*   KeyValue         key   (KeyValue and DEREncodedKeyValue; NoKey when   *)
(*                           the content cannot be parsed)                 *)
(*   X509Data         certs (those that parse), serials (issuer, serial)   *)
(*   EncryptedKey     method, size, names, wrapped (material of the key    *)
(*                    that wraps it), mat (the material wrapped)           *)
(*   RawCertificate   cert  (RetrievalMethod of type rawX509Certificate:   *)
(*                           the file's certificate, or none)              *)
(*   RetrievalMethod  id    (of type X509Data)                             *)
(*   KeyInfoReference id                                                   *)
(* Any other child is an "other", and none of these functions looks at it. *)
(***************************************************************************)
EXTENDS X509

\* Option::None for a key: every real key has a kind that is not "none".
NoKey == [name |-> NoName, kind |-> "none", priv |-> FALSE, size |-> 0,
          mat |-> "none", chain |-> <<>>]

\* The public key of a certificate, as load_x509_cert_der returns it: nothing when
\* the certificate's key is of no supported kind.
CertKey(c, chain) == IF c.kind = "none" THEN NoKey
                     ELSE [NoKey EXCEPT !.kind = c.kind, !.mat = c.mat, !.chain = chain]

KeyAt(ks, i) == IF i = 0 THEN NoKey ELSE ks[i]

OrElseKey(k, l) == IF k # NoKey THEN k ELSE l

\* KeyInfo children with the fields their tag promises.
ChildOK(ch) == /\ ch.t = "KeyValue" => ch.key.chain = <<>>
               /\ ch.t = "X509Data" => IsSeq(ch.certs)
               /\ ch.t = "RawCertificate" => IsSeq(ch.cert)

KidsOK(kids) == IsSeq(kids) /\ \A i \in DOMAIN kids : ChildOK(kids[i])

\* All key material a child of a KeyInfo brings along.
ChildMaterial(ch) ==
    CASE ch.t = "KeyValue"       -> {ch.key.mat}
      [] ch.t = "X509Data"       -> {ch.certs[i].mat : i \in DOMAIN ch.certs}
      [] ch.t = "EncryptedKey"   -> {ch.mat}
      [] ch.t = "RawCertificate" -> {ch.cert[i].mat : i \in DOMAIN ch.cert}
      [] OTHER                   -> {}

-----------------------------------------------------------------------------
(* Keys that come with the document.                                       *)

\* extract_x509_certificate: the key of the end-entity certificate, with ALL
\* certificates, in document order, as its chain.
extract_x509_certificate(certs) ==
    IF certs = <<>> THEN NoKey ELSE CertKey(certs[find_leaf_cert(certs)], certs)

\* The key one child of a KeyInfo carries, if any.
InlineKey(child) == CASE child.t = "KeyValue" -> child.key
                      [] child.t = "X509Data" -> extract_x509_certificate(child.certs)
                      [] OTHER -> NoKey

\* extract_key_value: the first child, in document order, that yields a key.
extract_key_value(kids) ==
    LET i == FirstOf({j \in DOMAIN kids : InlineKey(kids[j]) # NoKey})
    IN  IF i = 0 THEN NoKey ELSE InlineKey(kids[i])

\* resolve_kek_from_key_info: the first of the EncryptedKey's KeyNames the manager
\* knows, else the first key of the manager.
resolve_kek_from_key_info(names, ks) ==
    LET i == FirstOf({j \in DOMAIN names : find_by_name(ks, names[j]) # 0})
    IN  IF i # 0 THEN find_by_name(ks, names[i]) ELSE first_key(ks)

\* The key-encryption key try_unwrap_encrypted_key uses: a 0 is one of its errors.
\* For AES key wrap a resolved key of the wrong size gives way to one of the right
\* size, if there is one.
UnwrapKek(ek, ks) ==
    LET kek == resolve_kek_from_key_info(ek.names, ks)
        sized == find_aes_by_size(ks, ek.size)
        rsa == OrElse(find_rsa_private(ks), find_kind(ks, "Rsa"))
    IN  CASE ek.method = "KwAes" ->
               IF kek = 0 \/ ~HasSymmetricBytes(ks[kek]) THEN 0
               ELSE IF ks[kek].size # ek.size THEN OrElse(sized, kek) ELSE kek
          [] ek.method = "KwDes3" ->
               IF kek = 0 \/ ~HasSymmetricBytes(ks[kek]) THEN 0 ELSE kek
          [] ek.method = "Rsa" ->
               IF rsa = 0 \/ ~ks[rsa].priv THEN 0 ELSE rsa
          [] OTHER -> 0

\* try_unwrap_encrypted_key(..).ok(): only the first EncryptedKey child is tried; the
\* unwrapped bytes become an HMAC key.  The unwrap fails under any other key.
try_unwrap_encrypted_key(kids, ks) ==
    LET i == FirstOf({j \in DOMAIN kids : kids[j].t = "EncryptedKey"})
        kek == UnwrapKek(kids[i], ks)
    IN  IF i = 0 \/ kek = 0 \/ ks[kek].mat # kids[i].wrapped THEN NoKey
        ELSE [NoKey EXCEPT !.kind = "Hmac", !.priv = TRUE, !.mat = kids[i].mat]

\* try_resolve_retrieval_method: the first RetrievalMethod of that type decides.
try_resolve_retrieval_method(kids) ==
    LET i == FirstOf({j \in DOMAIN kids : kids[j].t = "RawCertificate"})
    IN  IF i = 0 \/ kids[i].cert = <<>> THEN NoKey
        ELSE CertKey(kids[i].cert[1], kids[i].cert)

\* try_resolve_retrieval_method_inline: the first certificate of the X509Data the id
\* leads to.  `at' maps an id to the children of the element that carries it.
try_resolve_retrieval_method_inline(kids, at) ==
    LET i == FirstOf({j \in DOMAIN kids : kids[j].t = "RetrievalMethod"})
        tgt == IF i # 0 /\ kids[i].id \in DOMAIN at THEN at[kids[i].id] ELSE <<>>
        x == FirstOf({j \in DOMAIN tgt : tgt[j].t = "X509Data"})
    IN  IF x = 0 \/ tgt[x].certs = <<>> THEN NoKey
        ELSE CertKey(tgt[x].certs[1], <<tgt[x].certs[1]>>)

\* The keys a document can bring along, in the order verify() tries them.
ExtractedKey(kids, ks, at) ==
    OrElseKey(extract_key_value(kids),
    OrElseKey(try_unwrap_encrypted_key(kids, ks),
    OrElseKey(try_resolve_retrieval_method(kids),
              try_resolve_retrieval_method_inline(kids, at))))

-----------------------------------------------------------------------------
(* Keys that come from the manager.                                        *)

\* The key an X509Data names: its X509IssuerSerial elements in order, the first one
\* whose serial number a managed certificate has.  The issuer name is not compared.
KeyBySerial(child, ks) ==
    LET hits == {j \in DOMAIN child.serials : find_key_by_serial(ks, child.serials[j].serial) # 0}
    IN  IF hits = {} THEN 0 ELSE find_key_by_serial(ks, child.serials[FirstOf(hits)].serial)

KeyByName(child, ks) == IF child.t = "KeyName" THEN find_by_name(ks, child.name) ELSE 0

KeyByX509Data(child, ks) == IF child.t = "X509Data" THEN KeyBySerial(child, ks) ELSE 0

\* Variant: serial numbers are tried before names.
resolve_key_info_serials_first(kids, ks) ==
    LET named == FirstOf({j \in DOMAIN kids : KeyByName(kids[j], ks) # 0})
        bySerial == FirstOf({j \in DOMAIN kids : KeyByX509Data(kids[j], ks) # 0})
    IN  IF bySerial # 0 THEN KeyByX509Data(kids[bySerial], ks)
        ELSE IF named # 0 THEN KeyByName(kids[named], ks)
        ELSE first_key(ks)

\* resolve_key_info: all KeyNames first, then all serial numbers, then the first key
\* of the manager; inline KeyValues are read and ignored.
resolve_key_info(kids, ks) ==
    LET named == FirstOf({j \in DOMAIN kids : KeyByName(kids[j], ks) # 0})
        bySerial == FirstOf({j \in DOMAIN kids : KeyByX509Data(kids[j], ks) # 0})
    IN  IF named # 0 THEN KeyByName(kids[named], ks)
        ELSE IF bySerial # 0 THEN KeyByX509Data(kids[bySerial], ks)
        ELSE first_key(ks)

\* resolve_key_info_reference: the first KeyInfoReference whose id exists replaces the
\* KeyInfo by the element that carries the id, whatever that element is.
EffectiveKids(kids, at) ==
    LET i == FirstOf({j \in DOMAIN kids :
                        kids[j].t = "KeyInfoReference" /\ kids[j].id \in DOMAIN at})
    IN  IF i = 0 THEN kids ELSE at[kids[i].id]
=============================================================================
