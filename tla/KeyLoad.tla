------------------------------- MODULE KeyLoad -------------------------------
(***************************************************************************)
(* Keys from files: loader.rs and keysxml.rs of crates/bergshamra-keys,    *)
(* crates/bergshamra-pkcs12, and the PEM readers of the command line.      *)
(*                                                                         *)
(* A file is a record: readable, the class ext of its extension ("p12",    *)
(* "crt" or "other"), its form ("pem", "der" or "xml") and, for each form, *)
(*   blocks   PEM: the blocks, each with a label, a state ("ok", "garbled" *)
(*            for text that is not base64, "unended" without END line) and *)
(*            an item                                                      *)
(*   item     DER: what the octets decode to                               *)
(*   entries  keys.xml: the KeyInfo elements, each with its KeyName and    *)
(*            value                                                        *)
(* and the material mat and the size of its octets taken as they are.      *)
(*                                                                         *)
(* An item is tagged t: "pkcs8" and "spki" (kind, mat), "pkcs1" (mat),     *)
(* "cert" (cert), "crl" (entries), "encrypted" (pwd, pads, of), "pfx",     *)
(* "garbage", "none".  No octets decode as two of these, so the order in   *)
(* which the loaders try them decides nothing.  NoKey is an error.         *)
(***************************************************************************)
EXTENDS KeyInfo, SequencesExt

NoPwd == "no password"
NoItem == [t |-> "none"]
Garbage == [t |-> "garbage"]

\* The kinds the loaders have a decoder for: no X25519 in PKCS#8, no raw secrets.
LoadableKinds == {"Rsa", "Ec", "Dsa", "Dh", "Ed25519", "Pq"}

-----------------------------------------------------------------------------
(* DER.                                                                    *)

PrivateKey(kind, mat) == [NoKey EXCEPT !.kind = kind, !.priv = TRUE, !.mat = mat]
SecretKey(kind, f) == [NoKey EXCEPT !.kind = kind, !.mat = f.mat, !.size = f.size]

load_private_key_pkcs8_der(i) ==
    IF i.t = "pkcs8" /\ i.kind \in LoadableKinds THEN PrivateKey(i.kind, i.mat) ELSE NoKey

load_pkcs1_der(i) == IF i.t = "pkcs1" THEN PrivateKey("Rsa", i.mat) ELSE NoKey

load_spki_der(i) ==
    IF i.t = "spki" /\ i.kind \in LoadableKinds
    THEN [PrivateKey(i.kind, i.mat) EXCEPT !.priv = FALSE] ELSE NoKey

\* The chain of a certificate file is the certificate itself.
load_x509_cert_der(i) == IF i.t = "cert" THEN CertKey(i.cert, <<i.cert>>) ELSE NoKey

load_der_auto(i) ==
    OrElseKey(load_private_key_pkcs8_der(i),
    OrElseKey(load_pkcs1_der(i), OrElseKey(load_spki_der(i), load_x509_cert_der(i))))

\* A password-based decryption: under another password the padding is wrong, or it
\* happens to be right and the octets are garbage.
Decrypted(i, pwd) == IF i.pwd = pwd THEN i.of ELSE IF i.pads THEN Garbage ELSE NoItem

-----------------------------------------------------------------------------
(* PEM.                                                                    *)

\* pem_rfc7468::decode_vec, and the from_..._pem functions on top of it: the text is
\* one complete block.
decode_vec(blocks) ==
    IF Len(blocks) = 1 /\ blocks[1].state = "ok" THEN blocks[1].item ELSE NoItem

load_x509_cert_pem(blocks) == load_x509_cert_der(decode_vec(blocks))

load_encrypted_pem(blocks, pwd) ==
    LET i == decode_vec(blocks)
    IN  IF i.t = "encrypted" THEN load_private_key_pkcs8_der(Decrypted(i, pwd)) ELSE NoKey

\* With a password and an encrypted block anywhere, nothing else is tried.
load_pem_auto(blocks, pwd) ==
    IF pwd # NoPwd /\ \E b \in ToSet(blocks) : b.label = "ENCRYPTED PRIVATE KEY"
    THEN load_encrypted_pem(blocks, pwd)
    ELSE load_der_auto(decode_vec(blocks))

\* pem_decode_all: every block of a label.  A block without END line ends the reading,
\* or runs on to the END line of a later one, which leaves text that is not base64.
\* Both an error and the absence of blocks are errors of the callers: {}.
pem_decode_all(blocks, label) ==
    LET mine == {i \in DOMAIN blocks : blocks[i].label = label}
        cut == FirstOf({i \in mine : blocks[i].state = "unended"})
        read == {i \in mine : cut = 0 \/ i < cut}
    IN  IF \/ \E i \in read : blocks[i].state = "garbled"
           \/ \E i \in mine \ read : blocks[i].state # "unended"
        THEN {} ELSE {blocks[i].item : i \in read}

\* load_certs_as_der and load_crl_as_der: octets that are not PEM are taken for DER.
load_as_der(f, label) ==
    CASE ~f.readable -> {}
      [] f.readable /\ f.form = "pem" -> pem_decode_all(f.blocks, label)
      [] OTHER -> {f.item}

-----------------------------------------------------------------------------
(* PKCS#12: version, MAC (<<>> or the password it was made with), and the  *)
(* content infos, each with a cipher (<<>> or one password-based cipher:   *)
(* pwd, pads) and its safe bags: "key" and "cert" hold an item, "shrouded" *)
(* an encrypted one, "other" nothing.                                      *)

Failed == [ok |-> FALSE, keys |-> <<>>, certs |-> <<>>]

\* decrypt_data on a content info: garbage is no sequence of bags.
InfoReadable(ci, pwd) == ci.cipher = <<>> \/ ci.cipher[1] = pwd

BagKey(b, pwd) == IF b.t = "shrouded" THEN Decrypted(b, pwd) ELSE b.of

\* Variant: the MAC is not looked at.
mac_ignored(p, pwd) == TRUE

\* A PFX without a MAC is taken as it is.
verify_mac(p, pwd) == p.mac = <<>> \/ p.mac[1] = pwd

SafeBags(p) == FlattenSeq([i \in DOMAIN p.infos |-> p.infos[i].bags])

\* parse_pfx: the MAC first, then every content info and every bag, or nothing.  Of the
\* private keys only the first is ever used.
parse_pfx(p, pwd) ==
    LET bags == SafeBags(p)
        keys == {j \in DOMAIN bags : bags[j].t \in {"key", "shrouded"}}
        certs == SelectSeq(bags, LAMBDA b : b.t = "cert")
    IN  IF \/ p.version # 3 \/ ~verify_mac(p, pwd)
           \/ \E ci \in ToSet(p.infos) : ~InfoReadable(ci, pwd)
           \/ \E j \in keys : BagKey(bags[j], pwd) = NoItem
        THEN Failed
        ELSE [ok |-> TRUE,
              keys |-> IF keys = {} THEN <<>> ELSE <<BagKey(bags[FirstOf(keys)], pwd)>>,
              certs |-> [i \in DOMAIN certs |-> certs[i].of]]

\* Without a password, the empty one.
OrEmpty(pwd) == IF pwd = NoPwd THEN "" ELSE pwd

\* load_pkcs12: the first private key, with all certificates in file order.
load_pkcs12(i, pwd) ==
    LET p == IF i.t = "pfx" THEN parse_pfx(i, OrEmpty(pwd)) ELSE Failed
        k == IF p.keys = <<>> THEN NoKey ELSE load_private_key_pkcs8_der(p.keys[1])
    IN  IF ~p.ok \/ k = NoKey THEN NoKey ELSE [k EXCEPT !.chain = p.certs]

-----------------------------------------------------------------------------
(* Files.                                                                  *)

\* The extension decides first, then a PEM header.
load_key_file_with_password(f, pwd) ==
    CASE ~f.readable -> NoKey
      [] f.readable /\ f.ext = "p12" -> load_pkcs12(f.item, pwd)
      [] f.readable /\ f.ext = "crt" ->
            IF f.form = "pem" THEN load_x509_cert_pem(f.blocks) ELSE load_x509_cert_der(f.item)
      [] f.readable /\ f.ext = "other" ->
            IF f.form = "pem" THEN load_pem_auto(f.blocks, pwd) ELSE load_der_auto(f.item)

\* parse_key_info_entry: a KeyInfo without a KeyValue of a supported kind is skipped, one
\* that has one with bad content (value "bad": not base64, or not a key size) fails.
KeyEntries(f) == SelectSeq(f.entries, LAMBDA e : e.value # "skipped")

NamedAs(k, n) == [k EXCEPT !.name = n]

\* load_keys_file and parse_keys_xml.
load_keys_file(f) ==
    IF ~f.readable \/ f.form # "xml" \/ \E e \in ToSet(f.entries) : e.value = "bad" THEN Failed
    ELSE [ok |-> TRUE, certs |-> <<>>,
          keys |-> [i \in DOMAIN KeyEntries(f) |-> NamedAs(KeyEntries(f)[i].key, KeyEntries(f)[i].name)]]

\* Files as the reader of octets delivers them: a PEM file is its blocks, a PKCS#12 file a
\* list of bags, and an entry of keys.xml that is not skipped has a key.
FileOK(f) == /\ IsSeq(f.blocks)
             /\ \A i \in DOMAIN f.blocks : f.blocks[i].state \in {"ok", "garbled", "unended"}
             /\ f.ext \in {"p12", "crt", "other"}
             /\ f.form = "pem" => f.item = NoItem
             /\ f.item.t = "pfx" => IsSeq(SafeBags(f.item))
             /\ IsSeq(KeyEntries(f))
             /\ load_keys_file(f).ok => \A i \in DOMAIN KeyEntries(f) : KeyEntries(f)[i].key.kind # "none"
=============================================================================
