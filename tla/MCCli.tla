-------------------------------- MODULE MCCli --------------------------------
(***************************************************************************)
(* Command lines for model-checking Cli: the certificates of MCVerify in   *)
(* files of every form, and documents whose keys come from each of them.   *)
(***************************************************************************)
EXTENDS Cli, MCVerify

File(ext, form, blocks, item, m) ==
    [readable |-> TRUE, ext |-> ext, form |-> form, blocks |-> blocks, item |-> item,
     entries |-> <<>>, mat |-> m, size |-> 16]
Block(l, i) == [label |-> l, state |-> "ok", item |-> i]
Pem(bs) == File("other", "pem", bs, NoItem, "text")
Der(ext, i) == File(ext, "der", <<>>, i, "octets")
Missing == [Der("other", NoItem) EXCEPT !.readable = FALSE]

CertItem(c) == [t |-> "cert", cert |-> c]
CertBlock(c) == Block("CERTIFICATE", CertItem(c))
Crl(serials) == [t |-> "crl", entries |-> {[serial |-> n, date |-> 3] : n \in serials}]
CrlBlock(ns, st) == [label |-> "X509 CRL", state |-> st, item |-> Crl(ns)]

Pkcs8(kind, m) == [t |-> "pkcs8", kind |-> kind, mat |-> m]
Encrypted(i, pads) == [t |-> "encrypted", pwd |-> "right", pads |-> pads, of |-> i]
EncryptedPem(pads) == Pem(<<Block("ENCRYPTED PRIVATE KEY", Encrypted(Pkcs8("Rsa", "m1"), pads))>>)

Pfx(mac, cipher, bags) ==
    [t |-> "pfx", version |-> 3, mac |-> mac, infos |-> <<[cipher |-> cipher, bags |-> bags]>>]
Bag(t, i) == [t |-> t, pwd |-> "right", pads |-> TRUE, of |-> i]
Bags(t) == <<Bag("other", NoItem), Bag("cert", L), Bag(t, Pkcs8("Rsa", "m1")), Bag("cert", R)>>
P12(mac, cipher, t) == Der("p12", Pfx(mac, cipher, Bags(t)))

KeysXml(es) == [File("other", "xml", <<>>, NoItem, "xml") EXCEPT !.entries = es]
Entry(n, v, k) == [name |-> n, value |-> v, key |-> k]

-----------------------------------------------------------------------------
Command(name) ==
    [name |-> name, readable |-> TRUE, doc |-> BaseDoc, pwd |-> NoPwd, keys_file |-> <<>>,
     key |-> <<>>, named |-> <<>>, pkcs12 |-> <<>>, certs |-> <<>>, trusted |-> <<>>,
     untrusted |-> <<>>, hmac |-> <<>>, aes |-> <<>>, crl |-> <<>>, session |-> <<>>,
     x509 |-> FALSE, skip_strict |-> FALSE, insecure |-> FALSE, verify_keys |-> FALSE,
     skip_time |-> FALSE, strict |-> FALSE, trusted_keys_only |-> FALSE, floor |-> <<>>, now |-> 5]
Verify == Command("verify")
As(n, f) == [name |-> n, file |-> f]

\* Inline certificates against trust anchors, intermediates and CRLs.
InlineDocs == {WithKeyInfo(<<X509Data(cs, <<>>)>>) : cs \in {<<L>>, <<M>>, <<M, I>>, <<D>>}}
                \union {[WithKeyInfo(<<X509Data(<<X>>, <<>>)>>) EXCEPT !.sv.by = "m2"]}
CrlFiles == {<<>>, <<Pem(<<CrlBlock({9}, "ok"), CrlBlock({2, 4}, "ok")>>)>>,
             <<Der("other", Crl({2})), Pem(<<CrlBlock({4}, "ok"), CrlBlock({2}, "unended")>>)>>}
TrustCommands ==
    {[Verify EXCEPT !.doc = d, !.trusted = t, !.untrusted = u, !.crl = l, !.x509 = x, !.skip_strict = k] :
       d \in InlineDocs, t \in {<<>>, <<Pem(<<CertBlock(R)>>)>>, <<Der("crt", CertItem(R))>>},
       u \in {<<>>, <<Pem(<<CertBlock(I)>>)>>}, l \in CrlFiles, x \in BOOLEAN, k \in BOOLEAN}
    \union {[Verify EXCEPT !.doc = d, !.trusted = <<Der("crt", CertItem(R))>>, !.insecure = TRUE,
                           !.skip_time = TRUE] : d \in InlineDocs}
    \union {[Verify EXCEPT !.crl = <<f>>] :
              f \in {Missing, Pem(<<CertBlock(R)>>), Pem(<<CrlBlock({2}, "garbled")>>),
                     Pem(<<CrlBlock({2}, "unended"), CrlBlock({4}, "ok")>>)}}

\* Keys from files, for every way of naming one.
KeyFiles == {Missing, Pem(<<Block("PRIVATE KEY", Pkcs8("Rsa", "m1"))>>), EncryptedPem(TRUE), EncryptedPem(FALSE),
             Pem(<<Block("PUBLIC KEY", [t |-> "spki", kind |-> "Rsa", mat |-> "m1"])>>),
             Pem(<<CertBlock(L), CertBlock(R)>>), Der("other", [t |-> "pkcs1", mat |-> "m1"]),
             Der("other", Pkcs8("X25519", "m1")), Der("crt", CertItem(L)), Der("crt", Pkcs8("Rsa", "m1")),
             File("crt", "pem", <<CertBlock(L)>>, NoItem, "text"),
             P12(<<"right">>, <<>>, "shrouded"), P12(<<>>, <<>>, "shrouded"), P12(<<>>, <<>>, "key"),
             P12(<<>>, <<"right">>, "key"), P12(<<"">>, <<>>, "key")}

Passwords == {NoPwd, "right", "wrong"}
NamesN1 == WithKeyInfo(<<KeyName("n1")>>)
FileDocs == {BaseDoc, NamesN1, [NamesN1 EXCEPT !.method = "Hmac", !.sv.by = "text"],
             [NamesN1 EXCEPT !.method = "Hmac", !.sv.by = "octets"]}

KeyCommands ==
    {[Verify EXCEPT !.doc = d, !.pwd = p, !.key = <<f>>] : d \in {BaseDoc}, p \in Passwords, f \in KeyFiles}
    \union {[Verify EXCEPT !.doc = d, !.pwd = p, !.pkcs12 = <<f>>, !.verify_keys = v,
                           !.trusted = <<Der("crt", CertItem(R))>>] :
              d \in {BaseDoc}, p \in Passwords, f \in {x \in KeyFiles : x.ext = "p12"}, v \in BOOLEAN}
    \union {[Verify EXCEPT !.doc = d, !.pwd = p, !.named = <<As("n1", f)>>, !.trusted_keys_only = t] :
              d \in FileDocs, p \in Passwords, f \in KeyFiles, t \in BOOLEAN}
    \union {[Verify EXCEPT !.doc = NamesN1, !.keys_file = <<x>>, !.named = es] :
              x \in {KeysXml(<<>>), Missing, KeysXml(<<Entry("n1", "bad", NoKey)>>),
                     KeysXml(<<Entry("n0", "skipped", NoKey), Entry("n1", "key", RsaKey), Entry("n2", "key", HmacKey)>>)},
              es \in {<<>>, <<As(NoName, Missing)>>, <<As("n1", Der("other", Pkcs8("Rsa", "m2")))>>}}
    \union {[Verify EXCEPT !.readable = FALSE]}

\* Truncated MACs, with and without a floor on the command line.
MacCommands ==
    {[Verify EXCEPT !.doc = d, !.hmac = <<As(n, File("other", "der", <<>>, NoItem, "m1"))>>, !.floor = l, !.strict = s] :
       d \in HmacDocs, n \in {NoName, "h"}, l \in {<<>>, <<160>>}, s \in BOOLEAN}

\* Structure and reference errors, so that every way through verify() is taken.
OtherCommands == {[Verify EXCEPT !.doc = d, !.strict = TRUE, !.key = <<Der("crt", CertItem(L))>>] : d \in CoreDocs}

\* The commands that end with a call of the library.
Callers == {[Command(n) EXCEPT !.key = k, !.named = es, !.certs = cs, !.hmac = h, !.aes = a, !.session = s] :
              n \in {"sign", "encrypt", "decrypt"},
              k \in {<<>>, <<Der("other", Pkcs8("Ec", "m1"))>>, <<EncryptedPem(FALSE)>>},
              es \in {<<>>, <<As("n1", Der("other", NoItem))>>},
              cs \in {<<>>, <<Der("crt", CertItem(L))>>},
              h \in {<<>>, <<As("h", Der("other", NoItem))>>},
              a \in {<<>>, <<Missing>>, <<Der("other", NoItem)>>},
              s \in {<<>>, <<[kind |-> "Hmac", bits |-> 192]>>, <<[kind |-> "Hmac", bits |-> 100]>>,
                     <<[kind |-> "Aes", bits |-> 0]>>, <<[kind |-> "other", bits |-> 128]>>}}
\* sign has no --aes-key, encrypt no --key and no --hmac-key, decrypt no --cert, and only
\* sign has --session-key.
CallCommands == {c \in Callers : /\ c.name = "sign" => c.aes = <<>>
                                 /\ c.name = "encrypt" => c.key = <<>> /\ c.hmac = <<>>
                                 /\ c.name = "decrypt" => c.certs = <<>>
                                 /\ c.name # "sign" => c.session = <<>>}

AllCommands == TrustCommands \union KeyCommands \union MacCommands \union OtherCommands \union CallCommands
NoContexts == {}
=============================================================================
