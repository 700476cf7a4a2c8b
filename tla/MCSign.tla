------------------------------- MODULE MCSign -------------------------------
(***************************************************************************)
(* Inputs for DsigSign and SignVerify.  The element tree, in document      *)
(* order, with the IDs:                                                    *)
(*   1 r   2 b (body)   3 sig (Signature)   4 SignedInfo                   *)
(*   5 r1 (Reference)   6 its DigestValue   7 r2 (Reference)               *)
(*   8 SignatureValue   9 ki (KeyInfo)     10 X509Data   11 o (Object)     *)
(***************************************************************************)
EXTENDS SignVerify

Parent == <<0, 1, 1, 3, 4, 5, 4, 3, 3, 9, 3>>
Ids == <<<<"r">>, <<"b">>, <<"sig">>, <<>>, <<"r1">>, <<>>, <<"r2">>, <<>>, <<"ki">>, <<>>, <<"o">>>>

Reference(u, i, e) == [uri |-> u, id |-> i, ext |-> TRUE, method |-> "ok", value |-> "ok",
                       transforms |-> TRUE, enveloped |-> e, expected |-> Empty, actual |-> Empty]

NoParts == [certs |-> <<>>, serials |-> <<>>, names |-> FALSE, tags |-> {}]
Slot(k, n, r, c, e) == [kind |-> k, node |-> n, ref |-> r, kid |-> c, own |-> e,
                        decl |-> "above", parts |-> NoParts]

EmptyX509 == [t |-> "X509Data", certs |-> <<>>, serials |-> <<>>]
EmptyKeyValue == [t |-> "KeyValue", key |-> NoKey]
SessionKey(m, z, ns) == [t |-> "EncryptedKey", method |-> m, size |-> z, names |-> ns,
                         wrapped |-> "none", mat |-> "none"]

BaseDoc == [parses |-> TRUE, parent |-> Parent, ids |-> Ids,
            kids |-> [n \in 1 .. 11 |-> IF n = 9 THEN <<EmptyX509, EmptyKeyValue>> ELSE <<>>],
            sigs |-> {3}, signedinfo |-> TRUE, c14n |-> "ok", method |-> "Rsa",
            hmaclen |-> "absent", bits |-> 0, fullmac |-> 32, pqctx |-> "absent",
            refs |-> <<Reference("id", "b", FALSE)>>,
            sv |-> [form |-> "ok", len |-> 0, by |-> "none", intact |-> FALSE], ki |-> 9]

BaseSlots == <<Slot("text", 2, 0, 0, {}), Slot("DigestValue", 5, 1, 0, {6}),
               Slot("DigestValue", 7, 2, 0, {}), Slot("SignatureValue", 3, 0, 0, {8}),
               Slot("X509Data", 9, 0, 1, {10}), Slot("KeyValue", 9, 0, 2, {}),
               Slot("text", 11, 0, 0, {})>>
BaseText == <<Text, Empty, Empty, Empty, Empty, Empty, Text>>

Template(refs) == [doc |-> [BaseDoc EXCEPT !.refs = refs], info |-> 4,
                   slots |-> BaseSlots, text |-> BaseText]

\* What a Reference may cover: the body, an Object, a Reference, the KeyInfo, the
\* Signature, the whole document with and without the Signature.
SomeRefs == {Reference("id", i, FALSE) : i \in {"b", "o", "r1", "r2", "ki", "sig"}}
              \union {Reference("empty", "-", e) : e \in BOOLEAN}
              \union {Reference("id", "r", TRUE), Reference("ext", "-", FALSE),
                      Reference("cid", "-", FALSE)}

TwoRefs == {Template(<<r, q>>) : r, q \in SomeRefs}

\* One Reference, in documents that already have content or have other empty elements.
One == Template(<<Reference("id", "b", FALSE)>>)
Filled == {[One EXCEPT !.text[2] = t, !.text[4] = v, !.text[3] = Text] :
             t \in {Empty, Text}, v \in {Empty, Text}}
Keyed == {[One EXCEPT !.text = <<Text, Empty, Text, Empty, x, k, Text>>] :
            x, k \in {Empty, Text}}
Stray == {[One EXCEPT !.slots[1].kind = k, !.text[1] = Empty, !.text[3] = Text] :
            k \in {"DigestValue", "SignatureValue"}}

\* X509Data with children: an X509Certificate, an X509IssuerSerial, both, a name; empty, or
\* given beside an empty one.
Other == [subj |-> "O", iss |-> "R", ca |-> FALSE, serial |-> 7, kind |-> "none", mat |-> "m9",
          by |-> "mR", nb |-> 0, na |-> 9]
OtherSerial == [iss |-> "R", serial |-> 7]
PartLists == {[NoParts EXCEPT !.certs = <<<<>>>>], [NoParts EXCEPT !.serials = <<<<>>>>],
              [NoParts EXCEPT !.names = TRUE],
              [NoParts EXCEPT !.certs = <<<<>>>>, !.serials = <<<<OtherSerial>>, <<>>>>],
              [NoParts EXCEPT !.certs = <<<<Other>>, <<>>>>],
              [NoParts EXCEPT !.certs = <<<<Other>>>>, !.serials = <<<<OtherSerial>>>>]}
Given(q) == LET g == SelectSeq(q, LAMBDA x : x # <<>>) IN [i \in DOMAIN g |-> g[i][1]]
WithParts(p) == [One EXCEPT !.slots[5].kind = "X509Template", !.slots[5].parts = p, !.text[3] = Text,
                            !.doc.kids[9][1] = [EmptyX509 EXCEPT !.certs = Given(p.certs),
                                                                 !.serials = Given(p.serials)]]
NoKeyValue(t) == [t EXCEPT !.slots[6].kind = "text", !.text[6] = Text]
X509Templates == UNION {{t, NoKeyValue(t), [t EXCEPT !.slots[6].kind = "DEREncodedKeyValue"]} :
                          t \in {WithParts(p) : p \in PartLists}}

\* An ID on the first DigestValue, on the SignatureValue or on the X509Data (or on an empty
\* child of it), and a Reference to it, or to the body; the namespace declared in a tag.
Tagged(n) == {[Template(<<Reference("id", "b", FALSE), r>>) EXCEPT !.doc.ids[n] = <<"x">>] :
                r \in {Reference("id", "x", FALSE), Reference("id", "x", TRUE), Reference("id", "b", FALSE)}}
Declaring == {[One EXCEPT !.slots[s].decl = d, !.text[3] = Text] :
                s \in {2, 4, 5, 6}, d \in {"prefix", "default", "again"}}
ChildTags == {[t EXCEPT !.doc.ids[10] = <<"x">>, !.slots[5].own = {},
                        !.slots[5].parts.tags = {10}, !.slots[5].decl = d] :
                t \in X509Templates, d \in {"above", "default"}}
Tags == UNION {Tagged(n) : n \in {6, 8, 10}} \union Declaring \union ChildTags
NoDigestValue == {[One EXCEPT !.slots[2].kind = "text", !.text[2] = Text]}
Broken == {[One EXCEPT !.doc.parses = FALSE], [One EXCEPT !.doc.refs[1].method = "unsupported"],
           [One EXCEPT !.doc.refs[1].transforms = FALSE], [One EXCEPT !.doc.refs[1].id = "none"]}

\* HMAC templates: truncation, and an EncryptedKey for the session key.
HmacTpl(f, b) == [One EXCEPT !.doc.method = "Hmac", !.doc.hmaclen = f, !.doc.bits = b,
                             !.text[3] = Text]
Session(m, z, ns) == [HmacTpl("absent", 0) EXCEPT !.slots[5].kind = "CipherValue",
                                                  !.doc.kids[9][1] = SessionKey(m, z, ns)]
HmacTpls == {HmacTpl(f, b) : f \in {"absent", "bits", "bad"}, b \in {100, 160, 256, 512}}
              \union {Session(m, z, ns) : m \in {"KwAes", "Rsa", "missing"}, z \in {16, 32},
                                          ns \in {<<>>, <<"k">>, <<"x">>}}

SignTemplates == TwoRefs \union Filled \union Keyed \union Stray \union X509Templates
                   \union Tags \union NoDigestValue \union Broken \union HmacTpls

-----------------------------------------------------------------------------
Key(n, kd, m, p, z, ch) == [name |-> n, kind |-> kd, priv |-> p, size |-> z, mat |-> m, chain |-> ch]
Leaf == [subj |-> "L", iss |-> "R", ca |-> FALSE, serial |-> 2, kind |-> "Rsa", mat |-> "m1",
         by |-> "mR", nb |-> 0, na |-> 9]

Peer(only, ks) == [trusted_keys_only |-> only, strict |-> FALSE, hmac_min |-> 0, insecure |-> FALSE,
                   verify_keys |-> FALSE, x509 |-> FALSE, skip_time |-> FALSE, now |-> 5,
                   keys |-> ks, trusted |-> {}, untrusted |-> {}, crls |-> {},
                   hsm |-> [on |-> FALSE, alg |-> "Rsa", mat |-> "m1"]]

NoHsm == [on |-> FALSE, alg |-> "Rsa", mat |-> "m1"]
Signer(ks, h, p) == [keys |-> ks, hsm |-> h, peer |-> p]

RsaPrivate == Key("n1", "Rsa", "m1", TRUE, 0, <<Leaf>>)
RsaPublic == Key("n1", "Rsa", "m1", FALSE, 0, <<>>)
Mac == Key(NoName, "Hmac", "m1", FALSE, 0, <<>>)
Kek == Key("k", "Aes", "w", FALSE, 16, <<>>)

\* Signers, each with a peer that has what it needs: the public key, nothing but the
\* document, the MAC key, the key-encryption key.
SignSigners == {Signer(<<RsaPrivate>>, NoHsm, Peer(TRUE, <<RsaPublic>>)),
                Signer(<<Mac, Kek>>, NoHsm, Peer(TRUE, <<Mac>>)),
                Signer(<<RsaPublic>>, NoHsm, Peer(TRUE, <<RsaPublic>>)),
                Signer(<<>>, [NoHsm EXCEPT !.on = TRUE], Peer(TRUE, <<RsaPublic>>)),
                Signer(<<>>, [NoHsm EXCEPT !.on = TRUE, !.alg = "Hmac"], Peer(TRUE, <<Mac>>))}

\* Peers that depend on the populated KeyInfo.
InlineTemplates == {[One EXCEPT !.text[3] = Text], [One EXCEPT !.text[3] = Text, !.text[5] = Text],
                    [One EXCEPT !.text[3] = Text, !.slots[5].kind = "text", !.text[5] = Text]}
InlineSigners == {Signer(<<RsaPrivate>>, NoHsm, Peer(FALSE, <<>>)),
                  Signer(<<[RsaPrivate EXCEPT !.chain = <<>>]>>, NoHsm, Peer(FALSE, <<>>))}
SessionTemplates == {Session("KwAes", 16, <<"k">>)}
SessionSigners == {Signer(<<Mac, Kek>>, NoHsm, Peer(FALSE, <<Kek>>))}

\* Peers that find the key by its KeyName among others, take the first one for want of a
\* KeyInfo, or hold a trust anchor for the signer's certificate; all in strict mode.
Root == [subj |-> "R", iss |-> "R", ca |-> TRUE, serial |-> 1, kind |-> "Rsa", mat |-> "mR",
         by |-> "mR", nb |-> 0, na |-> 9]
Strict(p) == [p EXCEPT !.strict = TRUE]
Validating == [Peer(FALSE, <<>>) EXCEPT !.x509 = TRUE, !.trusted = {Root}]

NamedTemplates == {[One EXCEPT !.doc.kids[9] = @ \o <<[t |-> "KeyName", name |-> n]>>,
                               !.text[3] = Text] : n \in {"n1", "n2", "n3"}}
NamedSigners == {Signer(<<RsaPrivate>>, NoHsm, Strict(Peer(TRUE, ks))) :
                   ks \in {<<Mac, RsaPublic>>, <<RsaPublic, Mac>>,
                           <<[Mac EXCEPT !.name = "n2"], RsaPublic>>}}
BareTemplates == {[One EXCEPT !.doc.ki = 0, !.text[3] = Text]}
BareSigners == {Signer(<<RsaPrivate>>, NoHsm, Strict(Peer(o, <<RsaPublic, Mac>>))) : o \in BOOLEAN}
ChainSigners == {Signer(<<[RsaPrivate EXCEPT !.chain = ch]>>, NoHsm, Strict(Validating)) :
                   ch \in {<<Leaf>>, <<Leaf, Root>>, <<Root, Leaf>>, <<[Leaf EXCEPT !.by = "m2"]>>}}

SignPairs == (SignTemplates \X SignSigners)
               \union ((InlineTemplates \union X509Templates) \X (InlineSigners \union ChainSigners))
               \union (Declaring \X InlineSigners)
               \union (SessionTemplates \X SessionSigners)
               \union (NamedTemplates \X NamedSigners) \union (BareTemplates \X BareSigners)

SignJobs == {[tpl |-> p[1], signer |-> p[2]] : p \in SignPairs}
=============================================================================
