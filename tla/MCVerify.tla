------------------------------ MODULE MCVerify ------------------------------
(***************************************************************************)
(* Inputs for model-checking DsigVerify.  The documents are variations of  *)
(* one base document:                                                      *)
(*        1 document element ("r")                                         *)
(*          2 Signature  (with KeyInfo 5, child of the Signature)          *)
(*          3 sibling of the Signature                                     *)
(*            4 below the sibling                                          *)
(*          6 a second element below the sibling                           *)
(***************************************************************************)
EXTENDS DsigVerify

Parent == <<0, 1, 1, 3, 2, 3>>
NoIds == <<<<>>, <<>>, <<>>, <<>>, <<>>, <<>>>>
BaseIds == <<<<"r">>, <<>>, <<"s">>, <<"d">>, <<>>, <<"k">>>>

Ref(u, i) == [uri |-> u, id |-> i, ext |-> TRUE, method |-> "ok", value |-> "ok",
              transforms |-> TRUE, expected |-> "x", actual |-> "x"]
GoodSv == [form |-> "ok", len |-> 32, by |-> "m1", intact |-> TRUE]

\* A document that verifies under the key of material m1, all checks passing.
BaseDoc == [parses |-> TRUE, parent |-> Parent, ids |-> BaseIds, kids |-> NoIds,
            sigs |-> {2}, signedinfo |-> TRUE, c14n |-> "ok", method |-> "Rsa",
            hmaclen |-> "absent", bits |-> 0, fullmac |-> 32, pqctx |-> "absent",
            refs |-> <<Ref("id", "r")>>, sv |-> GoodSv, ki |-> 0]

Key(n, kd, m, ch) == [name |-> n, kind |-> kd, priv |-> FALSE, size |-> 0, mat |-> m,
                      chain |-> ch]
RsaKey == Key("n1", "Rsa", "m1", <<>>)
BaseCtx == [trusted_keys_only |-> TRUE, strict |-> TRUE, hmac_min |-> 160,
            insecure |-> FALSE, verify_keys |-> FALSE, x509 |-> FALSE,
            skip_time |-> FALSE, now |-> 5, keys |-> <<RsaKey>>, trusted |-> {},
            untrusted |-> {}, crls |-> {},
            hsm |-> [on |-> FALSE, alg |-> "Rsa", mat |-> "m1"]]

-----------------------------------------------------------------------------
(* Core: structure, references, positions, HMAC lengths, signature value.  *)

BadStructure ==
    {[BaseDoc EXCEPT !.parses = FALSE], [BaseDoc EXCEPT !.sigs = {}],
     [BaseDoc EXCEPT !.signedinfo = FALSE], [BaseDoc EXCEPT !.c14n = "unsupported"],
     [BaseDoc EXCEPT !.method = "missing"], [BaseDoc EXCEPT !.method = "unknown"],
     [BaseDoc EXCEPT !.ids[6] = <<"d">>], [BaseDoc EXCEPT !.ids[4] = <<"d", "d">>],
     [BaseDoc EXCEPT !.method = "Pq", !.pqctx = "bad"],
     [BaseDoc EXCEPT !.method = "Pq", !.pqctx = "ok"]}

\* References that differ in one respect from a verified one.
RefVariants ==
    {Ref("id", i) : i \in {"r", "s", "d", "k", "absent"}}
      \union {Ref(u, "-") : u \in {"empty", "root", "cid", "ext"}}
      \union {[Ref("id", "s") EXCEPT !.actual = "y"], [Ref("cid", "-") EXCEPT !.actual = "y"],
              [Ref("ext", "-") EXCEPT !.ext = FALSE], [Ref("empty", "-") EXCEPT !.transforms = FALSE],
              [Ref("id", "r") EXCEPT !.method = "missing"],
              [Ref("id", "r") EXCEPT !.method = "unsupported"],
              [Ref("id", "r") EXCEPT !.value = "badb64"]}

\* Pairs: every order of an accepted, a skipped, a misplaced, a mismatching and an
\* erroneous Reference.
PairRefs == {Ref("id", "s"), Ref("id", "d"), Ref("cid", "-"), Ref("id", "absent"),
             [Ref("id", "s") EXCEPT !.actual = "y"]}

RefLists == {<<>>} \union {<<r>> : r \in RefVariants} \union {<<r, t>> : r, t \in PairRefs}

SvVariants == {GoodSv, [GoodSv EXCEPT !.form = "missing"], [GoodSv EXCEPT !.intact = FALSE],
               [GoodSv EXCEPT !.by = "m2"]}

HmacDocs == {[BaseDoc EXCEPT !.method = "Hmac", !.hmaclen = f, !.bits = b, !.sv.len = l] :
               f \in {"absent", "bad", "bits"}, b \in {0, 80, 100, 160, 256},
               l \in {10, 20, 32}}

CoreDocs == BadStructure \union HmacDocs
              \union {[BaseDoc EXCEPT !.refs = rs] : rs \in RefLists}
              \union {[BaseDoc EXCEPT !.sv = v] : v \in SvVariants}

HmacKey == Key(NoName, "Hmac", "m1", <<>>)
Hsm(a) == [on |-> TRUE, alg |-> a, mat |-> "m1"]

CoreCtxs == {[BaseCtx EXCEPT !.strict = s, !.hmac_min = h, !.keys = ks] :
               s \in BOOLEAN, h \in {0, 160}, ks \in {<<>>, <<RsaKey>>, <<HmacKey>>}}
            \union {[BaseCtx EXCEPT !.hsm = Hsm(a)] : a \in {"Rsa", "Hmac"}}

-----------------------------------------------------------------------------
(* Key resolution and certificate validation.  R is the trust anchor, I an *)
(* intermediate CA; L and D (expired) were issued by R, M by I, X by a CA  *)
(* the verifier does not know.  L and X share a serial number.             *)

Cert(s, i, ca, n, m, b, na) == [subj |-> s, iss |-> i, ca |-> ca, serial |-> n, kind |-> "Rsa",
                                mat |-> m, by |-> b, nb |-> 0, na |-> na]
R == Cert("R", "R", TRUE, 1, "mR", "mR", 9)
I == Cert("I", "R", TRUE, 3, "mI", "mR", 9)
L == Cert("L", "R", FALSE, 2, "m1", "mR", 9)
M == Cert("M", "I", FALSE, 4, "m1", "mI", 9)
D == Cert("D", "R", FALSE, 5, "m1", "mR", 4)
X == Cert("X", "Z", FALSE, 2, "m2", "mZ", 9)

KeyName(n) == [t |-> "KeyName", name |-> n]
KeyValue(k) == [t |-> "KeyValue", key |-> k]
X509Data(cs, is) == [t |-> "X509Data", certs |-> cs, serials |-> is]
EncryptedKey(m, z, ns, w) == [t |-> "EncryptedKey", method |-> m, size |-> z, names |-> ns,
                              wrapped |-> w, mat |-> "m1"]
SerialOf(c) == X509Data(<<>>, <<[iss |-> c.iss, serial |-> c.serial]>>)

\* Children that occur in pairs, in both orders.
PairKids == {KeyName("n1"), KeyName("nx"), KeyValue(Key(NoName, "Rsa", "m2", <<>>)),
             X509Data(<<L>>, <<>>), X509Data(<<X>>, <<>>), SerialOf(L), KeyValue(NoKey)}

OtherKids == {X509Data(<<M, I>>, <<>>), X509Data(<<I, M>>, <<>>), X509Data(<<M>>, <<>>),
              X509Data(<<D>>, <<>>), X509Data(<<R>>, <<>>), X509Data(<<R, L>>, <<>>),
              [t |-> "RawCertificate", cert |-> <<L>>], [t |-> "RawCertificate", cert |-> <<>>],
              [t |-> "RetrievalMethod", id |-> "k"], [t |-> "RetrievalMethod", id |-> "none"],
              [t |-> "KeyInfoReference", id |-> "k"], [t |-> "KeyInfoReference", id |-> "none"]}

KidLists == {<<>>} \union {<<c>> : c \in PairKids \union OtherKids}
                   \union {<<c, e>> : c, e \in PairKids}

\* The KeyInfo is element 5; element 6 is what "#k" refers to.
WithKeyInfo(kids) == [BaseDoc EXCEPT !.kids[5] = kids, !.kids[6] = <<X509Data(<<L, M>>, <<>>)>>,
                                     !.ki = 5]

HmacKids == {<<EncryptedKey("KwAes", 16, <<"a">>, "w1")>>, <<EncryptedKey("KwAes", 32, <<"a">>, "w2")>>,
             <<EncryptedKey("KwDes3", 24, <<>>, "w1")>>, <<EncryptedKey("Rsa", 0, <<>>, "m1")>>,
             <<EncryptedKey("other", 0, <<>>, "w1")>>}

KeyDocs == {[WithKeyInfo(ks) EXCEPT !.sv.by = m] : ks \in KidLists, m \in {"m1", "m2"}}
             \union {[WithKeyInfo(ks) EXCEPT !.method = "Hmac"] : ks \in HmacKids}
             \union {BaseDoc}

Aes(n, z, m) == [name |-> n, kind |-> "Aes", priv |-> FALSE, size |-> z, mat |-> m, chain |-> <<>>]
RsaPriv == [Key("p", "Rsa", "m1", <<>>) EXCEPT !.priv = TRUE]

KeyStores == {<<>>, <<Key("n2", "Rsa", "m2", <<>>), RsaKey>>,
              <<Key(NoName, "Rsa", "m2", <<X>>), Key("n1", "Rsa", "m1", <<L>>)>>,
              <<Aes("a", 16, "w1"), Aes("b", 32, "w2"), RsaPriv>>}

KeyCtxs == {[BaseCtx EXCEPT !.trusted_keys_only = t, !.x509 = x, !.verify_keys = x, !.keys = ks,
                            !.trusted = {R}, !.untrusted = u, !.crls = l] :
              t \in BOOLEAN, x \in BOOLEAN, ks \in KeyStores, u \in {{}, {I}},
              l \in {{}, {[serial |-> 2, date |-> 3], [serial |-> 4, date |-> 7]}}}
           \union {[BaseCtx EXCEPT !.trusted_keys_only = FALSE, !.x509 = TRUE, !.insecure = i,
                                   !.skip_time = TRUE, !.trusted = tr] : i \in BOOLEAN, tr \in {{}, {R}}}

AllDocs == CoreDocs \union KeyDocs
AllCtxs == CoreCtxs \union KeyCtxs

-----------------------------------------------------------------------------
(* Inputs of the runs that examine one disagreement each.                  *)

\* An X509Data whose certificates do not start with the end-entity one.
RootFirstDocs == {[WithKeyInfo(<<X509Data(cs, <<>>)>>) EXCEPT !.sv.by = m] :
                    cs \in {<<R, L>>, <<R, X>>, <<X, R>>, <<L>>}, m \in {"m1", "m2"}}
RootFirstCtxs == {[BaseCtx EXCEPT !.trusted_keys_only = FALSE, !.x509 = TRUE, !.trusted = {R}]}
=============================================================================
