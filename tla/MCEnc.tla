-------------------------------- MODULE MCEnc --------------------------------
(***************************************************************************)
(* Inputs for EncryptDecrypt: templates with up to two EncryptedKeys.      *)
(***************************************************************************)
EXTENDS EncryptDecrypt

Key(n, kd, m, p, z) == [name |-> n, kind |-> kd, priv |-> p, size |-> z, mat |-> m, chain |-> <<>>]
Off == [on |-> FALSE, sizes |-> {}, mat |-> "-"]
On(s, m) == [on |-> TRUE, sizes |-> s, mat |-> m]
Ctx(ks) == [keys |-> ks, hsm |-> [rsa |-> Off, kw |-> Off], disable_cipher_reference |-> FALSE]

EK(m, z, au, ns, ag) == [method |-> m, size |-> z, auth |-> au, names |-> ns, agree |-> ag,
                         form |-> "a"]
Agree(al, o, r, kdf) == [alg |-> al, orig |-> o, recip |-> r, kdf |-> kdf]

\* EncryptedKeys: RSA for alice and bob, AES key wrap, key agreement, 3DES, ciphers.
SomeEks == {EK("Rsa", 1, TRUE, <<"alice">>, <<>>), EK("Rsa", 1, TRUE, <<"bob">>, <<>>),
            EK("KwAes", 16, TRUE, <<>>, <<>>), EK("KwDes3", 24, TRUE, <<>>, <<>>),
            EK("KwAes", 32, TRUE, <<>>, <<Agree("EcdhEs", "me", "ec", "ConcatKdf")>>),
            EK("Cipher", 16, FALSE, <<"a16">>, <<>>), EK("Cipher", 16, TRUE, <<"x">>, <<>>),
            EK("missing", 0, TRUE, <<>>, <<>>)}

EkKid(i) == [t |-> "EncryptedKey", ek |-> i]
NameKid(n) == [t |-> "KeyName", name |-> n]
DerKid(m, k) == [t |-> "DerivedKey", master |-> m, kdf |-> k]

\* Places of the EncryptedData.
Place4(b, a, ty, other) == [before |-> b, after |-> a, type |-> ty, mime_other |-> other]
Alone == Place4(<<>>, <<>>, "Element", FALSE)

Template(eks, kids) == [parses |-> TRUE, method |-> [size |-> 16, auth |-> FALSE], kids |-> kids,
                        eks |-> eks, text |-> [i \in DOMAIN eks |-> Empty],
                        okis |-> [i \in DOMAIN eks |-> Empty], reference |-> FALSE, place |-> Alone]

WithKeys == {Template(<<e, f>>, <<EkKid(1), EkKid(2)>>) : e, f \in SomeEks}
OneKey == {Template(<<e>>, kids) : e \in SomeEks \union
             {EK("Rsa", 2, TRUE, <<>>, <<>>), EK("other", 0, TRUE, <<>>, <<>>),
              EK("KwAes", 32, TRUE, <<>>, <<Agree("DhEs", "me", "ec", "none")>>),
              EK("KwAes", 32, TRUE, <<>>, <<Agree("X25519", "me", "ec", "none")>>)},
             kids \in {<<[t |-> "RetrievalMethod", ek |-> 1]>>, <<NameKid("a16"), EkKid(1)>>,
                       <<[t |-> "RetrievalMethod", ek |-> 0]>>}}

\* KeyInfos without EncryptedKeys.
Names == {NameKid("a16"), NameKid("b16"), NameKid("a32"), NameKid("alice"), NameKid("nobody")}
Deriveds == {DerKid("a16", "ConcatKdf"), DerKid("b16", "ConcatKdf"), DerKid("nobody", "ConcatKdf"), DerKid(NoName, "Pbkdf2"),
             DerKid("a16", "Hkdf")}
NoKeys == {Template(<<>>, <<>>)} \union {Template(<<>>, <<c>>) : c \in Names \union Deriveds}
            \union {Template(<<>>, <<c, d>>) : c, d \in Names \union Deriveds}

\* Documents that already have content, a GCM or an unsupported cipher, a CipherReference.
Others == LET t == Template(<<EK("KwAes", 16, TRUE, <<>>, <<>>), EK("KwAes", 16, TRUE, <<>>, <<>>)>>,
                            <<EkKid(1), EkKid(2)>>)
          IN  {[t EXCEPT !.text[1] = Filled], [t EXCEPT !.eks[2].form = "b", !.eks[1].method = "missing"],
               [t EXCEPT !.method.auth = TRUE], [t EXCEPT !.method.size = 0],
               [t EXCEPT !.reference = TRUE]}
               \union LET a == EK("KwAes", 32, TRUE, <<>>, <<Agree("EcdhEs", "me", "ec", "ConcatKdf")>>)
                          u == Template(<<a, a>>, <<EkKid(1), EkKid(2)>>)
                      IN  {[u EXCEPT !.text[2] = Filled], [u EXCEPT !.text[1] = Filled],
                           [u EXCEPT !.text[1] = Filled, !.okis[1] = <<"E">>, !.kids = <<EkKid(2)>>],
                           [u EXCEPT !.kids = <<NameKid("a16")>>]}

\* The sender has the public keys and the symmetric keys.
SenderKeys == <<Key("a16", "Aes", "k16", FALSE, 16), Key("a32", "Aes", "k32", FALSE, 32),
                Key("b16", "Aes", "kb", FALSE, 16),
                Key("alice", "Rsa", "A", FALSE, 0), Key("bob", "Rsa", "B", FALSE, 0),
                Key("d3", "Des3", "k24", FALSE, 24), Key("me", "Ec", "M", TRUE, 0),
                Key("ec", "Ec", "E", FALSE, 0)>>
Sym(ks) == SelectSeq(ks, LAMBDA k : HasSymmetricBytes(k))
Alice == Key("alice", "Rsa", "A", TRUE, 0)
Bob == Key("bob", "Rsa", "B", TRUE, 0)

\* Receivers: each recipient alone, one with both RSA keys, the agreement partner, one with
\* a symmetric key of another value, the sender itself, one without keys.
Receivers == {Ctx(ks) : ks \in {<<Alice>>, <<Bob>>, <<Bob, Alice>>,
                                <<Key("ec", "Ec", "E", TRUE, 0)>>,
                                <<Key("a16", "Aes", "other", FALSE, 16)>>,
                                Sym(SenderKeys), SenderKeys, <<>>}}
               \union {[Ctx(<<>>) EXCEPT !.hsm.rsa = On({1}, "B")],
                       [Ctx(<<>>) EXCEPT !.hsm.kw = On({16}, "k16"),
                                         !.disable_cipher_reference = TRUE]}

Senders == {Ctx(SenderKeys)}
OtherSenders == {Ctx(<<>>), Ctx(<<Alice>>), [Ctx(SenderKeys) EXCEPT !.hsm.rsa = On({2}, "B"),
                                                                    !.hsm.kw = On({16}, "k16")]}

\* Texts: an element a with a content, and its surroundings.
Open(n, f) == Tok("open", n, f)
Close(n) == Tok("close", n, "plain")
EmptyTag(n, f) == Tok("empty", n, f)
Elem(f, content) == <<Open("a", f)>> \o content \o <<Close("a")>>
Chars == Plain("chars")
Decl(e) == Tok("decl", e, "plain")

\* A comment or processing instruction, and a CDATA section, with a content.
Comment(c) == <<Plain("comment")>> \o c \o <<Plain("commentend")>>
CData(c) == <<Plain("cdata")>> \o c \o <<Plain("dataend")>>

\* What misleads the rewriting of tags: an unfinished tag, an open quotation.
Unfinished == Tok("lt", "a", "plain")
Misleading == {Comment(<<Unfinished, Plain("gt")>>), CData(<<Plain("quote"), Tok("slash", "", "space")>>)}

\* Line ends, empty elements in every form, sections and other encodings.
Contents == {<<>>, <<Chars>>, <<Chars, Plain("CR"), LF, Chars>>, <<LF, Plain("CR"), Plain("CR"), LF>>,
             <<Plain("hi"), Chars>>, <<Plain("wide"), Plain("hi")>>, <<Plain("gt"), Chars>>, Comment(<<>>),
             Comment(<<Chars, Plain("CR"), Plain("gt"), Plain("cdata")>>), <<Plain("quote"), Tok("slash", "", "space"), Chars>>,
             CData(<<Plain("gt"), Chars, Tok("slash", "", "plain")>>) \o <<EmptyTag("b", "attrspace"), Plain("quote")>>}
              \union Misleading
              \union {<<EmptyTag("b", f)>> : f \in {"plain", "space", "attr", "attrspace"}}
              \union {<<EmptyTag("a", "plain")>>, <<EmptyTag("a", "attr"), LF>>,
                      <<Open("b", "attr"), Close("b")>>, <<Open("a", "attr"), Close("a")>>,
                      <<Plain("CR"), EmptyTag("b", "space"), Plain("CR")>>,
                      <<Open("a", "plain"), Close("a"), Open("b", "space"), Close("b")>>}

Payloads == (UNION {{Elem(f, c), c} : f \in {"plain", "space"}, c \in Contents} \ {<<>>})
              \union {<<LF, Decl("latin1"), EmptyTag("a", "plain"), Plain("hi")>>}
Prologs == {<<>>, <<Decl("utf8"), LF>>, <<Decl("latin1"), LF, Plain("doctype")>>, <<Plain("doctype")>>}
Roots == {Place4(p, <<LF>>, "Element", FALSE) : p \in Prologs}
Wrapped == {Place4(p \o <<Open("w", "attr")>> \o x, y \o <<Close("w")>>, "Element", FALSE) :
              p \in {<<>>, <<Decl("latin1")>>}, x \in {<<>>, <<Plain("CR")>>, <<Open("b", "space"), Close("b"), Plain("hi")>>},
              y \in {<<>>, <<LF, EmptyTag("b", "attrspace")>>}}
             \union {Place4(Comment(<<Open("w", "plain")>>), <<>>, "Element", FALSE)}
Types == {[ty |-> "Content", o |-> TRUE], [ty |-> "", o |-> FALSE], [ty |-> "", o |-> TRUE],
          [ty |-> "other", o |-> FALSE]}
Places == Roots \union Wrapped
            \union {[p EXCEPT !.type = t.ty, !.mime_other = t.o] :
                       p \in {Alone, Place4(<<Open("w", "plain")>>, <<Close("w")>>, "", FALSE)}, t \in Types}

\* CipherReferences: one element of the ID, several, none, of another name.
El(id, n, t) == [id |-> id, name |-> n, text |-> t]
ElementLists == {<<El("c", "Box", "b64")>>, <<El("x", "Box", "mixed"), El("c", "Box", "b64")>>,
                 <<El("c", "Box", "b64"), El("c", "Lid", "mixed")>>, <<El("c", "Box", "mixed")>>, <<>>}
Reference(u, n, es, ts) == [uri |-> u, id |-> "c", name |-> n, els |-> es, only |-> Len(es) = 1, transforms |-> ts]
References == {Reference(u, n, es, ts) : u \in {"", "#"}, n \in {"Box", "Lid", "unsupported"}, es \in ElementLists,
                 ts \in {<<>>, <<"Base64">>, <<"XPath", "Base64">>, <<"Other">>, <<"Base64", "Base64">>}}
                \union {Reference("http", "Box", <<>>, <<>>)}
SomeReference == Reference("#", "Box", <<El("c", "Box", "b64")>>, <<"Base64">>)

MakeJobs(ts, ss, rs) == {[tpl |-> t, sender |-> s, receiver |-> r, detached |-> <<>>,
                          data |-> <<EmptyTag("a", "plain")>>, node |-> <<>>] :
                            t \in ts, s \in ss, r \in rs}

\* One shared key; every payload at every place, and nodes of a data file.
Shared == CHOOSE j \in MakeJobs({Template(<<>>, <<NameKid("a16")>>)}, Senders, {Ctx(SenderKeys)}) : TRUE

TextJobs == {[Shared EXCEPT !.tpl.place = p, !.data = t] : p \in Places, t \in Payloads}
              \union {[Shared EXCEPT !.tpl.place = p, !.data = d \o <<Open("r", "plain")>> \o t \o <<Close("r")>>, !.node = n] :
                        p \in Roots \union Wrapped, d \in {<<>>, <<Decl("latin1")>>},
                        t \in {Elem("plain", Elem("attr", <<Chars>>)), <<Chars, EmptyTag("a", "attr")>>, <<Plain("hi")>>},
                        n \in {<<>>, <<"a">>}}

ReferenceJobs == {[Shared EXCEPT !.detached = <<r>>] : r \in References}

EncJobs == MakeJobs(WithKeys \union OneKey \union NoKeys \union Others, Senders, Receivers)
             \union MakeJobs(OneKey \union NoKeys, OtherSenders, {Ctx(SenderKeys)})
             \union {[j EXCEPT !.detached = <<SomeReference>>] : j \in MakeJobs(Others, Senders, Receivers)}
             \union TextJobs \union ReferenceJobs

\* Inputs of the runs that examine one disagreement each.
FailingDerivations ==
    MakeJobs({Template(<<>>, <<DerKid("a16", "ConcatKdf"), NameKid("a16")>>),
              Template(<<>>, <<NameKid("a16"), DerKid("nobody", "ConcatKdf")>>)},
             Senders, {Ctx(Sym(SenderKeys))})

\* The key agreement stands behind another recipient, alone, or before it.
Agreeing == EK("KwAes", 32, TRUE, <<>>, <<Agree("EcdhEs", "me", "ec", "ConcatKdf")>>)
AgreementJobs ==
    MakeJobs({Template(es, <<EkKid(1)>>) : es \in {<<Agreeing>>, <<Agreeing, EK("Rsa", 1, TRUE, <<"alice">>, <<>>)>>,
                                                 <<EK("Rsa", 1, TRUE, <<"alice">>, <<>>), Agreeing>>}},
             Senders, {Ctx(<<Alice>>)})

\* The last child of an element is an empty element of the same name, or a section in
\* which a tag of the name begins.
NestedJobs == {[Shared EXCEPT !.data = Elem("plain", c)] :
                 c \in {<<Chars>>, <<EmptyTag("a", "plain")>>, <<EmptyTag("b", "attr")>>, <<EmptyTag("a", "attr")>>,
                       Comment(<<Unfinished>>)}}
=============================================================================
