----------------------------- MODULE SignVerify -----------------------------
(***************************************************************************)
(* sign() and verify() composed: the document sign() returns is given to   *)
(* the verifier that the signer's context names as its peer.               *)
(***************************************************************************)
EXTENDS DsigSign

VARIABLES doc, ctx, pc, hmac, vrefs, key, source, leaf, result

vvars == <<doc, ctx, pc, hmac, vrefs, key, source, leaf, result>>

V == INSTANCE DsigVerify WITH Docs <- {}, Ctxs <- {}

-----------------------------------------------------------------------------
(* The signed document as verify() parses it.                              *)

\* A DigestValue as read back: its text, or a missing element.
SignedRef(i) ==
    LET s == DigestSlot(i)
        r == Sdoc.refs[i]
        lost == s = 0 \/ Nameless(content, s)
    IN  [r EXCEPT !.value = CASE lost -> "missing"
                              [] ~lost /\ content[s] \in {Empty, Text} -> r.value
                              [] OTHER -> "ok",
                  !.expected = IF s = 0 THEN Empty ELSE content[s],
                  !.actual = Digest(r, content)]

\* The SignatureValue as read back.  Empty or foreign text is the signature of no key.
SignedValue ==
    LET lost == ValueSlot = 0 \/ Nameless(content, ValueSlot)
        v == IF lost THEN Empty ELSE content[ValueSlot]
    IN  IF v = Empty \/ v = Text
        THEN [form |-> IF lost THEN "missing" ELSE "ok", len |-> 0,
              by |-> "none", intact |-> FALSE]
        ELSE [form |-> "ok", len |-> v[3], by |-> v[2], intact |-> v[4] = SignedInfoText(content)]

\* The children of an element, with the populated ones in their places.  A child that has
\* left its namespace is none verify() knows; of an X509Template only the children that
\* were empty have left it.
SignedKids(n) ==
    [k \in DOMAIN Sdoc.kids[n] |->
        LET s == FirstOf({t \in Slots : /\ tpl.slots[t].node = n /\ tpl.slots[t].kid = k
                                        /\ content[t] # Empty /\ content[t] # Text})
            lost == s # 0 /\ Nameless(content, s)
        IN  CASE s = 0 \/ (lost /\ Kind(s) = "X509Template") -> Sdoc.kids[n][k]
              [] lost /\ Kind(s) # "X509Template" -> [t |-> "other"]
              [] OTHER -> content[s][2]]

SignedDocument ==
    [Sdoc EXCEPT !.parses = Parses(content),
                 !.ids = IdsNow(content),
                 !.refs = [i \in DOMAIN Sdoc.refs |-> SignedRef(i)],
                 !.sv = SignedValue,
                 !.kids = [n \in Nodes(Sdoc) |-> SignedKids(n)]]

-----------------------------------------------------------------------------
Init == /\ SInit
        /\ doc = tpl.doc /\ ctx = signer.peer
        /\ pc = "idle" /\ hmac = NoLength /\ vrefs = <<>> /\ key = NoKey
        /\ source = "none" /\ leaf = <<>> /\ result = "pending"

SignStep == SNext /\ UNCHANGED vvars

Deliver == /\ status = "Ok" /\ pc = "idle"
           /\ doc' = SignedDocument
           /\ pc' = "parse"
           /\ UNCHANGED <<ctx, hmac, vrefs, key, source, leaf, result>>
           /\ UNCHANGED svars

VerifyStep == V!Next /\ UNCHANGED svars

Next == SignStep \/ Deliver \/ VerifyStep

\* Both functions run to their end.
Spec == Init /\ [][Next]_<<svars, vvars>> /\ WF_<<svars, vvars>>(Next)

-----------------------------------------------------------------------------
(* Properties.                                                             *)

\* HMACOutputLength values for which truncating and checking agree; an HSM does not
\* truncate.
LengthAgrees ==
    Sdoc.method = "Hmac" /\ Sdoc.hmaclen # "absent" =>
        /\ Sdoc.hmaclen = "bits" /\ LengthOK(Sdoc.bits, ctx.hmac_min)
        /\ Sdoc.bits \div 8 <= Sdoc.fullmac
        /\ signer.hsm.on => Sdoc.bits \div 8 = Sdoc.fullmac

PositionsAgree ==
    ctx.strict => \A i \in DOMAIN Sdoc.refs :
                      Sdoc.refs[i].uri = "id" => PositionOK(Sdoc, IdMap(Sdoc, Sdoc.refs[i].id))

\* The HSM path of sign() does not read a context string of a post-quantum method.
ContextAgrees == signer.hsm.on /\ Sdoc.method = "Pq" => Sdoc.pqctx = "absent"

\* A key that verifies what the signer signs, and that the policy of the peer admits.
Serves(k, src) == /\ k # NoKey /\ k.mat = SignerMat
                  /\ k.kind = Sdoc.method /\ Sdoc.method # "unknown" /\ HasSigningKey(k)
                  /\ V!NeedsX509(ctx, k, src) => V!ChainOK(ctx, k)

\* The KeyInfo of the template; it does not refer to another one.
InfoKids == Sdoc.kids[Sdoc.ki]
OwnInfo == Sdoc.ki # 0 /\ \A j \in DOMAIN InfoKids : InfoKids[j].t # "KeyInfoReference"

\* The peer uses its own keys, and has the right one: it has no other, it takes the first
\* one for want of a KeyInfo, or the first KeyName it knows leads there.
OwnKey ==
    LET good(i) == i \in DOMAIN ctx.keys /\ Serves(ctx.keys[i], "manager")
        named == {j \in DOMAIN InfoKids : KeyByName(InfoKids[j], ctx.keys) # 0}
    IN  \/ /\ Sdoc.ki = 0 \/ ctx.trusted_keys_only
           /\ ctx.keys # <<>> /\ \A i \in DOMAIN ctx.keys : good(i)
        \/ Sdoc.ki = 0 /\ good(1)
        \/ /\ OwnInfo /\ ctx.trusted_keys_only
           /\ named # {} /\ good(KeyByName(InfoKids[FirstOf(named)], ctx.keys))

\* The template's KeyInfo carries no key, so that the signer's are the only ones.
BlankInfo == OwnInfo /\ \A j \in DOMAIN InfoKids : InlineKey(InfoKids[j]) = NoKey

\* The key verify() takes from what populate_x509_data writes.
X509Key == IF SigningKey.chain = <<>> THEN NoKey
           ELSE extract_x509_certificate(X509Content(X509Slot).certs)

\* A place of the KeyInfo that sign() writes a key into.
Announces(s) ==
    /\ tpl.slots[s].node = Sdoc.ki
    /\ \/ s = X509Slot /\ Writes509(s) /\ X509Key # NoKey
       \/ /\ Kind(s) = "KeyValue" /\ s = FirstOfKind({"KeyValue"})
          /\ tpl.text[s] = Empty /\ SigningKey.kind \in KeyValueKinds
       \/ /\ Kind(s) = "DEREncodedKeyValue" /\ s = FirstOfKind({"DEREncodedKeyValue"})
          /\ tpl.text[s] = Empty /\ SigningKey.kind \in SpkiKinds

\* The peer has nothing and takes the key from the KeyInfo that sign() has populated; the
\* certificate verify() takes, if sign() has written one, is one of the signing key.
InlineKeyGiven ==
    /\ ~ctx.trusted_keys_only /\ ~signer.hsm.on /\ BlankInfo
    /\ Sdoc.method # "unknown"
    /\ \E s \in Slots : Announces(s)
    /\ X509Slot # 0 /\ Announces(X509Slot) => Serves(X509Key, "x509")

\* The peer has the key-encryption key of the first EncryptedKey, in which sign() wraps the
\* MAC key.
SessionKeyGiven ==
    LET i == FirstOf({j \in DOMAIN InfoKids : InfoKids[j].t = "EncryptedKey"})
        ek == InfoKids[i]
        kek == UnwrapKek(ek, ctx.keys)
    IN  /\ ~ctx.trusted_keys_only /\ ~signer.hsm.on /\ BlankInfo
        /\ Sdoc.method = "Hmac" /\ SigningKey.chain = <<>>
        /\ i # 0 /\ ek.method # "missing"
        /\ \E s \in Slots : /\ Kind(s) = "CipherValue" /\ tpl.text[s] = Empty
                            /\ tpl.slots[s].node = Sdoc.ki /\ tpl.slots[s].kid = i
        /\ HasSymmetricBytes(WrapKey(ek))
        /\ kek # 0 /\ ctx.keys[kek].mat = WrapKey(ek).mat

\* Everything the two sides need.
PeerEquipped == ~ctx.hsm.on /\ (OwnKey \/ InlineKeyGiven \/ SessionKeyGiven)
Agreed == WellFormed /\ LengthAgrees /\ PositionsAgree /\ ContextAgrees /\ PeerEquipped

\* A signed document verifies: whatever a well-formed template contains, and whether the
\* peer finds the key in its manager, in the populated KeyInfo or by unwrapping the
\* session key, verify() returns Valid for what sign() returned.
RoundTrip == pc = "done" /\ Agreed => result = "Valid"

\* The pair of calls gets there: once sign() has returned such a document, verify()
\* eventually returns Valid for it (neither loops over its children or references).
EventuallyVerified ==
    (status = "Ok" /\ Agreed) ~> (result = "Valid")
=============================================================================
