------------------------------ MODULE DsigSign ------------------------------
(***************************************************************************)
(* sign() of crates/bergshamra-dsig/src/sign.rs: a template document is    *)
(* turned into a signed one by filling in its empty elements, one text     *)
(* replacement at a time.                                                  *)
(*                                                                         *)
(* A template is a record:                                                 *)
(*   doc    the document as SigDoc describes it, its DigestValues,         *)
(*          SignatureValue and populated KeyInfo children aside            *)
(*   info   the SignedInfo element of the first Signature                  *)
(*   slots  the text-bearing places of the document in document order:     *)
(*          kind   "text", or the element name of a place sign() can fill; *)
(*                 an X509Data with child elements is an "X509Template"    *)
(*          node   the element it belongs to                               *)
(*          ref    for a DigestValue of this Signature, its Reference      *)
(*          kid    for a KeyInfo child, its position among the children    *)
(*          own    the elements of the tree that are the place itself      *)
(*          decl   where the namespace of its tag is declared: "above" it, *)
(*                 in the tag itself, as a "prefix" or as the "default",   *)
(*                 or in both ("again")                                    *)
(*          parts  the children of an X509Template: its X509Certificates   *)
(*                 and X509IssuerSerials, <<>> for an empty one; whether   *)
(*                 an empty X509SubjectName or X509SKI is among them       *)
(*                 (names); the elements of the tree that are empty        *)
(*                 children (tags)                                         *)
(*   text   the initial content of every slot, Empty or not                *)
(*                                                                         *)
(* The content of a slot is a tuple that says where the text comes from;   *)
(* a digest and a signature value contain what they were computed over.    *)
(***************************************************************************)
EXTENDS SigDoc

CONSTANT Jobs        \* what sign() may be called with: pairs [tpl, signer]

Empty == <<>>
Text == <<"text">>

X509Names == {"X509Data", "X509Template"}
KeyInfoNames == X509Names \union {"KeyValue", "DEREncodedKeyValue", "CipherValue"}
PlaceNames == {"DigestValue", "SignatureValue"} \union KeyInfoNames

\* The child of a KeyInfo a slot of that kind is the content of.
ChildTag(kind) == CASE kind \in X509Names -> "X509Data"
                    [] kind \in {"KeyValue", "DEREncodedKeyValue"} -> "KeyValue"
                    [] OTHER -> "EncryptedKey"

\* The slots of a template are listed in document order, each with its text; those of KeyInfo
\* children belong to a child of their kind.
TemplateOK(t) ==
    /\ DocOK(t.doc) /\ t.doc.fullmac \in Nat
    /\ DOMAIN t.doc = {"parses", "parent", "ids", "kids", "sigs", "signedinfo", "c14n", "method",
                       "hmaclen", "bits", "fullmac", "pqctx", "refs", "sv", "ki"}
    /\ \A i \in DOMAIN t.doc.refs :
         DOMAIN t.doc.refs[i] = {"uri", "id", "ext", "method", "value", "transforms", "enveloped",
                                 "expected", "actual"}
    /\ \A n \in Nodes(t.doc) : \A k \in DOMAIN t.doc.kids[n] :
         t.doc.kids[n][k].t = "EncryptedKey" =>
            DOMAIN t.doc.kids[n][k] = {"t", "method", "size", "names", "wrapped", "mat"}
    /\ IsSeq(t.slots) /\ IsSeq(t.text) /\ DOMAIN t.text = DOMAIN t.slots
    /\ \A s \in DOMAIN t.slots :
         /\ t.text[s] \in {Empty, Text}
         /\ t.slots[s].decl \in {"above", "prefix", "default", "again"}
         /\ t.slots[s].kind = "X509Template" =>
               t.text[s] = Empty /\ IsSeq(t.slots[s].parts.certs) /\ IsSeq(t.slots[s].parts.serials)
         /\ t.slots[s].kind \in {"DigestValue", "SignatureValue"} => t.slots[s].kid = 0
         /\ t.slots[s].kind \in KeyInfoNames =>
               /\ t.slots[s].node \in Nodes(t.doc)
               /\ t.slots[s].kid \in DOMAIN t.doc.kids[t.slots[s].node]
               /\ t.doc.kids[t.slots[s].node][t.slots[s].kid].t = ChildTag(t.slots[s].kind)

KeysOK(ks) == /\ IsSeq(ks)
              /\ \A i \in DOMAIN ks : DOMAIN ks[i] = DOMAIN NoKey /\ IsSeq(ks[i].chain)

ASSUME JobsAssumption ==
    \A j \in Jobs : /\ j = [tpl |-> j.tpl, signer |-> j.signer]
                    /\ TemplateOK(j.tpl)
                    /\ KeysOK(j.signer.keys) /\ KeysOK(j.signer.peer.keys)

VARIABLES tpl,      \* the template
          signer,   \* the DsigContext: its keys and its HSM signer
          content,  \* result_xml: the content of every slot
          ref,      \* ref_idx, from 1
          spc,      \* the stage sign() has reached
          status    \* "pending", "Ok" or "Err"

svars == <<tpl, signer, content, ref, spc, status>>

-----------------------------------------------------------------------------
(* The document, seen through its slots.                                   *)

Slots == DOMAIN tpl.slots
Sdoc == tpl.doc
Kind(s) == tpl.slots[s].kind

\* The slots below an element, or in it.
Below(n) == {s \in Slots : n \in AncestorsOrSelf(Sdoc, tpl.slots[s].node) \union tpl.slots[s].own}

\* The slots whose text enters the digest of a Reference: its target, less the
\* Signature when the transforms start with enveloped-signature.
Covers(r) ==
    LET target == CASE r.uri = "id" -> Below(IdMap(Sdoc, r.id))
                    [] r.uri = "ext" -> {}
                    [] OTHER -> Slots
    IN  target \ (IF r.enveloped THEN Below(SignatureNode(Sdoc)) ELSE {})

\* digest::digest over the canonical text: equal for equal content only.
Digest(r, c) == <<"digest", r.uri, [s \in Covers(r) |-> c[s]]>>

SignedInfoText(c) == [s \in Below(tpl.info) |-> c[s]]

\* The DigestValue of a Reference of this Signature, 0 if it has none.
DigestSlot(i) == FirstOf({s \in Slots : Kind(s) = "DigestValue" /\ tpl.slots[s].ref = i})

\* The SignatureValue child of the first Signature.
ValueSlot == FirstOf({s \in Slots : /\ Kind(s) = "SignatureValue"
                                    /\ tpl.slots[s].node = SignatureNode(Sdoc)})

\* The first place of these names.
FirstOfKind(names) == FirstOf({s \in Slots : Kind(s) \in names})

-----------------------------------------------------------------------------
(* Start tags.  Only DEREncodedKeyValue and CipherValue keep theirs: the   *)
(* others are written anew, without attributes or declarations.            *)

TagKept == {"DEREncodedKeyValue", "CipherValue"}

Changed(c) == {s \in Slots : c[s] # tpl.text[s]}
Retagged(c) == {s \in Changed(c) : Kind(s) \notin TagKept}

\* The elements whose tags filling a slot writes anew.
NewTags(s) == CASE Kind(s) \in TagKept -> {}
                [] Kind(s) = "X509Template" -> tpl.slots[s].parts.tags
                [] OTHER -> tpl.slots[s].own

\* A prefix that only the old tag declared is unbound now; the new tag of a bare X509Data
\* has no prefix when the old one declared it, its certificates have.
Parses(c) == Sdoc.parses /\ \A s \in Retagged(c) : tpl.slots[s].decl # "prefix"

\* An element that has left its namespace.
Nameless(c, s) == /\ s \in Retagged(c)
                  /\ \/ tpl.slots[s].decl = "default"
                     \/ tpl.slots[s].decl = "again" /\ Kind(s) = "X509Data"

\* The ID attributes the document has now.
IdsNow(c) == LET gone == UNION {NewTags(s) : s \in Changed(c)}
             IN  [n \in Nodes(Sdoc) |-> IF n \in gone THEN <<>> ELSE Sdoc.ids[n]]

DocNow(c) == [Sdoc EXCEPT !.ids = IdsNow(c)]

IsEmpty(c, s) == s = 0 \/ c[s] = Empty \/ Nameless(c, s)

\* Variant: the last empty element of that name.
ReplaceLastEmpty(c, name, value) ==
    LET S == {t \in Slots : Kind(t) = name /\ c[t] = Empty}
    IN  IF S = {} THEN c ELSE [c EXCEPT ![LastOf(S)] = value]

\* replace_first_empty_element: the first empty element of that name in the WHOLE
\* document, wherever it is; no change when there is none.
replace_first_empty_element(c, name, value) ==
    LET s == FirstOf({t \in Slots : Kind(t) = name /\ c[t] = Empty})
    IN  IF s = 0 THEN c ELSE [c EXCEPT ![s] = value]

\* Variant: the element is written whether it is empty or not.
PopulateAlways(c, names) == FirstOfKind(names)

\* populate_key_value and populate_der_encoded_key_value look at the first element of the
\* name only, and write into it if it is empty.
PopulateFirst(c, names) ==
    LET s == FirstOfKind(names)
    IN  IF s = 0 \/ c[s] # Empty THEN 0 ELSE s

\* populate_x509_data: the first X509Data.  Without child elements it is written whatever
\* its text; with some, when one of those that sign() knows is empty.
X509Slot == FirstOfKind(X509Names)
Writes509(s) == \/ Kind(s) = "X509Data"
                \/ /\ Kind(s) = "X509Template"
                   /\ LET p == tpl.slots[s].parts
                      IN  \/ p.names
                          \/ \E i \in DOMAIN p.certs : p.certs[i] = <<>>
                          \/ \E i \in DOMAIN p.serials : p.serials[i] = <<>>

\* Variant: template children are left empty.
PopulateBareX509(c) == IF X509Slot = 0 \/ Kind(X509Slot) # "X509Data" THEN 0 ELSE X509Slot

PopulateX509(c) == IF X509Slot = 0 \/ ~Writes509(X509Slot) THEN 0 ELSE X509Slot

\* A KeyInfo child written into slot s, nothing if there is none.
Write(c, s, kid) == [t \in Slots |-> IF t = s THEN <<"kid", kid>> ELSE c[t]]

-----------------------------------------------------------------------------
(* The stages.                                                             *)

Stop(v) == /\ status' = v
           /\ spc' = "done"
           /\ UNCHANGED <<tpl, signer, content, ref>>

Fill(c, stage) == /\ content' = c
                  /\ spc' = stage
                  /\ UNCHANGED <<tpl, signer, ref, status>>

\* The stages that parse the document anew.
Reparses == \/ spc \in {"refs", "keyvalue", "der"}
            \/ spc = "x509" /\ KeyAt(signer.keys, first_key(signer.keys)).chain # <<>>
            \/ spc = "session" /\ HasSymmetricBytes(KeyAt(signer.keys, first_key(signer.keys)))
Reparsed == Reparses => Parses(content)

\* sign() has written a tag that can no longer be parsed.
SReparseFails == Reparses /\ ~Parses(content) /\ Stop("Err")

SParseFails == spc = "parse" /\ ~StructureOK(Sdoc) /\ Stop("Err")

SParse == spc = "parse" /\ StructureOK(Sdoc) /\ Fill(content, "refs")

Ref_i == Sdoc.refs[ref]
MoreRefs == spc = "refs" /\ Reparsed /\ ref <= Len(Sdoc.refs)

\* The ID of a Reference is looked up in the document as it is now.
RefCannotDigest(d, r) == \/ r.method # "ok"
                         \/ ~Resolves(d, r)
                         \/ ~r.transforms

SkipCid == /\ MoreRefs /\ Ref_i.uri = "cid"
           /\ ref' = ref + 1
           /\ UNCHANGED <<tpl, signer, content, spc, status>>

SReferenceFails == MoreRefs /\ Ref_i.uri # "cid" /\ RefCannotDigest(DocNow(content), Ref_i)
                   /\ Stop("Err")

\* A DigestValue that already has text stays as it is.
DigestReference ==
    /\ MoreRefs /\ Ref_i.uri # "cid" /\ ~RefCannotDigest(DocNow(content), Ref_i)
    /\ content' = IF IsEmpty(content, DigestSlot(ref))
                  THEN replace_first_empty_element(content, "DigestValue", Digest(Ref_i, content))
                  ELSE content
    /\ ref' = ref + 1
    /\ UNCHANGED <<tpl, signer, spc, status>>

DigestsDone == spc = "refs" /\ Reparsed /\ ref > Len(Sdoc.refs) /\ Fill(content, "sign")

\* The software key is the first key of the manager.
SigningKey == KeyAt(signer.keys, first_key(signer.keys))

CanSign == /\ SigningKey # NoKey
           /\ HasSigningKey(SigningKey)
           /\ ~(Sdoc.method = "Pq" /\ Sdoc.pqctx = "bad")
           /\ SigningKey.kind = Sdoc.method
           /\ SigningKey.priv \/ SigningKey.kind = "Hmac"

\* The length of the value: a well-formed HMACOutputLength below the MAC's length
\* truncates it, any other is ignored.
ValueLength == IF Sdoc.method = "Hmac" /\ Sdoc.hmaclen = "bits" /\ Sdoc.bits % 8 = 0
                  /\ Sdoc.bits \div 8 < Sdoc.fullmac
               THEN Sdoc.bits \div 8 ELSE Sdoc.fullmac

SignatureBy(mat, len) == <<"sig", mat, len, SignedInfoText(content)>>

\* Variant: the error is noted and sign() goes on.
SigningFailsNoReturn == /\ spc = "sign"
                        /\ signer.hsm.on \/ ~CanSign
                        /\ status' = "Err"
                        /\ UNCHANGED <<tpl, signer, content, ref, spc>>

\* The HSM's sign call may fail.
SigningFails == /\ spc = "sign"
                /\ signer.hsm.on \/ ~CanSign
                /\ Stop("Err")

HsmSign == /\ spc = "sign" /\ signer.hsm.on
           /\ signer.hsm.alg = Sdoc.method
           /\ Fill(replace_first_empty_element(content, "SignatureValue",
                       SignatureBy(signer.hsm.mat, Sdoc.fullmac)), "finish")

SoftwareSign == /\ spc = "sign" /\ ~signer.hsm.on
                /\ CanSign
                /\ Fill(replace_first_empty_element(content, "SignatureValue",
                            SignatureBy(SigningKey.mat, ValueLength)), "x509")

\* Every empty child of an X509Template gets its part of the first certificate.
FirstForEmpty(q, v) == [i \in DOMAIN q |-> IF q[i] = <<>> THEN v ELSE q[i][1]]

\* A bare X509Data gets the whole chain, one with template children the data of the first
\* certificate wherever a child is empty.
X509Content(s) ==
    LET c == SigningKey.chain
    IN  [t |-> "X509Data",
         certs |-> IF Kind(s) = "X509Data" THEN c
                   ELSE FirstForEmpty(tpl.slots[s].parts.certs, c[1]),
         serials |-> IF Kind(s) = "X509Data" THEN <<>>
                     ELSE FirstForEmpty(tpl.slots[s].parts.serials,
                                        [iss |-> c[1].iss, serial |-> c[1].serial])]

PopulateX509Data ==
    /\ spc = "x509" /\ Reparsed
    /\ Fill(IF SigningKey.chain = <<>> THEN content
            ELSE Write(content, PopulateX509(content), X509Content(X509Slot)), "keyvalue")

\* to_key_value_xml and to_spki_der have a result for some kinds of key only.
PublicKey == [t |-> "KeyValue",
              key |-> [SigningKey EXCEPT !.name = NoName, !.priv = FALSE, !.chain = <<>>]]

PopulateKeyValue ==
    /\ spc = "keyvalue" /\ Reparsed
    /\ Fill(IF SigningKey.kind \notin KeyValueKinds THEN content
            ELSE Write(content, PopulateFirst(content, {"KeyValue"}), PublicKey), "der")

PopulateDer ==
    /\ spc = "der" /\ Reparsed
    /\ Fill(IF SigningKey.kind \notin SpkiKinds THEN content
            ELSE Write(content, PopulateFirst(content, {"DEREncodedKeyValue"}), PublicKey), "session")

\* encrypt_session_key_in_template: the EncryptedKeys with an empty CipherValue, a
\* method and a KeyName the manager has a symmetric key for.
EncryptedKeyOf(s) == Sdoc.kids[tpl.slots[s].node][tpl.slots[s].kid]

WrapKey(ek) == KeyAt(signer.keys,
                     IF ek.names = <<>> THEN 0 ELSE find_by_name(signer.keys, ek.names[1]))

ToWrap == {s \in Slots : /\ Kind(s) = "CipherValue" /\ content[s] = Empty
                         /\ EncryptedKeyOf(s).method # "missing"
                         /\ HasSymmetricBytes(WrapKey(EncryptedKeyOf(s)))}

\* keywrap::from_uri and wrap: an AES key wrap needs a key of its own size.
CannotWrap(ek) == \/ ek.method \notin {"KwAes", "KwDes3"}
                  \/ WrapKey(ek).size # ek.size

Wrapped(ek) == [ek EXCEPT !.wrapped = WrapKey(ek).mat, !.mat = SigningKey.mat]

SessionKeyFails == /\ spc = "session" /\ Reparsed /\ HasSymmetricBytes(SigningKey)
                   /\ \E s \in ToWrap : CannotWrap(EncryptedKeyOf(s))
                   /\ Stop("Err")

EncryptSessionKey ==
    /\ spc = "session" /\ Reparsed
    /\ HasSymmetricBytes(SigningKey) => \A s \in ToWrap : ~CannotWrap(EncryptedKeyOf(s))
    /\ Fill(IF ~HasSymmetricBytes(SigningKey) THEN content
            ELSE [s \in Slots |-> IF s \in ToWrap THEN <<"kid", Wrapped(EncryptedKeyOf(s))>>
                                                  ELSE content[s]], "finish")

ReturnSigned == spc = "finish" /\ Stop("Ok")

-----------------------------------------------------------------------------
SInit == /\ \E j \in Jobs : tpl = j.tpl /\ signer = j.signer
         /\ content = tpl.text
         /\ ref = 1
         /\ spc = "parse"
         /\ status = "pending"

SNext == \/ SParseFails \/ SParse \/ SReparseFails
         \/ SkipCid \/ SReferenceFails \/ DigestReference \/ DigestsDone
         \/ SigningFails \/ HsmSign \/ SoftwareSign
         \/ PopulateX509Data \/ PopulateKeyValue \/ PopulateDer
         \/ SessionKeyFails \/ EncryptSessionKey \/ ReturnSigned

SSpec == SInit /\ [][SNext]_svars
-----------------------------------------------------------------------------
(* Properties.                                                             *)

SStages == {"parse", "refs", "sign", "x509", "keyvalue", "der", "session", "finish", "done"}

\* Type invariant: the number of slots never changes, and ref stays within one of the
\* References.
STypeOK == /\ [tpl |-> tpl, signer |-> signer] \in Jobs
           /\ spc \in SStages /\ status \in {"pending", "Ok", "Err"}
           /\ (status = "pending") <=> (spc # "done")
           /\ DOMAIN content = Slots
           /\ ref \in 1 .. Len(Sdoc.refs) + 1

\* The References that are digested.
Digested == {i \in DOMAIN Sdoc.refs : Sdoc.refs[i].uri # "cid"}

\* The places of these names that sign() may write into: the empty ones, and the first
\* X509Data if it has no child elements.
OpenAtStart(names) ==
    {s \in Slots : Kind(s) \in names /\ (tpl.text[s] = Empty \/ (s = X509Slot /\ Kind(s) = "X509Data"))}

\* What is filled in after Reference i was digested, its own DigestValue included.
FilledAfter(i) == {DigestSlot(j) : j \in {k \in Digested : k >= i}}
                    \union OpenAtStart({"SignatureValue"} \union KeyInfoNames)

\* A template sign() can handle: the empty DigestValues of the document are those of the
\* digested References, in their order; the first empty SignatureValue is the one of the
\* first Signature; no Reference covers what is filled in after it was digested; and the
\* new tags declare no namespace and carry no ID a Reference needs.
WellFormed ==
    /\ \A i \in Digested : DigestSlot(i) # 0
    /\ \A i, j \in Digested : i < j => DigestSlot(i) < DigestSlot(j)
    /\ OpenAtStart({"DigestValue"}) = {DigestSlot(i) : i \in Digested}
    /\ ValueSlot # 0
    /\ ValueSlot = FirstOf(OpenAtStart({"SignatureValue"}))
    /\ \A i \in Digested : Covers(Sdoc.refs[i]) \cap FilledAfter(i) = {}
    /\ Below(tpl.info) \cap OpenAtStart({"SignatureValue"} \union KeyInfoNames) = {}
    /\ \A s \in OpenAtStart(PlaceNames \ TagKept) : tpl.slots[s].decl = "above"
    /\ \A i \in Digested : Sdoc.refs[i].uri = "id" =>
          \A s \in OpenAtStart(PlaceNames) : IdMap(Sdoc, Sdoc.refs[i].id) \notin NewTags(s)

ReferencesHold == \A i \in Digested : content[DigestSlot(i)] = Digest(Sdoc.refs[i], content)

\* The material and the length of the signature value sign() makes.
SignerMat == IF signer.hsm.on THEN signer.hsm.mat ELSE SigningKey.mat
SignerLen == IF signer.hsm.on THEN Sdoc.fullmac ELSE ValueLength

SignatureHolds == content[ValueSlot] = SignatureBy(SignerMat, SignerLen)

\* The document sign() returns for a well-formed template is consistent: every digest is
\* the digest of what its Reference covers NOW, after all later replacements, and the
\* signature value is over the SignedInfo the document has now.
SignedConsistently == status = "Ok" /\ WellFormed => ReferencesHold /\ SignatureHolds

\* sign() writes a place once, and never over text of the template, with one exception: the
\* text of the first X509Data is replaced when it has no child elements and the signing key
\* has certificates (replace_first_empty_element and the populate functions edit the text at
\* byte ranges).
Overwritable(s) == s = X509Slot /\ Kind(s) = "X509Data" /\ spc = "x509"

OnlyFills ==
    [][\A s \in Slots : content'[s] # content[s] =>
          /\ content[s] = tpl.text[s]
          /\ content[s] = Empty \/ Overwritable(s)]_svars
=============================================================================
