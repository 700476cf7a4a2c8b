----------------------------- MODULE DsigVerify -----------------------------
(***************************************************************************)
(* verify() of crates/bergshamra-dsig/src/verify.rs: the validation of the *)
(* first <Signature> of a document, one action per stage of the function.  *)
(*                                                                         *)
(* The document and the DsigContext are inputs, chosen in Init and never   *)
(* changed (SigDoc describes the document).  The context holds the policy  *)
(* switches (trusted_keys_only, strict, hmac_min, insecure, verify_keys,   *)
(* x509, skip_time), the keys of the KeysManager, its certificates and     *)
(* CRLs, the verification time and the HSM verifier.                       *)
(***************************************************************************)
EXTENDS SigDoc

CONSTANTS Docs,   \* the documents considered
          Ctxs    \* the contexts considered

ASSUME DocsAssumption == \A d \in Docs : DocOK(d)

\* The manager's keys and their certificate chains are Vecs, hmac_min is a usize.
ASSUME CtxsAssumption == \A c \in Ctxs : /\ IsSeq(c.keys) /\ c.hmac_min \in Nat
                                         /\ \A i \in DOMAIN c.keys : IsSeq(c.keys[i].chain)

VARIABLES doc,    \* the document
          ctx,    \* the DsigContext
          pc,     \* the stage verify() has reached
          hmac,   \* hmac_output_length_bits
          vrefs,  \* verified_refs
          key,    \* the resolved verification key
          source, \* key_from_x509 / key_from_manager: "x509", "manager", "inline"
          leaf,   \* the certificate handed to validate_cert_chain, if any
          result  \* the value returned

vars == <<doc, ctx, pc, hmac, vrefs, key, source, leaf, result>>

Stages == {"parse", "hmac", "pq", "refs", "position", "value", "key", "x509",
           "check", "done"}
Verdicts == {"pending", "Valid", "Invalid", "Err"}

-----------------------------------------------------------------------------
\* The configuration validate_cert_chain is given.
CertConfig(c) == [trusted |-> c.trusted, untrusted |-> c.untrusted, crls |-> c.crls,
                  now |-> c.now, skip_time |-> c.skip_time]

\* needs_x509_validation.
NeedsX509(c, k, src) ==
    /\ ~c.insecure
    /\ Len(k.chain) > 0
    /\ (c.x509 /\ src = "x509") \/ (c.verify_keys /\ src = "manager")

-----------------------------------------------------------------------------
(* The stages.                                                             *)

Return(v) == /\ result' = v
             /\ pc' = "done"
             /\ UNCHANGED <<doc, ctx, hmac, vrefs, key, source, leaf>>

Goto(s) == pc' = s /\ UNCHANGED <<doc, ctx, result>>

ParseFails == pc = "parse" /\ ~StructureOK(doc) /\ Return("Err")

Parse == /\ pc = "parse"
         /\ StructureOK(doc)
         /\ Goto("hmac")
         /\ UNCHANGED <<hmac, vrefs, key, source, leaf>>

\* HMACOutputLength: read for HMAC methods only.
ReadsLength == doc.method = "Hmac" /\ doc.hmaclen # "absent"

HmacLengthUnreadable == /\ pc = "hmac"
                        /\ ReadsLength /\ doc.hmaclen = "bad"
                        /\ Return("Err")

HmacLengthRejected == /\ pc = "hmac"
                      /\ ReadsLength /\ doc.hmaclen = "bits"
                      /\ ~LengthOK(doc.bits, ctx.hmac_min)
                      /\ Return("Invalid")

ReadHmacLength == /\ pc = "hmac"
                  /\ ReadsLength => doc.hmaclen = "bits" /\ LengthOK(doc.bits, ctx.hmac_min)
                  /\ hmac' = IF ReadsLength THEN doc.bits ELSE NoLength
                  /\ Goto("pq")
                  /\ UNCHANGED <<vrefs, key, source, leaf>>

PqContextFails == /\ pc = "pq"
                  /\ doc.method = "Pq" /\ doc.pqctx = "bad"
                  /\ Return("Err")

ReadPqContext == /\ pc = "pq"
                 /\ ~(doc.method = "Pq" /\ doc.pqctx = "bad")
                 /\ Goto("refs")
                 /\ UNCHANGED <<hmac, vrefs, key, source, leaf>>

\* One iteration of the loop over the Reference elements.
CurrentRef == doc.refs[Len(vrefs) + 1]

ReferenceFails == /\ pc = "refs" /\ Len(vrefs) < Len(doc.refs)
                  /\ verify_reference(doc, CurrentRef) = "error"
                  /\ Return("Err")

ReferenceMismatch == /\ pc = "refs" /\ Len(vrefs) < Len(doc.refs)
                     /\ verify_reference(doc, CurrentRef) = "mismatch"
                     /\ Return("Invalid")

VerifyReference == /\ pc = "refs" /\ Len(vrefs) < Len(doc.refs)
                   /\ verify_reference(doc, CurrentRef) \in {"skipped", "verified"}
                   /\ vrefs' = Append(vrefs, VerifiedRef(doc, CurrentRef))
                   /\ Goto("refs")
                   /\ UNCHANGED <<hmac, key, source, leaf>>

ReferencesDone == /\ pc = "refs" /\ Len(vrefs) = Len(doc.refs)
                  /\ Goto("position")
                  /\ UNCHANGED <<hmac, vrefs, key, source, leaf>>

\* Strict mode: the target of every verified reference is in an expected position.
PositionsOK == \A i \in DOMAIN vrefs :
                  vrefs[i].node # NoNode => PositionOK(doc, vrefs[i].node)

StrictFails == /\ pc = "position"
               /\ ctx.strict /\ ~PositionsOK
               /\ Return("Err")

CheckPositions == /\ pc = "position"
                  /\ ctx.strict => PositionsOK
                  /\ Goto("value")
                  /\ UNCHANGED <<hmac, vrefs, key, source, leaf>>

\* SignatureValue, and its length against HMACOutputLength.
ValueFails == pc = "value" /\ doc.sv.form # "ok" /\ Return("Err")

ValueLengthMismatch == /\ pc = "value" /\ doc.sv.form = "ok"
                       /\ WrongLength(doc, hmac)
                       /\ Return("Invalid")

ReadSignatureValue == /\ pc = "value" /\ doc.sv.form = "ok"
                      /\ ~WrongLength(doc, hmac)
                      /\ Goto("key")
                      /\ UNCHANGED <<hmac, vrefs, key, source, leaf>>

\* The HSM path: the verifier's own algorithm must be the declared one; it is not told
\* of an HMACOutputLength, and its verify call may fail (the device is external).
HsmRejects == /\ pc = "key" /\ ctx.hsm.on
              /\ \/ ctx.hsm.alg # doc.method
                 \/ ~Accepts(doc, ctx.hsm.mat, NoLength)
              /\ Return("Invalid")

HsmFails == pc = "key" /\ ctx.hsm.on /\ ctx.hsm.alg = doc.method /\ Return("Err")

HsmAccepts == /\ pc = "key" /\ ctx.hsm.on
              /\ ctx.hsm.alg = doc.method
              /\ Accepts(doc, ctx.hsm.mat, NoLength)
              /\ Return("Valid")

\* Key resolution in software.
Kids == EffectiveKids(doc.kids[doc.ki], KidsById(doc))

ManagerKey == KeyAt(ctx.keys, IF doc.ki # 0 THEN resolve_key_info(Kids, ctx.keys)
                                            ELSE first_key(ctx.keys))

EmbeddedKey == IF doc.ki = 0 \/ ctx.trusted_keys_only THEN NoKey
               ELSE ExtractedKey(Kids, ctx.keys, KidsById(doc))

SelectedKey == OrElseKey(EmbeddedKey, ManagerKey)

SelectedSource == IF EmbeddedKey = NoKey THEN "manager"
                  ELSE IF Len(EmbeddedKey.chain) > 0 THEN "x509" ELSE "inline"

NoKeyFound == /\ pc = "key" /\ ~ctx.hsm.on
              /\ SelectedKey = NoKey
              /\ Return("Err")

\* Variant: the absence of a key goes unnoticed.
ResolveKeyUnchecked == /\ pc = "key" /\ ~ctx.hsm.on
                       /\ key' = SelectedKey
                       /\ source' = SelectedSource
                       /\ Goto("x509")
                       /\ UNCHANGED <<hmac, vrefs, leaf>>

ResolveKey == /\ pc = "key" /\ ~ctx.hsm.on
              /\ SelectedKey # NoKey
              /\ key' = SelectedKey
              /\ source' = SelectedSource
              /\ Goto("x509")
              /\ UNCHANGED <<hmac, vrefs, leaf>>

\* Certificate validation: the FIRST certificate of the chain is taken for the leaf.
CertOf(k) == k.chain[1]

\* Variant: the CRLs are not handed on.
ChainOKNoCrls(c, k) == validate_cert_chain(CertOf(k), {k.chain[i] : i \in DOMAIN k.chain},
                                           [CertConfig(c) EXCEPT !.crls = {}])

ChainOK(c, k) == validate_cert_chain(CertOf(k), {k.chain[i] : i \in DOMAIN k.chain},
                                     CertConfig(c))

ChainRejected == /\ pc = "x509"
                 /\ NeedsX509(ctx, key, source)
                 /\ ~ChainOK(ctx, key)
                 /\ Return("Err")

ValidateChain == /\ pc = "x509"
                 /\ NeedsX509(ctx, key, source)
                 /\ ChainOK(ctx, key)
                 /\ leaf' = <<CertOf(key)>>
                 /\ Goto("check")
                 /\ UNCHANGED <<hmac, vrefs, key, source>>

SkipValidation == /\ pc = "x509"
                  /\ ~NeedsX509(ctx, key, source)
                  /\ Goto("check")
                  /\ UNCHANGED <<hmac, vrefs, key, source, leaf>>

\* to_signing_key, from_uri_with_context and the algorithm's own check of the key
\* kind are errors; the comparison itself is a verdict.
UsableKey == HasSigningKey(key) /\ doc.method # "unknown" /\ key.kind = doc.method

KeyUnusable == pc = "check" /\ ~UsableKey /\ Return("Err")

SignatureRejected == /\ pc = "check" /\ UsableKey
                     /\ ~Accepts(doc, key.mat, hmac)
                     /\ Return("Invalid")

SignatureAccepted == /\ pc = "check" /\ UsableKey
                     /\ Accepts(doc, key.mat, hmac)
                     /\ Return("Valid")

-----------------------------------------------------------------------------
Init == /\ doc \in Docs
        /\ ctx \in Ctxs
        /\ pc = "parse"
        /\ hmac = NoLength
        /\ vrefs = <<>>
        /\ key = NoKey
        /\ source = "none"
        /\ leaf = <<>>
        /\ result = "pending"

Next == \/ ParseFails \/ Parse
        \/ HmacLengthUnreadable \/ HmacLengthRejected \/ ReadHmacLength
        \/ PqContextFails \/ ReadPqContext
        \/ ReferenceFails \/ ReferenceMismatch \/ VerifyReference \/ ReferencesDone
        \/ StrictFails \/ CheckPositions
        \/ ValueFails \/ ValueLengthMismatch \/ ReadSignatureValue
        \/ HsmRejects \/ HsmFails \/ HsmAccepts
        \/ NoKeyFound \/ ResolveKey
        \/ ChainRejected \/ ValidateChain \/ SkipValidation
        \/ KeyUnusable \/ SignatureRejected \/ SignatureAccepted

\* verify() is sequential code: it keeps taking steps until it returns.
Spec == Init /\ [][Next]_vars /\ WF_vars(Next)
-----------------------------------------------------------------------------
(* Properties.                                                             *)

\* Type invariant: the verdict is pending exactly until verify() returns, never more
\* references are reported than the document has, a validated leaf is a certificate
\* of the key's chain, and a key is only there once key resolution has run.
TypeOK == /\ doc \in Docs /\ ctx \in Ctxs
          /\ pc \in Stages /\ result \in Verdicts
          /\ (result = "pending") <=> (pc # "done")
          /\ hmac \in Int
          /\ vrefs \in Seq([node : {0} \union Nodes(doc), digest_verified : BOOLEAN])
          /\ Len(vrefs) <= Len(doc.refs)
          /\ source \in {"none", "x509", "manager", "inline"}
          /\ pc \in {"x509", "check"} => key # NoKey
          /\ leaf # <<>> => /\ pc \in {"check", "done"}
                            /\ key # NoKey /\ leaf = <<CertOf(key)>>

Policy == INSTANCE SignaturePolicy WITH verdict <- result

\* verify() implements SignaturePolicy: whatever the order of its checks and early
\* returns, "Valid" is only returned for a document that passes core validation (every
\* non-cid digest matches, the signature is by an admissible key over this SignedInfo)
\* and the policy of the context.
ImplementsPolicy == Policy!Spec

\* README.md, "Inspecting what was signed": a valid result carries one VerifiedReference
\* per Reference, in order; digest_verified is false exactly for the cid: references
\* that were skipped, and resolved_node is the one element that carries the ID.
ReportComplete ==
    result = "Valid" =>
        /\ Len(vrefs) = Len(doc.refs)
        /\ \A i \in DOMAIN doc.refs :
              /\ vrefs[i].digest_verified <=> doc.refs[i].uri # "cid"
              /\ doc.refs[i].uri = "id" =>
                    \A n \in Nodes(doc) :
                        n = vrefs[i].node <=>
                        \E k \in DOMAIN doc.ids[n] : doc.ids[n][k] = doc.refs[i].id

\* The certificates of a chain that hold the key the signature was checked with.
KeyCertificates(k) == {c \in {k.chain[i] : i \in DOMAIN k.chain} : c.mat = k.mat}

Trusted(c, k) == validate_cert_chain(c, {k.chain[i] : i \in DOMAIN k.chain}, CertConfig(ctx))

\* ADR-0004, "trusted roots constrain inline X.509 verification": with X.509 validation
\* on, a signature checked with a certificate's key is only valid if that certificate
\* leads to a trust anchor.  Stated for chains listed leaf first; a key of the manager
\* has the chain its file had (PKCS#12 keeps the order of the file), so for those the
\* first certificate is required to be the key's.
LeafFirstKeyTrusted ==
    (/\ result = "Valid" /\ ~ctx.hsm.on
     /\ NeedsX509(ctx, key, source) /\ LeafFirst(key.chain)
     /\ source = "manager" => CertOf(key).mat = key.mat)
    => \E c \in KeyCertificates(key) : Trusted(c, key)

\* The same for every chain, as verify.rs:414 assumes ("The first cert in x509_chain is
\* the leaf").
KeyCertificateTrusted ==
    result = "Valid" /\ ~ctx.hsm.on /\ NeedsX509(ctx, key, source)
    => \E c \in KeyCertificates(key) : Trusted(c, key)

\* In trusted_keys_only mode, a KeyName the manager knows decides: the key used is one
\* of that name, whatever other children the KeyInfo has.
NamedKeyUsed ==
    result = "Valid" /\ ctx.trusted_keys_only /\ ~ctx.hsm.on /\ doc.ki # 0 =>
        LET known == {i \in DOMAIN Kids : Kids[i].t = "KeyName"
                                          /\ find_by_name(ctx.keys, Kids[i].name) # 0}
        IN  known # {} => \E i \in known : key.name = Kids[i].name
=============================================================================
