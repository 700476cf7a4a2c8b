-------------------------- MODULE DsigVerifyProofs --------------------------
(***************************************************************************)
(* Theorems about DsigVerify, for every set of documents and contexts:     *)
(* the type invariant, that verify() implements SignaturePolicy, that the  *)
(* trusted certificate is the key's, that the report is complete and that  *)
(* a key asked for by its name is the one used.                            *)
(***************************************************************************)
EXTENDS DsigVerify, LookupLemmas

-----------------------------------------------------------------------------
(* The lookups of X509 and KeyInfo: an index they return is an index of   *)
(* the sequence, and the key they return has material of the manager or   *)
(* of the KeyInfo.                                                        *)

\* LastOf returns an element of a non-empty set of indices (candidates.last()).
LEMMA LastOfIn ==
    ASSUME NEW n \in Nat, NEW S \in SUBSET (1 .. n), S # {}
    PROVE  LastOf(S) \in S
<1> DEFINE T == {n - i : i \in S}
<1>1. T \in SUBSET Nat /\ T # {}
  <2>1. ASSUME NEW i \in S PROVE n - i \in Nat
    BY <2>1
  <2> QED BY <2>1
<1>2. PICK t \in T : \A u \in T : t <= u
  BY <1>1, LeastExists
<1>3. PICK i \in S : t = n - i
  BY <1>2
<1>4. \A j \in S : j <= i
  <2> TAKE j \in S
  <2>1. n - j \in T
    OBVIOUS
  <2>2. n - i <= n - j
    BY <1>2, <1>3, <2>1
  <2> QED BY <2>2
<1>5. \E k \in S : \A j \in S : j <= k
  BY <1>4
<1> QED BY <1>5 DEF LastOf

\* resolve_key_info returns None or a key of the manager, whatever the KeyInfo.
LEMMA ResolveKeyInfoIndex ==
    ASSUME NEW ks, IsSeq(ks), NEW kids
    PROVE  resolve_key_info(kids, ks) \in {0} \union DOMAIN ks
<1>1. \A ch : KeyByName(ch, ks) \in {0} \union DOMAIN ks
  BY ManagerLookups DEF KeyByName
<1>2. \A ch : KeyBySerial(ch, ks) \in {0} \union DOMAIN ks
  BY ManagerLookups DEF KeyBySerial
<1>3. \A ch : KeyByX509Data(ch, ks) \in {0} \union DOMAIN ks
  BY <1>2 DEF KeyByX509Data
<1> QED BY <1>1, <1>3, ManagerLookups DEF resolve_key_info

-----------------------------------------------------------------------------
(* Keys of the document.                                                   *)

\* find_leaf_cert returns the index of a certificate (no `certs[idx]' out of bounds).
LEMMA FindLeafIndex ==
    ASSUME NEW cs, IsSeq(cs), cs # <<>>
    PROVE  find_leaf_cert(cs) \in DOMAIN cs
<1>1. Len(cs) \in Nat /\ DOMAIN cs = 1 .. Len(cs) /\ Len(cs) # 0
  BY SeqDomain DEF IsSeq
<1>2. \A S \in SUBSET (DOMAIN cs) : S # {} => LastOf(S) \in S
  BY <1>1, LastOfIn
<1>3. /\ EndEntities(cs) \in SUBSET (DOMAIN cs) /\ NonIssuers(cs) \in SUBSET (DOMAIN cs)
      /\ NonCAs(cs) \in SUBSET (DOMAIN cs)
  BY DEF EndEntities, NonIssuers, NonCAs
<1>4. Len(cs) \in DOMAIN cs
  BY <1>1
<1> QED BY <1>2, <1>3, <1>4 DEF find_leaf_cert

\* The key of a certificate is a key only with the certificate's material.
LEMMA CertKeyMaterial ==
    ASSUME NEW c, NEW chain, CertKey(c, chain) # NoKey
    PROVE  CertKey(c, chain).mat = c.mat
BY DEF CertKey, NoKey

\* A key a child carries has the child's material.
LEMMA InlineKeyMaterial ==
    ASSUME NEW ch, ChildOK(ch), InlineKey(ch) # NoKey
    PROVE  InlineKey(ch).mat \in ChildMaterial(ch)
<1>1. CASE ch.t = "KeyValue"
  BY <1>1 DEF InlineKey, ChildMaterial
<1>2. CASE ch.t = "X509Data"
  <2>1. InlineKey(ch) = extract_x509_certificate(ch.certs)
    BY <1>2 DEF InlineKey
  <2>2. ch.certs # <<>> /\ IsSeq(ch.certs)
    BY <1>2, <2>1 DEF ChildOK, extract_x509_certificate
  <2>3. find_leaf_cert(ch.certs) \in DOMAIN ch.certs
    BY <2>2, FindLeafIndex
  <2>4. InlineKey(ch).mat = ch.certs[find_leaf_cert(ch.certs)].mat
    BY <2>1, <2>2, CertKeyMaterial DEF extract_x509_certificate
  <2> QED BY <1>2, <2>3, <2>4 DEF ChildMaterial
<1>3. CASE ch.t # "KeyValue" /\ ch.t # "X509Data"
  BY <1>3 DEF InlineKey
<1> QED BY <1>1, <1>2, <1>3

\* Some child brings the material along.
HasMaterial(kids, m) == \E i \in DOMAIN kids : m \in ChildMaterial(kids[i])

\* extract_key_value returns material of one of the children.
LEMMA KeyValueMaterial ==
    ASSUME NEW kids, KidsOK(kids), extract_key_value(kids) # NoKey
    PROVE  HasMaterial(kids, extract_key_value(kids).mat)
<1> DEFINE S == {j \in DOMAIN kids : InlineKey(kids[j]) # NoKey}
           i == FirstOf(S)
<1>1. i \in {0} \union S
  BY FindIndex DEF KidsOK
<1>2. i # 0 /\ extract_key_value(kids) = InlineKey(kids[i])
  BY DEF extract_key_value
<1>3. i \in DOMAIN kids /\ InlineKey(kids[i]) # NoKey /\ ChildOK(kids[i])
  BY <1>1, <1>2 DEF KidsOK
<1> HIDE DEF i
<1> QED BY <1>2, <1>3, InlineKeyMaterial DEF HasMaterial

\* try_unwrap_encrypted_key returns the material an EncryptedKey child wraps.
LEMMA UnwrapMaterial ==
    ASSUME NEW kids, KidsOK(kids), NEW ks, try_unwrap_encrypted_key(kids, ks) # NoKey
    PROVE  HasMaterial(kids, try_unwrap_encrypted_key(kids, ks).mat)
<1> DEFINE S == {j \in DOMAIN kids : kids[j].t = "EncryptedKey"}
           i == FirstOf(S)
<1>1. i \in {0} \union S
  BY FindIndex DEF KidsOK
<1>2. i # 0 /\ try_unwrap_encrypted_key(kids, ks)
                 = [NoKey EXCEPT !.kind = "Hmac", !.priv = TRUE, !.mat = kids[i].mat]
  BY DEF try_unwrap_encrypted_key
<1>3. i \in DOMAIN kids /\ kids[i].t = "EncryptedKey"
  BY <1>1, <1>2
<1>4. try_unwrap_encrypted_key(kids, ks).mat = kids[i].mat
  BY <1>2 DEF NoKey
<1> HIDE DEF i
<1> QED BY <1>3, <1>4 DEF HasMaterial, ChildMaterial

\* try_resolve_retrieval_method returns the key of the retrieved certificate.
LEMMA RawCertificateMaterial ==
    ASSUME NEW kids, KidsOK(kids), try_resolve_retrieval_method(kids) # NoKey
    PROVE  HasMaterial(kids, try_resolve_retrieval_method(kids).mat)
<1> DEFINE S == {j \in DOMAIN kids : kids[j].t = "RawCertificate"}
           i == FirstOf(S)
<1>1. i \in {0} \union S
  BY FindIndex DEF KidsOK
<1>2. /\ i # 0 /\ kids[i].cert # <<>>
      /\ try_resolve_retrieval_method(kids) = CertKey(kids[i].cert[1], kids[i].cert)
  BY DEF try_resolve_retrieval_method
<1>3. i \in DOMAIN kids /\ kids[i].t = "RawCertificate" /\ IsSeq(kids[i].cert)
  BY <1>1, <1>2 DEF KidsOK, ChildOK
<1>4. try_resolve_retrieval_method(kids).mat = kids[i].cert[1].mat
  BY <1>2, CertKeyMaterial
<1> HIDE DEF i
<1>5. 1 \in DOMAIN kids[i].cert
  BY <1>2, <1>3, SeqDomain DEF IsSeq
<1> QED BY <1>3, <1>4, <1>5 DEF HasMaterial, ChildMaterial

\* try_resolve_retrieval_method_inline returns material of a child of an element with an ID.
LEMMA RetrievalMaterial ==
    ASSUME NEW kids, NEW at, \A v \in DOMAIN at : KidsOK(at[v]),
           try_resolve_retrieval_method_inline(kids, at) # NoKey
    PROVE  \E v \in DOMAIN at :
              HasMaterial(at[v], try_resolve_retrieval_method_inline(kids, at).mat)
<1> DEFINE i == FirstOf({j \in DOMAIN kids : kids[j].t = "RetrievalMethod"})
           tgt == IF i # 0 /\ kids[i].id \in DOMAIN at THEN at[kids[i].id] ELSE <<>>
           S == {j \in DOMAIN tgt : tgt[j].t = "X509Data"}
           x == FirstOf(S)
<1>1. /\ x # 0 /\ tgt[x].certs # <<>>
      /\ try_resolve_retrieval_method_inline(kids, at)
           = CertKey(tgt[x].certs[1], <<tgt[x].certs[1]>>)
  BY DEF try_resolve_retrieval_method_inline
<1>2. \/ kids[i].id \in DOMAIN at /\ tgt = at[kids[i].id]
      \/ tgt = <<>>
  OBVIOUS
<1> HIDE DEF i, tgt
<1>3. tgt # <<>>
  <2>1. SUFFICES ASSUME tgt = <<>> PROVE FALSE
    OBVIOUS
  <2>2. DOMAIN tgt = {}
    BY <2>1
  <2>3. S = {}
    BY <2>2
  <2> QED BY <1>1, <2>3 DEF FirstOf
<1>4. KidsOK(tgt)
  BY <1>2, <1>3
<1>5. x \in {0} \union S
  BY <1>4, FindIndex DEF KidsOK
<1>6. x \in DOMAIN tgt /\ tgt[x].t = "X509Data" /\ IsSeq(tgt[x].certs)
  BY <1>1, <1>4, <1>5 DEF KidsOK, ChildOK
<1>7. try_resolve_retrieval_method_inline(kids, at).mat = tgt[x].certs[1].mat
  BY <1>1, CertKeyMaterial
<1> HIDE DEF x
<1>8. 1 \in DOMAIN tgt[x].certs
  BY <1>1, <1>6, SeqDomain DEF IsSeq
<1>9. HasMaterial(tgt, tgt[x].certs[1].mat)
  BY <1>6, <1>8 DEF HasMaterial, ChildMaterial
<1> QED BY <1>2, <1>3, <1>7, <1>9

\* A key that comes with the document has material of one of the KeyInfo's children, or
\* of a child of an element a RetrievalMethod leads to.
LEMMA ExtractedMaterial ==
    ASSUME NEW kids, KidsOK(kids), NEW ks, NEW at, \A v \in DOMAIN at : KidsOK(at[v]),
           ExtractedKey(kids, ks, at) # NoKey
    PROVE  \/ HasMaterial(kids, ExtractedKey(kids, ks, at).mat)
           \/ \E v \in DOMAIN at : HasMaterial(at[v], ExtractedKey(kids, ks, at).mat)
<1>1. ExtractedKey(kids, ks, at) \in
        {extract_key_value(kids), try_unwrap_encrypted_key(kids, ks),
         try_resolve_retrieval_method(kids), try_resolve_retrieval_method_inline(kids, at)}
  BY DEF ExtractedKey, OrElseKey
<1> QED BY <1>1, KeyValueMaterial, UnwrapMaterial, RawCertificateMaterial, RetrievalMaterial

-----------------------------------------------------------------------------
(* Which certificate a key's material comes from.                          *)

\* In a chain listed leaf first, find_leaf_cert picks the first certificate.
LEMMA LeafFirstIsLeaf ==
    ASSUME NEW cs, IsSeq(cs), cs # <<>>, LeafFirst(cs)
    PROVE  find_leaf_cert(cs) = 1
<1>1. Len(cs) \in Nat /\ DOMAIN cs = 1 .. Len(cs) /\ Len(cs) # 0
  BY SeqDomain DEF IsSeq
<1>2. ASSUME NEW i \in DOMAIN cs, i # 1
      PROVE  IsIssuerOfOther(cs, i)
  <2>1. i - 1 \in 1 .. Len(cs) - 1 /\ i - 1 \in DOMAIN cs /\ i # i - 1 /\ (i - 1) + 1 = i
    BY <1>1, <1>2
  <2>2. cs[i].subj = cs[i - 1].iss
    BY <2>1 DEF LeafFirst
  <2> QED BY <2>1, <2>2 DEF IsIssuerOfOther
<1>3. NonIssuers(cs) = {1} /\ EndEntities(cs) \in SUBSET {1}
  BY <1>1, <1>2 DEF NonIssuers, EndEntities, LeafFirst
<1>4. LastOf({1}) = 1
  BY DEF LastOf
<1>5. EndEntities(cs) = {1} \/ EndEntities(cs) = {}
  BY <1>3
<1> QED BY <1>3, <1>4, <1>5 DEF find_leaf_cert

\* A key read from a child has no chain, or the child's leaf-first chain starts with the
\* certificate of the key.
LEMMA InlineKeyChain ==
    ASSUME NEW ch, ChildOK(ch), InlineKey(ch) # NoKey,
           InlineKey(ch).chain # <<>>, LeafFirst(InlineKey(ch).chain)
    PROVE  /\ IsSeq(InlineKey(ch).chain)
           /\ InlineKey(ch).chain[1].mat = InlineKey(ch).mat
<1>1. ch.t = "X509Data"
  BY DEF InlineKey, ChildOK
<1>2. InlineKey(ch) = extract_x509_certificate(ch.certs) /\ IsSeq(ch.certs)
  BY <1>1 DEF InlineKey, ChildOK
<1>3. ch.certs # <<>> /\ InlineKey(ch) = CertKey(ch.certs[find_leaf_cert(ch.certs)], ch.certs)
  BY <1>2 DEF extract_x509_certificate
<1>4. InlineKey(ch).chain = ch.certs
  BY <1>3 DEF CertKey, NoKey
<1>5. find_leaf_cert(ch.certs) = 1
  BY <1>2, <1>3, <1>4, LeafFirstIsLeaf
<1>6. InlineKey(ch).mat = ch.certs[1].mat
  BY <1>3, <1>5, CertKeyMaterial
<1> QED BY <1>2, <1>4, <1>6

\* The same for every key that comes with the document.
LEMMA ExtractedChain ==
    ASSUME NEW kids, KidsOK(kids), NEW ks, NEW at,
           NEW k, k = ExtractedKey(kids, ks, at), k # NoKey,
           k.chain # <<>>, LeafFirst(k.chain)
    PROVE  IsSeq(k.chain) /\ k.chain[1].mat = k.mat
<1>1. k \in {extract_key_value(kids), try_unwrap_encrypted_key(kids, ks),
             try_resolve_retrieval_method(kids), try_resolve_retrieval_method_inline(kids, at)}
  BY DEF ExtractedKey, OrElseKey
<1>2. CASE k = extract_key_value(kids)
  <2> DEFINE S == {j \in DOMAIN kids : InlineKey(kids[j]) # NoKey}
             i == FirstOf(S)
  <2>1. i \in {0} \union S
    BY FindIndex DEF KidsOK
  <2>2. i # 0 /\ k = InlineKey(kids[i])
    BY <1>2 DEF extract_key_value
  <2>3. ChildOK(kids[i])
    BY <2>1, <2>2 DEF KidsOK
  <2> HIDE DEF i
  <2> QED BY <2>2, <2>3, InlineKeyChain
<1>3. CASE k = try_unwrap_encrypted_key(kids, ks)
  <2>1. PICK m : k = [NoKey EXCEPT !.kind = "Hmac", !.priv = TRUE, !.mat = m]
    BY <1>3 DEF try_unwrap_encrypted_key
  <2> QED BY <2>1 DEF NoKey
<1>4. CASE k = try_resolve_retrieval_method(kids)
  <2> DEFINE S == {j \in DOMAIN kids : kids[j].t = "RawCertificate"}
             i == FirstOf(S)
  <2>1. i \in {0} \union S
    BY FindIndex DEF KidsOK
  <2>2. i # 0 /\ k = CertKey(kids[i].cert[1], kids[i].cert)
    BY <1>4 DEF try_resolve_retrieval_method
  <2>3. IsSeq(kids[i].cert)
    BY <2>1, <2>2 DEF KidsOK, ChildOK
  <2> HIDE DEF i
  <2>4. k.chain = kids[i].cert
    BY <2>2 DEF CertKey, NoKey
  <2> QED BY <2>2, <2>3, <2>4, CertKeyMaterial
<1>5. CASE k = try_resolve_retrieval_method_inline(kids, at)
  <2>1. PICK c : k = CertKey(c, <<c>>)
    BY <1>5 DEF try_resolve_retrieval_method_inline
  <2>2. k.chain = <<c>>
    BY <2>1 DEF CertKey, NoKey
  <2>3. IsSeq(<<c>>)
    BY DEF IsSeq
  <2> QED BY <2>1, <2>2, <2>3, CertKeyMaterial
<1> QED BY <1>1, <1>2, <1>3, <1>4, <1>5


-----------------------------------------------------------------------------
(* Lemmas about the document.                                              *)

\* The ID map leads to elements of the document.
LEMMA IdMapNode ==
    ASSUME NEW d, DocOK(d), NEW v
    PROVE  /\ IdMap(d, v) \in {0} \union Nodes(d)
           /\ v \in IdValues(d) => IdMap(d, v) \in Nodes(d)
<1> DEFINE S == {n \in Nodes(d) : \E k \in DOMAIN d.ids[n] : d.ids[n][k] = v}
<1>1. IdMap(d, v) \in {0} \union S /\ (IdMap(d, v) = 0 <=> S = {})
  BY FindIndex DEF IdMap, Nodes, DocOK
<1>2. v \in IdValues(d) => S # {}
  BY DEF IdValues
<1> QED BY <1>1, <1>2

\* What is reported of a reference.
LEMMA VerifiedRefType ==
    ASSUME NEW d, DocOK(d), NEW r
    PROVE  VerifiedRef(d, r) \in [node : {0} \union Nodes(d), digest_verified : BOOLEAN]
BY IdMapNode DEF VerifiedRef, ResolvedNode, NoNode

-----------------------------------------------------------------------------
(* The type invariant.                                                     *)

\* Type correctness of verify()'s state: one verdict, given exactly when it returns; no
\* more references reported than the document has; a key wherever one is used.
THEOREM TypeCorrect == Spec => []TypeOK
<1>1. Init => TypeOK
  BY DocsAssumption DEF Init, TypeOK, Stages, Verdicts, NoLength, DocOK, IsSeq
<1>2. TypeOK /\ [Next]_vars => TypeOK'
  <2> SUFFICES ASSUME TypeOK, [Next]_vars PROVE TypeOK'
    OBVIOUS
  <2> USE DEF TypeOK, Stages, Verdicts, Return, Goto
  <2>1. CASE ParseFails
    BY <2>1 DEF ParseFails
  <2>2. CASE Parse
    BY <2>2 DEF Parse
  <2>3. CASE HmacLengthUnreadable
    BY <2>3 DEF HmacLengthUnreadable
  <2>4. CASE HmacLengthRejected
    BY <2>4 DEF HmacLengthRejected
  <2>5. CASE ReadHmacLength
    BY <2>5, DocsAssumption DEF ReadHmacLength, DocOK, NoLength
  <2>6. CASE PqContextFails
    BY <2>6 DEF PqContextFails
  <2>7. CASE ReadPqContext
    BY <2>7 DEF ReadPqContext
  <2>8. CASE ReferenceFails
    BY <2>8 DEF ReferenceFails
  <2>9. CASE ReferenceMismatch
    BY <2>9 DEF ReferenceMismatch
  <2>10. CASE VerifyReference
    <3>1. DocOK(doc) /\ doc' = doc
      BY <2>10, DocsAssumption DEF VerifyReference
    <3>2. VerifiedRef(doc, CurrentRef) \in [node : {0} \union Nodes(doc), digest_verified : BOOLEAN]
      BY <3>1, VerifiedRefType
    <3>3. /\ vrefs' \in Seq([node : {0} \union Nodes(doc), digest_verified : BOOLEAN])
          /\ Len(vrefs') = Len(vrefs) + 1
      BY <2>10, <3>2 DEF VerifyReference
    <3>4. Len(doc.refs) \in Nat
      BY <3>1, SeqDomain DEF DocOK
    <3> QED BY <2>10, <3>1, <3>3, <3>4 DEF VerifyReference
  <2>11. CASE ReferencesDone
    BY <2>11 DEF ReferencesDone
  <2>12. CASE StrictFails
    BY <2>12 DEF StrictFails
  <2>13. CASE CheckPositions
    BY <2>13 DEF CheckPositions
  <2>14. CASE ValueFails
    BY <2>14 DEF ValueFails
  <2>15. CASE ValueLengthMismatch
    BY <2>15 DEF ValueLengthMismatch
  <2>16. CASE ReadSignatureValue
    BY <2>16 DEF ReadSignatureValue
  <2>17. CASE HsmRejects
    BY <2>17 DEF HsmRejects
  <2>18. CASE HsmFails
    BY <2>18 DEF HsmFails
  <2>19. CASE HsmAccepts
    BY <2>19 DEF HsmAccepts
  <2>20. CASE NoKeyFound
    BY <2>20 DEF NoKeyFound
  <2>21. CASE ResolveKey
    BY <2>21 DEF ResolveKey, SelectedSource
  <2>22. CASE ChainRejected
    BY <2>22 DEF ChainRejected
  <2>23. CASE ValidateChain
    BY <2>23 DEF ValidateChain
  <2>24. CASE SkipValidation
    BY <2>24 DEF SkipValidation
  <2>25. CASE KeyUnusable
    BY <2>25 DEF KeyUnusable
  <2>26. CASE SignatureRejected
    BY <2>26 DEF SignatureRejected
  <2>27. CASE SignatureAccepted
    BY <2>27 DEF SignatureAccepted
  <2>28. CASE UNCHANGED vars
    BY <2>28 DEF vars
  <2> QED BY <2>1, <2>2, <2>3, <2>4, <2>5, <2>6, <2>7, <2>8, <2>9, <2>10, <2>11, <2>12, <2>13,
             <2>14, <2>15, <2>16, <2>17, <2>18, <2>19, <2>20, <2>21, <2>22, <2>23, <2>24, <2>25,
             <2>26, <2>27, <2>28 DEF Next
<1> QED BY <1>1, <1>2, PTL DEF Spec
-----------------------------------------------------------------------------
(* What the stages of verify() have established when the next one runs.    *)

LengthRead == /\ hmac = IF ReadsLength THEN doc.bits ELSE NoLength
              /\ ReadsLength => doc.hmaclen = "bits" /\ LengthOK(doc.bits, ctx.hmac_min)

RefsVerified == \A i \in DOMAIN vrefs :
                   /\ verify_reference(doc, doc.refs[i]) \in {"skipped", "verified"}
                   /\ vrefs[i] = VerifiedRef(doc, doc.refs[i])

Established ==
    /\ pc \notin {"parse", "done"} => StructureOK(doc)
    /\ pc \in {"pq", "refs", "position", "value", "key", "x509", "check"} => LengthRead
    /\ RefsVerified
    /\ pc \in {"position", "value", "key", "x509", "check"} => Len(vrefs) = Len(doc.refs)
    /\ pc \in {"value", "key", "x509", "check"} => (ctx.strict => PositionsOK)
    /\ pc \in {"key", "x509", "check"} => ~WrongLength(doc, hmac)
    /\ pc \in {"x509", "check"} => ~ctx.hsm.on /\ key = SelectedKey

\* An early return leaves nothing to establish but the references reported so far.
LEMMA ReturnEstablishes ==
    ASSUME Established, NEW v, Return(v)
    PROVE  Established'
BY DEF Established, Return, RefsVerified

\* A new reference joins the verified ones.
LEMMA VerifyReferenceEstablishes ==
    ASSUME TypeOK, Established, VerifyReference
    PROVE  RefsVerified'
<1>1. /\ doc' = doc /\ vrefs' = Append(vrefs, VerifiedRef(doc, CurrentRef))
      /\ verify_reference(doc, CurrentRef) \in {"skipped", "verified"}
  BY DEF VerifyReference, Goto
<1>2. vrefs \in Seq([node : {0} \union Nodes(doc), digest_verified : BOOLEAN])
  BY DEF TypeOK
<1> DEFINE T == [node : {0} \union Nodes(doc), digest_verified : BOOLEAN]
           x == VerifiedRef(doc, CurrentRef)
<1>3. /\ DOMAIN vrefs' = 1 .. Len(vrefs) + 1
      /\ \A i \in 1 .. Len(vrefs) : i \in DOMAIN vrefs /\ vrefs'[i] = vrefs[i]
      /\ vrefs'[Len(vrefs) + 1] = x
      /\ Len(vrefs) \in Nat
  <2>1. x \in T
    BY DocsAssumption, VerifiedRefType DEF TypeOK
  <2> HIDE DEF x, T
  <2>2. vrefs \in Seq(T) /\ x \in T /\ vrefs' = Append(vrefs, x)
    BY <1>1, <1>2, <2>1 DEF T, x
  <2> QED BY <2>2
<1>4. ASSUME NEW i \in DOMAIN vrefs'
      PROVE  /\ verify_reference(doc, doc.refs[i]) \in {"skipped", "verified"}
             /\ vrefs'[i] = VerifiedRef(doc, doc.refs[i])
  <2>1. CASE i = Len(vrefs) + 1
    BY <1>1, <1>3, <2>1 DEF CurrentRef
  <2>2. CASE i \in 1 .. Len(vrefs)
    BY <1>3, <2>2 DEF Established, RefsVerified
  <2> QED BY <1>3, <2>1, <2>2
<1> QED BY <1>1, <1>4 DEF RefsVerified

\* Every stage establishes its part and keeps that of the earlier ones.
LEMMA EstablishedInductive == TypeOK /\ Established /\ [Next]_vars => Established'
<1> SUFFICES ASSUME TypeOK, Established, [Next]_vars PROVE Established'
  OBVIOUS
<1>1. CASE ParseFails
  BY <1>1, ReturnEstablishes DEF ParseFails
<1>2. CASE Parse
  BY <1>2 DEF Parse, Goto, Established, RefsVerified
<1>3. CASE HmacLengthUnreadable
  BY <1>3, ReturnEstablishes DEF HmacLengthUnreadable
<1>4. CASE HmacLengthRejected
  BY <1>4, ReturnEstablishes DEF HmacLengthRejected
<1>5. CASE ReadHmacLength
  BY <1>5 DEF ReadHmacLength, Goto, Established, RefsVerified, LengthRead, ReadsLength
<1>6. CASE PqContextFails
  BY <1>6, ReturnEstablishes DEF PqContextFails
<1>7. CASE ReadPqContext
  BY <1>7 DEF ReadPqContext, Goto, Established, RefsVerified, LengthRead, ReadsLength
<1>8. CASE ReferenceFails
  BY <1>8, ReturnEstablishes DEF ReferenceFails
<1>9. CASE ReferenceMismatch
  BY <1>9, ReturnEstablishes DEF ReferenceMismatch
<1>10. CASE VerifyReference
  <2>1. RefsVerified'
    BY <1>10, VerifyReferenceEstablishes
  <2>2. /\ pc = "refs" /\ pc' = "refs" /\ StructureOK(doc) /\ LengthRead
        /\ UNCHANGED <<doc, ctx, hmac>>
    BY <1>10 DEF VerifyReference, Goto, Established
  <2> QED BY <2>1, <2>2 DEF Established, LengthRead, ReadsLength
<1>11. CASE ReferencesDone
  BY <1>11 DEF ReferencesDone, Goto, Established, RefsVerified, LengthRead, ReadsLength
<1>12. CASE StrictFails
  BY <1>12, ReturnEstablishes DEF StrictFails
<1>13. CASE CheckPositions
  BY <1>13 DEF CheckPositions, Goto, Established, RefsVerified, LengthRead, ReadsLength, PositionsOK
<1>14. CASE ValueFails
  BY <1>14, ReturnEstablishes DEF ValueFails
<1>15. CASE ValueLengthMismatch
  BY <1>15, ReturnEstablishes DEF ValueLengthMismatch
<1>16. CASE ReadSignatureValue
  BY <1>16 DEF ReadSignatureValue, Goto, Established, RefsVerified, LengthRead, ReadsLength,
         PositionsOK
<1>17. CASE HsmRejects
  BY <1>17, ReturnEstablishes DEF HsmRejects
<1>18. CASE HsmFails
  BY <1>18, ReturnEstablishes DEF HsmFails
<1>19. CASE HsmAccepts
  BY <1>19, ReturnEstablishes DEF HsmAccepts
<1>20. CASE NoKeyFound
  BY <1>20, ReturnEstablishes DEF NoKeyFound
<1>21. CASE ResolveKey
  <2>1. /\ pc = "key" /\ pc' = "x509" /\ ~ctx.hsm.on /\ key' = SelectedKey
        /\ UNCHANGED <<doc, ctx, hmac, vrefs>>
    BY <1>21 DEF ResolveKey, Goto
  <2>2. SelectedKey' = SelectedKey
    BY <2>1 DEF SelectedKey, EmbeddedKey, ManagerKey, Kids
  <2> QED BY <2>1, <2>2 DEF Established, RefsVerified, LengthRead, ReadsLength, PositionsOK
<1>22. CASE ChainRejected
  BY <1>22, ReturnEstablishes DEF ChainRejected
<1>23. CASE ValidateChain
  <2>1. /\ pc = "x509" /\ pc' = "check" /\ UNCHANGED <<doc, ctx, hmac, vrefs, key>>
    BY <1>23 DEF ValidateChain, Goto
  <2>2. SelectedKey' = SelectedKey
    BY <2>1 DEF SelectedKey, EmbeddedKey, ManagerKey, Kids
  <2> QED BY <2>1, <2>2 DEF Established, RefsVerified, LengthRead, ReadsLength, PositionsOK
<1>24. CASE SkipValidation
  <2>1. /\ pc = "x509" /\ pc' = "check" /\ UNCHANGED <<doc, ctx, hmac, vrefs, key>>
    BY <1>24 DEF SkipValidation, Goto
  <2>2. SelectedKey' = SelectedKey
    BY <2>1 DEF SelectedKey, EmbeddedKey, ManagerKey, Kids
  <2> QED BY <2>1, <2>2 DEF Established, RefsVerified, LengthRead, ReadsLength, PositionsOK
<1>25. CASE KeyUnusable
  BY <1>25, ReturnEstablishes DEF KeyUnusable
<1>26. CASE SignatureRejected
  BY <1>26, ReturnEstablishes DEF SignatureRejected
<1>27. CASE SignatureAccepted
  BY <1>27, ReturnEstablishes DEF SignatureAccepted
<1>28. CASE UNCHANGED vars
  <2>1. UNCHANGED <<doc, ctx, pc, hmac, vrefs, key, source, leaf, result>>
    BY <1>28 DEF vars
  <2>2. SelectedKey' = SelectedKey
    BY <2>1 DEF SelectedKey, EmbeddedKey, ManagerKey, Kids
  <2> QED BY <2>1, <2>2 DEF Established, RefsVerified, LengthRead, ReadsLength, PositionsOK
<1> QED BY <1>1, <1>2, <1>3, <1>4, <1>5, <1>6, <1>7, <1>8, <1>9, <1>10, <1>11, <1>12, <1>13, <1>14,
           <1>15, <1>16, <1>17, <1>18, <1>19, <1>20, <1>21, <1>22, <1>23, <1>24, <1>25, <1>26, <1>27, <1>28 DEF Next

-----------------------------------------------------------------------------
(* The abstract specification has its own copy of SigDoc's operators.      *)

\* ID resolution (build_id_map) reads the same in both.
LEMMA SameIdMap == \A d, v : Policy!IdMap(d, v) = IdMap(d, v)
<1>1. \A S : Policy!FirstOf(S) = FirstOf(S)
  BY DEF Policy!FirstOf, FirstOf
<1> QED BY <1>1 DEF Policy!IdMap, IdMap, Policy!Nodes, Nodes

\* So does validate_reference_position,
LEMMA SamePosition == \A d, n : Policy!PositionOK(d, n) = PositionOK(d, n)
<1>1. \A S : Policy!FirstOf(S) = FirstOf(S)
  BY DEF Policy!FirstOf, FirstOf
<1>2. \A d : Policy!SignatureNode(d) = SignatureNode(d)
  BY <1>1 DEF Policy!SignatureNode, SignatureNode
<1>3. \A d, n : Policy!AncestorsOrSelf(d, n) = AncestorsOrSelf(d, n)
  BY DEF Policy!AncestorsOrSelf, AncestorsOrSelf, Policy!Nodes, Nodes
<1> QED BY <1>2, <1>3 DEF Policy!PositionOK, PositionOK

\* resolve_reference_uri,
LEMMA SameResolves == \A d, r : Policy!Resolves(d, r) = Resolves(d, r)
BY SameIdMap DEF Policy!Resolves, Resolves

\* and the key material a KeyInfo child brings along.
LEMMA SameMaterial == \A ch : Policy!ChildMaterial(ch) = ChildMaterial(ch)
BY DEF Policy!ChildMaterial, ChildMaterial

-----------------------------------------------------------------------------
(* Each part of core validation follows from the stages.                   *)

\* build_id_map rejects every document with two equal IDs.
LEMMA IdsUnique ==
    ASSUME NEW d, ~DuplicateId(d)
    PROVE  Policy!UniqueIds(d)
<1> SUFFICES ASSUME NEW n \in Nodes(d), NEW m \in Nodes(d),
                    NEW j \in DOMAIN d.ids[n], NEW k \in DOMAIN d.ids[m],
                    d.ids[n][j] = d.ids[m][k]
             PROVE  n = m /\ j = k
  BY DEF Policy!UniqueIds, Policy!Nodes, Nodes
<1> DEFINE v == d.ids[n][j]
<1>1. v \in IdValues(d)
  BY DEF IdValues
<1>2. <<n, j>> \in IdOccurrences(d, v) /\ <<m, k>> \in IdOccurrences(d, v)
  BY DEF IdOccurrences
<1>3. <<n, j>> = <<m, k>>
  BY <1>1, <1>2 DEF DuplicateId
<1> QED BY <1>3

\* A reference the loop has passed is valid, and the reported element is its target.
LEMMA PassedReference ==
    ASSUME NEW d, NEW r, verify_reference(d, r) \in {"skipped", "verified"}
    PROVE  /\ Policy!ReferenceValid(d, r)
           /\ r.uri = "id" => VerifiedRef(d, r).node = IdMap(d, r.id) /\ IdMap(d, r.id) # 0
<1>1. r.uri = "cid" \/ (~RefErrs(d, r) /\ r.expected = r.actual)
  BY DEF verify_reference
<1>2. r.uri # "cid" => Resolves(d, r) /\ r.transforms /\ r.expected = r.actual
  BY <1>1 DEF RefErrs
<1>3. Policy!ReferenceValid(d, r)
  BY <1>2, SameResolves DEF Policy!ReferenceValid
<1>4. ASSUME r.uri = "id"
      PROVE  VerifiedRef(d, r).node = IdMap(d, r.id) /\ IdMap(d, r.id) # 0
  BY <1>2, <1>4 DEF Resolves, VerifiedRef, ResolvedNode
<1> QED BY <1>3, <1>4

\* The two tests on HMACOutputLength together fix the length of a truncated MAC.
LEMMA LengthsAllowed ==
    ASSUME TypeOK, Established, pc \in {"key", "x509", "check"}
    PROVE  Policy!LengthAllowed(doc, ctx)
<1> SUFFICES ASSUME doc.method = "Hmac", doc.hmaclen # "absent"
             PROVE  doc.sv.len * 8 = doc.bits /\ (ctx.hmac_min > 0 => doc.bits >= ctx.hmac_min)
  BY DEF Policy!LengthAllowed
<1>1. /\ doc.bits \in Nat /\ doc.sv.len \in Nat /\ ctx.hmac_min \in Nat
  BY DocsAssumption, CtxsAssumption DEF TypeOK, DocOK
<1>2. hmac = doc.bits /\ LengthOK(doc.bits, ctx.hmac_min) /\ ~WrongLength(doc, hmac)
  BY DEF Established, LengthRead, ReadsLength
<1>3. doc.bits % 8 = 0 /\ doc.sv.len = doc.bits \div 8
  BY <1>1, <1>2 DEF LengthOK, WrongLength, NoLength
<1>4. ctx.hmac_min > 0 => doc.bits >= ctx.hmac_min
  BY <1>2 DEF LengthOK
<1>5. doc.sv.len * 8 = doc.bits
  BY <1>1, <1>3
<1> QED BY <1>4, <1>5

\* The material of a KeyInfo child of any element is material of the document.
LEMMA KidsMaterial ==
    ASSUME NEW d, NEW n \in Nodes(d), NEW m, HasMaterial(d.kids[n], m)
    PROVE  m \in Policy!DocumentMaterial(d)
BY SameMaterial DEF HasMaterial, Policy!DocumentMaterial, Policy!Nodes, Nodes

\* The key verify() selects was loaded by the caller or, unless trusted_keys_only
\* forbids it, came with the document.
LEMMA SelectedFrom ==
    ASSUME DocOK(doc), IsSeq(ctx.keys), SelectedKey # NoKey
    PROVE  IF EmbeddedKey # NoKey
           THEN ~ctx.trusted_keys_only /\ SelectedKey.mat \in Policy!DocumentMaterial(doc)
           ELSE \E i \in DOMAIN ctx.keys : SelectedKey = ctx.keys[i]
<1>1. DocOK(doc) /\ IsSeq(ctx.keys)
  OBVIOUS
<1> DEFINE at == KidsById(doc)
<1>2. /\ DOMAIN at = IdValues(doc)
      /\ \A v \in DOMAIN at : \E n \in Nodes(doc) : at[v] = doc.kids[n]
  BY <1>1, IdMapNode DEF KidsById
<1>3. \A v \in DOMAIN at : KidsOK(at[v])
  BY <1>1, <1>2 DEF DocOK
<1> HIDE DEF at
<1>4. CASE EmbeddedKey # NoKey
  <2>1. /\ doc.ki # 0 /\ ~ctx.trusted_keys_only
        /\ SelectedKey = ExtractedKey(Kids, ctx.keys, at)
    BY <1>4 DEF EmbeddedKey, SelectedKey, OrElseKey, at
  <2>2. \E n \in Nodes(doc) : Kids = doc.kids[n]
    <3>1. \/ Kids = doc.kids[doc.ki]
          \/ \E v \in DOMAIN at : Kids = at[v]
      <4> DEFINE K == doc.kids[doc.ki]
                 S == {j \in DOMAIN K : K[j].t = "KeyInfoReference" /\ K[j].id \in DOMAIN at}
                 i == FirstOf(S)
      <4>1. Kids = IF i = 0 THEN K ELSE at[K[i].id]
        BY DEF Kids, EffectiveKids, at
      <4>2. IsSeq(K)
        BY <1>1, <2>1 DEF DocOK, KidsOK
      <4> HIDE DEF K
      <4>3. i \in {0} \union S
        BY <4>2, FindIndex
      <4> QED BY <4>1, <4>3 DEF K
    <3>2. doc.ki \in Nodes(doc)
      BY <1>1, <2>1 DEF DocOK
    <3> QED BY <1>2, <3>1, <3>2
  <2>3. KidsOK(Kids)
    BY <1>1, <2>2 DEF DocOK
  <2>4. \/ HasMaterial(Kids, SelectedKey.mat)
        \/ \E v \in DOMAIN at : HasMaterial(at[v], SelectedKey.mat)
    BY <1>3, <2>1, <2>3, ExtractedMaterial
  <2>5. SelectedKey.mat \in Policy!DocumentMaterial(doc)
    BY <1>2, <2>2, <2>4, KidsMaterial
  <2> QED BY <1>4, <2>1, <2>5
<1>5. CASE EmbeddedKey = NoKey
  <2> DEFINE i == IF doc.ki # 0 THEN resolve_key_info(Kids, ctx.keys) ELSE first_key(ctx.keys)
  <2>1. i \in {0} \union DOMAIN ctx.keys
    BY <1>1, ResolveKeyInfoIndex, ManagerLookups
  <2>2. SelectedKey = KeyAt(ctx.keys, i)
    BY <1>5 DEF SelectedKey, OrElseKey, ManagerKey
  <2> HIDE DEF i
  <2>3. i \in DOMAIN ctx.keys /\ SelectedKey = ctx.keys[i]
    BY <2>1, <2>2 DEF KeyAt
  <2> QED BY <1>5, <2>3
<1> QED BY <1>4, <1>5

\* Either way its material is one of those the policy admits.
LEMMA SelectedMaterial ==
    ASSUME TypeOK, ~ctx.hsm.on, SelectedKey # NoKey
    PROVE  SelectedKey.mat \in Policy!SignerMaterial(doc, ctx)
<1>1. DocOK(doc) /\ IsSeq(ctx.keys)
  BY DocsAssumption, CtxsAssumption DEF TypeOK
<1>2. IF EmbeddedKey # NoKey
      THEN ~ctx.trusted_keys_only /\ SelectedKey.mat \in Policy!DocumentMaterial(doc)
      ELSE \E i \in DOMAIN ctx.keys : SelectedKey = ctx.keys[i]
  BY <1>1, SelectedFrom
<1> QED BY <1>2 DEF Policy!SignerMaterial, Policy!ManagerMaterial

\* A signature that verifies under admissible material, after all stages, is core valid.
LEMMA AcceptedIsValid ==
    ASSUME TypeOK, Established, pc \in {"key", "x509", "check"},
           NEW m \in Policy!SignerMaterial(doc, ctx), NEW n, Accepts(doc, m, n)
    PROVE  Policy!CoreValid(doc, ctx)
<1>1. doc.parses /\ ~DuplicateId(doc)
  BY DEF Established, StructureOK
<1>2. DOMAIN vrefs = DOMAIN doc.refs
  <2>1. IsSeq(doc.refs) /\ Len(vrefs) = Len(doc.refs)
    BY DocsAssumption DEF TypeOK, Established, DocOK
  <2>2. DOMAIN vrefs = 1 .. Len(vrefs)
    BY DEF TypeOK
  <2> QED BY <2>1, <2>2, SeqDomain
<1>3. \A i \in DOMAIN doc.refs :
         /\ verify_reference(doc, doc.refs[i]) \in {"skipped", "verified"}
         /\ vrefs[i] = VerifiedRef(doc, doc.refs[i])
  BY <1>2 DEF Established, RefsVerified
<1>4. \A i \in DOMAIN doc.refs : Policy!ReferenceValid(doc, doc.refs[i])
  BY <1>3, PassedReference
<1>5. ASSUME ctx.strict, NEW i \in DOMAIN doc.refs
      PROVE  Policy!InPlace(doc, doc.refs[i])
  <2> SUFFICES ASSUME doc.refs[i].uri = "id" PROVE PositionOK(doc, IdMap(doc, doc.refs[i].id))
    BY SamePosition, SameIdMap DEF Policy!InPlace
  <2>1. vrefs[i].node = IdMap(doc, doc.refs[i].id) /\ vrefs[i].node # 0
    BY <1>3, PassedReference
  <2>2. PositionsOK
    BY <1>5 DEF Established
  <2> QED BY <1>2, <2>1, <2>2 DEF PositionsOK, NoNode
<1>6. doc.sv.intact /\ doc.sv.by = m
  BY DEF Accepts
<1> QED BY <1>1, <1>4, <1>5, <1>6, IdsUnique, LengthsAllowed DEF Policy!CoreValid

-----------------------------------------------------------------------------
(* verify() implements SignaturePolicy.                                    *)

\* A step of verify() that gives a verdict decides as the policy allows ...
LEMMA StepDecides ==
    ASSUME TypeOK, Established, [Next]_vars
    PROVE  [Policy!Decide]_<<doc, ctx, result>>
<1> USE DEF Return, Goto, TypeOK
<1>1. ASSUME NEW v \in {"Invalid", "Err"}, Return(v), pc # "done" PROVE Policy!Decide
  BY <1>1 DEF Policy!Decide
<1>2. ASSUME Return("Valid"), pc # "done", Policy!CoreValid(doc, ctx) PROVE Policy!Decide
  BY <1>2 DEF Policy!Decide
<1>3. CASE HsmAccepts
  <2>1. ctx.hsm.mat \in Policy!SignerMaterial(doc, ctx)
    BY <1>3 DEF HsmAccepts, Policy!SignerMaterial
  <2>2. Policy!CoreValid(doc, ctx)
    BY <1>3, <2>1, AcceptedIsValid DEF HsmAccepts
  <2> QED BY <1>2, <1>3, <2>2 DEF HsmAccepts
<1>4. CASE SignatureAccepted
  <2>1. pc = "check" /\ ~ctx.hsm.on /\ key = SelectedKey /\ key # NoKey
    BY <1>4 DEF SignatureAccepted, Established
  <2>2. key.mat \in Policy!SignerMaterial(doc, ctx)
    BY <2>1, SelectedMaterial
  <2>3. Policy!CoreValid(doc, ctx)
    BY <1>4, <2>1, <2>2, AcceptedIsValid DEF SignatureAccepted
  <2> QED BY <1>2, <1>4, <2>3 DEF SignatureAccepted
<1>5. CASE ParseFails \/ HmacLengthUnreadable \/ HmacLengthRejected \/ PqContextFails
  BY <1>1, <1>5 DEF ParseFails, HmacLengthUnreadable, HmacLengthRejected, PqContextFails
<1>6. CASE ReferenceFails \/ ReferenceMismatch \/ StrictFails \/ ValueFails \/ ValueLengthMismatch
  BY <1>1, <1>6 DEF ReferenceFails, ReferenceMismatch, StrictFails, ValueFails, ValueLengthMismatch
<1>7. CASE HsmRejects \/ HsmFails \/ NoKeyFound
  BY <1>1, <1>7 DEF HsmRejects, HsmFails, NoKeyFound
<1>8. CASE ChainRejected \/ KeyUnusable \/ SignatureRejected
  BY <1>1, <1>8 DEF ChainRejected, KeyUnusable, SignatureRejected
\* ... and every other step leaves the verdict alone.
<1>9. CASE Parse \/ ReadHmacLength \/ ReadPqContext \/ VerifyReference \/ ReferencesDone
  BY <1>9 DEF Parse, ReadHmacLength, ReadPqContext, VerifyReference, ReferencesDone
<1>10. CASE CheckPositions \/ ReadSignatureValue \/ ResolveKey
  BY <1>10 DEF CheckPositions, ReadSignatureValue, ResolveKey
<1>11. CASE ValidateChain \/ SkipValidation
  BY <1>11 DEF ValidateChain, SkipValidation
<1>12. CASE UNCHANGED vars
  BY <1>12 DEF vars
<1> QED BY <1>3, <1>4, <1>5, <1>6, <1>7, <1>8, <1>9, <1>10, <1>11, <1>12 DEF Next

\* verify() returns Valid only for a document that passes core validation under the
\* policy of the context: unique IDs, every digest, positions in strict mode, the HMAC
\* floor, and a signature by a key that trusted_keys_only admits.
THEOREM VerifyImplementsPolicy == Spec => ImplementsPolicy
<1>1. Init => Policy!Init
  BY DEF Init, Policy!Init
<1>2. Init => Established
  BY DEF Init, Established, RefsVerified
<1>3. TypeOK /\ Established /\ [Next]_vars => [Policy!Decide]_<<doc, ctx, result>>
  BY StepDecides
<1> QED BY <1>1, <1>2, <1>3, TypeCorrect, EstablishedInductive, PTL
        DEF Spec, ImplementsPolicy, Policy!Spec, Policy!pvars

-----------------------------------------------------------------------------
(* With X.509 validation on, the key's certificate leads to a trust anchor. *)

\* Where the key came from, that its chain was validated and that it can check signatures
\* stays known up to the verdict.
ChainValidated ==
    /\ pc \in {"x509", "check"} \/ (result = "Valid" /\ ~ctx.hsm.on) =>
          key = SelectedKey /\ key # NoKey /\ source = SelectedSource
    /\ pc = "check" \/ (result = "Valid" /\ ~ctx.hsm.on) =>
          (NeedsX509(ctx, key, source) => ChainOK(ctx, key))
    /\ result = "Valid" /\ ~ctx.hsm.on => UsableKey

\* The verdict is pending exactly until verify() returns.
VerdictGiven == (result = "pending") <=> (pc # "done")

\* Every step of verify() preserves it: nothing between the validation of the chain and
\* the verdict changes the key.
LEMMA ChainValidatedInductive ==
    VerdictGiven /\ ChainValidated /\ [Next]_vars => ChainValidated'
<1> SUFFICES ASSUME VerdictGiven, ChainValidated, [Next]_vars PROVE ChainValidated'
  OBVIOUS
<1>1. doc' = doc /\ ctx' = ctx => SelectedKey' = SelectedKey /\ SelectedSource' = SelectedSource
  BY DEF SelectedKey, SelectedSource, EmbeddedKey, ManagerKey, Kids
<1>2. ASSUME NEW v \in {"Invalid", "Err"}, Return(v) PROVE ChainValidated'
  BY <1>2 DEF Return, ChainValidated
<1>3. ASSUME NEW s \in Stages \ {"x509", "check", "done"}, Goto(s), pc # "done"
      PROVE  ChainValidated'
  BY <1>3 DEF Goto, ChainValidated, VerdictGiven
<1>4. CASE SignatureAccepted
  <2>1. /\ pc = "check" /\ UNCHANGED <<doc, ctx, key, source>> /\ UsableKey
    BY <1>4 DEF SignatureAccepted, Return
  <2>2. UsableKey'
    BY <2>1 DEF UsableKey
  <2> QED BY <1>1, <2>1, <2>2 DEF ChainValidated
<1>5. CASE ResolveKey
  <2>1. /\ pc' = "x509" /\ result' # "Valid" /\ UNCHANGED <<doc, ctx>>
        /\ key' = SelectedKey /\ SelectedKey # NoKey /\ source' = SelectedSource
    BY <1>5 DEF ResolveKey, Goto, VerdictGiven
  <2> QED BY <1>1, <2>1 DEF ChainValidated
<1>6. CASE ValidateChain
  <2>1. /\ pc = "x509" /\ pc' = "check" /\ result' # "Valid" /\ ChainOK(ctx, key)
        /\ UNCHANGED <<doc, ctx, key, source>>
    BY <1>6 DEF ValidateChain, Goto, VerdictGiven
  <2> QED BY <1>1, <2>1 DEF ChainValidated
<1>7. CASE SkipValidation
  <2>1. /\ pc = "x509" /\ pc' = "check" /\ result' # "Valid" /\ ~NeedsX509(ctx, key, source)
        /\ UNCHANGED <<doc, ctx, key, source>>
    BY <1>7 DEF SkipValidation, Goto, VerdictGiven
  <2> QED BY <1>1, <2>1 DEF ChainValidated
<1>8. CASE HsmAccepts
  BY <1>8 DEF HsmAccepts, Return, ChainValidated
<1>9. CASE ParseFails \/ HmacLengthUnreadable \/ HmacLengthRejected \/ PqContextFails
  BY <1>2, <1>9 DEF ParseFails, HmacLengthUnreadable, HmacLengthRejected, PqContextFails
<1>10. CASE ReferenceFails \/ ReferenceMismatch \/ StrictFails \/ ValueFails \/ ValueLengthMismatch
  BY <1>2, <1>10 DEF ReferenceFails, ReferenceMismatch, StrictFails, ValueFails, ValueLengthMismatch
<1>11. CASE HsmRejects \/ HsmFails \/ NoKeyFound \/ ChainRejected \/ KeyUnusable \/ SignatureRejected
  BY <1>2, <1>11 DEF HsmRejects, HsmFails, NoKeyFound, ChainRejected, KeyUnusable, SignatureRejected
<1>12. CASE Parse \/ ReadHmacLength \/ ReadPqContext \/ VerifyReference
  BY <1>3, <1>12 DEF Parse, ReadHmacLength, ReadPqContext, VerifyReference, Stages
<1>13. CASE ReferencesDone \/ CheckPositions \/ ReadSignatureValue
  BY <1>3, <1>13 DEF ReferencesDone, CheckPositions, ReadSignatureValue, Stages
<1>14. CASE UNCHANGED vars
  <2>1. UNCHANGED <<doc, ctx, pc, key, source, result>>
    BY <1>14 DEF vars
  <2>2. UsableKey => UsableKey'
    BY <2>1 DEF UsableKey
  <2> QED BY <1>1, <2>1, <2>2 DEF ChainValidated
<1> QED BY <1>4, <1>5, <1>6, <1>7, <1>8, <1>9, <1>10, <1>11, <1>12, <1>13, <1>14 DEF Next

\* The children key resolution looks at belong to an element of the document.
LEMMA KidsWellFormed ==
    ASSUME DocOK(doc), doc.ki # 0
    PROVE  KidsOK(Kids)
<1> DEFINE at == KidsById(doc)
           K == doc.kids[doc.ki]
           S == {j \in DOMAIN K : K[j].t = "KeyInfoReference" /\ K[j].id \in DOMAIN at}
           i == FirstOf(S)
<1>2. \A v \in DOMAIN at : KidsOK(at[v])
  BY IdMapNode DEF KidsById, DocOK
<1>3. KidsOK(K)
  BY DEF DocOK
<1>4. Kids = IF i = 0 THEN K ELSE at[K[i].id]
  BY DEF Kids, EffectiveKids
<1> HIDE DEF K, at
<1>5. i \in {0} \union S
  BY <1>3, FindIndex DEF KidsOK
<1> QED BY <1>2, <1>3, <1>4, <1>5

\* The first certificate of a leaf-first chain that came with the document holds the key.
LEMMA EmbeddedCertificate ==
    ASSUME DocOK(doc), EmbeddedKey # NoKey, Len(EmbeddedKey.chain) > 0, LeafFirst(EmbeddedKey.chain)
    PROVE  /\ IsSeq(EmbeddedKey.chain) /\ 1 \in DOMAIN EmbeddedKey.chain
           /\ CertOf(EmbeddedKey).mat = EmbeddedKey.mat
<1>1. EmbeddedKey = ExtractedKey(Kids, ctx.keys, KidsById(doc)) /\ doc.ki # 0
  BY DEF EmbeddedKey
<1>2. EmbeddedKey.chain # <<>>
  OBVIOUS
<1>3. IsSeq(EmbeddedKey.chain) /\ EmbeddedKey.chain[1].mat = EmbeddedKey.mat
  BY <1>1, <1>2, KidsWellFormed, ExtractedChain
<1>4. 1 \in DOMAIN EmbeddedKey.chain
  BY <1>3, SeqDomain
<1> QED BY <1>3, <1>4 DEF CertOf

\* The first certificate of a validated leaf-first chain holds the key.
LEMMA FirstCertificateHoldsKey ==
    ASSUME TypeOK, SelectedKey # NoKey, key = SelectedKey, source = SelectedSource,
           Len(key.chain) > 0, LeafFirst(key.chain),
           source = "manager" => CertOf(key).mat = key.mat
    PROVE  1 \in DOMAIN key.chain /\ CertOf(key).mat = key.mat
<1>1. IsSeq(ctx.keys) /\ \A i \in DOMAIN ctx.keys : IsSeq(ctx.keys[i].chain)
  BY CtxsAssumption DEF TypeOK
<1>3. CASE EmbeddedKey # NoKey
  <2>1. key = EmbeddedKey
    BY <1>3 DEF SelectedKey, OrElseKey
  <2>2. DocOK(doc)
    BY DocsAssumption DEF TypeOK
  <2> QED BY <1>3, <2>1, <2>2, EmbeddedCertificate
<1>4. CASE EmbeddedKey = NoKey
  <2> DEFINE i == IF doc.ki # 0 THEN resolve_key_info(Kids, ctx.keys) ELSE first_key(ctx.keys)
  <2>1. i \in {0} \union DOMAIN ctx.keys
    BY <1>1, ResolveKeyInfoIndex, ManagerLookups
  <2>2. SelectedKey = KeyAt(ctx.keys, i)
    BY <1>4 DEF SelectedKey, OrElseKey, ManagerKey
  <2> HIDE DEF i
  <2>3. i \in DOMAIN ctx.keys /\ key = ctx.keys[i]
    BY <2>1, <2>2 DEF KeyAt
  <2>4. IsSeq(key.chain)
    BY <1>1, <2>3
  <2>5. 1 \in DOMAIN key.chain
    BY <2>4, SeqDomain
  <2>6. source = "manager"
    BY <1>4 DEF SelectedSource
  <2> QED BY <2>5, <2>6
<1> QED BY <1>3, <1>4

\* ADR-0004: with trusted roots, a signature checked with the key of a leaf-first chain
\* is valid only if the certificate that holds the key leads to one of the roots.
THEOREM TrustedLeaf == Spec => []LeafFirstKeyTrusted
<1>1. Init => ChainValidated
  BY DEF Init, ChainValidated
<1>2. TypeOK /\ ChainValidated => LeafFirstKeyTrusted
  <2> SUFFICES ASSUME TypeOK, ChainValidated,
                      result = "Valid", ~ctx.hsm.on, NeedsX509(ctx, key, source),
                      LeafFirst(key.chain), source = "manager" => CertOf(key).mat = key.mat
               PROVE  \E c \in KeyCertificates(key) : Trusted(c, key)
    BY DEF LeafFirstKeyTrusted
  <2>1. /\ key = SelectedKey /\ key # NoKey /\ source = SelectedSource
        /\ ChainOK(ctx, key)
    BY DEF ChainValidated
  <2>2. 1 \in DOMAIN key.chain /\ CertOf(key).mat = key.mat
    BY <2>1, FirstCertificateHoldsKey DEF NeedsX509
  <2>3. CertOf(key) \in KeyCertificates(key)
    BY <2>2 DEF KeyCertificates, CertOf
  <2>4. Trusted(CertOf(key), key)
    BY <2>1 DEF Trusted, ChainOK
  <2> QED BY <2>3, <2>4
<1>3. TypeOK => VerdictGiven
  BY DEF TypeOK, VerdictGiven
<1> QED BY <1>1, <1>2, <1>3, TypeCorrect, ChainValidatedInductive, PTL DEF Spec

-----------------------------------------------------------------------------
(* The report of a valid result.                                           *)

\* What was established before the verdict still holds of a valid result.
Reported == result = "Valid" => StructureOK(doc) /\ Len(vrefs) = Len(doc.refs)

\* Only the two accepting steps give the verdict, both after the loop over the references.
LEMMA ReportedInductive == TypeOK /\ Established /\ Reported /\ [Next]_vars => Reported'
<1> SUFFICES ASSUME TypeOK, Established, Reported, [Next]_vars PROVE Reported'
  OBVIOUS
<1>1. ASSUME NEW v \in {"Invalid", "Err"}, Return(v) PROVE Reported'
  BY <1>1 DEF Return, Reported
<1>2. ASSUME NEW s, Goto(s), pc # "done" PROVE Reported'
  BY <1>2 DEF Goto, Reported, TypeOK
<1>3. CASE HsmAccepts \/ SignatureAccepted
  <2>1. pc \in {"key", "check"} /\ UNCHANGED <<doc, vrefs>>
    BY <1>3 DEF HsmAccepts, SignatureAccepted, Return
  <2> QED BY <2>1 DEF Established, Reported
<1>4. CASE ParseFails \/ HmacLengthUnreadable \/ HmacLengthRejected \/ PqContextFails
  BY <1>1, <1>4 DEF ParseFails, HmacLengthUnreadable, HmacLengthRejected, PqContextFails
<1>5. CASE ReferenceFails \/ ReferenceMismatch \/ StrictFails \/ ValueFails \/ ValueLengthMismatch
  BY <1>1, <1>5 DEF ReferenceFails, ReferenceMismatch, StrictFails, ValueFails, ValueLengthMismatch
<1>6. CASE HsmRejects \/ HsmFails \/ NoKeyFound \/ ChainRejected \/ KeyUnusable \/ SignatureRejected
  BY <1>1, <1>6 DEF HsmRejects, HsmFails, NoKeyFound, ChainRejected, KeyUnusable, SignatureRejected
<1>7. CASE Parse \/ ReadHmacLength \/ ReadPqContext \/ VerifyReference \/ ReferencesDone
  BY <1>2, <1>7 DEF Parse, ReadHmacLength, ReadPqContext, VerifyReference, ReferencesDone
<1>8. CASE CheckPositions \/ ReadSignatureValue \/ ResolveKey \/ ValidateChain \/ SkipValidation
  BY <1>2, <1>8 DEF CheckPositions, ReadSignatureValue, ResolveKey, ValidateChain, SkipValidation
<1>9. CASE UNCHANGED vars
  BY <1>9 DEF vars, Reported
<1> QED BY <1>3, <1>4, <1>5, <1>6, <1>7, <1>8, <1>9 DEF Next

\* With unique IDs, the element the ID map gives is the only one that carries the ID.
LEMMA IdMapUnique ==
    ASSUME NEW d, DocOK(d), ~DuplicateId(d), NEW v, IdMap(d, v) # 0, NEW n \in Nodes(d)
    PROVE  n = IdMap(d, v) <=> \E k \in DOMAIN d.ids[n] : d.ids[n][k] = v
<1> DEFINE S == {m \in Nodes(d) : \E k \in DOMAIN d.ids[m] : d.ids[m][k] = v}
<1>1. IdMap(d, v) \in S
  BY FindIndex DEF IdMap, Nodes, DocOK
<1>2. ASSUME NEW m \in S, n \in S PROVE n = m
  BY <1>2, IdsUnique DEF Policy!UniqueIds, Policy!Nodes, Nodes
<1> QED BY <1>1, <1>2

\* README.md, "Inspecting what was signed": a valid result reports every Reference in
\* order, marks exactly the skipped cid: ones as unverified, and names the only element
\* that carries the referenced ID.
THEOREM ReportIsComplete == Spec => []ReportComplete
<1>1. Init => Established /\ Reported
  BY DEF Init, Established, RefsVerified, Reported
<1>2. TypeOK /\ Established /\ Reported => ReportComplete
  <2> SUFFICES ASSUME TypeOK, Established, Reported, result = "Valid" PROVE ReportComplete
    BY DEF ReportComplete
  <2>1. DocOK(doc) /\ ~DuplicateId(doc) /\ Len(vrefs) = Len(doc.refs)
    BY DocsAssumption DEF TypeOK, Reported, StructureOK
  <2>2. DOMAIN vrefs = DOMAIN doc.refs
    <3>1. DOMAIN vrefs = 1 .. Len(vrefs)
      BY DEF TypeOK
    <3> QED BY <2>1, <3>1, SeqDomain DEF DocOK
  <2> SUFFICES ASSUME NEW i \in DOMAIN doc.refs
               PROVE  /\ vrefs[i].digest_verified <=> doc.refs[i].uri # "cid"
                      /\ doc.refs[i].uri = "id" =>
                            \A n \in Nodes(doc) :
                                n = vrefs[i].node <=>
                                \E k \in DOMAIN doc.ids[n] : doc.ids[n][k] = doc.refs[i].id
    BY <2>1 DEF ReportComplete
  <2>3. /\ verify_reference(doc, doc.refs[i]) \in {"skipped", "verified"}
        /\ vrefs[i] = VerifiedRef(doc, doc.refs[i])
    BY <2>2 DEF Established, RefsVerified
  <2>4. vrefs[i].digest_verified <=> doc.refs[i].uri # "cid"
    <3>1. VerifiedRef(doc, doc.refs[i]).digest_verified <=> doc.refs[i].uri # "cid"
      BY Zenon DEF VerifiedRef
    <3>2. vrefs[i].digest_verified = VerifiedRef(doc, doc.refs[i]).digest_verified
      BY <2>3
    <3> QED BY <3>1, <3>2, Zenon
  <2>5. ASSUME doc.refs[i].uri = "id", NEW n \in Nodes(doc)
        PROVE  n = vrefs[i].node <=> \E k \in DOMAIN doc.ids[n] : doc.ids[n][k] = doc.refs[i].id
    <3>1. vrefs[i].node = IdMap(doc, doc.refs[i].id) /\ IdMap(doc, doc.refs[i].id) # 0
      BY <2>3, <2>5, PassedReference
    <3> QED BY <2>1, <3>1, IdMapUnique
  <2> QED BY <2>4, <2>5
<1> QED BY <1>1, <1>2, TypeCorrect, EstablishedInductive, ReportedInductive, PTL DEF Spec

-----------------------------------------------------------------------------
(* A known KeyName decides in trusted_keys_only mode.                      *)

\* find_by_name returns a key of that name, and resolve_key_info the key of a KeyName
\* child as soon as the manager knows one of the names.
LEMMA NameDecides ==
    ASSUME NEW ks, IsSeq(ks), NEW kids, IsSeq(kids),
           NEW j \in DOMAIN kids, KeyByName(kids[j], ks) # 0
    PROVE  \E i \in DOMAIN kids :
              /\ kids[i].t = "KeyName" /\ find_by_name(ks, kids[i].name) # 0
              /\ resolve_key_info(kids, ks) = find_by_name(ks, kids[i].name)
<1> DEFINE S == {k \in DOMAIN kids : KeyByName(kids[k], ks) # 0}
           i == FirstOf(S)
<1>1. i \in S /\ i # 0
  BY FindIndex
<1>2. resolve_key_info(kids, ks) = KeyByName(kids[i], ks)
  BY <1>1 DEF resolve_key_info
<1> HIDE DEF i
<1>3. i \in DOMAIN kids /\ KeyByName(kids[i], ks) # 0
  BY <1>1
<1>4. /\ kids[i].t = "KeyName" /\ find_by_name(ks, kids[i].name) # 0
      /\ resolve_key_info(kids, ks) = find_by_name(ks, kids[i].name)
  BY <1>2, <1>3 DEF KeyByName
<1> QED BY <1>3, <1>4

\* The key find_by_name returns has the name.
LEMMA FoundByName ==
    ASSUME NEW ks, IsSeq(ks), NEW n, find_by_name(ks, n) # 0
    PROVE  ks[find_by_name(ks, n)].name = n
<1> DEFINE S == {i \in DOMAIN ks : ks[i].name # NoName /\ ks[i].name = n}
<1>1. FirstOf(S) \in {0} \union S
  BY FindIndex
<1> QED BY <1>1 DEF find_by_name

\* In trusted_keys_only mode, a valid signature whose KeyInfo has a name the manager
\* knows was checked with a key of such a name, whatever else the KeyInfo holds.
THEOREM NameIsRespected == Spec => []NamedKeyUsed
<1>1. Init => ChainValidated
  BY DEF Init, ChainValidated
<1>2. TypeOK /\ ChainValidated => NamedKeyUsed
  <2> DEFINE known == {i \in DOMAIN Kids : Kids[i].t = "KeyName"
                                          /\ find_by_name(ctx.keys, Kids[i].name) # 0}
  <2> SUFFICES ASSUME TypeOK, ChainValidated, result = "Valid", ctx.trusted_keys_only,
                      ~ctx.hsm.on, doc.ki # 0, NEW j \in known
               PROVE  \E i \in known : key.name = Kids[i].name
    BY DEF NamedKeyUsed
  <2>1. IsSeq(ctx.keys) /\ IsSeq(Kids)
    BY DocsAssumption, CtxsAssumption, KidsWellFormed DEF TypeOK, KidsOK
  <2>2. key = KeyAt(ctx.keys, resolve_key_info(Kids, ctx.keys))
    BY DEF ChainValidated, SelectedKey, OrElseKey, EmbeddedKey, ManagerKey
  <2>3. j \in DOMAIN Kids /\ KeyByName(Kids[j], ctx.keys) # 0
    BY DEF KeyByName
  <2>4. PICK i \in DOMAIN Kids :
              /\ Kids[i].t = "KeyName" /\ find_by_name(ctx.keys, Kids[i].name) # 0
              /\ resolve_key_info(Kids, ctx.keys) = find_by_name(ctx.keys, Kids[i].name)
    BY <2>1, <2>3, NameDecides
  <2>5. key.name = Kids[i].name
    BY <2>1, <2>2, <2>4, FoundByName DEF KeyAt
  <2> QED BY <2>4, <2>5
<1>3. TypeOK => VerdictGiven
  BY DEF TypeOK, VerdictGiven
<1> QED BY <1>1, <1>2, <1>3, TypeCorrect, ChainValidatedInductive, PTL DEF Spec
=============================================================================
