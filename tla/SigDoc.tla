------------------------------- MODULE SigDoc -------------------------------
(***************************************************************************)
(* A document as signature validation sees it, and the queries of          *)
(* crates/bergshamra-dsig/src/verify.rs on it.                             *)
(*                                                                         *)
(* A document is a record:                                                 *)
(*   parses           the text is well-formed XML                          *)
(*   parent           the element tree: the parent of every element, 0 for *)
(*                    the document element; elements are numbered in       *)
(*                    document order                                       *)
(*   ids              the values of the ID attributes of every element     *)
(*   kids             the KeyInfo children of every element (KeyInfo)      *)
(*   sigs             the Signature elements                               *)
(* and the content of the first Signature:                                 *)
(*   signedinfo, c14n, method, hmaclen, bits, fullmac, pqctx, ki           *)
(*   refs             the Reference elements: the kind of uri and its id,  *)
(*                    whether an external one resolves (ext), the state of *)
(*                    DigestMethod (method) and DigestValue (value), the   *)
(*                    success of the transforms and whether they start     *)
(*                    with enveloped-signature, the digest `expected' and  *)
(*                    the digest `actual' of the transformed target        *)
(*   sv               the SignatureValue: its form, its length in bytes,   *)
(*                    the material it was made `by', and whether           *)
(*                    SignedInfo is `intact', what was signed              *)
(***************************************************************************)
EXTENDS KeyInfo, Integers

NoLength == -1
NoNode == 0

Nodes(d) == DOMAIN d.parent

\* The fields have the shapes described above (what the proofs need of them).
DocOK(d) == /\ IsSeq(d.parent) /\ IsSeq(d.refs)
            /\ DOMAIN d.kids = Nodes(d) /\ \A n \in Nodes(d) : KidsOK(d.kids[n])
            /\ d.ki \in {0} \union Nodes(d)
            /\ d.bits \in Nat /\ d.sv.len \in Nat
            /\ d.hmaclen \in {"absent", "bad", "bits"}

-----------------------------------------------------------------------------
(* Queries.                                                                *)

\* All occurrences of an ID value: <<element, position in its ID attributes>>.
IdOccurrences(d, v) ==
    UNION {{<<n, k>> : k \in {j \in DOMAIN d.ids[n] : d.ids[n][j] = v}} : n \in Nodes(d)}

IdValues(d) == UNION {{d.ids[n][k] : k \in DOMAIN d.ids[n]} : n \in Nodes(d)}

\* Variant: a value given twice on ONE element is overlooked.
DuplicateIdAcrossElements(d) ==
    \E v \in IdValues(d) : \E p, q \in IdOccurrences(d, v) : p[1] # q[1]

\* build_id_map fails on the second occurrence of a value, on the same element or not.
DuplicateId(d) ==
    \E v \in IdValues(d) : \E p, q \in IdOccurrences(d, v) : p # q

\* resolve_id / id_map.get: the element that carries an ID value, 0 if there is none.
IdMap(d, v) == FirstOf({n \in Nodes(d) : \E k \in DOMAIN d.ids[n] : d.ids[n][k] = v})

\* id_map composed with the children of the element found.
KidsById(d) == [v \in IdValues(d) |-> d.kids[IdMap(d, v)]]

\* find_element: the first Signature in document order.
SignatureNode(d) == FirstOf(d.sigs)

\* The ancestors of an element and the element itself (xpath::is_ancestor_or_self).
AncestorsOrSelf(d, n) ==
    LET up[m \in Nodes(d)] == {m} \union (IF d.parent[m] = 0 THEN {} ELSE up[d.parent[m]])
    IN  up[n]

\* validate_reference_position: the document element, an ancestor or a sibling.
PositionOK(d, target) ==
    LET sig == SignatureNode(d)
    IN  \/ d.parent[target] = 0
        \/ target \in AncestorsOrSelf(d, sig)
        \/ d.parent[target] = d.parent[sig]

\* Everything verify() needs before it looks at a Reference.
StructureOK(d) ==
    /\ d.parses
    /\ ~DuplicateId(d)
    /\ d.sigs # {}
    /\ d.signedinfo
    /\ d.c14n = "ok"
    /\ d.method # "missing"

\* resolve_reference_uri: whether there is something to digest ...
Resolves(d, r) == CASE r.uri = "id"  -> IdMap(d, r.id) # 0
                    [] r.uri = "ext" -> r.ext
                    [] OTHER         -> TRUE

\* ... and which element it is, for a same-document ID reference.
ResolvedNode(d, r) == IF r.uri = "id" THEN IdMap(d, r.id) ELSE NoNode

\* The early returns of verify_reference before the digests are compared.
RefErrs(d, r) == \/ r.method = "missing"
                 \/ r.value # "ok"
                 \/ ~Resolves(d, r)
                 \/ ~r.transforms
                 \/ r.method = "unsupported"

\* The outcome of verify_reference on a Reference.
verify_reference(d, r) ==
    CASE r.uri = "cid" -> "skipped"
      [] r.uri # "cid" /\ RefErrs(d, r) -> "error"
      [] r.uri # "cid" /\ ~RefErrs(d, r) /\ r.expected # r.actual -> "mismatch"
      [] OTHER -> "verified"

\* Variant: a skipped cid: reference is reported as verified.
VerifiedRefAlways(d, r) == [node |-> ResolvedNode(d, r), digest_verified |-> TRUE]

VerifiedRef(d, r) == [node |-> IF r.uri = "cid" THEN NoNode ELSE ResolvedNode(d, r),
                      digest_verified |-> r.uri # "cid"]

\* The two tests on HMACOutputLength: against the context's floor, and against the
\* decoded SignatureValue.
LengthOK(bits, min) == bits % 8 = 0 /\ (min > 0 => bits >= min)

\* Variant: bytes compared with bits.
WrongLengthUnits(d, bits) == bits # NoLength /\ d.sv.len # bits

WrongLength(d, bits) == bits # NoLength /\ d.sv.len # bits \div 8

\* sig_alg.verify / verify_truncated: whether the key of that material made the
\* SignatureValue.  Without an HMACOutputLength a MAC must have its full length.
Accepts(d, mat, bits) ==
    /\ d.sv.by = mat
    /\ d.sv.intact
    /\ d.method = "Hmac" /\ bits = NoLength => d.sv.len = d.fullmac
=============================================================================
