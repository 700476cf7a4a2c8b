--------------------------- MODULE SignaturePolicy ---------------------------
(***************************************************************************)
(* What verify() promises, with nothing of how it gets there: one step     *)
(* decides, and it may decide "Valid" only for a document that passes core *)
(* validation under the policy of the context.  README.md, "Security       *)
(* hardening", states the policy: unique IDs always, reference positions   *)
(* in strict mode, pre-loaded keys only in trusted_keys_only mode, and the *)
(* floor on truncated HMACs.                                               *)
(***************************************************************************)
EXTENDS SigDoc

CONSTANTS Docs, Ctxs

VARIABLES doc, ctx, verdict

pvars == <<doc, ctx, verdict>>

\* No two ID attributes of the document have the same value.
UniqueIds(d) ==
    \A n, m \in Nodes(d) : \A j \in DOMAIN d.ids[n], k \in DOMAIN d.ids[m] :
        d.ids[n][j] = d.ids[m][k] => n = m /\ j = k

\* A Reference is validated, or is left to the caller because it is a cid: reference.
ReferenceValid(d, r) == \/ r.uri = "cid"
                        \/ Resolves(d, r) /\ r.transforms /\ r.expected = r.actual

\* The element a same-document Reference signs stands where strict mode wants it.
InPlace(d, r) == r.uri = "id" => PositionOK(d, IdMap(d, r.id))

\* A truncated MAC is as long as it says and not shorter than the context allows.
LengthAllowed(d, c) ==
    d.method = "Hmac" /\ d.hmaclen # "absent" =>
        /\ d.sv.len * 8 = d.bits
        /\ c.hmac_min > 0 => d.bits >= c.hmac_min

\* All key material the document brings along.
DocumentMaterial(d) ==
    UNION {UNION {ChildMaterial(d.kids[n][i]) : i \in DOMAIN d.kids[n]} : n \in Nodes(d)}

ManagerMaterial(c) == {c.keys[i].mat : i \in DOMAIN c.keys}

\* The material a signature may have been made with.
SignerMaterial(d, c) ==
    IF c.hsm.on THEN {c.hsm.mat}
    ELSE ManagerMaterial(c) \union
         (IF c.trusted_keys_only THEN {} ELSE DocumentMaterial(d))

CoreValid(d, c) ==
    /\ d.parses
    /\ UniqueIds(d)
    /\ \A i \in DOMAIN d.refs : ReferenceValid(d, d.refs[i])
    /\ c.strict => \A i \in DOMAIN d.refs : InPlace(d, d.refs[i])
    /\ LengthAllowed(d, c)
    /\ d.sv.intact
    /\ d.sv.by \in SignerMaterial(d, c)

Init == doc \in Docs /\ ctx \in Ctxs /\ verdict = "pending"

Decide == /\ verdict = "pending"
          /\ verdict' \in {"Valid", "Invalid", "Err"}
          /\ verdict' = "Valid" => CoreValid(doc, ctx)
          /\ UNCHANGED <<doc, ctx>>

Spec == Init /\ [][Decide]_pvars
=============================================================================
