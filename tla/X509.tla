-------------------------------- MODULE X509 --------------------------------
(***************************************************************************)
(* X.509 handling of crates/bergshamra-keys: which certificate of an       *)
(* <X509Data> is the end-entity one (keyinfo.rs, find_leaf_cert) and the   *)
(* validation of a certificate against the trust store (x509.rs).          *)
(*                                                                         *)
(* A certificate is a record: subject and issuer names, the CA flag, the   *)
(* serial number, the kind and material of its public key, the material of *)
(* the key that signed it, and its validity interval.                      *)
(***************************************************************************)
EXTENDS Keys, FiniteSets

-----------------------------------------------------------------------------
(* find_leaf_cert(certs): an index of the non-empty sequence cs.           *)

\* is_issuer_of_other[i]: the subject of i is the issuer of another certificate.
IsIssuerOfOther(cs, i) == \E j \in DOMAIN cs : i # j /\ cs[i].subj = cs[j].iss

\* Strategy 1: neither a CA nor the issuer of another certificate.
EndEntities(cs) == {i \in DOMAIN cs : ~cs[i].ca /\ ~IsIssuerOfOther(cs, i)}

\* Strategy 2: not the issuer of another certificate.
NonIssuers(cs) == {i \in DOMAIN cs : ~IsIssuerOfOther(cs, i)}

\* Strategy 3: not a CA.
NonCAs(cs) == {i \in DOMAIN cs : ~cs[i].ca}

\* The last of several candidates (candidates.last()).
LastOf(S) == CHOOSE i \in S : \A j \in S : j <= i

find_leaf_cert(cs) ==
    CASE EndEntities(cs) # {} -> LastOf(EndEntities(cs))
      [] EndEntities(cs) = {} /\ NonIssuers(cs) # {} -> LastOf(NonIssuers(cs))
      [] EndEntities(cs) = {} /\ NonIssuers(cs) = {} /\ NonCAs(cs) # {} -> LastOf(NonCAs(cs))
      [] OTHER -> Len(cs)

\* A chain listed from the end-entity certificate upwards: each certificate is issued
\* by the next, and the first issued none of the others.
LeafFirst(cs) == /\ \A i \in 1 .. Len(cs) - 1 : cs[i].iss = cs[i + 1].subj
                 /\ ~IsIssuerOfOther(cs, 1)

-----------------------------------------------------------------------------
(* validate_cert_chain(leaf_der, additional_certs, config).                *)

\* check_cert_time_validity; `now' is the override or the system clock.
TimeValid(c, cfg) == cfg.skip_time \/ (c.nb <= cfg.now /\ cfg.now <= c.na)

\* One link of a chain: d issued c, and c's signature verifies under d's key.
IssuedBy(c, d) == c.iss = d.subj /\ c.by = d.mat

\* The chain building and verification of tsp_ltv: the leaf reaches a trust
\* anchor through certificates of the pool, each link signed by the next one and
\* each certificate inside its validity interval.  Stated without a recursion:
\* every set that holds the leaf and is closed under "issued by a usable
\* certificate of the pool" holds a certificate some anchor issued.
ChainVerifies(leaf, pool, anchors, cfg) ==
    /\ TimeValid(leaf, cfg)
    /\ \A S \in SUBSET (pool \union {leaf}) :
         /\ leaf \in S
         /\ \A c \in S, d \in pool : IssuedBy(c, d) /\ TimeValid(d, cfg) => d \in S
         => \E c \in S, a \in anchors : IssuedBy(c, a) /\ TimeValid(a, cfg)

\* check_crls: only the leaf is looked up, by serial number alone, in every CRL;
\* an entry counts once its revocation date is not after the verification time.
Revoked(leaf, crls, cfg) ==
    \E e \in crls : e.serial = leaf.serial /\ e.date <= cfg.now

\* The verdict on `leaf', the other certificates of the KeyInfo being `extra'.
\* A certificate that is itself in the trust store is accepted on its
\* self-signature and its dates alone: that branch returns before the CRLs.
validate_cert_chain(leaf, extra, cfg) ==
    /\ cfg.trusted # {}
    /\ IF leaf \in cfg.trusted
       THEN IssuedBy(leaf, leaf) /\ TimeValid(leaf, cfg)
       ELSE LET pool == (extra \ {leaf}) \union cfg.untrusted
            IN  /\ ChainVerifies(leaf, pool, cfg.trusted, cfg)
                /\ ~Revoked(leaf, cfg.crls, cfg)
=============================================================================
