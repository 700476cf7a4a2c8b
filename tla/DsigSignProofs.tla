--------------------------- MODULE DsigSignProofs ---------------------------
(***************************************************************************)
(* Theorems about sign(), for every set of templates and signers, alone    *)
(* (DsigSign) and followed by verify() (SignVerify): the type invariant,   *)
(* that it writes a place once and which text it replaces, that the        *)
(* document it returns is consistent, and that verify() accepts it.        *)
(***************************************************************************)
EXTENDS SignVerify, LookupLemmas

\* verify() runs on its own variables: the composed system is sign() for sign().
LEMMA ComposedSigns == Spec => SSpec
<1>1. Init => SInit
  BY DEF Init
<1>2. [Next]_<<svars, vvars>> => [SNext]_svars
  BY DEF Next, SignStep, Deliver, VerifyStep
<1> QED BY <1>1, <1>2, PTL DEF Spec, SSpec

-----------------------------------------------------------------------------
(* The writers.                                                            *)

\* The shape of the template, which no step changes.
TplOK == IsSeq(tpl.slots) /\ IsSeq(Sdoc.refs)

\* content is result_xml seen through its slots; what sign() writes is not empty, and KeyInfo
\* is written last.
ContentOK ==
    /\ DOMAIN content = Slots /\ content = [s \in Slots |-> content[s]]
    /\ \A s \in Slots : content[s] = Empty => tpl.text[s] = Empty
    /\ spc \in {"parse", "refs", "sign", "x509"} =>
          \A s \in Slots : Kind(s) \in KeyInfoNames => content[s] = tpl.text[s]

\* A step may only write into slots of the given kinds, and into empty ones or the first X509Data.
FillsOnly(c, kinds) ==
    \A s \in Slots : c[s] # content[s] =>
        c[s] # Empty /\ (content[s] = Empty \/ Overwritable(s)) /\ Kind(s) \in kinds

\* replace_first_empty_element changes at most one slot, which is empty and of the name.
LEMMA ReplaceFills ==
    ASSUME TplOK, ContentOK, NEW name, NEW value, value # Empty
    PROVE  LET c == replace_first_empty_element(content, name, value)
           IN  DOMAIN c = Slots /\ c = [s \in Slots |-> c[s]] /\ FillsOnly(c, {name})
<1> DEFINE S == {t \in Slots : Kind(t) = name /\ content[t] = Empty}
           f == FirstOf(S)
           c == replace_first_empty_element(content, name, value)
<1>1. f \in {0} \union S
  BY FindIndex DEF TplOK, Slots
<1>2. c = IF f = 0 THEN content ELSE [content EXCEPT ![f] = value]
  BY DEF replace_first_empty_element
<1> HIDE DEF f, c
<1>3. DOMAIN c = Slots
  BY <1>2 DEF ContentOK
<1>4. c = [s \in Slots |-> c[s]]
  BY <1>2, <1>3 DEF ContentOK
<1>5. FillsOnly(c, {name})
  BY <1>1, <1>2 DEF ContentOK, FillsOnly
<1> QED BY <1>3, <1>4, <1>5 DEF c

\* The first place of some names is one of them, if there is one.
LEMMA FirstPlace ==
    ASSUME TplOK, NEW names
    PROVE  /\ FirstOfKind(names) \in {0} \union {t \in Slots : Kind(t) \in names}
           /\ FirstOfKind(names) \in Slots <=> FirstOfKind(names) # 0
<1>1. FirstOfKind(names) \in {0} \union {t \in Slots : Kind(t) \in names}
  BY FindIndex DEF TplOK, Slots, FirstOfKind
<1>2. 0 \notin Slots
  BY SeqDomain DEF TplOK, Slots
<1> QED BY <1>1, <1>2

\* A KeyInfo child is written into the slot it is meant for, and nowhere else.
LEMMA WriteOne ==
    ASSUME TplOK, NEW f, NEW kid
    PROVE  LET c == Write(content, f, kid)
           IN  /\ DOMAIN c = Slots /\ c = [s \in Slots |-> c[s]]
               /\ \A s \in Slots : c[s] = IF s = f THEN <<"kid", kid>> ELSE content[s]
BY Zenon DEF Write

\* A KeyInfo child is not empty text.
LEMMA KidsDiffer == \A kid : <<"kid", kid>> # Empty /\ <<"kid", kid>> # Text /\ <<"kid", kid>>[2] = kid
BY DEF Empty, Text

\* Two of the populate functions write into an empty slot of one of their names, or nowhere.
LEMMA PopulateFills ==
    ASSUME TplOK, NEW names, NEW kid
    PROVE  LET c == Write(content, PopulateFirst(content, names), kid)
           IN  DOMAIN c = Slots /\ c = [s \in Slots |-> c[s]] /\ FillsOnly(c, names)
<1> DEFINE f == FirstOfKind(names)
           g == PopulateFirst(content, names)
           c == Write(content, g, kid)
<1>1. f \in {0} \union {t \in Slots : Kind(t) \in names} /\ (f \in Slots <=> f # 0)
  BY FirstPlace
<1>2. g = IF f = 0 \/ content[f] # Empty THEN 0 ELSE f
  BY DEF PopulateFirst
<1>3. 0 \notin Slots
  BY SeqDomain DEF TplOK, Slots
<1> HIDE DEF f, g
<1>4. /\ DOMAIN c = Slots /\ c = [s \in Slots |-> c[s]]
      /\ \A s \in Slots : c[s] = IF s = g THEN <<"kid", kid>> ELSE content[s]
  BY WriteOne
<1> HIDE DEF c
<1>5. FillsOnly(c, names)
  BY <1>1, <1>2, <1>3, <1>4, KidsDiffer DEF FillsOnly
<1> QED BY <1>4, <1>5 DEF c, g

\* populate_x509_data writes into the first X509Data, or nowhere.
LEMMA PopulateX509Fills ==
    ASSUME TplOK, ContentOK, TemplateOK(tpl), spc = "x509", NEW kid
    PROVE  LET c == Write(content, PopulateX509(content), kid)
           IN  DOMAIN c = Slots /\ c = [s \in Slots |-> c[s]] /\ FillsOnly(c, X509Names)
<1> DEFINE g == PopulateX509(content)
           c == Write(content, g, kid)
<1>1. X509Slot \in {0} \union {t \in Slots : Kind(t) \in X509Names} /\ (X509Slot \in Slots <=> X509Slot # 0)
  BY FirstPlace DEF X509Slot
<1>2. g = IF X509Slot = 0 \/ ~Writes509(X509Slot) THEN 0 ELSE X509Slot
  BY DEF PopulateX509
<1>3. 0 \notin Slots
  BY SeqDomain DEF TplOK, Slots
<1> HIDE DEF g
<1>4. /\ DOMAIN c = Slots /\ c = [s \in Slots |-> c[s]]
      /\ \A s \in Slots : c[s] = IF s = g THEN <<"kid", kid>> ELSE content[s]
  BY WriteOne
<1> HIDE DEF c
<1>5. ASSUME NEW s \in Slots, c[s] # content[s]
      PROVE  c[s] # Empty /\ (content[s] = Empty \/ Overwritable(s)) /\ Kind(s) \in X509Names
  <2>1. s = X509Slot /\ Kind(s) \in X509Names /\ c[s] = <<"kid", kid>>
    BY <1>1, <1>2, <1>3, <1>4, <1>5
  <2>2. Kind(s) = "X509Template" => content[s] = Empty
    BY <1>5 DEF ContentOK, TemplateOK, Kind, Slots, KeyInfoNames, X509Names
  <2> QED BY <2>1, <2>2, KidsDiffer DEF Overwritable, X509Names
<1>6. FillsOnly(c, X509Names)
  BY <1>5 DEF FillsOnly
<1> QED BY <1>4, <1>6 DEF c, g

-----------------------------------------------------------------------------
(* What a step of sign() changes.                                          *)

StageKinds(stage) == CASE stage = "refs" -> {"DigestValue"}
                       [] stage = "sign" -> {"SignatureValue"}
                       [] stage \in {"x509", "keyvalue", "der", "session"} -> KeyInfoNames
                       [] OTHER -> {}

\* A job with its type: what the assumption on the inputs gives for the chosen one.
LEMMA ChosenInputs ==
    STypeOK => TemplateOK(tpl) /\ KeysOK(signer.keys) /\ KeysOK(signer.peer.keys)
<1> SUFFICES ASSUME STypeOK
             PROVE  TemplateOK(tpl) /\ KeysOK(signer.keys) /\ KeysOK(signer.peer.keys)
  OBVIOUS
<1> DEFINE j == [tpl |-> tpl, signer |-> signer]
<1>1. j \in Jobs /\ j.tpl = tpl /\ j.signer = signer
  BY DEF STypeOK
<1> HIDE DEF j
<1> QED BY <1>1, JobsAssumption

LEMMA ChosenJob == STypeOK => TplOK
BY ChosenInputs DEF TplOK, Sdoc, TemplateOK, DocOK

\* The template and the signer stay; the only slots that change are empty ones of the
\* kinds the stage is about.
LEMMA StepFills ==
    ASSUME STypeOK, ContentOK, [SNext]_svars
    PROVE  /\ tpl' = tpl /\ signer' = signer
           /\ DOMAIN content' = Slots /\ content' = [s \in Slots |-> content'[s]]
           /\ FillsOnly(content', StageKinds(spc))
<1>0. TplOK
  BY ChosenJob
<1>1. ASSUME UNCHANGED <<tpl, signer, content>>
      PROVE  /\ tpl' = tpl /\ signer' = signer
             /\ DOMAIN content' = Slots /\ content' = [s \in Slots |-> content'[s]]
             /\ FillsOnly(content', StageKinds(spc))
  BY <1>1 DEF ContentOK, FillsOnly
<1>2. CASE SParseFails \/ SReparseFails \/ SkipCid \/ SReferenceFails \/ SigningFails \/ SessionKeyFails \/ ReturnSigned
  BY <1>1, <1>2 DEF SParseFails, SReparseFails, SkipCid, SReferenceFails, SigningFails, SessionKeyFails,
                    ReturnSigned, Stop
<1>3. CASE SParse \/ DigestsDone
  BY <1>1, <1>3 DEF SParse, DigestsDone, Fill
<1>4. CASE DigestReference
  <2>1. /\ spc = "refs" /\ UNCHANGED <<tpl, signer>>
        /\ \/ content' = content
           \/ content' = replace_first_empty_element(content, "DigestValue", Digest(Ref_i, content))
    BY <1>4 DEF DigestReference, MoreRefs
  <2>2. CASE content' = content
    BY <1>1, <2>1, <2>2
  <2>3. CASE content' = replace_first_empty_element(content, "DigestValue", Digest(Ref_i, content))
    <3>1. Digest(Ref_i, content) # Empty
      BY DEF Digest, Empty
    <3> QED BY <1>0, <2>1, <2>3, <3>1, ReplaceFills DEF StageKinds
  <2> QED BY <2>1, <2>2, <2>3
<1>5. CASE HsmSign \/ SoftwareSign
  <2>1. /\ spc = "sign" /\ UNCHANGED <<tpl, signer>>
        /\ \E v : v # Empty /\ content' = replace_first_empty_element(content, "SignatureValue", v)
    <3>1. \A m, n : SignatureBy(m, n) # Empty
      BY DEF SignatureBy, Empty
    <3> QED BY <1>5, <3>1 DEF HsmSign, SoftwareSign, Fill
  <2> QED BY <1>0, <2>1, ReplaceFills DEF StageKinds
<1>6. ASSUME NEW names, names \subseteq KeyInfoNames, spc \in {"x509", "keyvalue", "der", "session"},
             UNCHANGED <<tpl, signer>>,
             DOMAIN content' = Slots, content' = [s \in Slots |-> content'[s]],
             FillsOnly(content', names)
      PROVE  /\ tpl' = tpl /\ signer' = signer
             /\ DOMAIN content' = Slots /\ content' = [s \in Slots |-> content'[s]]
             /\ FillsOnly(content', StageKinds(spc))
  <2>1. StageKinds(spc) = KeyInfoNames
    BY <1>6 DEF StageKinds
  <2> QED BY <1>6, <2>1 DEF FillsOnly
<1>7. CASE PopulateX509Data
  <2>1. /\ spc = "x509" /\ UNCHANGED <<tpl, signer>>
        /\ \/ content' = content
           \/ \E kid : content' = Write(content, PopulateX509(content), kid)
    BY <1>7, Zenon DEF PopulateX509Data, Fill
  <2>2. CASE content' = content
    BY <1>1, <2>1, <2>2
  <2>3. CASE \E kid : content' = Write(content, PopulateX509(content), kid)
    <3>1. PICK kid : content' = Write(content, PopulateX509(content), kid)
      BY <2>3
    <3>2. /\ DOMAIN content' = Slots /\ content' = [s \in Slots |-> content'[s]]
          /\ FillsOnly(content', X509Names)
      BY <1>0, <2>1, <3>1, ChosenInputs, PopulateX509Fills
    <3>3. X509Names \subseteq KeyInfoNames
      BY DEF KeyInfoNames
    <3> QED BY <1>6, <2>1, <3>2, <3>3
  <2> QED BY <2>1, <2>2, <2>3
<1>8. CASE PopulateKeyValue
  <2>1. /\ spc = "keyvalue" /\ UNCHANGED <<tpl, signer>>
        /\ \/ content' = content
           \/ content' = Write(content, PopulateFirst(content, {"KeyValue"}), PublicKey)
    BY <1>8 DEF PopulateKeyValue, Fill
  <2>2. CASE content' = content
    BY <1>1, <2>1, <2>2
  <2>3. CASE content' = Write(content, PopulateFirst(content, {"KeyValue"}), PublicKey)
    <3>1. /\ DOMAIN content' = Slots /\ content' = [s \in Slots |-> content'[s]]
          /\ FillsOnly(content', {"KeyValue"})
      BY <1>0, <2>3, PopulateFills
    <3>2. {"KeyValue"} \subseteq KeyInfoNames
      BY DEF KeyInfoNames
    <3> QED BY <1>6, <2>1, <3>1, <3>2
  <2> QED BY <2>1, <2>2, <2>3
<1>9. CASE PopulateDer
  <2>1. /\ spc = "der" /\ UNCHANGED <<tpl, signer>>
        /\ \/ content' = content
           \/ content' = Write(content, PopulateFirst(content, {"DEREncodedKeyValue"}), PublicKey)
    BY <1>9 DEF PopulateDer, Fill
  <2>2. CASE content' = content
    BY <1>1, <2>1, <2>2
  <2>3. CASE content' = Write(content, PopulateFirst(content, {"DEREncodedKeyValue"}), PublicKey)
    <3>1. /\ DOMAIN content' = Slots /\ content' = [s \in Slots |-> content'[s]]
          /\ FillsOnly(content', {"DEREncodedKeyValue"})
      BY <1>0, <2>3, PopulateFills
    <3>2. {"DEREncodedKeyValue"} \subseteq KeyInfoNames
      BY DEF KeyInfoNames
    <3> QED BY <1>6, <2>1, <3>1, <3>2
  <2> QED BY <2>1, <2>2, <2>3
<1>10. CASE EncryptSessionKey
  <2>1. /\ spc = "session" /\ UNCHANGED <<tpl, signer>>
        /\ \/ content' = content
           \/ content' = [s \in Slots |-> IF s \in ToWrap THEN <<"kid", Wrapped(EncryptedKeyOf(s))>>
                                                          ELSE content[s]]
    BY <1>10 DEF EncryptSessionKey, Fill
  <2>2. \A s \in ToWrap : content[s] = Empty /\ Kind(s) \in KeyInfoNames
    BY DEF ToWrap, KeyInfoNames
  <2>3. StageKinds(spc) = KeyInfoNames
    BY <2>1 DEF StageKinds
  <2>4. CASE content' = [s \in Slots |-> IF s \in ToWrap THEN <<"kid", Wrapped(EncryptedKeyOf(s))>>
                                                          ELSE content[s]]
    <3>1. FillsOnly(content', KeyInfoNames)
      BY <2>2, <2>4, KidsDiffer DEF FillsOnly
    <3> QED BY <2>1, <2>3, <2>4, <3>1
  <2> QED BY <1>1, <2>1, <2>4
<1>11. CASE UNCHANGED svars
  BY <1>1, <1>11 DEF svars
<1> QED BY <1>2, <1>3, <1>4, <1>5, <1>7, <1>8, <1>9, <1>10, <1>11 DEF SNext

-----------------------------------------------------------------------------
(* Type correctness, and that nothing is overwritten.                      *)

\* Every step keeps the type of sign()'s state.
LEMMA TypeStep == STypeOK /\ ContentOK /\ [SNext]_svars => STypeOK' /\ ContentOK'
<1> SUFFICES ASSUME STypeOK, ContentOK, [SNext]_svars PROVE STypeOK' /\ ContentOK'
  OBVIOUS
<1>1. /\ tpl' = tpl /\ signer' = signer
      /\ DOMAIN content' = Slots /\ content' = [s \in Slots |-> content'[s]]
  BY StepFills
<1>2. Slots' = Slots /\ Sdoc' = Sdoc
  BY <1>1 DEF Slots, Sdoc
<1>3. ContentOK'
  <2>1. FillsOnly(content', StageKinds(spc)) /\ \A s : Kind(s)' = Kind(s)
    BY <1>1, StepFills DEF Kind
  <2>2. \A s \in Slots : content'[s] = Empty => tpl.text[s] = Empty
    BY <2>1 DEF FillsOnly, ContentOK
  <2>3. ASSUME spc' \in {"parse", "refs", "sign", "x509"}, NEW s \in Slots, Kind(s) \in KeyInfoNames
        PROVE  content'[s] = tpl.text[s]
    <3>1. spc \in {"parse", "refs", "sign", "x509"} /\ (spc = "x509" => content' = content)
      BY <2>3 DEF SNext, svars, SParseFails, SParse, SReparseFails, SkipCid, SReferenceFails,
           DigestReference, DigestsDone, SigningFails, HsmSign, SoftwareSign, PopulateX509Data,
           PopulateKeyValue, PopulateDer, SessionKeyFails, EncryptSessionKey, ReturnSigned,
           MoreRefs, Stop, Fill
    <3>2. content[s] = tpl.text[s]
      BY <2>3, <3>1 DEF ContentOK
    <3>3. spc # "x509" => Kind(s) \notin StageKinds(spc)
      BY <2>3, <3>1 DEF StageKinds, KeyInfoNames, X509Names
    <3> QED BY <2>1, <3>1, <3>2, <3>3 DEF FillsOnly
  <2> QED BY <1>1, <1>2, <2>1, <2>2, <2>3 DEF ContentOK
<1> SUFFICES STypeOK'
  BY <1>3
<1>4. Len(Sdoc.refs) \in Nat
  BY ChosenJob, SeqDomain DEF TplOK
<1>5. ASSUME spc' \in SStages, status' \in {"pending", "Ok", "Err"},
             (status' = "pending") <=> (spc' # "done"), ref' \in 1 .. Len(Sdoc.refs) + 1
      PROVE  STypeOK'
  BY <1>1, <1>2, <1>5 DEF STypeOK
<1>6. ASSUME NEW v \in {"Ok", "Err"}, Stop(v) PROVE STypeOK'
  BY <1>5, <1>6 DEF Stop, STypeOK, SStages
<1>7. ASSUME NEW c, NEW g \in SStages \ {"done"}, Fill(c, g), spc # "done" PROVE STypeOK'
  BY <1>5, <1>7 DEF Fill, STypeOK, SStages
<1>8. CASE SParseFails \/ SReparseFails \/ SReferenceFails \/ SigningFails \/ SessionKeyFails
             \/ ReturnSigned
  BY <1>6, <1>8 DEF SParseFails, SReparseFails, SReferenceFails, SigningFails, SessionKeyFails, ReturnSigned
<1>9. CASE SkipCid \/ DigestReference
  <2>1. spc = "refs" /\ ref <= Len(Sdoc.refs) /\ ref' = ref + 1 /\ UNCHANGED <<spc, status>>
    BY <1>9 DEF SkipCid, DigestReference, MoreRefs
  <2> QED BY <1>4, <1>5, <2>1 DEF STypeOK
<1>10. CASE SParse \/ DigestsDone \/ HsmSign \/ SoftwareSign
  BY <1>7, <1>10 DEF SParse, DigestsDone, HsmSign, SoftwareSign, SStages
<1>11. CASE PopulateX509Data \/ PopulateKeyValue
  BY <1>7, <1>11 DEF PopulateX509Data, PopulateKeyValue, SStages
<1>12. CASE PopulateDer \/ EncryptSessionKey
  BY <1>7, <1>12 DEF PopulateDer, EncryptSessionKey, SStages
<1>13. CASE UNCHANGED svars
  BY <1>5, <1>13 DEF svars, STypeOK
<1> QED BY <1>8, <1>9, <1>10, <1>11, <1>12, <1>13 DEF SNext

\* The initial state has the type.
LEMMA TypeInit == SInit => STypeOK /\ ContentOK
<1> SUFFICES ASSUME SInit PROVE STypeOK /\ ContentOK
  OBVIOUS
<1>1. PICK j \in Jobs : tpl = j.tpl /\ signer = j.signer
  BY DEF SInit
<1>2. /\ j = [tpl |-> j.tpl, signer |-> j.signer]
      /\ IsSeq(tpl.slots) /\ IsSeq(Sdoc.refs)
      /\ IsSeq(tpl.text) /\ DOMAIN tpl.text = DOMAIN tpl.slots
  BY <1>1, JobsAssumption DEF Sdoc, TemplateOK, DocOK
<1>3. content = tpl.text /\ ref = 1 /\ spc = "parse" /\ status = "pending"
  BY DEF SInit
<1>4. content \in Seq({content[i] : i \in DOMAIN content}) /\ DOMAIN content = Slots
  BY <1>2, <1>3 DEF IsSeq, Slots
<1>5. ContentOK
  BY <1>3, <1>4 DEF ContentOK, Slots
<1>6. Len(Sdoc.refs) \in Nat
  BY <1>2, SeqDomain
<1> QED BY <1>1, <1>2, <1>3, <1>4, <1>5, <1>6 DEF STypeOK, SStages

\* Type correctness of sign(): the number of slots stays, ref stays within one of the
\* References, and a status is given exactly when sign() returns.
THEOREM SignTypeCorrect == Spec => []STypeOK
BY TypeInit, TypeStep, ComposedSigns, PTL DEF SSpec

\* sign() writes a place once, and the only text of the template it replaces is that of the
\* first X509Data, when it has no child elements.
THEOREM SignOnlyFills == Spec => OnlyFills
<1>1. STypeOK /\ ContentOK /\ [SNext]_svars
        => [\A s \in Slots : content'[s] # content[s] =>
               /\ content[s] = tpl.text[s]
               /\ content[s] = Empty \/ Overwritable(s)]_svars
  <2> SUFFICES ASSUME STypeOK, ContentOK, [SNext]_svars, NEW s \in Slots, content'[s] # content[s]
               PROVE  content[s] = tpl.text[s] /\ (content[s] = Empty \/ Overwritable(s))
    OBVIOUS
  <2>1. content[s] = Empty \/ Overwritable(s)
    BY StepFills DEF FillsOnly
  <2>2. Overwritable(s) => content[s] = tpl.text[s]
    BY DEF Overwritable, ContentOK, KeyInfoNames, X509Names
  <2> QED BY <2>1, <2>2 DEF ContentOK
<1> QED BY <1>1, TypeInit, TypeStep, ComposedSigns, PTL DEF SSpec, OnlyFills

-----------------------------------------------------------------------------
(* The inductive invariant behind SignedConsistently.                      *)

\* Only a place that was empty, or the first X509Data, is ever written.
KeptText == \A s \in Slots : content[s] # tpl.text[s] => s \in OpenAtStart(PlaceNames)

\* The digests made so far are those of what their References cover now.
DigestsHold == \A i \in Digested : i < ref => content[DigestSlot(i)] = Digest(Sdoc.refs[i], content)

\* The empty DigestValues are those of the References still to come, so that the first of
\* them in the document is the one the loop has computed.
EmptyDigests == {s \in Slots : Kind(s) = "DigestValue" /\ content[s] = Empty}
RemainingDigests ==
    spc \in {"parse", "refs"} => EmptyDigests = {DigestSlot(j) : j \in {k \in Digested : k >= ref}}

\* Nothing else is written before the signature is made,
OthersUntouched ==
    spc \in {"parse", "refs", "sign"} =>
        \A s \in Slots : Kind(s) # "DigestValue" => content[s] = tpl.text[s]

\* which is after the loop,
LoopEnded ==
    (spc \in SStages \ {"parse", "refs", "done"}) \/ status = "Ok" => ref > Len(Sdoc.refs)

\* and what is written after it leaves it valid.
SignatureStays ==
    (spc \in SStages \ {"parse", "refs", "sign", "done"}) \/ status = "Ok" => SignatureHolds

Consistent ==
    /\ KeptText
    /\ LoopEnded
    /\ WellFormed => DigestsHold /\ RemainingDigests /\ OthersUntouched /\ SignatureStays

\* What the template and the signer alone determine does not change with the content.
LEMMA SameTemplate ==
    ASSUME tpl' = tpl, signer' = signer
    PROVE  /\ Slots' = Slots /\ Sdoc' = Sdoc /\ Digested' = Digested /\ ValueSlot' = ValueSlot
           /\ \A i : DigestSlot(i)' = DigestSlot(i)
           /\ \A r : Covers(r)' = Covers(r)
           /\ Below(tpl.info)' = Below(tpl.info)
           /\ X509Slot' = X509Slot /\ \A names : OpenAtStart(names)' = OpenAtStart(names)
           /\ WellFormed' = WellFormed
           /\ SignerMat' = SignerMat /\ SignerLen' = SignerLen
<1>1. Slots' = Slots /\ Sdoc' = Sdoc /\ \A s : Kind(s)' = Kind(s)
  BY DEF Slots, Sdoc, Kind
<1>2. \A n : Below(n)' = Below(n)
  BY <1>1 DEF Below
<1>3. \A r : Covers(r)' = Covers(r)
  BY <1>1, <1>2 DEF Covers
<1>4. \A i : DigestSlot(i)' = DigestSlot(i)
  BY <1>1 DEF DigestSlot
<1>5. ValueSlot' = ValueSlot /\ Digested' = Digested
  BY <1>1 DEF ValueSlot, Digested
<1>6. X509Slot' = X509Slot /\ \A names : OpenAtStart(names)' = OpenAtStart(names)
  <2>1. X509Slot' = X509Slot
    BY <1>1 DEF X509Slot, FirstOfKind
  <2> QED BY <1>1, <2>1 DEF OpenAtStart
<1>7. \A i : FilledAfter(i)' = FilledAfter(i)
  BY <1>4, <1>5, <1>6 DEF FilledAfter
<1>8. Below(tpl.info)' = Below(tpl.info)
  BY <1>2
<1>9. WellFormed' = WellFormed
  <2>1. \A s : NewTags(s)' = NewTags(s)
    BY <1>1 DEF NewTags
  <2>2. \A i : IdMap(Sdoc, Sdoc.refs[i].id)' = IdMap(Sdoc, Sdoc.refs[i].id)
    BY <1>1
  <2> QED BY <1>1, <1>3, <1>4, <1>5, <1>6, <1>7, <1>8, <2>1, <2>2, Zenon DEF WellFormed
<1>10. SignerMat' = SignerMat /\ SignerLen' = SignerLen
  BY <1>1 DEF SignerMat, SignerLen, SigningKey, ValueLength
<1> QED BY <1>1, <1>3, <1>4, <1>5, <1>6, <1>8, <1>9, <1>10

\* A step writes into places that are open at the start.
LEMMA OpenFills ==
    ASSUME ContentOK, NEW kinds, FillsOnly(content', kinds)
    PROVE  \A s \in Slots : content'[s] # content[s] => s \in OpenAtStart(kinds)
BY DEF FillsOnly, ContentOK, OpenAtStart, Overwritable

\* The DigestValue of a Reference, if it has one, is a slot of its own.
LEMMA DigestSlotOwn ==
    ASSUME TplOK, NEW i, DigestSlot(i) # 0
    PROVE  /\ DigestSlot(i) \in Slots /\ Kind(DigestSlot(i)) = "DigestValue"
           /\ tpl.slots[DigestSlot(i)].ref = i
<1> DEFINE S == {s \in Slots : Kind(s) = "DigestValue" /\ tpl.slots[s].ref = i}
<1>1. FirstOf(S) \in {0} \union S
  BY FindIndex DEF TplOK, Slots
<1> QED BY <1>1 DEF DigestSlot

\* A digest only depends on the slots its Reference covers.
LEMMA DigestFrame ==
    ASSUME tpl' = tpl, signer' = signer, NEW r, \A s \in Covers(r) : content'[s] = content[s]
    PROVE  Digest(r, content)' = Digest(r, content)
<1>1. Covers(r)' = Covers(r)
  BY SameTemplate
<1>2. [s \in Covers(r)' |-> content'[s]] = [s \in Covers(r) |-> content[s]]
  BY <1>1
<1> QED BY <1>2 DEF Digest

\* The signature value only depends on the slots of SignedInfo.
LEMMA SignatureFrame ==
    ASSUME tpl' = tpl, signer' = signer, \A s \in Below(tpl.info) : content'[s] = content[s]
    PROVE  SignatureBy(SignerMat, SignerLen)' = SignatureBy(SignerMat, SignerLen)
<1>1. Below(tpl.info)' = Below(tpl.info)
  BY SameTemplate
<1>2. [s \in Below(tpl.info)' |-> content'[s]] = [s \in Below(tpl.info) |-> content[s]]
  BY <1>1
<1>3. SignedInfoText(content)' = SignedInfoText(content)
  BY <1>2 DEF SignedInfoText
<1> QED BY <1>3, SameTemplate DEF SignatureBy

\* What is written after the loop, into SignatureValue or KeyInfo, leaves the digests and
\* SignedInfo valid: no Reference of a well-formed template covers it.
LEMMA LaterFill ==
    ASSUME STypeOK, ContentOK, WellFormed, UNCHANGED <<tpl, signer, ref>>,
           FillsOnly(content', {"SignatureValue"} \union KeyInfoNames)
    PROVE  /\ DigestsHold => DigestsHold'
           /\ \A s \in Below(tpl.info) : content'[s] = content[s]
<1> DEFINE late == OpenAtStart({"SignatureValue"} \union KeyInfoNames)
<1>1. \A s \in Slots : content'[s] # content[s] => s \in late
  BY OpenFills
<1>2. \A n : Below(n) \subseteq Slots
  BY DEF Below
<1>3. \A r : Covers(r) \subseteq Slots
  BY <1>2 DEF Covers
<1>4. \A s \in Below(tpl.info) : content'[s] = content[s]
  BY <1>1, <1>2 DEF WellFormed
<1>5. ASSUME DigestsHold, NEW i \in Digested, i < ref
      PROVE  content'[DigestSlot(i)'] = Digest(Sdoc.refs[i], content)'
  <2>1. Covers(Sdoc.refs[i]) \cap late = {}
    BY DEF WellFormed, FilledAfter
  <2>2. \A s \in Covers(Sdoc.refs[i]) : content'[s] = content[s]
    BY <1>1, <1>3, <2>1
  <2>3. Digest(Sdoc.refs[i], content)' = Digest(Sdoc.refs[i], content)
    <3> DEFINE r == Sdoc.refs[i]
    <3>1. r' = r
      BY SameTemplate
    <3>2. \A q : (\A s \in Covers(q) : content'[s] = content[s])
                   => Digest(q, content)' = Digest(q, content)
      BY DigestFrame
    <3>3. Digest(r, content)' = Digest(r, content)
      BY <2>2, <3>1, <3>2 DEF Digest
    <3> QED BY <3>3
  <2>4. content'[DigestSlot(i)] = content[DigestSlot(i)]
    BY ChosenJob, DigestSlotOwn DEF WellFormed, FillsOnly, KeyInfoNames, X509Names
  <2> QED BY <1>5, <2>3, <2>4, SameTemplate DEF DigestsHold
<1>6. DigestsHold => DigestsHold'
  BY <1>5, SameTemplate DEF DigestsHold
<1> QED BY <1>4, <1>6

\* The loop body: in a well-formed template the first empty DigestValue of the document is
\* the one of the current Reference, and filling it changes nothing an earlier Reference,
\* or this one, covers.
LEMMA DigestStep ==
    ASSUME STypeOK, ContentOK, WellFormed, DigestsHold, RemainingDigests, DigestReference
    PROVE  DigestsHold' /\ RemainingDigests'
<1> DEFINE d == DigestSlot(ref)
           v == Digest(Ref_i, content)
           left(k) == {DigestSlot(j) : j \in {i \in Digested : i >= k}}
<1>1. /\ spc = "refs" /\ spc' = "refs" /\ ref' = ref + 1 /\ UNCHANGED <<tpl, signer>>
      /\ ref <= Len(Sdoc.refs) /\ Ref_i.uri # "cid"
      /\ content' = IF IsEmpty(content, d)
                    THEN replace_first_empty_element(content, "DigestValue", v) ELSE content
  BY DEF DigestReference, MoreRefs
<1>2. TplOK /\ Len(Sdoc.refs) \in Nat /\ DOMAIN Sdoc.refs = 1 .. Len(Sdoc.refs)
  BY ChosenJob, SeqDomain DEF TplOK
<1>3. ref \in Nat /\ ref \in Digested /\ Digested \subseteq Nat
  BY <1>1, <1>2 DEF STypeOK, Digested, Ref_i
<1>4. \A i \in Digested : /\ DigestSlot(i) \in Slots /\ Kind(DigestSlot(i)) = "DigestValue"
                          /\ tpl.slots[DigestSlot(i)].ref = i
  BY <1>2, DigestSlotOwn DEF WellFormed
<1>5. Slots \subseteq Nat \ {0}
  BY <1>2, SeqDomain DEF TplOK, Slots
<1>6. EmptyDigests = left(ref) /\ d \in left(ref)
  BY <1>1, <1>3 DEF RemainingDigests
<1>7. \A t \in left(ref) : d <= t
  <2> SUFFICES ASSUME NEW j \in Digested, j >= ref PROVE d <= DigestSlot(j)
    OBVIOUS
  <2>0. d \in Nat /\ DigestSlot(j) \in Nat
    BY <1>3, <1>4, <1>5
  <2>1. CASE j = ref
    BY <2>0, <2>1
  <2>2. CASE j > ref
    <3>1. d < DigestSlot(j)
      BY <1>3, <2>2 DEF WellFormed
    <3> HIDE DEF d
    <3> QED BY <2>0, <3>1
  <2> QED BY <1>3, <2>1, <2>2
<1> HIDE DEF v
<1>8. content' = [content EXCEPT ![d] = v]
  <2>1. content[d] = Empty
    BY <1>6 DEF EmptyDigests
  <2>2. FirstOf(EmptyDigests) \in EmptyDigests /\ \A t \in EmptyDigests : FirstOf(EmptyDigests) <= t
    BY <1>5, <1>6, FirstOfLeast DEF EmptyDigests
  <2>3. FirstOf(EmptyDigests) = d
    <3> DEFINE f == FirstOf(EmptyDigests)
    <3>1. f <= d /\ d <= f /\ f \in Nat /\ d \in Nat
      BY <1>3, <1>4, <1>5, <1>6, <1>7, <2>2 DEF EmptyDigests
    <3> HIDE DEF f
    <3> QED BY <3>1 DEF f
  <2>4. replace_first_empty_element(content, "DigestValue", v) = [content EXCEPT ![d] = v]
    BY <1>3, <1>4, <1>5, <2>3 DEF replace_first_empty_element, EmptyDigests
  <2> QED BY <1>1, <2>1, <2>4 DEF IsEmpty
<1>9. content'[d] = v /\ \A s \in Slots \ {d} : content'[s] = content[s]
  BY <1>3, <1>4, <1>8 DEF ContentOK
<1>10. v # Empty
  BY DEF v, Digest, Empty
<1>11. ASSUME NEW i \in Digested, i <= ref
       PROVE  Digest(Sdoc.refs[i], content)' = Digest(Sdoc.refs[i], content)
  <2>1. d \notin Covers(Sdoc.refs[i])
    BY <1>3, <1>11 DEF WellFormed, FilledAfter
  <2>2. Covers(Sdoc.refs[i]) \subseteq Slots
    BY DEF Covers, Below
  <2>3. \A s \in Covers(Sdoc.refs[i]) : content'[s] = content[s]
    BY <1>9, <2>1, <2>2
  <2>4. \A q : (\A s \in Covers(q) : content'[s] = content[s])
                 => Digest(q, content)' = Digest(q, content)
    BY <1>1, DigestFrame
  <2>5. (Sdoc.refs[i])' = Sdoc.refs[i]
    BY <1>1, SameTemplate
  <2> QED BY <2>3, <2>4, <2>5 DEF Digest
<1>12. DigestsHold'
  <2> SUFFICES ASSUME NEW i \in Digested, i < ref + 1
               PROVE  content'[DigestSlot(i)] = Digest(Sdoc.refs[i], content)'
    BY <1>1, SameTemplate DEF DigestsHold
  <2>1. CASE i = ref
    BY <1>3, <1>9, <1>11, <2>1 DEF v, Ref_i
  <2>2. CASE i < ref
    <3>1. DigestSlot(i) # d
      BY <1>3, <1>4, <2>2
    <3> QED BY <1>3, <1>4, <1>9, <1>11, <2>2, <3>1 DEF DigestsHold
  <2> QED BY <1>3, <2>1, <2>2
<1>13. RemainingDigests'
  <2>1. EmptyDigests' = EmptyDigests \ {d}
    <3>1. EmptyDigests' = {s \in Slots : Kind(s) = "DigestValue" /\ content'[s] = Empty}
      BY <1>1 DEF EmptyDigests, Slots, Kind
    <3> QED BY <1>9, <1>10, <3>1 DEF EmptyDigests
  <2>2. left(ref) \ {d} = left(ref + 1)
    BY <1>3, <1>4
  <2>3. {DigestSlot(j) : j \in {i \in Digested : i >= ref}}' = left(ref + 1)
    BY <1>1, SameTemplate
  <2> QED BY <1>6, <2>1, <2>2, <2>3 DEF RemainingDigests
<1> QED BY <1>12, <1>13

\* The SignatureValue of the first Signature is a slot of a well-formed template.
LEMMA ValueSlotOwn ==
    ASSUME TplOK, WellFormed
    PROVE  /\ ValueSlot \in OpenAtStart({"SignatureValue"})
           /\ ValueSlot \in Slots /\ Kind(ValueSlot) = "SignatureValue"
<1>1. FirstOf(OpenAtStart({"SignatureValue"})) \in {0} \union OpenAtStart({"SignatureValue"})
  BY FindIndex DEF TplOK, OpenAtStart, Slots
<1>2. ValueSlot \in OpenAtStart({"SignatureValue"})
  BY <1>1 DEF WellFormed
<1> QED BY <1>2 DEF OpenAtStart

\* Steps that leave the text alone.
LEMMA SameContent ==
    ASSUME UNCHANGED <<tpl, signer, content>>
    PROVE  /\ SignatureHolds' = SignatureHolds
           /\ \A i \in Digested : Digest(Sdoc.refs[i], content)' = Digest(Sdoc.refs[i], content)
           /\ EmptyDigests' = EmptyDigests
           /\ ref' = ref => DigestsHold' = DigestsHold
<1>1. Slots' = Slots /\ Sdoc' = Sdoc /\ ValueSlot' = ValueSlot /\ Digested' = Digested
  BY SameTemplate
<1>2. SignatureBy(SignerMat, SignerLen)' = SignatureBy(SignerMat, SignerLen)
  BY SignatureFrame
<1>3. SignatureHolds' = SignatureHolds
  BY <1>1, <1>2 DEF SignatureHolds
<1>4. \A q : Digest(q, content)' = Digest(q, content)
  BY DigestFrame
<1>5. \A i \in Digested : Digest(Sdoc.refs[i], content)' = Digest(Sdoc.refs[i], content)
  BY <1>1, <1>4 DEF Digest
<1>6. EmptyDigests' = EmptyDigests
  BY <1>1 DEF EmptyDigests, Kind
<1>7. ref' = ref => DigestsHold' = DigestsHold
  BY <1>1, <1>5, SameTemplate DEF DigestsHold
<1> QED BY <1>3, <1>5, <1>6, <1>7

\* The signature is made over the SignedInfo with all its digests, and written into the
\* SignatureValue of the first Signature.
LEMMA SignStage ==
    ASSUME STypeOK, ContentOK, WellFormed, DigestsHold, OthersUntouched,
           HsmSign \/ SoftwareSign
    PROVE  DigestsHold' /\ SignatureHolds'
<1> DEFINE v == SignatureBy(SignerMat, SignerLen)
<1>1. /\ spc = "sign" /\ UNCHANGED <<tpl, signer, ref>>
      /\ content' = replace_first_empty_element(content, "SignatureValue", v)
  BY DEF HsmSign, SoftwareSign, Fill, SignerMat, SignerLen
<1>2. TplOK
  BY ChosenJob
<1>3. FillsOnly(content', {"SignatureValue"})
  <2>1. v # Empty
    BY DEF SignatureBy, Empty
  <2> HIDE DEF v
  <2> QED BY <1>1, <1>2, <2>1, ReplaceFills
<1>4. FillsOnly(content', {"SignatureValue"} \union KeyInfoNames)
  BY <1>3 DEF FillsOnly
<1>5. DigestsHold' /\ \A s \in Below(tpl.info) : content'[s] = content[s]
  BY <1>1, <1>4, LaterFill
<1>6. v' = v
  BY <1>1, <1>5, SignatureFrame
<1>7. {t \in Slots : Kind(t) = "SignatureValue" /\ content[t] = Empty} = OpenAtStart({"SignatureValue"})
  BY <1>1 DEF OthersUntouched, OpenAtStart
<1>8. ValueSlot = FirstOf(OpenAtStart({"SignatureValue"})) /\ ValueSlot # 0
  BY DEF WellFormed
<1> HIDE DEF v
<1>9. content' = [content EXCEPT ![ValueSlot] = v]
  BY <1>1, <1>7, <1>8 DEF replace_first_empty_element
<1>10. ValueSlot \in Slots
  BY <1>2, ValueSlotOwn
<1>11. content'[ValueSlot] = v
  BY <1>9, <1>10 DEF ContentOK
<1>12. ValueSlot' = ValueSlot
  BY <1>1, SameTemplate
<1> QED BY <1>5, <1>6, <1>11, <1>12 DEF SignatureHolds, v

\* Populating KeyInfo afterwards keeps digests and signature valid.
LEMMA KeyInfoStage ==
    ASSUME STypeOK, ContentOK, WellFormed, DigestsHold, SignatureHolds,
           UNCHANGED <<tpl, signer, ref>>, FillsOnly(content', KeyInfoNames)
    PROVE  DigestsHold' /\ SignatureHolds'
<1>1. FillsOnly(content', {"SignatureValue"} \union KeyInfoNames)
  BY DEF FillsOnly
<1>2. DigestsHold' /\ \A s \in Below(tpl.info) : content'[s] = content[s]
  BY <1>1, LaterFill
<1>3. SignatureBy(SignerMat, SignerLen)' = SignatureBy(SignerMat, SignerLen)
  BY <1>2, SignatureFrame
<1>4. content'[ValueSlot] = content[ValueSlot]
  BY ChosenJob, ValueSlotOwn DEF FillsOnly, KeyInfoNames, X509Names
<1>5. ValueSlot' = ValueSlot
  BY SameTemplate
<1> QED BY <1>2, <1>3, <1>4, <1>5 DEF SignatureHolds

\* Every step of sign() preserves the invariant.
LEMMA ConsistentInductive ==
    STypeOK /\ ContentOK /\ Consistent /\ [SNext]_svars => Consistent'
<1> SUFFICES ASSUME STypeOK, ContentOK, Consistent, [SNext]_svars PROVE Consistent'
  OBVIOUS
<1>1. tpl' = tpl /\ signer' = signer /\ FillsOnly(content', StageKinds(spc))
  BY StepFills
<1>2. Slots' = Slots /\ Sdoc' = Sdoc /\ WellFormed' = WellFormed /\ Digested' = Digested
  BY <1>1, SameTemplate
<1>3. KeptText'
  <2>1. StageKinds(spc) \subseteq PlaceNames
    BY DEF StageKinds, PlaceNames
  <2>2. \A s \in Slots : content'[s] # content[s] => s \in OpenAtStart(PlaceNames)
    BY <1>1, <2>1, OpenFills DEF OpenAtStart
  <2> QED BY <1>1, <1>2, <2>2, SameTemplate DEF Consistent, KeptText
<1>4. OthersUntouched' <=> (spc' \in {"parse", "refs", "sign"} =>
          \A s \in Slots : Kind(s) # "DigestValue" => content'[s] = tpl.text[s])
  BY <1>1, <1>2 DEF OthersUntouched, Kind
<1>5. RemainingDigests' <=> (spc' \in {"parse", "refs"} =>
          EmptyDigests' = {DigestSlot(j) : j \in {k \in Digested : k >= ref'}})
  BY <1>1, <1>2, SameTemplate DEF RemainingDigests
<1>6. Len(Sdoc.refs) \in Nat /\ DOMAIN Sdoc.refs = 1 .. Len(Sdoc.refs) /\ ref \in Nat
  BY ChosenJob, SeqDomain DEF TplOK, STypeOK
<1>7. ASSUME LoopEnded',
             WellFormed => DigestsHold' /\ RemainingDigests' /\ OthersUntouched' /\ SignatureStays'
      PROVE  Consistent'
  BY <1>2, <1>3, <1>7 DEF Consistent
<1>8. ASSUME Stop("Err") PROVE Consistent'
  <2>1. UNCHANGED <<tpl, signer, content, ref>> /\ spc' = "done" /\ status' = "Err"
    BY <1>8 DEF Stop
  <2>2. DigestsHold' = DigestsHold
    BY <2>1, SameContent
  <2> QED BY <1>4, <1>5, <1>7, <2>1, <2>2 DEF Consistent, LoopEnded, SignatureStays, SStages
<1>9. CASE SParseFails \/ SReparseFails \/ SReferenceFails \/ SigningFails \/ SessionKeyFails
  BY <1>8, <1>9 DEF SParseFails, SReparseFails, SReferenceFails, SigningFails, SessionKeyFails
<1>10. CASE ReturnSigned
  <2>1. /\ UNCHANGED <<tpl, signer, content, ref>> /\ spc = "finish"
        /\ spc' = "done" /\ status' = "Ok"
    BY <1>10 DEF ReturnSigned, Stop
  <2>2. DigestsHold' = DigestsHold /\ SignatureHolds' = SignatureHolds
    BY <2>1, SameContent
  <2> QED BY <1>2, <1>4, <1>5, <1>7, <2>1, <2>2
          DEF Consistent, LoopEnded, SignatureStays, SStages
<1>11. CASE SParse \/ DigestsDone
  <2>1. /\ UNCHANGED <<tpl, signer, content, ref, status>>
        /\ \/ spc = "parse" /\ spc' = "refs"
           \/ spc = "refs" /\ spc' = "sign" /\ ref > Len(Sdoc.refs)
        /\ status' # "Ok"
    BY <1>11 DEF SParse, DigestsDone, Fill, STypeOK
  <2>2. DigestsHold' = DigestsHold /\ EmptyDigests' = EmptyDigests
    BY <2>1, SameContent
  <2>3. LoopEnded'
    BY <1>2, <2>1 DEF LoopEnded, SStages
  <2>4. SignatureStays'
    BY <2>1 DEF SignatureStays, SStages
  <2>5. WellFormed => RemainingDigests' /\ OthersUntouched'
    BY <1>4, <1>5, <2>1, <2>2 DEF Consistent, RemainingDigests, OthersUntouched
  <2> QED BY <1>7, <2>2, <2>3, <2>4, <2>5 DEF Consistent
<1>12. CASE SkipCid
  <2>1. /\ UNCHANGED <<tpl, signer, content, spc, status>> /\ spc = "refs" /\ ref' = ref + 1
        /\ status # "Ok" /\ ref \notin Digested
    BY <1>12 DEF SkipCid, MoreRefs, Ref_i, Digested, STypeOK
  <2>2. EmptyDigests' = EmptyDigests
        /\ \A i \in Digested : Digest(Sdoc.refs[i], content)' = Digest(Sdoc.refs[i], content)
    BY <2>1, SameContent
  <2>3. Digested \subseteq Nat
    BY <1>6 DEF Digested
  <2>4. \A i \in Digested : i < ref + 1 <=> i < ref
    BY <1>6, <2>1, <2>3
  <2>5. DigestsHold => DigestsHold'
    BY <1>1, <1>2, <2>1, <2>2, <2>4, SameTemplate DEF DigestsHold
  <2>6. {k \in Digested : k >= ref + 1} = {k \in Digested : k >= ref}
    <3>1. \A k \in Digested : k >= ref + 1 <=> k >= ref
      BY <1>6, <2>1, <2>3
    <3> QED BY <3>1
  <2>7. LoopEnded' /\ SignatureStays'
    BY <2>1 DEF LoopEnded, SignatureStays, SStages
  <2>8. WellFormed => RemainingDigests' /\ OthersUntouched'
    BY <1>4, <1>5, <2>1, <2>2, <2>6 DEF Consistent, RemainingDigests, OthersUntouched
  <2> QED BY <1>7, <2>5, <2>7, <2>8 DEF Consistent
<1>13. CASE DigestReference
  <2>1. spc = "refs" /\ spc' = "refs" /\ status' = status /\ status # "Ok"
    BY <1>13 DEF DigestReference, MoreRefs, STypeOK
  <2>2. LoopEnded' /\ SignatureStays'
    BY <2>1 DEF LoopEnded, SignatureStays, SStages
  <2>3. WellFormed => DigestsHold' /\ RemainingDigests'
    BY <1>13, DigestStep DEF Consistent
  <2>4. WellFormed => OthersUntouched'
    BY <1>1, <1>4, <2>1 DEF Consistent, OthersUntouched, FillsOnly, StageKinds
  <2> QED BY <1>7, <2>2, <2>3, <2>4
<1>14. CASE HsmSign \/ SoftwareSign
  <2>1. spc = "sign" /\ spc' \in {"finish", "x509"} /\ ref' = ref
    BY <1>14 DEF HsmSign, SoftwareSign, Fill
  <2>2. LoopEnded'
    BY <1>2, <2>1 DEF Consistent, LoopEnded, SStages
  <2>3. WellFormed => DigestsHold' /\ SignatureHolds'
    BY <1>14, SignStage DEF Consistent
  <2> QED BY <1>4, <1>5, <1>7, <2>1, <2>2, <2>3 DEF SignatureStays
<1>15. CASE PopulateX509Data \/ PopulateKeyValue \/ PopulateDer \/ EncryptSessionKey
  <2>1. /\ spc \in {"x509", "keyvalue", "der", "session"}
        /\ spc' \in {"keyvalue", "der", "session", "finish"} /\ ref' = ref
    BY <1>15 DEF PopulateX509Data, PopulateKeyValue, PopulateDer, EncryptSessionKey, Fill
  <2>2. LoopEnded'
    BY <1>2, <2>1 DEF Consistent, LoopEnded, SStages
  <2>3. StageKinds(spc) = KeyInfoNames
    BY <2>1 DEF StageKinds
  <2>4. WellFormed => DigestsHold' /\ SignatureHolds'
    BY <1>1, <2>1, <2>3, KeyInfoStage DEF Consistent, SignatureStays, SStages
  <2> QED BY <1>4, <1>5, <1>7, <2>1, <2>2, <2>4 DEF SignatureStays
<1>16. CASE UNCHANGED svars
  <2>1. UNCHANGED <<tpl, signer, content, ref, spc, status>>
    BY <1>16 DEF svars
  <2>2. DigestsHold' = DigestsHold /\ SignatureHolds' = SignatureHolds /\ EmptyDigests' = EmptyDigests
    BY <2>1, SameContent
  <2>3. WellFormed => RemainingDigests' /\ OthersUntouched'
    BY <1>4, <1>5, <2>1, <2>2 DEF Consistent, RemainingDigests, OthersUntouched
  <2> QED BY <1>2, <1>7, <2>1, <2>2, <2>3 DEF Consistent, LoopEnded, SignatureStays
<1> QED BY <1>9, <1>10, <1>11, <1>12, <1>13, <1>14, <1>15, <1>16 DEF SNext

\* The template satisfies the invariant.
LEMMA ConsistentInit == SInit => Consistent
<1> SUFFICES ASSUME SInit PROVE Consistent
  OBVIOUS
<1>1. STypeOK /\ content = tpl.text /\ ref = 1 /\ spc = "parse" /\ status = "pending"
  BY TypeInit DEF SInit
<1>2. DOMAIN Sdoc.refs = 1 .. Len(Sdoc.refs) /\ Len(Sdoc.refs) \in Nat
  BY <1>1, ChosenJob, SeqDomain DEF TplOK
<1>3. \A i \in Digested : i >= 1 /\ ~(i < 1)
  BY <1>2 DEF Digested
<1>4. DigestsHold
  BY <1>1, <1>3 DEF DigestsHold
<1>5. WellFormed => RemainingDigests
  <2>1. EmptyDigests = OpenAtStart({"DigestValue"})
    BY <1>1 DEF EmptyDigests, OpenAtStart
  <2>2. {k \in Digested : k >= ref} = Digested
    BY <1>1, <1>3
  <2> QED BY <2>1, <2>2 DEF WellFormed, RemainingDigests
<1> QED BY <1>1, <1>4, <1>5 DEF Consistent, KeptText, LoopEnded, OthersUntouched, SignatureStays, SStages

\* The document sign() returns for a well-formed template: every digest is of what its
\* Reference covers in that document, and the signature value is over its SignedInfo.
THEOREM SignConsistent == Spec => []SignedConsistently
<1>1. STypeOK /\ Consistent => SignedConsistently
  <2> SUFFICES ASSUME STypeOK, Consistent, status = "Ok", WellFormed
               PROVE  ReferencesHold /\ SignatureHolds
    BY DEF SignedConsistently
  <2>1. ref > Len(Sdoc.refs) /\ SignatureHolds /\ DigestsHold
    BY DEF Consistent, LoopEnded, SignatureStays
  <2>2. \A i \in Digested : i < ref
    <3>1. DOMAIN Sdoc.refs = 1 .. Len(Sdoc.refs) /\ Len(Sdoc.refs) \in Nat
      BY ChosenJob, SeqDomain DEF TplOK
    <3> QED BY <2>1, <3>1 DEF Digested, STypeOK
  <2> QED BY <2>1, <2>2 DEF ReferencesHold, DigestsHold
<1> QED BY <1>1, TypeInit, TypeStep, ConsistentInit, ConsistentInductive, ComposedSigns, PTL DEF SSpec

-----------------------------------------------------------------------------
(* What sign() has checked and what it has written into KeyInfo.           *)

\* sign() has reached one of these stages, or has returned a document.
Reached(stages) == spc \in stages \/ status = "Ok"

\* What sign() requires of a template before it goes on.
Checked ==
    /\ Reached(SStages \ {"parse", "done"}) => StructureOK(Sdoc)
    /\ status # "Err" => \A i \in Digested : i < ref => ~RefCannotDigest(Sdoc, Sdoc.refs[i])
    /\ Reached(SStages \ {"parse", "refs", "sign", "done"}) =>
          IF signer.hsm.on THEN signer.hsm.alg = Sdoc.method ELSE CanSign

\* The child of KeyInfo sign() may write into a place of it ...
MayWrite(s, kid) ==
    \/ /\ Kind(s) \in X509Names /\ s = X509Slot /\ Writes509(s)
       /\ SigningKey.chain # <<>> /\ kid = X509Content(X509Slot)
    \/ Kind(s) = "KeyValue" /\ SigningKey.kind \in KeyValueKinds /\ kid = PublicKey
    \/ Kind(s) = "DEREncodedKeyValue" /\ SigningKey.kind \in SpkiKinds /\ kid = PublicKey
    \/ Kind(s) = "CipherValue" /\ kid = Wrapped(EncryptedKeyOf(s))

Fillable(s) == Kind(s) \notin {"DigestValue", "SignatureValue"}

\* ... and nothing else is in the places of this document that are not digests or values.
OnlyWritten ==
    \A s \in Slots : Fillable(s) =>
        \/ content[s] = tpl.text[s]
        \/ content[s] = <<"kid", content[s][2]>> /\ MayWrite(s, content[s][2])

\* The first place of these names, if there is one, is not empty.
FirstFilled(names) == FirstOfKind(names) # 0 => content[FirstOfKind(names)] # Empty

\* The first X509Data holds what the signing key has for it.
X509Written ==
    SigningKey.chain # <<>> /\ X509Slot # 0 /\ Writes509(X509Slot)
        => content[X509Slot] = <<"kid", X509Content(X509Slot)>>

\* What sign() has written by the end of a stage.
Populated ==
    ~signer.hsm.on =>
    /\ Reached({"keyvalue", "der", "session", "finish"}) => X509Written
    /\ Reached({"der", "session", "finish"}) /\ SigningKey.kind \in KeyValueKinds =>
          FirstFilled({"KeyValue"})
    /\ Reached({"session", "finish"}) /\ SigningKey.kind \in SpkiKinds =>
          FirstFilled({"DEREncodedKeyValue"})
    /\ Reached({"finish"}) /\ HasSymmetricBytes(SigningKey) => ToWrap = {}

\* What the signer and the template alone determine.
LEMMA SameSigner ==
    ASSUME tpl' = tpl, signer' = signer
    PROVE  /\ SigningKey' = SigningKey /\ CanSign' = CanSign /\ PublicKey' = PublicKey
           /\ \A names : FirstOfKind(names)' = FirstOfKind(names)
           /\ \A s : Fillable(s)' = Fillable(s) /\ Kind(s)' = Kind(s)
           /\ \A s, kid : MayWrite(s, kid)' = MayWrite(s, kid)
           /\ StructureOK(Sdoc)' = StructureOK(Sdoc)
           /\ \A r : RefCannotDigest(Sdoc, r)' = RefCannotDigest(Sdoc, r)
           /\ X509Slot' = X509Slot /\ \A s : Writes509(s)' = Writes509(s)
           /\ \A s : X509Content(s)' = X509Content(s)
<1>1. Slots' = Slots /\ Sdoc' = Sdoc /\ \A s : Kind(s)' = Kind(s)
  BY DEF Slots, Sdoc, Kind
<1>2. SigningKey' = SigningKey /\ CanSign' = CanSign
  BY <1>1 DEF SigningKey, CanSign
<1>3. PublicKey' = PublicKey
  BY <1>2 DEF PublicKey
<1>4. \A names : FirstOfKind(names)' = FirstOfKind(names)
  BY <1>1 DEF FirstOfKind
<1>5. \A s : X509Content(s)' = X509Content(s)
  BY <1>1, <1>2, Zenon DEF X509Content, FirstForEmpty
<1>6. \A s : EncryptedKeyOf(s)' = EncryptedKeyOf(s)
  BY <1>1 DEF EncryptedKeyOf
<1>7. \A e : WrapKey(e)' = WrapKey(e)
  BY DEF WrapKey
<1>8. \A s : Wrapped(EncryptedKeyOf(s))' = Wrapped(EncryptedKeyOf(s))
  BY <1>2, <1>6, <1>7 DEF Wrapped
<1>12. X509Slot' = X509Slot /\ \A s : Writes509(s)' = Writes509(s)
  BY <1>1, <1>4 DEF X509Slot, Writes509
<1>9. \A s, kid : MayWrite(s, kid)' = MayWrite(s, kid)
  <2> SUFFICES ASSUME NEW s, NEW kid PROVE MayWrite(s, kid)' = MayWrite(s, kid)
    OBVIOUS
  <2>1. Kind(s)' = Kind(s) /\ X509Slot' = X509Slot /\ Writes509(s)' = Writes509(s)
    BY <1>1, <1>12
  <2>2. /\ X509Content(X509Slot)' = X509Content(X509Slot)
        /\ Wrapped(EncryptedKeyOf(s))' = Wrapped(EncryptedKeyOf(s))
    BY <1>5, <1>8, <1>12
  <2> QED BY <1>2, <1>3, <2>1, <2>2 DEF MayWrite
<1>10. \A s : Fillable(s)' = Fillable(s)
  BY <1>1 DEF Fillable
<1>11. /\ StructureOK(Sdoc)' = StructureOK(Sdoc)
       /\ \A r : RefCannotDigest(Sdoc, r)' = RefCannotDigest(Sdoc, r)
  BY <1>1 DEF RefCannotDigest, StructureOK
<1> QED BY <1>1, <1>2, <1>3, <1>4, <1>5, <1>9, <1>10, <1>11, <1>12

\* Filling a place removes IDs only.
LEMMA IdsShrink ==
    ASSUME TemplateOK(tpl), NEW c
    PROVE  /\ Nodes(DocNow(c)) = Nodes(Sdoc) /\ DocNow(c).ids = IdsNow(c)
           /\ \A n \in Nodes(Sdoc) : IdsNow(c)[n] \in {<<>>, Sdoc.ids[n]}
<1>1. "ids" \in DOMAIN Sdoc /\ "parent" \in DOMAIN Sdoc
  BY DEF TemplateOK, Sdoc
<1>2. DocNow(c).ids = IdsNow(c) /\ DocNow(c).parent = Sdoc.parent
  BY <1>1 DEF DocNow
<1>3. \A n \in Nodes(Sdoc) : IdsNow(c)[n] \in {<<>>, Sdoc.ids[n]}
  BY DEF IdsNow
<1> QED BY <1>2, <1>3 DEF Nodes

\* The elements that carry an ID value.
Carriers(d, v) == {n \in Nodes(d) : \E k \in DOMAIN d.ids[n] : d.ids[n][k] = v}

\* An ID that is there now was there in the template.
LEMMA CarriersShrink ==
    ASSUME TemplateOK(tpl), NEW c, NEW v
    PROVE  /\ Carriers(DocNow(c), v) \subseteq Carriers(Sdoc, v)
           /\ Carriers(Sdoc, v) \in SUBSET (DOMAIN Sdoc.parent) /\ IsSeq(Sdoc.parent)
<1>1. DOMAIN <<>> = {}
  OBVIOUS
<1>2. IsSeq(Sdoc.parent)
  BY DEF TemplateOK, DocOK, Sdoc
<1> QED BY <1>1, <1>2, IdsShrink DEF Carriers, Nodes

\* A Reference that can be digested now could be digested in the template.
LEMMA DigestableBefore ==
    ASSUME TemplateOK(tpl), NEW c, NEW r, ~RefCannotDigest(DocNow(c), r)
    PROVE  ~RefCannotDigest(Sdoc, r)
<1> DEFINE new == Carriers(DocNow(c), r.id)
           old == Carriers(Sdoc, r.id)
<1>1. new \subseteq old /\ old \in SUBSET (DOMAIN Sdoc.parent) /\ IsSeq(Sdoc.parent)
  BY CarriersShrink
<1>2. IdMap(DocNow(c), r.id) = FirstOf(new) /\ IdMap(Sdoc, r.id) = FirstOf(old)
  BY Zenon DEF IdMap, Carriers
<1> HIDE DEF new, old
<1>3. FirstOf(new) # 0 => FirstOf(old) # 0
  BY <1>1, FindIndex
<1>4. Resolves(DocNow(c), r) => Resolves(Sdoc, r)
  BY <1>2, <1>3 DEF Resolves
<1> QED BY <1>4 DEF RefCannotDigest

\* sign() goes on only after each check.
LEMMA CheckedStep == STypeOK /\ ContentOK /\ Checked /\ [SNext]_svars => Checked'
<1> SUFFICES ASSUME STypeOK, ContentOK, Checked, [SNext]_svars PROVE Checked'
  OBVIOUS
<1>1. tpl' = tpl /\ signer' = signer
  BY StepFills
<1>2. Sdoc' = Sdoc /\ CanSign' = CanSign /\ StructureOK(Sdoc)' = StructureOK(Sdoc)
      /\ Digested' = Digested /\ \A r : RefCannotDigest(Sdoc, r)' = RefCannotDigest(Sdoc, r)
  BY <1>1, SameSigner, SameTemplate
<1>3. Checked' <=>
        /\ (spc' \in SStages \ {"parse", "done"} \/ status' = "Ok") => StructureOK(Sdoc)
        /\ status' # "Err" => \A i \in Digested : i < ref' => ~RefCannotDigest(Sdoc, Sdoc.refs[i])
        /\ (spc' \in SStages \ {"parse", "refs", "sign", "done"} \/ status' = "Ok") =>
              IF signer.hsm.on THEN signer.hsm.alg = Sdoc.method ELSE CanSign
  BY <1>1, <1>2 DEF Checked, Reached, SStages
<1>4. DOMAIN Sdoc.refs = 1 .. Len(Sdoc.refs) /\ Len(Sdoc.refs) \in Nat /\ ref \in Nat
      /\ Digested \subseteq Nat
  BY ChosenJob, SeqDomain DEF TplOK, STypeOK, Digested
<1>5. ASSUME Stop("Err") PROVE Checked'
  BY <1>3, <1>5 DEF Stop, SStages
<1>6. CASE SParseFails \/ SReparseFails \/ SReferenceFails \/ SigningFails \/ SessionKeyFails
  BY <1>5, <1>6 DEF SParseFails, SReparseFails, SReferenceFails, SigningFails, SessionKeyFails
<1>7. CASE SParse \/ DigestsDone
  BY <1>3, <1>7 DEF SParse, DigestsDone, Fill, Checked, Reached, SStages, STypeOK
<1>8. CASE SkipCid \/ DigestReference
  <2>1. spc = "refs" /\ ref' = ref + 1 /\ UNCHANGED <<spc, status>>
        /\ status # "Err" /\ status # "Ok"
    BY <1>8 DEF SkipCid, DigestReference, MoreRefs, STypeOK
  <2>2. ref \in Digested => ~RefCannotDigest(Sdoc, Sdoc.refs[ref])
    <3>1. ref \in Digested => ~RefCannotDigest(DocNow(content), Sdoc.refs[ref])
      BY <1>8 DEF SkipCid, DigestReference, Ref_i, Digested
    <3> QED BY <3>1, ChosenInputs, DigestableBefore
  <2>3. \A i \in Nat : i < ref + 1 => i < ref \/ i = ref
    BY <1>4
  <2>4. \A i \in Digested : i < ref' => ~RefCannotDigest(Sdoc, Sdoc.refs[i])
    BY <1>4, <2>1, <2>2, <2>3 DEF Checked
  <2> QED BY <1>3, <2>1, <2>4 DEF Checked, Reached, SStages
<1>9. CASE HsmSign \/ SoftwareSign
  BY <1>3, <1>9 DEF HsmSign, SoftwareSign, Fill, Checked, Reached, SStages, STypeOK
<1>10. CASE PopulateX509Data \/ PopulateKeyValue \/ PopulateDer \/ EncryptSessionKey
  <2>1. /\ spc \in {"x509", "keyvalue", "der", "session"} /\ UNCHANGED <<ref, status>>
        /\ spc' \in {"keyvalue", "der", "session", "finish"}
    BY <1>10 DEF PopulateX509Data, PopulateKeyValue, PopulateDer, EncryptSessionKey, Fill
  <2> QED BY <1>3, <2>1 DEF Checked, Reached, SStages
<1>11. CASE ReturnSigned
  BY <1>3, <1>11 DEF ReturnSigned, Stop, Checked, Reached, SStages, STypeOK
<1>12. CASE UNCHANGED svars
  BY <1>3, <1>12 DEF svars, Checked, Reached
<1> QED BY <1>6, <1>7, <1>8, <1>9, <1>10, <1>11, <1>12 DEF SNext

\* One slot of a populate function: the child is written, or everything stays.
LEMMA PopulateWrites ==
    ASSUME NEW names, NEW kid, TplOK, ContentOK
    PROVE  LET c == Write(content, PopulateFirst(content, names), kid)
               f == FirstOfKind(names)
           IN  /\ \A s \in Slots : c[s] # content[s] =>
                     s = f /\ Kind(s) \in names /\ content[s] = Empty /\ c[s] = <<"kid", kid>>
               /\ f # 0 => f \in Slots /\ Kind(f) \in names /\ c[f] # Empty
<1> DEFINE g == PopulateFirst(content, names)
           c == Write(content, g, kid)
           f == FirstOfKind(names)
<1>1. f \in {0} \union {t \in Slots : Kind(t) \in names}
  BY FindIndex DEF TplOK, Slots, FirstOfKind
<1>2. g = IF f = 0 \/ content[f] # Empty THEN 0 ELSE f
  BY DEF PopulateFirst, FirstOfKind
<1>3. 0 \notin Slots
  BY SeqDomain DEF TplOK, Slots
<1> HIDE DEF f, g
<1>4. c = [t \in Slots |-> IF t = g THEN <<"kid", kid>> ELSE content[t]]
  BY DEF Write
<1> HIDE DEF c
<1>5. \A s \in Slots : c[s] = IF s = f /\ content[s] = Empty THEN <<"kid", kid>> ELSE content[s]
  BY <1>1, <1>2, <1>3, <1>4
<1>6. <<"kid", kid>> # Empty
  BY DEF Empty
<1>7. f # 0 => f \in Slots /\ Kind(f) \in names /\ c[f] # Empty
  BY <1>1, <1>5, <1>6
<1>8. \A s \in Slots : c[s] # content[s] =>
          s = f /\ Kind(s) \in names /\ content[s] = Empty /\ c[s] = <<"kid", kid>>
  BY <1>1, <1>3, <1>5
<1> QED BY <1>7, <1>8 DEF c, f, g

\* The same of populate_x509_data, whatever the text of the place.
LEMMA PopulateX509Writes ==
    ASSUME NEW kid, TplOK
    PROVE  LET c == Write(content, PopulateX509(content), kid)
           IN  /\ \A s \in Slots : c[s] # content[s] =>
                     s = X509Slot /\ Kind(s) \in X509Names /\ Writes509(s) /\ c[s] = <<"kid", kid>>
               /\ X509Slot # 0 /\ Writes509(X509Slot) =>
                     X509Slot \in Slots /\ c[X509Slot] = <<"kid", kid>>
<1> DEFINE g == PopulateX509(content)
           c == Write(content, g, kid)
<1>1. X509Slot \in {0} \union {t \in Slots : Kind(t) \in X509Names} /\ (X509Slot \in Slots <=> X509Slot # 0)
  BY FirstPlace DEF X509Slot
<1>2. g = IF X509Slot = 0 \/ ~Writes509(X509Slot) THEN 0 ELSE X509Slot
  BY DEF PopulateX509
<1>0. 0 \notin Slots
  BY SeqDomain DEF TplOK, Slots
<1> HIDE DEF g
<1>3. \A s \in Slots : c[s] = IF s = g THEN <<"kid", kid>> ELSE content[s]
  BY WriteOne
<1> HIDE DEF c
<1>4. \A s \in Slots : c[s] # content[s] =>
          s = X509Slot /\ Kind(s) \in X509Names /\ Writes509(s) /\ c[s] = <<"kid", kid>>
  BY <1>0, <1>1, <1>2, <1>3
<1>5. X509Slot # 0 /\ Writes509(X509Slot) => X509Slot \in Slots /\ c[X509Slot] = <<"kid", kid>>
  BY <1>1, <1>2, <1>3
<1> QED BY <1>4, <1>5 DEF c, g

\* What is written stays within what sign() may write.
LEMMA OnlyWrittenStep == STypeOK /\ ContentOK /\ OnlyWritten /\ [SNext]_svars => OnlyWritten'
<1> SUFFICES ASSUME STypeOK, ContentOK, OnlyWritten, [SNext]_svars PROVE OnlyWritten'
  OBVIOUS
<1>0. TplOK
  BY ChosenJob
<1>1. tpl' = tpl /\ signer' = signer /\ FillsOnly(content', StageKinds(spc))
  BY StepFills
<1>2. Slots' = Slots
  BY <1>1, SameTemplate
<1>3. SUFFICES ASSUME NEW s \in Slots, Fillable(s), content'[s] # content[s]
               PROVE  content'[s] = <<"kid", content'[s][2]>> /\ MayWrite(s, content'[s][2])
  BY <1>1, <1>2, SameSigner DEF OnlyWritten
<1>4. Kind(s) \in StageKinds(spc)
  BY <1>1, <1>3 DEF FillsOnly
<1>5. spc \in {"x509", "keyvalue", "der", "session"}
  BY <1>3, <1>4 DEF Fillable, StageKinds
<1>6. \A kid : <<"kid", kid>>[2] = kid
  OBVIOUS
<1>7. PopulateX509Data \/ PopulateKeyValue \/ PopulateDer \/ EncryptSessionKey
  BY <1>3, <1>5 DEF SNext, svars, SParseFails, SParse, SReparseFails, SkipCid, SReferenceFails, DigestReference,
        DigestsDone, SigningFails, HsmSign, SoftwareSign, SessionKeyFails, ReturnSigned, MoreRefs, Stop
<1>8. CASE PopulateX509Data
  <2>1. SigningKey.chain # <<>> /\ content' = Write(content, PopulateX509(content), X509Content(X509Slot))
    BY <1>3, <1>8, Zenon DEF PopulateX509Data, Fill
  <2>2. /\ s = X509Slot /\ Kind(s) \in X509Names /\ Writes509(s)
        /\ content'[s] = <<"kid", X509Content(X509Slot)>>
    BY <1>0, <1>3, <2>1, PopulateX509Writes
  <2> QED BY <1>6, <2>1, <2>2 DEF MayWrite
<1>9. CASE PopulateKeyValue
  <2>1. /\ SigningKey.kind \in KeyValueKinds
        /\ content' = Write(content, PopulateFirst(content, {"KeyValue"}), PublicKey)
    BY <1>3, <1>9 DEF PopulateKeyValue, Fill
  <2>2. content'[s] = <<"kid", PublicKey>> /\ Kind(s) = "KeyValue"
    BY <1>0, <1>3, <2>1, PopulateWrites
  <2> QED BY <1>6, <2>1, <2>2 DEF MayWrite
<1>10. CASE PopulateDer
  <2>1. /\ SigningKey.kind \in SpkiKinds
        /\ content' = Write(content, PopulateFirst(content, {"DEREncodedKeyValue"}), PublicKey)
    BY <1>3, <1>10 DEF PopulateDer, Fill
  <2>2. content'[s] = <<"kid", PublicKey>> /\ Kind(s) = "DEREncodedKeyValue"
    BY <1>0, <1>3, <2>1, PopulateWrites
  <2> QED BY <1>6, <2>1, <2>2 DEF MayWrite
<1>11. CASE EncryptSessionKey
  <2>1. content' = [t \in Slots |-> IF t \in ToWrap THEN <<"kid", Wrapped(EncryptedKeyOf(t))>>
                                                     ELSE content[t]]
    BY <1>3, <1>11 DEF EncryptSessionKey, Fill
  <2>2. s \in ToWrap /\ content'[s] = <<"kid", Wrapped(EncryptedKeyOf(s))>>
    BY <1>3, <2>1
  <2> QED BY <1>6, <2>2 DEF MayWrite, ToWrap
<1> QED BY <1>7, <1>8, <1>9, <1>10, <1>11

\* What sign() has written stays, and it writes what the stage is for.
LEMMA PopulatedStep == STypeOK /\ ContentOK /\ Populated /\ [SNext]_svars => Populated'
<1> SUFFICES ASSUME STypeOK, ContentOK, Populated, [SNext]_svars, ~signer.hsm.on PROVE Populated'
  BY StepFills DEF Populated
<1>0. TplOK
  BY ChosenJob
<1>1. tpl' = tpl /\ signer' = signer /\ FillsOnly(content', StageKinds(spc))
  BY StepFills
<1>2. Slots' = Slots /\ SigningKey' = SigningKey /\ \A names : FirstOfKind(names)' = FirstOfKind(names)
  BY <1>1, SameTemplate, SameSigner
<1>3. \A s \in Slots : content[s] # Empty => content'[s] # Empty
  BY <1>1 DEF FillsOnly
<1>4. \A names : FirstOfKind(names) # 0 => FirstOfKind(names) \in Slots
  BY <1>0, FindIndex DEF TplOK, Slots, FirstOfKind
<1>5. \A names : FirstFilled(names) => FirstFilled(names)'
  <2> SUFFICES ASSUME NEW names, FirstFilled(names), FirstOfKind(names) # 0
               PROVE  content'[FirstOfKind(names)] # Empty
    BY <1>2 DEF FirstFilled
  <2> QED BY <1>3, <1>4 DEF FirstFilled
<1>6. ToWrap' \subseteq ToWrap
  <2>1. ToWrap' = {s \in Slots : /\ Kind(s) = "CipherValue" /\ content'[s] = Empty
                                 /\ EncryptedKeyOf(s).method # "missing"
                                 /\ HasSymmetricBytes(WrapKey(EncryptedKeyOf(s)))}
    BY <1>1 DEF ToWrap, Slots, Kind, EncryptedKeyOf, WrapKey, Sdoc
  <2> QED BY <1>3, <2>1 DEF ToWrap
<1>15. X509Written /\ spc # "x509" => X509Written'
  <2>1. X509Slot # 0 => X509Slot \in Slots
    BY <1>0, FirstPlace DEF X509Slot
  <2>2. X509Written' <=> (SigningKey.chain # <<>> /\ X509Slot # 0 /\ Writes509(X509Slot)
                             => content'[X509Slot] = <<"kid", X509Content(X509Slot)>>)
    BY <1>1, <1>2, SameSigner DEF X509Written
  <2> QED BY <1>1, <2>1, <2>2, KidsDiffer DEF X509Written, FillsOnly, Overwritable
<1>16. Reached({"keyvalue", "der", "session", "finish"}) => spc # "x509"
  BY DEF Reached, STypeOK
<1> DEFINE Stays(stages) == Reached(stages)' => Reached(stages)
<1>7. ASSUME \/ Stays({"keyvalue", "der", "session", "finish"})
             \/ X509Written',
             \/ Stays({"der", "session", "finish"})
             \/ SigningKey.kind \in KeyValueKinds => FirstFilled({"KeyValue"})',
             \/ Stays({"session", "finish"})
             \/ SigningKey.kind \in SpkiKinds => FirstFilled({"DEREncodedKeyValue"})',
             Stays({"finish"}) \/ (HasSymmetricBytes(SigningKey) => ToWrap' = {})
      PROVE  Populated'
  <2>1. HasSymmetricBytes(SigningKey)' <=> HasSymmetricBytes(SigningKey)
    BY <1>2
  <2>2. Reached({"keyvalue", "der", "session", "finish"})' => X509Written'
    BY <1>7, <1>15, <1>16 DEF Populated
  <2>3. SigningKey.kind \in KeyValueKinds /\ Reached({"der", "session", "finish"})'
          => FirstFilled({"KeyValue"})'
    BY <1>5, <1>7 DEF Populated
  <2>4. SigningKey.kind \in SpkiKinds /\ Reached({"session", "finish"})'
          => FirstFilled({"DEREncodedKeyValue"})'
    BY <1>5, <1>7 DEF Populated
  <2>5. HasSymmetricBytes(SigningKey) /\ Reached({"finish"})' => ToWrap' = {}
    BY <1>6, <1>7 DEF Populated
  <2> QED BY <1>1, <1>2, <2>1, <2>2, <2>3, <2>4, <2>5 DEF Populated
<1>8. ASSUME NEW stages, Stop("Err") \/ (UNCHANGED <<spc, status>>) \/ (ReturnSigned /\ "finish" \in stages),
             "done" \notin stages
      PROVE  Stays(stages)
  BY <1>8 DEF Reached, Stop, ReturnSigned
<1>9. CASE SParseFails \/ SReparseFails \/ SReferenceFails \/ SigningFails \/ SessionKeyFails
             \/ SkipCid \/ DigestReference \/ ReturnSigned \/ UNCHANGED svars
  <2>1. Stop("Err") \/ (UNCHANGED <<spc, status>>) \/ ReturnSigned
    BY <1>9 DEF SParseFails, SReparseFails, SReferenceFails, SigningFails, SessionKeyFails, SkipCid,
         DigestReference, svars
  <2> HIDE DEF Stays
  <2> QED BY <1>7, <1>8, <2>1
<1>10. CASE SParse \/ DigestsDone \/ SoftwareSign \/ HsmSign
  <2>1. spc' \in {"refs", "sign", "x509"} /\ status' = status
    BY <1>10 DEF SParse, DigestsDone, SoftwareSign, HsmSign, Fill
  <2> QED BY <1>7, <2>1 DEF Reached
<1>11. CASE PopulateX509Data
  <2>1. spc' = "keyvalue" /\ status' = status
    BY <1>11 DEF PopulateX509Data, Fill
  <2>2. X509Written'
    <3> SUFFICES ASSUME SigningKey.chain # <<>>, X509Slot # 0, Writes509(X509Slot)
                 PROVE  content'[X509Slot] = <<"kid", X509Content(X509Slot)>>
      BY <1>1, <1>2, SameSigner DEF X509Written
    <3>1. content' = Write(content, PopulateX509(content), X509Content(X509Slot))
      BY <1>11, Zenon DEF PopulateX509Data, Fill
    <3> QED BY <1>0, <3>1, PopulateX509Writes
  <2> QED BY <1>7, <2>1, <2>2 DEF Reached
<1>12. CASE PopulateKeyValue
  <2>1. spc = "keyvalue" /\ spc' = "der" /\ status' = status
    BY <1>12 DEF PopulateKeyValue, Fill
  <2>2. SigningKey.kind \in KeyValueKinds => FirstFilled({"KeyValue"})'
    <3> SUFFICES ASSUME SigningKey.kind \in KeyValueKinds PROVE FirstFilled({"KeyValue"})'
      OBVIOUS
    <3>1. content' = Write(content, PopulateFirst(content, {"KeyValue"}), PublicKey)
      BY <1>12 DEF PopulateKeyValue, Fill
    <3>2. FirstOfKind({"KeyValue"}) # 0 => content'[FirstOfKind({"KeyValue"})] # Empty
      BY <1>0, <3>1, PopulateWrites
    <3> QED BY <1>2, <3>2 DEF FirstFilled
  <2> QED BY <1>7, <2>1, <2>2 DEF Reached
<1>13. CASE PopulateDer
  <2>1. spc = "der" /\ spc' = "session" /\ status' = status
    BY <1>13 DEF PopulateDer, Fill
  <2>2. SigningKey.kind \in SpkiKinds => FirstFilled({"DEREncodedKeyValue"})'
    <3> SUFFICES ASSUME SigningKey.kind \in SpkiKinds PROVE FirstFilled({"DEREncodedKeyValue"})'
      OBVIOUS
    <3>1. content' = Write(content, PopulateFirst(content, {"DEREncodedKeyValue"}), PublicKey)
      BY <1>13 DEF PopulateDer, Fill
    <3>2. FirstOfKind({"DEREncodedKeyValue"}) # 0 => content'[FirstOfKind({"DEREncodedKeyValue"})] # Empty
      BY <1>0, <3>1, PopulateWrites
    <3> QED BY <1>2, <3>2 DEF FirstFilled
  <2> QED BY <1>7, <2>1, <2>2 DEF Reached
<1>14. CASE EncryptSessionKey
  <2>1. spc = "session" /\ spc' = "finish" /\ status' = status
    BY <1>14 DEF EncryptSessionKey, Fill
  <2>2. HasSymmetricBytes(SigningKey) => ToWrap' = {}
    <3> SUFFICES ASSUME HasSymmetricBytes(SigningKey), NEW s \in ToWrap' PROVE FALSE
      OBVIOUS
    <3>1. content' = [t \in Slots |-> IF t \in ToWrap THEN <<"kid", Wrapped(EncryptedKeyOf(t))>>
                                                       ELSE content[t]]
      BY <1>14 DEF EncryptSessionKey, Fill
    <3>2. s \in ToWrap /\ s \in Slots
      BY <1>6 DEF ToWrap
    <3>3. content'[s] = <<"kid", Wrapped(EncryptedKeyOf(s))>>
      BY <3>1, <3>2
    <3>4. content'[s] = <<>>
      BY DEF ToWrap, Empty
    <3> QED BY <3>3, <3>4
  <2> QED BY <1>7, <2>1, <2>2 DEF Reached
<1> QED BY <1>9, <1>10, <1>11, <1>12, <1>13, <1>14 DEF SNext

\* The template satisfies all three.
LEMMA SignedInit == SInit => Checked /\ OnlyWritten /\ Populated
<1> SUFFICES ASSUME SInit PROVE Checked /\ OnlyWritten /\ Populated
  OBVIOUS
<1>1. STypeOK /\ content = tpl.text /\ ref = 1 /\ spc = "parse" /\ status = "pending"
  BY TypeInit DEF SInit
<1>2. DOMAIN Sdoc.refs = 1 .. Len(Sdoc.refs) /\ Len(Sdoc.refs) \in Nat
  BY <1>1, ChosenJob, SeqDomain DEF TplOK
<1>3. \A i \in Digested : ~(i < 1)
  BY <1>2 DEF Digested
<1> QED BY <1>1, <1>3 DEF Checked, Reached, OnlyWritten, Populated

-----------------------------------------------------------------------------
(* The KeyInfo of the signed document.                                     *)

SignInv == STypeOK /\ ContentOK /\ Consistent /\ Checked /\ OnlyWritten /\ Populated

\* sign() keeps its invariant.
LEMMA SignInvariant == Spec => []SignInv
<1>1. SInit => SignInv
  BY TypeInit, ConsistentInit, SignedInit DEF SignInv
<1>2. SignInv /\ [SNext]_svars => SignInv'
  BY TypeStep, ConsistentInductive, CheckedStep, OnlyWrittenStep, PopulatedStep DEF SignInv
<1> QED BY <1>1, <1>2, ComposedSigns, PTL DEF SSpec

\* The populated places of the child k of element n.
Places(n, k) == {t \in Slots : /\ tpl.slots[t].node = n /\ tpl.slots[t].kid = k
                               /\ content[t] # Empty /\ content[t] # Text}

\* What sign() has written into a child of an element.
WrittenAt(s, n, k, kid) == /\ tpl.slots[s].node = n /\ tpl.slots[s].kid = k
                           /\ Kind(s) \in KeyInfoNames /\ MayWrite(s, kid)

\* A populated place holds what sign() may write there, with the tag of the child.
LEMMA PlaceWritten ==
    ASSUME SignInv, NEW n \in Nodes(Sdoc), NEW k \in DOMAIN Sdoc.kids[n], NEW s \in Places(n, k)
    PROVE  WrittenAt(s, n, k, content[s][2]) /\ content[s][2].t = Sdoc.kids[n][k].t
<1>1. TemplateOK(tpl)
  BY ChosenInputs DEF SignInv
<1>2. s \in Slots /\ tpl.slots[s].node = n /\ tpl.slots[s].kid = k /\ content[s] \notin {Empty, Text}
  BY DEF Places
<1>3. k \in Nat \ {0}
  <2>1. IsSeq(Sdoc.kids[n])
    BY <1>1 DEF TemplateOK, DocOK, KidsOK, Sdoc
  <2> QED BY <2>1, SeqDomain
<1>4. Fillable(s) /\ content[s] # tpl.text[s]
  BY <1>1, <1>2, <1>3 DEF TemplateOK, Fillable, Kind, Slots
<1>5. MayWrite(s, content[s][2])
  BY <1>2, <1>4 DEF SignInv, OnlyWritten
<1>6. Kind(s) \in KeyInfoNames
  BY <1>5 DEF MayWrite, KeyInfoNames, X509Names
<1>7. Sdoc.kids[n][k].t = ChildTag(Kind(s))
  BY <1>1, <1>2, <1>6 DEF TemplateOK, Kind, Sdoc, Slots
<1>8. content[s][2].t = ChildTag(Kind(s))
  <2> DEFINE kid == content[s][2]
  <2> HIDE DEF kid
  <2>0. MayWrite(s, kid)
    BY <1>5 DEF kid
  <2>1. CASE Kind(s) \in X509Names
    BY <2>0, <2>1 DEF MayWrite, X509Names, X509Content, ChildTag, kid
  <2>2. CASE Kind(s) \in {"KeyValue", "DEREncodedKeyValue"}
    BY <2>0, <2>2 DEF MayWrite, X509Names, PublicKey, ChildTag, kid
  <2>3. CASE Kind(s) = "CipherValue"
    <3>1. kid = Wrapped(Sdoc.kids[n][k]) /\ Sdoc.kids[n][k].t = "EncryptedKey"
      BY <1>2, <1>7, <2>0, <2>3 DEF MayWrite, X509Names, ChildTag, EncryptedKeyOf
    <3>2. DOMAIN Sdoc.kids[n][k] = {"t", "method", "size", "names", "wrapped", "mat"}
      BY <1>1, <3>1 DEF TemplateOK, Sdoc
    <3>3. kid.t = Sdoc.kids[n][k].t
      BY <3>1, <3>2 DEF Wrapped
    <3> QED BY <1>7, <3>3 DEF kid
  <2> QED BY <1>6, <2>1, <2>2, <2>3 DEF KeyInfoNames, X509Names
<1> QED BY <1>2, <1>5, <1>6, <1>7, <1>8 DEF WrittenAt

\* In a well-formed template no new tag loses a namespace or an ID a Reference needs.
LEMMA TagsHarmless ==
    ASSUME SignInv, WellFormed
    PROVE  /\ \A s : ~Nameless(content, s)
           /\ Parses(content) <=> Sdoc.parses
           /\ \A i \in Digested : Sdoc.refs[i].uri = "id" =>
                 \A s \in Changed(content) : IdMap(Sdoc, Sdoc.refs[i].id) \notin NewTags(s)
<1>1. \A s \in Changed(content) : s \in OpenAtStart(PlaceNames)
  BY DEF SignInv, Consistent, KeptText, Changed
<1>2. \A s \in Retagged(content) : tpl.slots[s].decl = "above"
  <2>1. \A s \in Retagged(content) : s \in OpenAtStart(PlaceNames \ TagKept)
    BY <1>1 DEF Retagged, OpenAtStart
  <2> QED BY <2>1 DEF WellFormed
<1>3. \A s : ~Nameless(content, s)
  BY <1>2 DEF Nameless
<1>4. Parses(content) <=> Sdoc.parses
  BY <1>2, Zenon DEF Parses
<1>5. ASSUME NEW i \in Digested, Sdoc.refs[i].uri = "id", NEW s \in Changed(content)
      PROVE  IdMap(Sdoc, Sdoc.refs[i].id) \notin NewTags(s)
  BY <1>1, <1>5, Zenon DEF WellFormed
<1> QED BY <1>3, <1>4, <1>5

\* A child of a KeyInfo keeps its tag; it is what it was, or what sign() has written there.
LEMMA SignedChild ==
    ASSUME SignInv, WellFormed, NEW n \in Nodes(Sdoc), NEW k \in DOMAIN Sdoc.kids[n]
    PROVE  LET ch == SignedKids(n)[k]
           IN  /\ ch.t = Sdoc.kids[n][k].t
               /\ Places(n, k) = {} => ch = Sdoc.kids[n][k]
               /\ Places(n, k) # {} => \E s \in Slots : WrittenAt(s, n, k, ch)
<1> DEFINE S == Places(n, k)
           f == FirstOf(S)
           ch == SignedKids(n)[k]
<1>1. TplOK
  BY ChosenJob DEF SignInv
<1>2. f \in {0} \union S /\ (f = 0 <=> S = {})
  BY <1>1, FindIndex DEF TplOK, Slots, Places
<1>3. ch = IF f = 0 THEN Sdoc.kids[n][k] ELSE content[f][2]
  <2> DEFINE lost == f # 0 /\ Nameless(content, f)
  <2>1. ch = CASE f = 0 \/ (lost /\ Kind(f) = "X509Template") -> Sdoc.kids[n][k]
               [] lost /\ Kind(f) # "X509Template" -> [t |-> "other"]
               [] OTHER -> content[f][2]
    BY Zenon DEF SignedKids, Places
  <2> HIDE DEF f, ch
  <2>2. ~lost
    BY TagsHarmless
  <2> HIDE DEF lost
  <2> QED BY <2>1, <2>2
<1> HIDE DEF f, ch, S
<1>4. CASE f = 0
  BY <1>2, <1>3, <1>4 DEF ch, S
<1>5. CASE f # 0
  <2>1. f \in Places(n, k) /\ f \in Slots
    BY <1>2, <1>5 DEF S, Places
  <2>2. WrittenAt(f, n, k, ch) /\ ch.t = Sdoc.kids[n][k].t
    BY <1>3, <1>5, <2>1, PlaceWritten
  <2> QED BY <1>2, <1>5, <2>1, <2>2 DEF ch, S
<1> QED BY <1>4, <1>5

-----------------------------------------------------------------------------
(* verify() speaks of documents and keys with the names of its instance.   *)

\* The lookups of the key store,
LEMMA SameLookups ==
    /\ \A S : V!FirstOf(S) = FirstOf(S)
    /\ \A ks, n : V!find_by_name(ks, n) = find_by_name(ks, n)
    /\ \A ks, kind : V!find_kind(ks, kind) = find_kind(ks, kind)
    /\ \A ks : V!find_rsa_private(ks) = find_rsa_private(ks)
    /\ \A ks, size : V!find_aes_by_size(ks, size) = find_aes_by_size(ks, size)
    /\ \A ks : V!first_key(ks) = first_key(ks)
    /\ \A ks, serial : V!find_key_by_serial(ks, serial) = find_key_by_serial(ks, serial)
    /\ \A k : V!HasSymmetricBytes(k) = HasSymmetricBytes(k)
    /\ \A k : V!HasSigningKey(k) = HasSigningKey(k)
    /\ \A i, j : V!OrElse(i, j) = OrElse(i, j)
<1>1. \A S : V!FirstOf(S) = FirstOf(S)
  BY DEF V!FirstOf, FirstOf
<1>2. \A ks, n : V!find_by_name(ks, n) = find_by_name(ks, n)
  BY <1>1 DEF V!find_by_name, find_by_name, V!NoName, NoName
<1>3. \A ks, kind : V!find_kind(ks, kind) = find_kind(ks, kind)
  BY <1>1 DEF V!find_kind, find_kind
<1>4. \A ks : V!find_rsa_private(ks) = find_rsa_private(ks)
  BY <1>1 DEF V!find_rsa_private, find_rsa_private
<1>5. \A ks, size : V!find_aes_by_size(ks, size) = find_aes_by_size(ks, size)
  BY <1>1 DEF V!find_aes_by_size, find_aes_by_size
<1>6. \A ks : V!first_key(ks) = first_key(ks)
  BY DEF V!first_key, first_key
<1>7. \A ks, serial : V!find_key_by_serial(ks, serial) = find_key_by_serial(ks, serial)
  BY <1>1 DEF V!find_key_by_serial, find_key_by_serial
<1>8. \A k : V!HasSymmetricBytes(k) = HasSymmetricBytes(k)
  BY DEF V!HasSymmetricBytes, HasSymmetricBytes, V!SymmetricKinds, SymmetricKinds
<1>9. \A k : V!HasSigningKey(k) = HasSigningKey(k)
  BY DEF V!HasSigningKey, HasSigningKey, V!NonSigningKinds, NonSigningKinds
<1>10. \A i, j : V!OrElse(i, j) = OrElse(i, j)
  BY DEF V!OrElse, OrElse
<1> QED BY <1>1, <1>2, <1>3, <1>4, <1>5, <1>6, <1>7, <1>8, <1>9, <1>10

\* the keys that come with a document,
LEMMA SameInline ==
    /\ V!NoKey = NoKey
    /\ \A ks, i : V!KeyAt(ks, i) = KeyAt(ks, i)
    /\ \A k, l : V!OrElseKey(k, l) = OrElseKey(k, l)
    /\ \A ch : V!InlineKey(ch) = InlineKey(ch)
    /\ \A kids : V!extract_key_value(kids) = extract_key_value(kids)
<1>1. V!NoKey = NoKey
  BY DEF V!NoKey, NoKey, V!NoName, NoName
<1>2. \A ks, i : V!KeyAt(ks, i) = KeyAt(ks, i)
  BY <1>1 DEF V!KeyAt, KeyAt
<1>3. \A k, l : V!OrElseKey(k, l) = OrElseKey(k, l)
  BY <1>1 DEF V!OrElseKey, OrElseKey
<1>4. \A cs, i : V!IsIssuerOfOther(cs, i) = IsIssuerOfOther(cs, i)
  BY DEF V!IsIssuerOfOther, IsIssuerOfOther
<1>5. \A cs : /\ V!EndEntities(cs) = EndEntities(cs) /\ V!NonIssuers(cs) = NonIssuers(cs)
              /\ V!NonCAs(cs) = NonCAs(cs)
  BY <1>4 DEF V!EndEntities, EndEntities, V!NonIssuers, NonIssuers, V!NonCAs, NonCAs
<1>6. \A S : V!LastOf(S) = LastOf(S)
  BY DEF V!LastOf, LastOf
<1>7. \A cs : V!find_leaf_cert(cs) = find_leaf_cert(cs)
  BY <1>5, <1>6 DEF V!find_leaf_cert, find_leaf_cert
<1>8. \A c, chain : V!CertKey(c, chain) = CertKey(c, chain)
  BY <1>1 DEF V!CertKey, CertKey
<1>9. \A certs : V!extract_x509_certificate(certs) = extract_x509_certificate(certs)
  BY <1>1, <1>7, <1>8 DEF V!extract_x509_certificate, extract_x509_certificate
<1>10. \A ch : V!InlineKey(ch) = InlineKey(ch)
  BY <1>1, <1>9 DEF V!InlineKey, InlineKey
<1>11. \A kids : V!extract_key_value(kids) = extract_key_value(kids)
  BY <1>1, <1>10, SameLookups DEF V!extract_key_value, extract_key_value
<1> QED BY <1>1, <1>2, <1>3, <1>10, <1>11

\* the session key,
LEMMA SameUnwrap ==
    /\ \A ek, ks : V!UnwrapKek(ek, ks) = UnwrapKek(ek, ks)
    /\ \A kids, ks : V!try_unwrap_encrypted_key(kids, ks) = try_unwrap_encrypted_key(kids, ks)
<1>1. \A names, ks : V!resolve_kek_from_key_info(names, ks) = resolve_kek_from_key_info(names, ks)
  BY SameLookups DEF V!resolve_kek_from_key_info, resolve_kek_from_key_info
<1>2. \A ek, ks : V!UnwrapKek(ek, ks) = UnwrapKek(ek, ks)
  BY <1>1, SameLookups DEF V!UnwrapKek, UnwrapKek
<1>3. \A kids, ks : V!try_unwrap_encrypted_key(kids, ks) = try_unwrap_encrypted_key(kids, ks)
  BY <1>2, SameLookups, SameInline DEF V!try_unwrap_encrypted_key, try_unwrap_encrypted_key
<1> QED BY <1>2, <1>3

\* the keys of the manager,
LEMMA SameResolve ==
    /\ \A kids, ks : V!resolve_key_info(kids, ks) = resolve_key_info(kids, ks)
    /\ \A kids, at : V!EffectiveKids(kids, at) = EffectiveKids(kids, at)
<1>1. \A ch, ks : V!KeyBySerial(ch, ks) = KeyBySerial(ch, ks)
  BY SameLookups DEF V!KeyBySerial, KeyBySerial
<1>2. \A ch, ks : V!KeyByName(ch, ks) = KeyByName(ch, ks) /\ V!KeyByX509Data(ch, ks) = KeyByX509Data(ch, ks)
  BY <1>1, SameLookups DEF V!KeyByName, KeyByName, V!KeyByX509Data, KeyByX509Data
<1>3. \A kids, ks : V!resolve_key_info(kids, ks) = resolve_key_info(kids, ks)
  BY <1>2, SameLookups DEF V!resolve_key_info, resolve_key_info
<1>4. \A kids, at : V!EffectiveKids(kids, at) = EffectiveKids(kids, at)
  BY SameLookups DEF V!EffectiveKids, EffectiveKids
<1> QED BY <1>3, <1>4

\* and the queries on a document.
LEMMA SameDocument ==
    /\ \A d, v : V!IdMap(d, v) = IdMap(d, v)
    /\ \A d : V!KidsById(d) = KidsById(d)
    /\ \A d, n : V!PositionOK(d, n) = PositionOK(d, n)
    /\ \A d : V!StructureOK(d) = StructureOK(d)
    /\ \A d, r : V!Resolves(d, r) = Resolves(d, r)
    /\ \A d, r : V!verify_reference(d, r) = verify_reference(d, r)
    /\ \A d, r : V!VerifiedRef(d, r) = VerifiedRef(d, r)
<1>1. \A d, v : V!IdMap(d, v) = IdMap(d, v)
  BY SameLookups DEF V!IdMap, IdMap, V!Nodes, Nodes
<1>2. \A d : V!IdValues(d) = IdValues(d)
  BY DEF V!IdValues, IdValues, V!Nodes, Nodes
<1>3. \A d : V!KidsById(d) = KidsById(d)
  BY <1>1, <1>2 DEF V!KidsById, KidsById
<1>4. \A d, n : V!PositionOK(d, n) = PositionOK(d, n)
  <2>1. \A d : V!SignatureNode(d) = SignatureNode(d)
    BY SameLookups DEF V!SignatureNode, SignatureNode
  <2>2. \A d, n : V!AncestorsOrSelf(d, n) = AncestorsOrSelf(d, n)
    BY DEF V!AncestorsOrSelf, AncestorsOrSelf, V!Nodes, Nodes
  <2> QED BY <2>1, <2>2 DEF V!PositionOK, PositionOK
<1>5. \A d : V!StructureOK(d) = StructureOK(d)
  <2>1. \A d, v : V!IdOccurrences(d, v) = IdOccurrences(d, v)
    BY DEF V!IdOccurrences, IdOccurrences, V!Nodes, Nodes
  <2>2. \A d : V!DuplicateId(d) = DuplicateId(d)
    BY <1>2, <2>1 DEF V!DuplicateId, DuplicateId
  <2> QED BY <2>2 DEF V!StructureOK, StructureOK
<1>6. \A d, r : V!Resolves(d, r) = Resolves(d, r)
  BY <1>1 DEF V!Resolves, Resolves
<1>7. \A d, r : V!verify_reference(d, r) = verify_reference(d, r)
  BY <1>6 DEF V!verify_reference, verify_reference, V!RefErrs, RefErrs
<1>8. \A d, r : V!VerifiedRef(d, r) = VerifiedRef(d, r)
  BY <1>1 DEF V!VerifiedRef, VerifiedRef, V!ResolvedNode, ResolvedNode, V!NoNode, NoNode
<1> QED BY <1>1, <1>3, <1>4, <1>5, <1>6, <1>7, <1>8

-----------------------------------------------------------------------------
(* The KeyInfo the peer reads.                                             *)

\* With a key in the manager, resolve_key_info finds one.
LEMMA ResolveFinds ==
    ASSUME NEW ks, NEW kids, IsSeq(ks), ks # <<>>, IsSeq(kids)
    PROVE  resolve_key_info(kids, ks) \in DOMAIN ks
<1>1. resolve_key_info(kids, ks) \in {0} \union DOMAIN ks
  <2>1. \A ch : KeyByName(ch, ks) \in {0} \union DOMAIN ks
    BY ManagerLookups DEF KeyByName
  <2>2. \A ch : KeyBySerial(ch, ks) \in {0} \union DOMAIN ks
    BY ManagerLookups DEF KeyBySerial
  <2>3. \A ch : KeyByX509Data(ch, ks) \in {0} \union DOMAIN ks
    BY <2>2 DEF KeyByX509Data
  <2> QED BY <2>1, <2>3, ManagerLookups DEF resolve_key_info
<1> DEFINE N == {j \in DOMAIN kids : KeyByName(kids[j], ks) # 0}
           X == {j \in DOMAIN kids : KeyByX509Data(kids[j], ks) # 0}
<1>2. FirstOf(N) \in {0} \union N /\ FirstOf(X) \in {0} \union X
  BY FindIndex
<1>3. Len(ks) # 0
  BY SeqDomain DEF IsSeq
<1>4. resolve_key_info(kids, ks) = IF FirstOf(N) # 0 THEN KeyByName(kids[FirstOf(N)], ks)
                                   ELSE IF FirstOf(X) # 0 THEN KeyByX509Data(kids[FirstOf(X)], ks)
                                   ELSE first_key(ks)
  BY DEF resolve_key_info
<1>5. FirstOf(N) # 0 => KeyByName(kids[FirstOf(N)], ks) # 0
  BY <1>2
<1>6. FirstOf(X) # 0 => KeyByX509Data(kids[FirstOf(X)], ks) # 0
  BY <1>2
<1> HIDE DEF N, X
<1>7. resolve_key_info(kids, ks) # 0
  BY <1>3, <1>4, <1>5, <1>6 DEF first_key
<1> QED BY <1>1, <1>7

\* The fields of the signed document.
LEMMA SignedFields ==
    ASSUME STypeOK
    PROVE  LET d == SignedDocument
           IN  /\ d.parses = Parses(content) /\ d.parent = Sdoc.parent /\ d.ids = IdsNow(content)
               /\ d.sigs = Sdoc.sigs /\ d.signedinfo = Sdoc.signedinfo /\ d.c14n = Sdoc.c14n
               /\ d.method = Sdoc.method /\ d.hmaclen = Sdoc.hmaclen /\ d.bits = Sdoc.bits
               /\ d.fullmac = Sdoc.fullmac /\ d.pqctx = Sdoc.pqctx /\ d.ki = Sdoc.ki
               /\ d.refs = [i \in DOMAIN Sdoc.refs |-> SignedRef(i)]
               /\ d.sv = SignedValue
               /\ d.kids = [n \in Nodes(Sdoc) |-> SignedKids(n)]
<1>1. DOMAIN Sdoc = {"parses", "parent", "ids", "kids", "sigs", "signedinfo", "c14n", "method",
                     "hmaclen", "bits", "fullmac", "pqctx", "refs", "sv", "ki"}
  BY ChosenInputs DEF TemplateOK, Sdoc
<1> DEFINE R == [i \in DOMAIN Sdoc.refs |-> SignedRef(i)]
           K == [n \in Nodes(Sdoc) |-> SignedKids(n)]
<1>2. SignedDocument = [Sdoc EXCEPT !.parses = Parses(content), !.ids = IdsNow(content),
                                    !.refs = R, !.sv = SignedValue, !.kids = K]
  BY DEF SignedDocument
<1> HIDE DEF R, K
<1>3. LET d == SignedDocument
      IN  /\ d.parses = Parses(content) /\ d.parent = Sdoc.parent /\ d.ids = IdsNow(content)
          /\ d.sigs = Sdoc.sigs /\ d.signedinfo = Sdoc.signedinfo /\ d.c14n = Sdoc.c14n
          /\ d.method = Sdoc.method /\ d.hmaclen = Sdoc.hmaclen /\ d.bits = Sdoc.bits
          /\ d.fullmac = Sdoc.fullmac /\ d.pqctx = Sdoc.pqctx /\ d.ki = Sdoc.ki
          /\ d.refs = R /\ d.sv = SignedValue /\ d.kids = K
  BY <1>1, <1>2
<1> QED BY <1>3 DEF R, K

\* The document sign() returned for a well-formed template has arrived.
Delivered == SignInv /\ WellFormed /\ status = "Ok" /\ doc = SignedDocument /\ ctx = signer.peer

\* Populating an element keeps the number of its children.
LEMMA SignedKidsSeq ==
    ASSUME STypeOK, NEW n \in Nodes(Sdoc)
    PROVE  IsSeq(SignedKids(n)) /\ DOMAIN SignedKids(n) = DOMAIN Sdoc.kids[n]
<1>1. IsSeq(Sdoc.kids[n])
  BY ChosenInputs DEF TemplateOK, DocOK, KidsOK, Sdoc
<1>2. DOMAIN SignedKids(n) = DOMAIN Sdoc.kids[n]
  BY DEF SignedKids
<1>3. SignedKids(n) = [k \in DOMAIN Sdoc.kids[n] |-> SignedKids(n)[k]]
  BY DEF SignedKids
<1> DEFINE g == SignedKids(n)
<1> HIDE DEF g
<1>4. PICK m \in Nat : DOMAIN Sdoc.kids[n] = 1 .. m
  BY <1>1, SeqDomain
<1>5. g = [k \in 1 .. m |-> g[k]] /\ DOMAIN g = 1 .. m
  BY <1>2, <1>3, <1>4 DEF g
<1>6. IsSeq(g)
  BY <1>5 DEF IsSeq
<1> QED BY <1>2, <1>6 DEF g

\* An ID value leads to an element.
LEMMA IdMapElement ==
    ASSUME NEW d, IsSeq(d.parent), NEW v \in IdValues(d)
    PROVE  IdMap(d, v) \in Nodes(d)
<1> DEFINE S == {n \in Nodes(d) : \E k \in DOMAIN d.ids[n] : d.ids[n][k] = v}
<1>1. S # {}
  BY DEF IdValues
<1>2. FirstOf(S) \in {0} \union S /\ (FirstOf(S) = 0 <=> S = {})
  BY FindIndex DEF Nodes
<1> QED BY <1>1, <1>2 DEF IdMap

\* The KeyInfo the peer reads: the children of some element, and of this KeyInfo if it
\* does not refer to another one.
LEMMA PeerKids ==
    ASSUME Delivered, Sdoc.ki # 0
    PROVE  IsSeq(V!Kids) /\ (OwnInfo => V!Kids = SignedKids(Sdoc.ki))
<1>0. STypeOK /\ TemplateOK(tpl)
  BY ChosenInputs DEF Delivered, SignInv
<1>1. /\ doc.ki = Sdoc.ki /\ doc.kids = [n \in Nodes(Sdoc) |-> SignedKids(n)]
      /\ doc.parent = Sdoc.parent
  BY <1>0, SignedFields DEF Delivered
<1>2. Sdoc.ki \in Nodes(Sdoc) /\ IsSeq(Sdoc.parent)
  BY <1>0 DEF TemplateOK, DocOK, Sdoc
<1> DEFINE kids == SignedKids(Sdoc.ki)
           at == KidsById(doc)
           S == {j \in DOMAIN kids : kids[j].t = "KeyInfoReference" /\ kids[j].id \in DOMAIN at}
<1>3. V!Kids = EffectiveKids(kids, at)
  BY <1>1, <1>2, SameResolve, SameDocument DEF V!Kids
<1>4. IsSeq(kids) /\ DOMAIN kids = DOMAIN InfoKids
  BY <1>0, <1>2, SignedKidsSeq DEF InfoKids
<1>5. V!Kids = IF FirstOf(S) = 0 THEN kids ELSE at[kids[FirstOf(S)].id]
  BY <1>3 DEF EffectiveKids
<1>6. FirstOf(S) \in {0} \union S
  BY <1>4, FindIndex
<1>7. ASSUME NEW v \in DOMAIN at PROVE IsSeq(at[v])
  <2>1. v \in IdValues(doc) /\ at[v] = doc.kids[IdMap(doc, v)]
    BY <1>7 DEF KidsById
  <2>2. IdMap(doc, v) \in Nodes(Sdoc)
    BY <1>1, <1>2, <2>1, IdMapElement DEF Nodes
  <2> QED BY <1>0, <1>1, <2>1, <2>2, SignedKidsSeq
<1> HIDE DEF at
<1>8. IsSeq(V!Kids)
  BY <1>4, <1>5, <1>6, <1>7
<1>9. ASSUME OwnInfo PROVE V!Kids = kids
  <2>1. \A j \in DOMAIN kids : kids[j].t # "KeyInfoReference"
    BY <1>2, <1>4, <1>9, SignedChild DEF OwnInfo, InfoKids, Delivered
  <2>2. S = {}
    BY <2>1
  <2> HIDE DEF S, kids
  <2> QED BY <1>5, <2>2 DEF FirstOf
<1> QED BY <1>8, <1>9

-----------------------------------------------------------------------------
(* The three ways to the key.                                              *)

\* Without a key of the document's, the manager's is taken.
LEMMA ManagerSelected ==
    ASSUME Delivered, V!EmbeddedKey = NoKey
    PROVE  /\ V!SelectedSource = "manager"
           /\ Sdoc.ki = 0 => V!SelectedKey = KeyAt(ctx.keys, first_key(ctx.keys))
           /\ Sdoc.ki # 0 => V!SelectedKey = KeyAt(ctx.keys, resolve_key_info(V!Kids, ctx.keys))
<1>1. doc.ki = Sdoc.ki
  BY SignedFields DEF Delivered, SignInv
<1>2. V!SelectedSource = "manager" /\ V!SelectedKey = V!ManagerKey
  BY SameInline DEF V!SelectedSource, V!SelectedKey, OrElseKey
<1> QED BY <1>1, <1>2, SameInline, SameLookups, SameResolve DEF V!ManagerKey

\* The manager of the peer has the key.
LEMMA OwnKeyServes ==
    ASSUME Delivered, OwnKey
    PROVE  Serves(V!SelectedKey, V!SelectedSource)
<1> DEFINE ks == ctx.keys
           good(i) == i \in DOMAIN ks /\ Serves(ks[i], "manager")
           named == {j \in DOMAIN InfoKids : KeyByName(InfoKids[j], ks) # 0}
<1>1. /\ IsSeq(ks) /\ Len(ks) \in Nat /\ DOMAIN ks = 1 .. Len(ks)
      /\ (Sdoc.ki # 0 => Sdoc.ki \in Nodes(Sdoc))
  BY ChosenInputs, SeqDomain DEF Delivered, SignInv, KeysOK, TemplateOK, DocOK, Sdoc
<1>2. \/ /\ Sdoc.ki = 0 \/ ctx.trusted_keys_only
         /\ ks # <<>> /\ \A i \in DOMAIN ks : good(i)
      \/ Sdoc.ki = 0 /\ good(1)
      \/ /\ OwnInfo /\ ctx.trusted_keys_only
         /\ named # {} /\ good(KeyByName(InfoKids[FirstOf(named)], ks))
  BY DEF OwnKey
<1>3. Sdoc.ki = 0 \/ ctx.trusted_keys_only
  BY <1>2
<1>4. V!EmbeddedKey = NoKey
  BY <1>3, SignedFields, SameInline DEF V!EmbeddedKey, Delivered, SignInv
<1>5. /\ V!SelectedSource = "manager"
      /\ Sdoc.ki = 0 => V!SelectedKey = KeyAt(ks, first_key(ks))
      /\ Sdoc.ki # 0 => V!SelectedKey = KeyAt(ks, resolve_key_info(V!Kids, ks))
  BY <1>4, ManagerSelected
<1>6. ASSUME NEW i, good(i), V!SelectedKey = KeyAt(ks, i)
      PROVE  Serves(V!SelectedKey, V!SelectedSource)
  <2>1. i # 0
    BY <1>1, <1>6
  <2> QED BY <1>5, <1>6, <2>1 DEF KeyAt
<1>7. ks # <<>> => first_key(ks) = 1 /\ 1 \in DOMAIN ks
  BY <1>1 DEF first_key, IsSeq
<1>8. CASE ks # <<>> /\ \A i \in DOMAIN ks : good(i)
  <2>1. CASE Sdoc.ki = 0
    BY <1>5, <1>6, <1>7, <1>8, <2>1
  <2>2. CASE Sdoc.ki # 0
    <3>1. resolve_key_info(V!Kids, ks) \in DOMAIN ks
      BY <1>1, <1>8, <2>2, PeerKids, ResolveFinds
    <3> QED BY <1>5, <1>6, <1>8, <2>2, <3>1
  <2> QED BY <2>1, <2>2
<1>9. CASE Sdoc.ki = 0 /\ good(1)
  <2>1. ks # <<>>
    BY <1>1, <1>9
  <2> QED BY <1>5, <1>6, <1>7, <1>9, <2>1
<1>10. CASE OwnInfo /\ named # {} /\ good(KeyByName(InfoKids[FirstOf(named)], ks))
  <2> DEFINE kids == SignedKids(Sdoc.ki)
             N == {j \in DOMAIN kids : KeyByName(kids[j], ks) # 0}
  <2>1. Sdoc.ki # 0 /\ V!Kids = kids /\ Sdoc.ki \in Nodes(Sdoc)
    BY <1>1, <1>10, PeerKids DEF OwnInfo
  <2>2. DOMAIN kids = DOMAIN InfoKids /\ IsSeq(kids)
    BY <2>1, SignedKidsSeq DEF InfoKids, Delivered, SignInv
  <2>3. ASSUME NEW j \in DOMAIN InfoKids PROVE KeyByName(kids[j], ks) = KeyByName(InfoKids[j], ks)
    <3>1. kids[j].t = InfoKids[j].t
      BY <2>1, <2>3, SignedChild DEF InfoKids, Delivered
    <3>2. CASE Places(Sdoc.ki, j) = {}
      BY <2>1, <2>3, <3>2, SignedChild DEF InfoKids, Delivered
    <3>3. CASE Places(Sdoc.ki, j) # {}
      <4>1. PICK s \in Slots : WrittenAt(s, Sdoc.ki, j, kids[j])
        BY <2>1, <2>3, <3>3, SignedChild DEF InfoKids, Delivered
      <4>2. InfoKids[j].t = ChildTag(Kind(s))
        BY <4>1, ChosenInputs DEF Delivered, SignInv, TemplateOK, WrittenAt, InfoKids, Sdoc, Kind, Slots
      <4>3. InfoKids[j].t # "KeyName"
        BY <4>2 DEF ChildTag
      <4> QED BY <3>1, <4>3 DEF KeyByName
    <3> QED BY <3>2, <3>3
  <2>4. N = named
    BY <2>2, <2>3
  <2>5. FirstOf(named) \in named
    BY <1>10, <2>2, <2>4, FindIndex
  <2>6. FirstOf(named) # 0
    BY <2>2, <2>5, SeqDomain
  <2>7. resolve_key_info(kids, ks) = KeyByName(kids[FirstOf(named)], ks)
    BY <2>4, <2>6 DEF resolve_key_info
  <2>8. KeyByName(kids[FirstOf(named)], ks) = KeyByName(InfoKids[FirstOf(named)], ks)
    BY <2>3, <2>5
  <2> QED BY <1>5, <1>6, <1>10, <2>1, <2>7, <2>8
<1> QED BY <1>2, <1>8, <1>9, <1>10

\* The key of the first manager key, when sign() could sign with it.
LEMMA SignerKnown ==
    ASSUME SignInv, status = "Ok", ~signer.hsm.on
    PROVE  /\ SigningKey # NoKey /\ SigningKey.kind = Sdoc.method /\ HasSigningKey(SigningKey)
           /\ ~(Sdoc.method = "Pq" /\ Sdoc.pqctx = "bad") /\ SignerMat = SigningKey.mat
           /\ DOMAIN SigningKey = DOMAIN NoKey /\ IsSeq(SigningKey.chain)
<1>1. CanSign
  BY DEF SignInv, Checked, Reached
<1>2. KeysOK(signer.keys)
  BY ChosenInputs DEF SignInv
<1>3. first_key(signer.keys) # 0
  BY <1>1 DEF CanSign, SigningKey, KeyAt
<1>4. Len(signer.keys) \in Nat /\ DOMAIN signer.keys = 1 .. Len(signer.keys)
  BY <1>2, SeqDomain DEF KeysOK
<1>5. first_key(signer.keys) \in DOMAIN signer.keys
  BY <1>3, <1>4 DEF first_key
<1>6. DOMAIN SigningKey = DOMAIN NoKey /\ IsSeq(SigningKey.chain)
  BY <1>2, <1>3, <1>5 DEF SigningKey, KeyAt, KeysOK
<1> QED BY <1>1, <1>6 DEF CanSign, SignerMat

\* The public half of the signing key verifies what it signs.
LEMMA PublicKeyServes ==
    ASSUME SignInv, status = "Ok", ~signer.hsm.on, Sdoc.method # "unknown", NEW src
    PROVE  /\ PublicKey.key.chain = <<>>
           /\ SigningKey.kind # "none" => Serves(PublicKey.key, src)
<1> DEFINE k == PublicKey.key
<1>1. /\ SigningKey.kind = Sdoc.method /\ HasSigningKey(SigningKey) /\ SignerMat = SigningKey.mat
      /\ DOMAIN SigningKey = DOMAIN NoKey
  BY SignerKnown
<1>2. DOMAIN NoKey = {"name", "kind", "priv", "size", "mat", "chain"}
  BY DEF NoKey
<1>3. k = [SigningKey EXCEPT !.name = NoName, !.priv = FALSE, !.chain = <<>>]
  BY DEF PublicKey
<1> HIDE DEF k
<1>4. k.chain = <<>> /\ k.mat = SigningKey.mat /\ k.kind = SigningKey.kind
  BY <1>1, <1>2, <1>3
<1>5. SigningKey.kind # "none" => k # NoKey
  BY <1>4 DEF NoKey
<1>6. ~V!NeedsX509(ctx, k, src)
  BY <1>4 DEF V!NeedsX509
<1> QED BY <1>1, <1>4, <1>5, <1>6 DEF Serves, HasSigningKey, k

\* The key comes from the certificates sign() has written into this KeyInfo.
FromCertificate(k) == /\ k = X509Key /\ SigningKey.chain # <<>>
                      /\ X509Slot # 0 /\ Announces(X509Slot)

\* Every key in the KeyInfo of a template without keys is the signer's.
LEMMA InlineKeys ==
    ASSUME SignInv, WellFormed, BlankInfo, NEW j \in DOMAIN InfoKids, Sdoc.ki \in Nodes(Sdoc)
    PROVE  LET ch == SignedKids(Sdoc.ki)[j]
           IN  /\ InlineKey(ch) # NoKey =>
                     \/ FromCertificate(InlineKey(ch))
                     \/ /\ InlineKey(ch) = PublicKey.key
                        /\ SigningKey.kind \in KeyValueKinds \union SpkiKinds
<1> DEFINE ch == SignedKids(Sdoc.ki)[j]
<1> SUFFICES ASSUME InlineKey(ch) # NoKey
             PROVE  \/ FromCertificate(InlineKey(ch))
                    \/ /\ InlineKey(ch) = PublicKey.key
                       /\ SigningKey.kind \in KeyValueKinds \union SpkiKinds
  OBVIOUS
<1>1. Places(Sdoc.ki, j) # {}
  BY SignedChild DEF BlankInfo, InfoKids
<1>2. PICK s \in Slots : WrittenAt(s, Sdoc.ki, j, ch)
  BY <1>1, SignedChild DEF InfoKids
<1>3. MayWrite(s, ch) /\ ch.t = InfoKids[j].t /\ tpl.slots[s].node = Sdoc.ki
  BY <1>2, SignedChild DEF WrittenAt, InfoKids
<1>7. s # 0
  BY ChosenJob, SeqDomain DEF SignInv, TplOK, Slots
<1> HIDE DEF ch
<1>4. CASE Kind(s) \in X509Names
  <2>1. /\ s = X509Slot /\ Writes509(s) /\ ch = X509Content(X509Slot)
        /\ SigningKey.chain # <<>>
    BY <1>3, <1>4 DEF MayWrite, X509Names
  <2>2. ch.t = "X509Data" /\ ch.certs = X509Content(X509Slot).certs
    BY <2>1 DEF X509Content
  <2>3. InlineKey(ch) = X509Key
    BY <2>1, <2>2 DEF InlineKey, X509Key
  <2> QED BY <1>3, <1>7, <2>1, <2>3 DEF FromCertificate, Announces
<1>5. CASE Kind(s) \in {"KeyValue", "DEREncodedKeyValue"}
  <2>1. ch = PublicKey /\ SigningKey.kind \in KeyValueKinds \union SpkiKinds
    BY <1>3, <1>5 DEF MayWrite, X509Names
  <2> QED BY <2>1 DEF InlineKey, PublicKey
<1>6. CASE Kind(s) = "CipherValue"
  <2>1. InfoKids[j].t = ChildTag(Kind(s))
    BY <1>2, ChosenInputs DEF SignInv, TemplateOK, WrittenAt, InfoKids, Sdoc, Kind, Slots
  <2>2. ch.t = "EncryptedKey"
    BY <1>3, <1>6, <2>1 DEF ChildTag, X509Names
  <2> QED BY <2>2 DEF InlineKey
<1> QED BY <1>3, <1>4, <1>5, <1>6 DEF MayWrite, X509Names

\* The certificates sign() writes are a sequence.
LEMMA X509CertsSeq ==
    ASSUME SignInv, status = "Ok", ~signer.hsm.on, X509Slot # 0
    PROVE  IsSeq(X509Content(X509Slot).certs)
<1>1. IsSeq(SigningKey.chain)
  BY SignerKnown
<1>2. X509Slot \in Slots /\ Kind(X509Slot) \in X509Names /\ TemplateOK(tpl)
  BY ChosenJob, ChosenInputs, FirstPlace DEF SignInv, X509Slot
<1>3. CASE Kind(X509Slot) = "X509Data"
  BY <1>1, <1>3 DEF X509Content
<1>4. CASE Kind(X509Slot) = "X509Template"
  <2> DEFINE q == tpl.slots[X509Slot].parts.certs
             v == SigningKey.chain[1]
             g == FirstForEmpty(q, v)
  <2>1. X509Content(X509Slot).certs = g
    BY <1>4 DEF X509Content
  <2>2. IsSeq(q)
    BY <1>2, <1>4 DEF TemplateOK, Kind, Slots
  <2> HIDE DEF q, v
  <2>3. PICK m \in Nat : DOMAIN q = 1 .. m
    BY <2>2, SeqDomain
  <2>4. DOMAIN g = 1 .. m /\ g = [i \in 1 .. m |-> g[i]]
    BY <2>3 DEF FirstForEmpty
  <2> HIDE DEF g
  <2>5. IsSeq(g)
    BY <2>4 DEF IsSeq
  <2> QED BY <2>1, <2>5
<1> QED BY <1>2, <1>3, <1>4 DEF X509Names

\* A place the signer announces its key in yields a key.
LEMMA AnnouncedKey ==
    ASSUME SignInv, WellFormed, status = "Ok", ~signer.hsm.on, Sdoc.ki \in Nodes(Sdoc),
           NEW s \in Slots, Announces(s)
    PROVE  \E j \in DOMAIN InfoKids : InlineKey(SignedKids(Sdoc.ki)[j]) # NoKey
<1> DEFINE j == tpl.slots[s].kid
           ch == SignedKids(Sdoc.ki)[j]
<1>1. TemplateOK(tpl)
  BY ChosenInputs DEF SignInv
<1>3. s # 0
  BY <1>1, SeqDomain DEF TemplateOK, Slots
<1>2. /\ tpl.slots[s].node = Sdoc.ki
      /\ \/ s = X509Slot /\ Writes509(s) /\ X509Key # NoKey /\ Kind(s) \in X509Names
         \/ /\ Kind(s) = "KeyValue" /\ s = FirstOfKind({"KeyValue"})
            /\ SigningKey.kind \in KeyValueKinds /\ tpl.text[s] = Empty
         \/ /\ Kind(s) = "DEREncodedKeyValue" /\ s = FirstOfKind({"DEREncodedKeyValue"})
            /\ SigningKey.kind \in SpkiKinds /\ tpl.text[s] = Empty
  BY DEF Announces, Writes509, X509Names
<1>4. X509Key # NoKey => SigningKey.chain # <<>>
  BY DEF X509Key
<1>5. content[s] # Empty /\ content[s] = <<"kid", content[s][2]>>
  <2>1. CASE Kind(s) \in X509Names
    <3>1. content[s] = <<"kid", X509Content(X509Slot)>>
      BY <1>2, <1>3, <1>4, <2>1 DEF SignInv, Populated, Reached, X509Written, X509Names
    <3> QED BY <3>1, KidsDiffer
  <2>2. CASE Kind(s) \in {"KeyValue", "DEREncodedKeyValue"}
    <3>1. content[s] # Empty /\ tpl.text[s] = Empty
      BY <1>2, <1>3, <2>2 DEF SignInv, Populated, Reached, FirstFilled, X509Names
    <3>2. Fillable(s)
      BY <2>2 DEF Fillable
    <3> QED BY <3>1, <3>2 DEF SignInv, OnlyWritten
  <2> QED BY <1>2, <2>1, <2>2
<1>8. content[s] # Text
  BY <1>5, KidsDiffer
<1>9. j \in DOMAIN InfoKids /\ InfoKids[j].t = ChildTag(Kind(s))
  <2>1. Kind(s) \in KeyInfoNames
    BY <1>2 DEF KeyInfoNames
  <2> QED BY <1>1, <1>2, <2>1 DEF TemplateOK, InfoKids, Sdoc, Kind, Slots
<1>10. Places(Sdoc.ki, j) # {}
  BY <1>2, <1>5, <1>8 DEF Places
<1>11. PICK t \in Slots : WrittenAt(t, Sdoc.ki, j, ch)
  BY <1>9, <1>10, SignedChild DEF InfoKids
<1>12. /\ MayWrite(t, ch) /\ tpl.slots[t].node = Sdoc.ki /\ tpl.slots[t].kid = j
       /\ Kind(t) \in KeyInfoNames
  BY <1>11 DEF WrittenAt
<1>13. ChildTag(Kind(t)) = ChildTag(Kind(s))
  BY <1>1, <1>9, <1>12 DEF TemplateOK, InfoKids, Sdoc, Kind, Slots
<1> HIDE DEF j, ch
<1>14. CASE Kind(s) \in X509Names
  <2>1. Kind(t) \in X509Names
    BY <1>12, <1>13, <1>14 DEF ChildTag, KeyInfoNames, X509Names
  <2>2. ch = X509Content(X509Slot)
    BY <1>12, <2>1 DEF MayWrite, X509Names
  <2>3. ch.t = "X509Data" /\ ch.certs = X509Content(X509Slot).certs
    BY <2>2 DEF X509Content
  <2>4. X509Key # NoKey
    BY <1>2, <1>14 DEF X509Names
  <2>5. InlineKey(ch) = X509Key
    BY <1>4, <2>3, <2>4 DEF InlineKey, X509Key
  <2> QED BY <1>9, <2>4, <2>5 DEF ch
<1>15. CASE Kind(s) \in {"KeyValue", "DEREncodedKeyValue"}
  <2>1. Kind(t) \in {"KeyValue", "DEREncodedKeyValue"}
    BY <1>12, <1>13, <1>15 DEF ChildTag, KeyInfoNames
  <2>2. ch = PublicKey
    BY <1>12, <2>1 DEF MayWrite, X509Names
  <2>3. InlineKey(ch) = PublicKey.key
    BY <2>2 DEF InlineKey, PublicKey
  <2>4. SigningKey.kind \in KeyValueKinds \union SpkiKinds
    BY <1>2, <1>15 DEF X509Names
  <2>5. SigningKey.kind # "none"
    BY <2>4 DEF KeyValueKinds, SpkiKinds
  <2>6. DOMAIN SigningKey = {"name", "kind", "priv", "size", "mat", "chain"}
    BY SignerKnown DEF NoKey
  <2>7. PublicKey.key.kind = SigningKey.kind
    BY <2>6 DEF PublicKey
  <2>8. PublicKey.key # NoKey
    BY <2>5, <2>7 DEF NoKey
  <2> QED BY <1>9, <2>3, <2>8 DEF ch
<1> QED BY <1>2, <1>14, <1>15

\* extract_key_value returns the key of a child, if one has a key.
LEMMA ExtractsKey ==
    ASSUME NEW kids, IsSeq(kids)
    PROVE  /\ (\A j \in DOMAIN kids : InlineKey(kids[j]) = NoKey) => extract_key_value(kids) = NoKey
           /\ (\E j \in DOMAIN kids : InlineKey(kids[j]) # NoKey) =>
                 \E j \in DOMAIN kids : /\ extract_key_value(kids) = InlineKey(kids[j])
                                        /\ InlineKey(kids[j]) # NoKey
<1> DEFINE S == {j \in DOMAIN kids : InlineKey(kids[j]) # NoKey}
<1>1. FirstOf(S) \in {0} \union S /\ (FirstOf(S) = 0 <=> S = {})
  BY FindIndex
<1>2. extract_key_value(kids) = IF FirstOf(S) = 0 THEN NoKey ELSE InlineKey(kids[FirstOf(S)])
  BY DEF extract_key_value
<1>3. ASSUME \A j \in DOMAIN kids : InlineKey(kids[j]) = NoKey PROVE extract_key_value(kids) = NoKey
  BY <1>1, <1>2, <1>3
<1>4. ASSUME \E j \in DOMAIN kids : InlineKey(kids[j]) # NoKey
      PROVE  \E j \in DOMAIN kids : /\ extract_key_value(kids) = InlineKey(kids[j])
                                    /\ InlineKey(kids[j]) # NoKey
  <2>1. FirstOf(S) \in S /\ FirstOf(S) # 0
    BY <1>1, <1>4
  <2> QED BY <1>2, <2>1
<1> QED BY <1>3, <1>4

\* What the peer extracts from its KeyInfo.
LEMMA PeerExtracts ==
    ASSUME Delivered, OwnInfo, ~ctx.trusted_keys_only
    PROVE  LET kids == SignedKids(Sdoc.ki)
               k == OrElseKey(extract_key_value(kids), try_unwrap_encrypted_key(kids, ctx.keys))
           IN  k # NoKey => /\ V!SelectedKey = k
                            /\ V!SelectedSource = IF Len(k.chain) > 0 THEN "x509" ELSE "inline"
<1> DEFINE kids == SignedKids(Sdoc.ki)
           e == extract_key_value(kids)
           t == try_unwrap_encrypted_key(kids, ctx.keys)
           k == OrElseKey(e, t)
<1> SUFFICES ASSUME k # NoKey
             PROVE  /\ V!SelectedKey = k
                    /\ V!SelectedSource = IF Len(k.chain) > 0 THEN "x509" ELSE "inline"
  OBVIOUS
<1>1. doc.ki = Sdoc.ki /\ Sdoc.ki # 0 /\ V!Kids = kids
  BY SignedFields, PeerKids DEF Delivered, SignInv, OwnInfo
<1>2. \E l : V!EmbeddedKey = OrElseKey(e, OrElseKey(t, l))
  BY <1>1, SameInline, SameUnwrap DEF V!EmbeddedKey, V!ExtractedKey
<1> HIDE DEF e, t
<1>3. V!EmbeddedKey = k
  BY <1>2 DEF OrElseKey
<1> HIDE DEF k
<1>4. V!SelectedKey = k
  BY <1>3, SameInline DEF V!SelectedKey, OrElseKey
<1>5. V!SelectedSource = IF Len(k.chain) > 0 THEN "x509" ELSE "inline"
  BY <1>3, SameInline DEF V!SelectedSource
<1> QED BY <1>4, <1>5

\* The peer finds the signer's key in the KeyInfo sign() has populated.
LEMMA InlineKeyServes ==
    ASSUME Delivered, InlineKeyGiven
    PROVE  Serves(V!SelectedKey, V!SelectedSource)
<1>1. /\ ~ctx.trusted_keys_only /\ ~signer.hsm.on /\ BlankInfo /\ OwnInfo /\ Sdoc.ki # 0
      /\ Sdoc.method # "unknown" /\ SignInv /\ status = "Ok" /\ WellFormed
      /\ X509Slot # 0 /\ Announces(X509Slot) => Serves(X509Key, "x509")
  BY DEF InlineKeyGiven, BlankInfo, OwnInfo, Delivered
<1>2. Sdoc.ki \in Nodes(Sdoc)
  BY <1>1, ChosenInputs DEF SignInv, TemplateOK, DocOK, Sdoc
<1> DEFINE kids == SignedKids(Sdoc.ki)
           k == extract_key_value(kids)
<1>3. IsSeq(kids) /\ DOMAIN kids = DOMAIN InfoKids
  BY <1>1, <1>2, SignedKidsSeq DEF SignInv, InfoKids
<1>4. \E j \in DOMAIN kids : InlineKey(kids[j]) # NoKey
  BY <1>1, <1>2, <1>3, AnnouncedKey DEF InlineKeyGiven
<1>5. PICK j \in DOMAIN kids : k = InlineKey(kids[j]) /\ InlineKey(kids[j]) # NoKey
  BY <1>3, <1>4, ExtractsKey
<1>6. \/ FromCertificate(k)
      \/ k = PublicKey.key /\ SigningKey.kind \in KeyValueKinds \union SpkiKinds
  BY <1>1, <1>2, <1>3, <1>5, InlineKeys
<1>7. k # NoKey
  BY <1>5
<1>8. OrElseKey(k, try_unwrap_encrypted_key(kids, ctx.keys)) = k
  BY <1>7 DEF OrElseKey
<1>9. V!SelectedKey = k /\ V!SelectedSource = IF Len(k.chain) > 0 THEN "x509" ELSE "inline"
  BY <1>1, <1>7, <1>8, PeerExtracts
<1> HIDE DEF k, kids
<1>10. CASE FromCertificate(k)
  <2> DEFINE cs == X509Content(X509Slot).certs
  <2>1. k = extract_x509_certificate(cs)
    BY <1>10 DEF FromCertificate, X509Key
  <2>2. IsSeq(cs)
    BY <1>1, <1>10, X509CertsSeq DEF FromCertificate
  <2> HIDE DEF cs
  <2>3. cs # <<>> /\ k = CertKey(cs[find_leaf_cert(cs)], cs)
    BY <1>7, <2>1 DEF extract_x509_certificate
  <2>4. k.chain = cs
    BY <1>7, <2>3 DEF CertKey, NoKey
  <2>5. Len(k.chain) > 0
    BY <2>2, <2>3, <2>4, SeqDomain DEF IsSeq
  <2> QED BY <1>1, <1>9, <1>10, <2>5 DEF FromCertificate
<1>11. CASE k = PublicKey.key /\ SigningKey.kind \in KeyValueKinds \union SpkiKinds
  <2>1. SigningKey.kind # "none"
    BY <1>11 DEF KeyValueKinds, SpkiKinds
  <2>2. Serves(k, V!SelectedSource)
    BY <1>1, <1>11, <2>1, PublicKeyServes
  <2> QED BY <1>9, <2>2
<1> QED BY <1>6, <1>10, <1>11

\* The peer unwraps the MAC key.
LEMMA SessionKeyServes ==
    ASSUME Delivered, SessionKeyGiven
    PROVE  Serves(V!SelectedKey, V!SelectedSource)
<1> DEFINE kids == SignedKids(Sdoc.ki)
           E == {j \in DOMAIN InfoKids : InfoKids[j].t = "EncryptedKey"}
           i == FirstOf(E)
           ek == InfoKids[i]
           kek == UnwrapKek(ek, ctx.keys)
<1>1. /\ ~ctx.trusted_keys_only /\ ~signer.hsm.on /\ BlankInfo /\ OwnInfo /\ Sdoc.ki # 0
      /\ Sdoc.method = "Hmac" /\ SigningKey.chain = <<>> /\ SignInv /\ WellFormed /\ status = "Ok"
  BY DEF SessionKeyGiven, BlankInfo, OwnInfo, Delivered
<1>2. /\ i # 0 /\ ek.method # "missing" /\ HasSymmetricBytes(WrapKey(ek))
      /\ \E s \in Slots : /\ Kind(s) = "CipherValue" /\ tpl.text[s] = Empty
                          /\ tpl.slots[s].node = Sdoc.ki /\ tpl.slots[s].kid = i
      /\ kek # 0 /\ ctx.keys[kek].mat = WrapKey(ek).mat
  BY DEF SessionKeyGiven
<1>3. Sdoc.ki \in Nodes(Sdoc) /\ TemplateOK(tpl)
  BY <1>1, ChosenInputs DEF SignInv, TemplateOK, DocOK, Sdoc
<1>4. IsSeq(kids) /\ DOMAIN kids = DOMAIN InfoKids /\ IsSeq(InfoKids)
  BY <1>1, <1>3, SignedKidsSeq DEF SignInv, InfoKids, TemplateOK, DocOK, KidsOK, Sdoc
<1>5. /\ SigningKey.kind = "Hmac" /\ SignerMat = SigningKey.mat
      /\ SigningKey.kind \notin KeyValueKinds \union SpkiKinds
  BY <1>1, SignerKnown DEF KeyValueKinds, SpkiKinds
<1>6. extract_key_value(kids) = NoKey
  <2>1. \A j \in DOMAIN kids : InlineKey(kids[j]) = NoKey
    BY <1>1, <1>3, <1>4, <1>5, InlineKeys DEF FromCertificate
  <2> QED BY <1>4, <2>1, ExtractsKey
<1>7. i \in E
  BY <1>2, <1>4, FindIndex
<1>8. {j \in DOMAIN kids : kids[j].t = "EncryptedKey"} = E
  <2>1. \A j \in DOMAIN InfoKids : kids[j].t = InfoKids[j].t
    BY <1>1, <1>3, SignedChild DEF InfoKids
  <2> QED BY <1>4, <2>1
<1>9. kids[i] = Wrapped(ek)
  <2>1. PICK s \in Slots : /\ Kind(s) = "CipherValue" /\ tpl.text[s] = Empty
                           /\ tpl.slots[s].node = Sdoc.ki /\ tpl.slots[s].kid = i
    BY <1>2
  <2> HIDE DEF i
  <2>2. EncryptedKeyOf(s) = ek
    BY <2>1 DEF EncryptedKeyOf, InfoKids
  <2>3. HasSymmetricBytes(SigningKey)
    BY <1>5 DEF HasSymmetricBytes, SymmetricKinds
  <2>4. ToWrap = {}
    BY <1>1, <2>3 DEF SignInv, Populated, Reached
  <2>5. content[s] # Empty
    BY <1>2, <2>1, <2>2, <2>4 DEF ToWrap
  <2>6. content[s] = <<"kid", content[s][2]>>
    BY <1>1, <2>1, <2>5 DEF SignInv, OnlyWritten, Fillable
  <2>7. s \in Places(Sdoc.ki, i)
    BY <2>1, <2>5, <2>6 DEF Places, Text
  <2>8. PICK t \in Slots : WrittenAt(t, Sdoc.ki, i, kids[i])
    BY <1>1, <1>3, <1>7, <2>7, SignedChild DEF InfoKids
  <2>9. ek.t = ChildTag(Kind(t)) /\ MayWrite(t, kids[i]) /\ EncryptedKeyOf(t) = ek
    BY <1>3, <2>8 DEF TemplateOK, WrittenAt, InfoKids, Sdoc, Kind, Slots, EncryptedKeyOf
  <2>10. Kind(t) = "CipherValue"
    BY <1>7, <2>8, <2>9 DEF ChildTag, WrittenAt, KeyInfoNames
  <2> QED BY <2>9, <2>10 DEF MayWrite, X509Names
<1>10. DOMAIN ek = {"t", "method", "size", "names", "wrapped", "mat"}
  BY <1>3, <1>7 DEF TemplateOK, InfoKids, Sdoc
<1> DEFINE w == Wrapped(ek)
<1> HIDE DEF i
<1>11. /\ w.method = ek.method /\ w.size = ek.size /\ w.names = ek.names
       /\ w.wrapped = WrapKey(ek).mat /\ w.mat = SigningKey.mat
  BY <1>10 DEF Wrapped
<1> HIDE DEF w, ek
<1>12. UnwrapKek(w, ctx.keys) = kek
  BY <1>11 DEF UnwrapKek
<1> DEFINE k == try_unwrap_encrypted_key(kids, ctx.keys)
<1>13. k = [NoKey EXCEPT !.kind = "Hmac", !.priv = TRUE, !.mat = w.mat]
  <2>1. FirstOf({j \in DOMAIN kids : kids[j].t = "EncryptedKey"}) = i /\ kids[i] = w
    BY <1>8, <1>9 DEF i, w
  <2> QED BY <1>2, <1>11, <1>12, <2>1 DEF try_unwrap_encrypted_key
<1>14. k.kind = "Hmac" /\ k.mat = SigningKey.mat /\ k.chain = <<>>
  BY <1>11, <1>13 DEF NoKey
<1> HIDE DEF k, kids
<1>15. k # NoKey
  BY <1>14 DEF NoKey
<1>16. OrElseKey(extract_key_value(kids), k) = k
  BY <1>6 DEF OrElseKey
<1>17. V!SelectedKey = k
  BY <1>1, <1>15, <1>16, PeerExtracts DEF k, kids
<1>18. ~V!NeedsX509(ctx, k, V!SelectedSource)
  BY <1>14 DEF V!NeedsX509
<1> QED BY <1>1, <1>5, <1>14, <1>15, <1>17, <1>18 DEF Serves, HasSigningKey, NonSigningKinds

-----------------------------------------------------------------------------
(* The signed document passes every stage of verify().                     *)

\* The length verify() reads for an HMAC method.
ReadLength == IF V!ReadsLength THEN doc.bits ELSE NoLength

\* A document every stage of verify() lets pass.
Verifiable ==
    /\ V!StructureOK(doc)
    /\ V!ReadsLength => doc.hmaclen = "bits" /\ V!LengthOK(doc.bits, ctx.hmac_min)
    /\ ~(doc.method = "Pq" /\ doc.pqctx = "bad")
    /\ IsSeq(doc.refs)
    /\ \A i \in DOMAIN doc.refs :
          /\ V!verify_reference(doc, doc.refs[i]) \in {"skipped", "verified"}
          /\ ctx.strict /\ V!VerifiedRef(doc, doc.refs[i]).node # V!NoNode
               => V!PositionOK(doc, V!VerifiedRef(doc, doc.refs[i]).node)
    /\ doc.sv.form = "ok" /\ ~V!WrongLength(doc, ReadLength)
    /\ V!Accepts(doc, SignerMat, ReadLength)
    /\ doc.method = Sdoc.method
    /\ ~ctx.hsm.on /\ Serves(V!SelectedKey, V!SelectedSource)

\* An ID a digested Reference has found leads to the same element of the signed document.
LEMMA IdStays ==
    ASSUME NEW i \in Digested, NEW d, SignInv, WellFormed, Sdoc.refs[i].uri = "id",
           IdMap(Sdoc, Sdoc.refs[i].id) # 0, d.parent = Sdoc.parent, d.ids = IdsNow(content)
    PROVE  IdMap(d, Sdoc.refs[i].id) = IdMap(Sdoc, Sdoc.refs[i].id)
<1> DEFINE v == Sdoc.refs[i].id
           new == Carriers(d, v)
           old == Carriers(Sdoc, v)
           n == FirstOf(old)
<1>0. TemplateOK(tpl)
  BY ChosenInputs DEF SignInv
<1>1. new = Carriers(DocNow(content), v)
  BY <1>0, IdsShrink DEF Carriers, Nodes
<1>2. new \subseteq old /\ old \in SUBSET (DOMAIN Sdoc.parent) /\ IsSeq(Sdoc.parent)
  BY <1>0, <1>1, CarriersShrink
<1>3. IdMap(d, v) = FirstOf(new) /\ IdMap(Sdoc, v) = n
  BY Zenon DEF IdMap, Carriers
<1>4. \A s \in Changed(content) : n \notin NewTags(s)
  BY <1>3, TagsHarmless
<1>5. n \in old
  BY <1>2, <1>3, FindIndex
<1>6. IdsNow(content)[n] = Sdoc.ids[n]
  <2> DEFINE gone == UNION {NewTags(s) : s \in Changed(content)}
  <2>1. n \notin gone /\ n \in Nodes(Sdoc)
    BY <1>4, <1>5 DEF Carriers
  <2>2. IdsNow(content) = [m \in Nodes(Sdoc) |-> IF m \in gone THEN <<>> ELSE Sdoc.ids[m]]
    BY DEF IdsNow
  <2> HIDE DEF gone, n
  <2> QED BY <2>1, <2>2
<1>7. n \in new
  BY <1>5, <1>6 DEF Carriers, Nodes
<1>8. old \in SUBSET Nat /\ new \in SUBSET Nat
  BY <1>2, SeqDomain
<1> HIDE DEF new, old
<1>9. /\ FirstOf(new) \in new /\ \A m \in new : FirstOf(new) <= m
      /\ \A m \in old : n <= m
  BY <1>5, <1>7, <1>8, FirstOfLeast
<1>10. FirstOf(new) <= n /\ n <= FirstOf(new) /\ n \in Nat /\ FirstOf(new) \in Nat
  BY <1>2, <1>5, <1>7, <1>8, <1>9
<1> HIDE DEF n, v
<1>11. FirstOf(new) = n
  BY <1>10
<1> QED BY <1>3, <1>11 DEF v

\* The References of the signed document are those of the template, with their digests.
LEMMA SignedReferences ==
    ASSUME Delivered, WellFormed, PositionsAgree
    PROVE  /\ IsSeq(doc.refs)
           /\ \A i \in DOMAIN doc.refs :
                 /\ V!verify_reference(doc, doc.refs[i]) \in {"skipped", "verified"}
                 /\ ctx.strict /\ V!VerifiedRef(doc, doc.refs[i]).node # V!NoNode
                      => V!PositionOK(doc, V!VerifiedRef(doc, doc.refs[i]).node)
<1>1. SignInv /\ STypeOK /\ TplOK /\ TemplateOK(tpl) /\ status = "Ok"
  BY ChosenJob, ChosenInputs DEF Delivered, SignInv
<1>2. /\ doc.refs = [i \in DOMAIN Sdoc.refs |-> SignedRef(i)]
      /\ doc.parent = Sdoc.parent /\ doc.ids = IdsNow(content) /\ doc.sigs = Sdoc.sigs
  BY <1>1, SignedFields DEF Delivered
<1>3. PICK m \in Nat : DOMAIN Sdoc.refs = 1 .. m /\ Len(Sdoc.refs) = m
  BY <1>1, SeqDomain DEF TplOK
<1>4. IsSeq(doc.refs)
  BY <1>2, <1>3 DEF IsSeq
<1>6. \A n : PositionOK(doc, n) = PositionOK(Sdoc, n)
  BY <1>2 DEF PositionOK, SignatureNode, AncestorsOrSelf, Nodes
<1>7. \A i \in Digested : /\ ~RefCannotDigest(Sdoc, Sdoc.refs[i])
                          /\ content[DigestSlot(i)] = Digest(Sdoc.refs[i], content)
  <2>1. ref > m /\ ref \in Nat /\ DigestsHold
    BY <1>1, <1>3 DEF SignInv, Consistent, LoopEnded, STypeOK
  <2>2. \A i \in Digested : i < ref
    BY <1>3, <2>1 DEF Digested
  <2> QED BY <1>1, <2>1, <2>2 DEF DigestsHold, SignInv, Checked
<1>5. ASSUME NEW i \in Digested, Sdoc.refs[i].uri = "id"
      PROVE  IdMap(doc, Sdoc.refs[i].id) = IdMap(Sdoc, Sdoc.refs[i].id)
  <2>1. IdMap(Sdoc, Sdoc.refs[i].id) # 0
    BY <1>5, <1>7 DEF RefCannotDigest, Resolves
  <2> QED BY <1>1, <1>2, <1>5, <2>1, IdStays
<1>8. ASSUME NEW i \in DOMAIN doc.refs
      PROVE  /\ verify_reference(doc, doc.refs[i]) \in {"skipped", "verified"}
             /\ ctx.strict /\ VerifiedRef(doc, doc.refs[i]).node # NoNode
                  => PositionOK(doc, VerifiedRef(doc, doc.refs[i]).node)
  <2> DEFINE q == Sdoc.refs[i]
             r == doc.refs[i]
             s == DigestSlot(i)
  <2>1. i \in DOMAIN Sdoc.refs /\ r = SignedRef(i)
    BY <1>2
  <2>2. DOMAIN q = {"uri", "id", "ext", "method", "value", "transforms", "enveloped",
                    "expected", "actual"}
    BY <1>1, <2>1 DEF TemplateOK, Sdoc
  <2>3. /\ r.uri = q.uri /\ r.id = q.id /\ r.ext = q.ext /\ r.method = q.method
        /\ r.transforms = q.transforms
    BY <2>1, <2>2 DEF SignedRef
  <2>4. CASE q.uri = "cid"
    BY <2>3, <2>4 DEF verify_reference, VerifiedRef
  <2>5. CASE q.uri # "cid"
    <3>1. /\ i \in Digested /\ s # 0 /\ content[s] = Digest(q, content) /\ ~RefCannotDigest(Sdoc, q)
          /\ ~Nameless(content, s)
      BY <1>1, <1>7, <2>1, <2>5, TagsHarmless DEF Digested, WellFormed
    <3>0. q.uri = "id" => IdMap(doc, q.id) = IdMap(Sdoc, q.id)
      BY <1>5, <3>1
    <3>2. content[s] # Empty /\ content[s] # Text
      BY <3>1 DEF Digest, Empty, Text
    <3> HIDE DEF s, q
    <3>3. r = [q EXCEPT !.value = "ok", !.expected = content[s], !.actual = Digest(q, content)]
      <4> DEFINE lost == s = 0 \/ Nameless(content, s)
      <4>1. r = [q EXCEPT !.value = CASE lost -> "missing"
                                      [] ~lost /\ content[s] \in {Empty, Text} -> q.value
                                      [] OTHER -> "ok",
                          !.expected = IF s = 0 THEN Empty ELSE content[s],
                          !.actual = Digest(q, content)]
        BY <2>1, Zenon DEF SignedRef, s, q
      <4>2. (CASE lost -> "missing"
               [] ~lost /\ content[s] \in {Empty, Text} -> q.value
               [] OTHER -> "ok") = "ok"
        BY <3>1, <3>2
      <4> QED BY <3>1, <4>1, <4>2
    <3>4. r.value = "ok" /\ r.expected = r.actual
      BY <2>2, <3>1, <3>3
    <3>5. Resolves(doc, r) /\ r.transforms /\ r.method = "ok"
      BY <2>3, <3>0, <3>1 DEF RefCannotDigest, Resolves
    <3>6. verify_reference(doc, r) = "verified"
      BY <2>3, <2>5, <3>4, <3>5 DEF verify_reference, RefErrs
    <3>7. VerifiedRef(doc, r).node = IF q.uri = "id" THEN IdMap(Sdoc, q.id) ELSE NoNode
      BY <2>3, <2>5, <3>0 DEF VerifiedRef, ResolvedNode
    <3>8. ctx.strict /\ q.uri = "id" => PositionOK(Sdoc, IdMap(Sdoc, q.id))
      BY <2>1 DEF PositionsAgree, q
    <3> QED BY <1>6, <3>6, <3>7, <3>8
  <2> QED BY <2>4, <2>5
<1>9. V!NoNode = NoNode
  BY DEF V!NoNode, NoNode
<1> QED BY <1>4, <1>8, <1>9, SameDocument

\* The value sign() made is of the length verify() expects.
LEMMA SignedLength ==
    ASSUME STypeOK, LengthAgrees
    PROVE  /\ Sdoc.method = "Hmac" /\ Sdoc.hmaclen # "absent" => SignerLen = Sdoc.bits \div 8
           /\ Sdoc.method = "Hmac" /\ Sdoc.hmaclen = "absent" => SignerLen = Sdoc.fullmac
<1>1. Sdoc.bits \in Nat /\ Sdoc.fullmac \in Nat
  BY ChosenInputs DEF TemplateOK, DocOK, Sdoc
<1>2. Sdoc.bits \div 8 \in Nat
  BY <1>1
<1>3. ASSUME Sdoc.method = "Hmac", Sdoc.hmaclen # "absent" PROVE SignerLen = Sdoc.bits \div 8
  <2>1. /\ Sdoc.hmaclen = "bits" /\ Sdoc.bits % 8 = 0 /\ Sdoc.bits \div 8 <= Sdoc.fullmac
        /\ signer.hsm.on => Sdoc.bits \div 8 = Sdoc.fullmac
    BY <1>3 DEF LengthAgrees, LengthOK
  <2> QED BY <1>1, <1>2, <1>3, <2>1 DEF SignerLen, ValueLength
<1>4. ASSUME Sdoc.method = "Hmac", Sdoc.hmaclen = "absent" PROVE SignerLen = Sdoc.fullmac
  BY <1>4 DEF SignerLen, ValueLength
<1> QED BY <1>3, <1>4

\* Together: the signed document passes every stage.
LEMMA SignedVerifiable ==
    ASSUME Delivered, Agreed
    PROVE  Verifiable
<1>1. SignInv /\ STypeOK /\ status = "Ok"
  BY DEF Delivered, SignInv
<1>2. /\ WellFormed /\ LengthAgrees /\ PositionsAgree /\ ContextAgrees /\ ~ctx.hsm.on
      /\ OwnKey \/ InlineKeyGiven \/ SessionKeyGiven
  BY DEF Agreed, PeerEquipped
<1>3. LET d == doc
      IN  /\ Sdoc.parses => d.parses
          /\ d.parent = Sdoc.parent /\ d.ids = IdsNow(content)
          /\ d.sigs = Sdoc.sigs /\ d.signedinfo = Sdoc.signedinfo /\ d.c14n = Sdoc.c14n
          /\ d.method = Sdoc.method /\ d.hmaclen = Sdoc.hmaclen /\ d.bits = Sdoc.bits
          /\ d.fullmac = Sdoc.fullmac /\ d.pqctx = Sdoc.pqctx
          /\ d.sv = SignedValue
  <2>1. LET d == SignedDocument
        IN  /\ d.parses = Parses(content) /\ d.parent = Sdoc.parent /\ d.ids = IdsNow(content)
            /\ d.sigs = Sdoc.sigs /\ d.signedinfo = Sdoc.signedinfo /\ d.c14n = Sdoc.c14n
            /\ d.method = Sdoc.method /\ d.hmaclen = Sdoc.hmaclen /\ d.bits = Sdoc.bits
            /\ d.fullmac = Sdoc.fullmac /\ d.pqctx = Sdoc.pqctx
            /\ d.sv = SignedValue
    BY <1>1, SignedFields
  <2>2. Sdoc.parses => Parses(content)
    BY <1>1, <1>2, TagsHarmless
  <2> QED BY <2>1, <2>2 DEF Delivered
<1>4. V!StructureOK(doc)
  <2>1. StructureOK(Sdoc)
    BY <1>1 DEF SignInv, Checked, Reached
  <2>2. DuplicateId(doc) => DuplicateId(Sdoc)
    <3>1. \A n \in Nodes(Sdoc) : doc.ids[n] \in {<<>>, Sdoc.ids[n]}
      BY <1>1, <1>3, ChosenInputs, IdsShrink
    <3>2. Nodes(doc) = Nodes(Sdoc) /\ DOMAIN <<>> = {}
      BY <1>3 DEF Nodes
    <3>3. IdValues(doc) \subseteq IdValues(Sdoc)
      BY <3>1, <3>2 DEF IdValues
    <3>4. \A v : IdOccurrences(doc, v) \subseteq IdOccurrences(Sdoc, v)
      BY <3>1, <3>2 DEF IdOccurrences
    <3> QED BY <3>3, <3>4, Zenon DEF DuplicateId
  <2>3. StructureOK(doc)
    BY <1>3, <2>1, <2>2 DEF StructureOK
  <2> QED BY <2>3, SameDocument
<1>5. V!ReadsLength => doc.hmaclen = "bits" /\ V!LengthOK(doc.bits, ctx.hmac_min)
  BY <1>2, <1>3 DEF V!ReadsLength, LengthAgrees, V!LengthOK, LengthOK
<1>6. ~(doc.method = "Pq" /\ doc.pqctx = "bad")
  <2>1. CASE signer.hsm.on
    BY <1>2, <1>3, <2>1 DEF ContextAgrees
  <2>2. CASE ~signer.hsm.on
    BY <1>1, <1>3, <2>2, SignerKnown
  <2> QED BY <2>1, <2>2
<1>7. /\ doc.sv.form = "ok" /\ doc.sv.len = SignerLen /\ doc.sv.by = SignerMat /\ doc.sv.intact
  <2> DEFINE v == content[ValueSlot]
             x == SignedInfoText(content)
  <2>1. v = <<"sig", SignerMat, SignerLen, x>> /\ ValueSlot # 0
    BY <1>1, <1>2 DEF SignInv, Consistent, SignatureStays, SignatureHolds, SignatureBy, WellFormed
  <2> HIDE DEF x
  <2>2. v # Empty /\ v # Text /\ v[2] = SignerMat /\ v[3] = SignerLen /\ v[4] = x
    BY <2>1 DEF Empty, Text
  <2> HIDE DEF v
  <2>0. ~Nameless(content, ValueSlot)
    BY <1>1, <1>2, TagsHarmless
  <2>3. SignedValue = [form |-> "ok", len |-> v[3], by |-> v[2], intact |-> v[4] = x]
    BY <2>0, <2>1, <2>2 DEF SignedValue, v, x
  <2>4. doc.sv.form = "ok" /\ doc.sv.len = v[3] /\ doc.sv.by = v[2] /\ doc.sv.intact = (v[4] = x)
    BY <1>3, <2>3
  <2> QED BY <2>2, <2>4
<1>8. V!ReadsLength <=> Sdoc.method = "Hmac" /\ Sdoc.hmaclen # "absent"
  BY <1>3 DEF V!ReadsLength
<1>9. /\ Sdoc.bits \in Nat
      /\ Sdoc.method = "Hmac" /\ Sdoc.hmaclen # "absent" => SignerLen = Sdoc.bits \div 8
      /\ Sdoc.method = "Hmac" /\ Sdoc.hmaclen = "absent" => SignerLen = Sdoc.fullmac
  BY <1>1, <1>2, SignedLength, ChosenInputs DEF TemplateOK, DocOK, Sdoc
<1>10. ~V!WrongLength(doc, ReadLength)
  BY <1>3, <1>7, <1>8, <1>9 DEF V!WrongLength, V!NoLength, NoLength, ReadLength
<1>11. V!Accepts(doc, SignerMat, ReadLength)
  BY <1>3, <1>7, <1>8, <1>9 DEF V!Accepts, V!NoLength, NoLength, ReadLength
<1>12. Serves(V!SelectedKey, V!SelectedSource)
  BY <1>2, OwnKeyServes, InlineKeyServes, SessionKeyServes
<1>13. /\ IsSeq(doc.refs)
       /\ \A i \in DOMAIN doc.refs :
             /\ V!verify_reference(doc, doc.refs[i]) \in {"skipped", "verified"}
             /\ ctx.strict /\ V!VerifiedRef(doc, doc.refs[i]).node # V!NoNode
                  => V!PositionOK(doc, V!VerifiedRef(doc, doc.refs[i]).node)
  BY <1>2, SignedReferences
<1> QED BY <1>2, <1>3, <1>4, <1>5, <1>6, <1>7, <1>10, <1>11, <1>12, <1>13 DEF Verifiable

\* verify() is on its way to Valid.
Reports == {V!VerifiedRef(doc, doc.refs[i]) : i \in DOMAIN doc.refs}

Passing ==
    /\ vrefs \in Seq(Reports)
    /\ pc \in {"pq", "refs", "position", "value", "key", "x509", "check"} => hmac = ReadLength
    /\ pc \in {"x509", "check"} => key = V!SelectedKey /\ source = V!SelectedSource
    /\ pc = "done" => result = "Valid"

\* What the document and the context alone determine.
LEMMA SameInputs ==
    ASSUME UNCHANGED <<doc, ctx>>
    PROVE  /\ Reports' = Reports /\ ReadLength' = ReadLength
           /\ V!SelectedKey' = V!SelectedKey /\ V!SelectedSource' = V!SelectedSource
<1>1. Reports' = Reports /\ ReadLength' = ReadLength
  BY DEF Reports, ReadLength, V!ReadsLength
<1>2. V!Kids' = V!Kids
  BY DEF V!Kids
<1>3. V!EmbeddedKey' = V!EmbeddedKey /\ V!ManagerKey' = V!ManagerKey
  BY <1>2 DEF V!EmbeddedKey, V!ManagerKey
<1>4. V!SelectedKey' = V!SelectedKey /\ V!SelectedSource' = V!SelectedSource
  BY <1>3 DEF V!SelectedKey, V!SelectedSource
<1> QED BY <1>1, <1>4

\* verify() works on the document it was given.
LEMMA VerifyFrame == V!Next => UNCHANGED <<doc, ctx>> /\ pc # "idle" /\ pc' # "idle"
  BY DEF V!Next, V!ParseFails, V!Parse, V!HmacLengthUnreadable, V!HmacLengthRejected,
         V!ReadHmacLength, V!PqContextFails, V!ReadPqContext, V!ReferenceFails,
         V!ReferenceMismatch, V!VerifyReference, V!ReferencesDone, V!StrictFails,
         V!CheckPositions, V!ValueFails, V!ValueLengthMismatch, V!ReadSignatureValue,
         V!HsmRejects, V!HsmFails, V!HsmAccepts, V!NoKeyFound, V!ResolveKey, V!ChainRejected,
         V!ValidateChain, V!SkipValidation, V!KeyUnusable, V!SignatureRejected,
         V!SignatureAccepted, V!Return, V!Goto

\* Every stage lets such a document pass.
LEMMA PassingStep ==
    ASSUME Verifiable, Passing, V!Next
    PROVE  Passing'
<1>1. UNCHANGED <<doc, ctx>>
  BY VerifyFrame
<1>2. /\ Reports' = Reports /\ ReadLength' = ReadLength
      /\ V!SelectedKey' = V!SelectedKey /\ V!SelectedSource' = V!SelectedSource
  BY <1>1, SameInputs
<1>3. Passing' <=>
        /\ vrefs' \in Seq(Reports)
        /\ pc' \in {"pq", "refs", "position", "value", "key", "x509", "check"} => hmac' = ReadLength
        /\ pc' \in {"x509", "check"} => key' = V!SelectedKey /\ source' = V!SelectedSource
        /\ pc' = "done" => result' = "Valid"
  BY <1>2 DEF Passing
<1>4. /\ Serves(V!SelectedKey, V!SelectedSource) /\ doc.method = Sdoc.method
      /\ Len(doc.refs) \in Nat /\ DOMAIN doc.refs = 1 .. Len(doc.refs)
  BY SeqDomain DEF Verifiable
<1>5. CASE V!ParseFails \/ V!Parse
  BY <1>3, <1>5 DEF Verifiable, Passing, V!ParseFails, V!Parse, V!Goto
<1>6. CASE V!HmacLengthUnreadable \/ V!HmacLengthRejected \/ V!ReadHmacLength
  <2>1. V!ReadHmacLength
    BY <1>6 DEF Verifiable, V!HmacLengthUnreadable, V!HmacLengthRejected
  <2>2. hmac' = ReadLength /\ pc' = "pq" /\ vrefs' = vrefs
    BY <2>1 DEF V!ReadHmacLength, V!Goto, ReadLength, V!NoLength, NoLength
  <2> QED BY <1>3, <2>2 DEF Passing
<1>7. CASE V!PqContextFails \/ V!ReadPqContext
  BY <1>3, <1>7 DEF Verifiable, Passing, V!PqContextFails, V!ReadPqContext, V!Goto
<1>8. CASE V!ReferenceFails \/ V!ReferenceMismatch \/ V!VerifyReference
  <2>1. pc = "refs" /\ Len(vrefs) < Len(doc.refs) /\ vrefs \in Seq(Reports)
    BY <1>8 DEF V!ReferenceFails, V!ReferenceMismatch, V!VerifyReference, Passing
  <2> DEFINE i == Len(vrefs) + 1
  <2>2. Len(vrefs) \in Nat
    BY <2>1
  <2>3. i \in DOMAIN doc.refs /\ V!CurrentRef = doc.refs[i]
    BY <1>4, <2>1, <2>2 DEF V!CurrentRef
  <2>4. V!verify_reference(doc, V!CurrentRef) \in {"skipped", "verified"}
    BY <2>3 DEF Verifiable
  <2>5. V!VerifyReference
    BY <1>8, <2>4 DEF V!ReferenceFails, V!ReferenceMismatch
  <2>6. V!VerifiedRef(doc, V!CurrentRef) \in Reports
    BY <2>3 DEF Reports
  <2>7. vrefs' = Append(vrefs, V!VerifiedRef(doc, V!CurrentRef)) /\ pc' = "refs" /\ UNCHANGED hmac
    BY <2>5 DEF V!VerifyReference, V!Goto
  <2>8. vrefs' \in Seq(Reports)
    BY <2>1, <2>6, <2>7
  <2> QED BY <1>3, <2>1, <2>7, <2>8 DEF Passing
<1>9. CASE V!ReferencesDone
  BY <1>3, <1>9 DEF Passing, V!ReferencesDone, V!Goto
<1>10. CASE V!StrictFails \/ V!CheckPositions
  <2>1. ctx.strict => V!PositionsOK
    <3> SUFFICES ASSUME ctx.strict, NEW i \in DOMAIN vrefs, vrefs[i].node # V!NoNode
                 PROVE  V!PositionOK(doc, vrefs[i].node)
      BY DEF V!PositionsOK
    <3>1. vrefs[i] \in Reports
      BY DEF Passing
    <3>2. PICK j \in DOMAIN doc.refs : vrefs[i] = V!VerifiedRef(doc, doc.refs[j])
      BY <3>1 DEF Reports
    <3> QED BY <3>2 DEF Verifiable
  <2>2. pc = "position" /\ pc' = "value" /\ UNCHANGED <<hmac, vrefs>>
    BY <1>10, <2>1 DEF V!StrictFails, V!CheckPositions, V!Goto
  <2> QED BY <1>3, <2>2 DEF Passing
<1>11. CASE V!ValueFails \/ V!ValueLengthMismatch \/ V!ReadSignatureValue
  BY <1>3, <1>11 DEF Verifiable, Passing, V!ValueFails, V!ValueLengthMismatch, V!ReadSignatureValue, V!Goto
<1>12. CASE V!HsmRejects \/ V!HsmFails \/ V!HsmAccepts
  BY <1>12 DEF Verifiable, V!HsmRejects, V!HsmFails, V!HsmAccepts
<1>13. CASE V!NoKeyFound \/ V!ResolveKey
  <2>1. V!SelectedKey # V!NoKey
    BY <1>4, SameInline DEF Serves
  <2> QED BY <1>3, <1>13, <2>1 DEF Passing, V!NoKeyFound, V!ResolveKey, V!Goto
<1>14. CASE V!ChainRejected \/ V!ValidateChain \/ V!SkipValidation
  <2>1. pc = "x509" /\ key = V!SelectedKey /\ source = V!SelectedSource
    BY <1>14 DEF Passing, V!ChainRejected, V!ValidateChain, V!SkipValidation
  <2>2. V!NeedsX509(ctx, key, source) => V!ChainOK(ctx, key)
    BY <1>4, <2>1 DEF Serves
  <2>3. pc' = "check" /\ UNCHANGED <<hmac, vrefs, key, source>>
    BY <1>14, <2>2 DEF V!ChainRejected, V!ValidateChain, V!SkipValidation, V!Goto
  <2> QED BY <1>3, <2>1, <2>3 DEF Passing
<1>15. CASE V!KeyUnusable \/ V!SignatureRejected \/ V!SignatureAccepted
  <2>1. pc = "check" /\ key = V!SelectedKey /\ hmac = ReadLength
    BY <1>15 DEF Passing, V!KeyUnusable, V!SignatureRejected, V!SignatureAccepted
  <2>2. V!UsableKey /\ V!Accepts(doc, key.mat, hmac)
    BY <1>4, <2>1, SameLookups DEF Serves, V!UsableKey, Verifiable
  <2>3. V!SignatureAccepted
    BY <1>15, <2>2 DEF V!KeyUnusable, V!SignatureRejected
  <2> QED BY <1>3, <2>3 DEF Passing, V!SignatureAccepted, V!Return
<1> QED BY <1>5, <1>6, <1>7, <1>8, <1>9, <1>10, <1>11, <1>12, <1>13, <1>14, <1>15 DEF V!Next

\* verify() starts on the document sign() has returned, with the context of the peer.
Handed ==
    /\ ctx = signer.peer
    /\ pc = "idle" => vrefs = <<>>
    /\ pc # "idle" => /\ status = "Ok" /\ doc = SignedDocument
                      /\ Agreed => Passing

\* The document sign() returns, and what is agreed, no longer change.
LEMMA SameSigned ==
    ASSUME UNCHANGED <<tpl, signer, content, ctx>>
    PROVE  SignedDocument' = SignedDocument /\ Agreed' = Agreed
<1>1. Slots' = Slots /\ Sdoc' = Sdoc /\ ValueSlot' = ValueSlot /\ \A i : DigestSlot(i)' = DigestSlot(i)
  BY SameTemplate
<1>2. \A q : Digest(q, content)' = Digest(q, content)
  BY DigestFrame
<1>3. SignedInfoText(content)' = SignedInfoText(content)
  BY SameTemplate DEF SignedInfoText
<1>0. \A s : Nameless(content, s)' = Nameless(content, s)
  BY <1>1, SameSigner DEF Nameless, Retagged, Changed
<1>4. \A i : SignedRef(i)' = SignedRef(i)
  BY <1>0, <1>1, <1>2 DEF SignedRef, Digest
<1>5. SignedValue' = SignedValue
  BY <1>0, <1>1, <1>3 DEF SignedValue
<1>6. \A n : SignedKids(n)' = SignedKids(n)
  BY <1>0, <1>1, SameSigner DEF SignedKids
<1>22. Parses(content)' = Parses(content) /\ IdsNow(content)' = IdsNow(content)
  BY <1>1, SameSigner DEF Parses, Retagged, Changed, IdsNow, NewTags
<1>7. SignedDocument' = SignedDocument
  BY <1>1, <1>4, <1>5, <1>6, <1>22 DEF SignedDocument
<1>8. /\ SigningKey' = SigningKey /\ \A names : FirstOfKind(names)' = FirstOfKind(names)
      /\ \A s : Kind(s)' = Kind(s)
  BY SameSigner
<1>9. WellFormed' = WellFormed /\ SignerMat' = SignerMat
  BY SameTemplate
<1>10. \A k, src : Serves(k, src)' = Serves(k, src)
  BY <1>1, <1>9 DEF Serves
<1>11. InfoKids' = InfoKids
  BY <1>1 DEF InfoKids
<1>12. OwnInfo' = OwnInfo
  BY <1>1, <1>11 DEF OwnInfo
<1>13. BlankInfo' = BlankInfo
  BY <1>11, <1>12 DEF BlankInfo
<1>14. OwnKey' = OwnKey
  BY <1>1, <1>10, <1>11, <1>12 DEF OwnKey
<1>15. /\ X509Key' = X509Key /\ X509Slot' = X509Slot
       /\ \A s : Writes509(s)' = Writes509(s)
  BY <1>8, SameSigner DEF X509Key
<1>16. \A s : Announces(s)' = Announces(s)
  BY <1>1, <1>8, <1>15, Zenon DEF Announces
<1>17. InlineKeyGiven' = InlineKeyGiven
  BY <1>1, <1>10, <1>13, <1>15, <1>16 DEF InlineKeyGiven
<1>18. \A e : WrapKey(e)' = WrapKey(e)
  BY DEF WrapKey
<1>19. SessionKeyGiven' = SessionKeyGiven
  BY <1>1, <1>8, <1>11, <1>13, <1>18 DEF SessionKeyGiven
<1>20. PeerEquipped' = PeerEquipped
  BY <1>14, <1>17, <1>19 DEF PeerEquipped
<1>21. LengthAgrees' = LengthAgrees /\ PositionsAgree' = PositionsAgree /\ ContextAgrees' = ContextAgrees
  BY <1>1 DEF LengthAgrees, PositionsAgree, ContextAgrees
<1> QED BY <1>7, <1>9, <1>20, <1>21 DEF Agreed

\* Every step of the pair keeps it.
LEMMA HandedStep == SignInv /\ Handed /\ [Next]_<<svars, vvars>> => Handed'
<1> SUFFICES ASSUME SignInv, Handed, [Next]_<<svars, vvars>> PROVE Handed'
  OBVIOUS
<1>1. CASE SignStep
  <2>1. UNCHANGED <<doc, ctx, pc, vrefs>> /\ SNext
    BY <1>1 DEF SignStep, vvars
  <2>2. spc # "done"
    BY <2>1 DEF SNext, SParseFails, SParse, SReparseFails, Reparses, SkipCid, SReferenceFails,
         DigestReference, DigestsDone, SigningFails, HsmSign, SoftwareSign, PopulateX509Data,
         PopulateKeyValue, PopulateDer, SessionKeyFails, EncryptSessionKey, ReturnSigned, MoreRefs
  <2>3. pc = "idle"
    BY <2>2 DEF Handed, SignInv, STypeOK
  <2>4. signer' = signer
    BY <2>1, StepFills DEF SignInv
  <2> QED BY <2>1, <2>3, <2>4 DEF Handed
<1>2. CASE Deliver
  <2>1. /\ status = "Ok" /\ doc' = SignedDocument /\ pc' = "parse" /\ UNCHANGED <<ctx, vrefs>>
        /\ UNCHANGED <<tpl, signer, content, status>> /\ vrefs = <<>>
    BY <1>2 DEF Deliver, svars, Handed
  <2>2. SignedDocument' = SignedDocument
    BY <2>1, SameSigned
  <2>3. Passing'
    <3>1. vrefs' \in Seq(Reports')
      BY <2>1
    <3> QED BY <2>1, <3>1 DEF Passing
  <2> QED BY <2>1, <2>2, <2>3 DEF Handed
<1>3. CASE VerifyStep
  <2>1. V!Next /\ UNCHANGED <<tpl, signer, content, status>> /\ UNCHANGED <<doc, ctx>> /\ pc # "idle"
        /\ pc' # "idle"
    BY <1>3, VerifyFrame DEF VerifyStep, svars
  <2>2. SignedDocument' = SignedDocument /\ Agreed' = Agreed
    BY <2>1, SameSigned
  <2>3. Agreed => Passing'
    <3> SUFFICES ASSUME Agreed PROVE Passing'
      OBVIOUS
    <3>1. Delivered /\ Passing
      BY <2>1 DEF Delivered, Handed, Agreed
    <3>2. Verifiable
      BY <3>1, SignedVerifiable
    <3> QED BY <2>1, <3>1, <3>2, PassingStep
  <2> QED BY <2>1, <2>2, <2>3 DEF Handed
<1>4. CASE UNCHANGED <<svars, vvars>>
  <2>1. /\ UNCHANGED <<tpl, signer, content, status, doc, ctx>>
        /\ UNCHANGED <<pc, hmac, vrefs, key, source, result>>
    BY <1>4 DEF svars, vvars
  <2>2. SignedDocument' = SignedDocument /\ Agreed' = Agreed
    BY <2>1, SameSigned
  <2>3. Passing' = Passing
    BY <2>1, SameInputs DEF Passing
  <2> QED BY <2>1, <2>2, <2>3 DEF Handed
<1> QED BY <1>1, <1>2, <1>3, <1>4 DEF Next

\* What sign() returns for a well-formed template, verify() finds valid: whatever the
\* template and the signer, when the peer has the key, is given it in the populated KeyInfo,
\* or can unwrap it.
THEOREM SignedVerifies == Spec => []RoundTrip
<1>1. Init => Handed
  BY DEF Init, Handed
<1>2. Handed => RoundTrip
  BY DEF Handed, RoundTrip, Passing
<1>3. Spec => []Handed
  BY <1>1, HandedStep, SignInvariant, PTL DEF Spec
<1> QED BY <1>2, <1>3, PTL
=============================================================================
