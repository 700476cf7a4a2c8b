------------------------------ MODULE EncProofs ------------------------------
(***************************************************************************)
(* Theorems about encryption and decryption, for every set of templates,   *)
(* senders and receivers.                                                  *)
(***************************************************************************)
EXTENDS EncryptDecrypt, TextLemmas

allvars == <<evars, dvars>>

-----------------------------------------------------------------------------
(* What is handed over.                                                    *)

\* What decrypt() is given: the template, except that it may no longer parse, the receiver,
\* and once it was delivered what encrypt() returned.
Handed ==
    /\ job \in Jobs
    /\ din = [doc |-> [Tpl EXCEPT !.parses = din.doc.parses], ctx |-> Receiver,
              cvs |-> din.cvs, okis |-> din.okis, data |-> din.data, cref |-> din.cref]
    /\ dpc # "idle" => /\ estatus = "Ok" /\ din.cvs = cvs /\ din.okis = okis
                       /\ din.data = cipher /\ din.cref = job.detached
                       /\ ~garbled => din.doc.parses = TRUE

\* Whether a document parses is all that may change in it.
LEMMA OnlyParses ==
    ASSUME NEW t, TemplateOK(t), NEW p, NEW d, d = [t EXCEPT !.parses = p]
    PROVE  /\ d.kids = t.kids /\ d.eks = t.eks /\ d.method = t.method /\ d.place = t.place
           /\ d.parses = p
<1>1. t = [parses |-> t.parses, method |-> t.method, kids |-> t.kids, eks |-> t.eks,
           text |-> t.text, okis |-> t.okis, reference |-> t.reference, place |-> t.place]
  BY DEF TemplateOK
<1> QED BY <1>1

\* It may change once more.
LEMMA ParsesAgain ==
    ASSUME NEW t, TemplateOK(t), NEW p, NEW d, d = [t EXCEPT !.parses = p], NEW q
    PROVE  [d EXCEPT !.parses = q] = [t EXCEPT !.parses = q]
<1>1. t = [parses |-> t.parses, method |-> t.method, kids |-> t.kids, eks |-> t.eks,
           text |-> t.text, okis |-> t.okis, reference |-> t.reference, place |-> t.place]
  BY DEF TemplateOK
<1> QED BY <1>1

\* The document of the receiver is the template.
LEMMA DocumentIsTemplate ==
    ASSUME Handed
    PROVE  /\ TemplateOK(Tpl)
           /\ din.doc.kids = Tpl.kids /\ din.doc.eks = Tpl.eks /\ din.doc.method = Tpl.method
           /\ din.doc.place = Tpl.place /\ din.ctx = Receiver
<1>1. TemplateOK(Tpl)
  BY EncJobsAssumption DEF Handed, Tpl
<1>2. din.doc = [Tpl EXCEPT !.parses = din.doc.parses] /\ din.ctx = Receiver
  BY DEF Handed
<1> QED BY <1>1, <1>2, OnlyParses

\* The state a caller starts from is well typed.
LEMMA TypeInit == Init => ETypeOK /\ Handed
<1> SUFFICES ASSUME Init PROVE ETypeOK /\ Handed
  OBVIOUS
<1>1. job \in Jobs /\ TemplateOK(Tpl)
  BY EncJobsAssumption DEF Init, EInit, Tpl
<1>2. Tpl = [parses |-> Tpl.parses, method |-> Tpl.method, kids |-> Tpl.kids, eks |-> Tpl.eks,
             text |-> Tpl.text, okis |-> Tpl.okis, reference |-> Tpl.reference, place |-> Tpl.place]
  BY <1>1 DEF TemplateOK
<1>3. Tpl = [Tpl EXCEPT !.parses = Tpl.parses]
  BY <1>2
<1>4. din = [doc |-> Tpl, ctx |-> Receiver, cvs |-> Tpl.text, okis |-> Tpl.okis,
             data |-> Empty, cref |-> <<>>]
  BY DEF Init, Tpl, Receiver
<1>5. Handed
  BY <1>1, <1>3, <1>4 DEF Handed, Init
<1>6. ETypeOK
  <2>1. Len(Tpl.eks) \in Nat /\ Len(Tpl.kids) \in Nat
    BY <1>1, SeqDomain DEF TemplateOK
  <2>2. Kids = Tpl.kids
    BY <1>4 DEF Kids
  <2> QED BY <1>1, <2>1, <2>2 DEF Init, EInit, ETypeOK, TemplateOK, Tpl
<1> QED BY <1>5, <1>6

\* A step of decrypt() never touches its input, and is taken after the delivery only.
LEMMA DecryptKeepsInput ==
    ASSUME DNext
    PROVE  din' = din /\ dpc # "idle" /\ dpc' # "idle" /\ dpc # "done"
BY DEF DNext, DStart, DParseFails, UnwrapChild, UnwrapChildFails, DeriveChild, DeriveChildFails,
       PassChild, EndLoop1, NamedChild, RetrieveChild, RetrieveChildFails, SkipChild, ResolveFails,
       FirstKeyFallback, DataFails, DecryptData, DecryptGarbage, InLoop1, InLoop2, NoChildKey,
       Return, DStop, Found, GotoKid

\* A step of encrypt() is taken before it has returned, and keeps its input.
LEMMA EncryptKeepsJob ==
    ASSUME ENext
    PROVE  job' = job /\ epc # "done"
BY DEF ENext, EncryptFails, EncryptData, SkipKey, WrapFails, WrapKey, ReturnEncrypted, MoreKeys,
       EStop

\* The replacement of a KeyValue, wherever it hits, changes the number of neither CipherValues
\* nor KeyValues.
LEMMA AfterDomains ==
    ASSUME NEW t \in AfterOriginator
    PROVE  DOMAIN t.cvs = DOMAIN cvs /\ DOMAIN t.okis = DOMAIN okis
<1>1. CASE ~NeedsOriginator
  BY <1>1 DEF AfterOriginator, Texts
<1>2. CASE NeedsOriginator /\ ~edited
  <2>1. t = [Texts EXCEPT !.okis = fill_originator_key_value(okis)]
    BY <1>2 DEF AfterOriginator
  <2>2. DOMAIN fill_originator_key_value(okis) = DOMAIN okis
    BY DEF fill_originator_key_value
  <2> QED BY <2>1, <2>2 DEF Texts
<1>3. CASE NeedsOriginator /\ edited
  <2>1. t \in SpoiledTexts
    BY <1>3 DEF AfterOriginator
  <2> QED BY <2>1 DEF SpoiledTexts, Texts
<1> QED BY <1>1, <1>2, <1>3

\* encrypt() changes the number of neither CipherValues nor KeyValues, and stays in its loop.
LEMMA EncryptTypes ==
    ASSUME ETypeOK, TemplateOK(Tpl), ENext
    PROVE  /\ epc' \in {"start", "keys", "done"} /\ (estatus' = "pending") <=> (epc' # "done")
           /\ DOMAIN cvs' = DOMAIN Tpl.eks /\ DOMAIN okis' = DOMAIN Tpl.eks
           /\ ek' \in 1 .. Len(Tpl.eks) + 1
<1>1. Len(Tpl.eks) \in Nat /\ ek \in 1 .. Len(Tpl.eks) + 1
  BY SeqDomain DEF TemplateOK, ETypeOK
<1>2. CASE EncryptFails \/ WrapFails \/ ReturnEncrypted
  BY <1>2 DEF EncryptFails, WrapFails, ReturnEncrypted, EStop, ETypeOK
<1>3. CASE EncryptData
  BY <1>3 DEF EncryptData, ETypeOK
<1>4. CASE SkipKey
  <2>1. ek + 1 \in 1 .. Len(Tpl.eks) + 1
    BY <1>1, <1>4 DEF SkipKey, MoreKeys
  <2> QED BY <1>4, <2>1 DEF SkipKey, MoreKeys, ETypeOK
<1>5. CASE WrapKey
  <2>1. ek + 1 \in 1 .. Len(Tpl.eks) + 1
    BY <1>1, <1>5 DEF WrapKey, MoreKeys
  <2>2. PICK t \in AfterOriginator :
           okis' = t.okis /\ cvs' = ReplaceText(t.cvs, <<"wrapped", WrapKek(Ek, Sender), dkey>>)
    BY <1>5 DEF WrapKey
  <2>3. DOMAIN t.cvs = DOMAIN cvs /\ DOMAIN t.okis = DOMAIN okis
    BY AfterDomains
  <2>4. DOMAIN cvs' = DOMAIN cvs /\ DOMAIN okis' = DOMAIN okis
    BY <2>2, <2>3 DEF ReplaceText
  <2> QED BY <1>5, <2>1, <2>4 DEF WrapKey, MoreKeys, ETypeOK
<1> QED BY <1>2, <1>3, <1>4, <1>5 DEF ENext

\* The search for the key stays within the KeyInfo, and only a key ends it well.
LEMMA DecryptTypes ==
    ASSUME ETypeOK, Len(Kids) \in Nat, DNext
    PROVE  /\ dpc' \in {"idle", "start", "wrapped", "named", "data", "done"}
           /\ (plain' = "pending") <=> (dpc' # "done")
           /\ kid' \in 1 .. Len(Kids) + 1
           /\ dpc' = "data" => found' # NoBytes
<1>1. kid \in 1 .. Len(Kids) + 1
  BY DEF ETypeOK
<1>2. CASE DStart \/ EndLoop1
  BY <1>2 DEF DStart, EndLoop1, GotoKid, ETypeOK
<1>3. CASE UnwrapChildFails \/ DeriveChildFails \/ PassChild \/ SkipChild
  <2>1. kid <= Len(Kids) /\ kid' = kid + 1
    BY <1>3 DEF UnwrapChildFails, DeriveChildFails, PassChild, SkipChild, GotoKid, InLoop1, InLoop2
  <2>2. kid' \in 1 .. Len(Kids) + 1
    BY <1>1, <2>1
  <2> QED BY <1>3, <2>2 DEF UnwrapChildFails, DeriveChildFails, PassChild, SkipChild, GotoKid,
                            InLoop1, InLoop2, ETypeOK
<1>4. CASE UnwrapChild \/ RetrieveChild \/ DeriveChild \/ NamedChild \/ FirstKeyFallback
  <2>1. found' # NoBytes
    BY <1>4 DEF UnwrapChild, RetrieveChild, DeriveChild, NamedChild, FirstKeyFallback, Found, HasNamedKey
  <2> QED BY <1>4, <2>1 DEF UnwrapChild, RetrieveChild, DeriveChild, NamedChild, FirstKeyFallback,
                            Found, InLoop1, InLoop2, NoChildKey, ETypeOK
<1>5. CASE DParseFails \/ RetrieveChildFails \/ ResolveFails \/ DataFails \/ DecryptData \/ DecryptGarbage
  BY <1>5 DEF DParseFails, RetrieveChildFails, ResolveFails, DataFails, DecryptData, DecryptGarbage,
              DStop, Return, ETypeOK
<1> QED BY <1>2, <1>3, <1>4, <1>5 DEF DNext

\* The input of decrypt() is what was handed over, in every step.
LEMMA HandedStep == ETypeOK /\ Handed /\ [Next]_allvars => Handed'
<1> SUFFICES ASSUME ETypeOK, Handed, [Next]_allvars PROVE Handed'
  OBVIOUS
<1>1. CASE EncryptStep
  <2>1. dpc = "idle" /\ UNCHANGED dvars /\ job' = job
    BY <1>1, EncryptKeepsJob DEF EncryptStep, Handed, ETypeOK, dvars
  <2> QED BY <2>1 DEF Handed, dvars, Tpl, Receiver
<1>2. CASE Deliver
  <2>1. PICK ok \in (IF garbled THEN BOOLEAN ELSE {TRUE}) :
           din' = [din EXCEPT !.doc.parses = ok, !.cref = job.detached,
                              !.cvs = cvs, !.okis = okis, !.data = cipher]
    BY <1>2 DEF Deliver
  <2>2. UNCHANGED evars /\ estatus = "Ok" /\ job' = job
    BY <1>2 DEF Deliver, evars
  <2>3. TemplateOK(Tpl)
    BY DocumentIsTemplate
  <2>4. din.doc = [Tpl EXCEPT !.parses = din.doc.parses] /\ din.ctx = Receiver
    BY DEF Handed
  <2>5. [din.doc EXCEPT !.parses = ok] = [Tpl EXCEPT !.parses = ok]
    BY <2>3, <2>4, ParsesAgain
  <2>a. din = [doc |-> din.doc, ctx |-> din.ctx, cvs |-> din.cvs, okis |-> din.okis,
               data |-> din.data, cref |-> din.cref]
    BY DEF Handed
  <2>b. din' = [doc |-> [din.doc EXCEPT !.parses = ok], ctx |-> din.ctx, cvs |-> cvs,
                okis |-> okis, data |-> cipher, cref |-> job.detached]
    BY <2>1, <2>a
  <2>6. din' = [doc |-> [Tpl EXCEPT !.parses = ok], ctx |-> Receiver, cvs |-> cvs, okis |-> okis,
                data |-> cipher, cref |-> job.detached]
    BY <2>4, <2>5, <2>b
  <2>7. din'.doc.parses = ok
    BY <2>3, <2>6, OnlyParses
  <2>8. ~garbled => ok = TRUE
    BY <2>1
  <2> QED BY <2>2, <2>6, <2>7, <2>8 DEF Handed, Tpl, Receiver, evars
<1>3. CASE DecryptStep
  <2>1. UNCHANGED evars /\ din' = din /\ dpc # "idle"
    BY <1>3, DecryptKeepsInput DEF DecryptStep
  <2> QED BY <2>1 DEF Handed, evars, Tpl, Receiver
<1>4. CASE UNCHANGED allvars
  BY <1>4 DEF allvars, evars, dvars, Handed, Tpl, Receiver
<1> QED BY <1>1, <1>2, <1>3, <1>4 DEF Next, Returned, allvars

\* Types are kept, in every step.
LEMMA TypeStep == ETypeOK /\ Handed /\ [Next]_allvars => ETypeOK'
<1> SUFFICES ASSUME ETypeOK, Handed, [Next]_allvars PROVE ETypeOK'
  OBVIOUS
<1>1. TemplateOK(Tpl) /\ Kids = Tpl.kids /\ Len(Kids) \in Nat
  BY DocumentIsTemplate, SeqDomain DEF TemplateOK, Kids
<1>2. Handed'
  BY HandedStep
<1>3. job' = job /\ Kids' = Kids
  <2>1. job' = job
    BY EncryptKeepsJob DEF Next, EncryptStep, Deliver, DecryptStep, Returned, allvars, evars
  <2>2. din'.doc = [Tpl EXCEPT !.parses = din'.doc.parses]
    BY <1>2, <2>1 DEF Handed, Tpl
  <2> QED BY <1>1, <2>1, <2>2, OnlyParses DEF Kids
<1>4. Tpl' = Tpl
  BY <1>3 DEF Tpl
<1>5. CASE EncryptStep
  <2>1. ENext /\ UNCHANGED dvars
    BY <1>5 DEF EncryptStep
  <2>2. UNCHANGED <<dpc, plain, kid, found>>
    BY <2>1 DEF dvars
  <2> QED BY <1>1, <1>3, <1>4, <2>1, <2>2, EncryptTypes DEF ETypeOK
<1>6. CASE Deliver
  BY <1>3, <1>4, <1>6 DEF Deliver, ETypeOK, evars
<1>7. CASE DecryptStep
  <2>1. DNext /\ UNCHANGED <<epc, estatus, cvs, okis, ek>>
    BY <1>7 DEF DecryptStep, evars
  <2> QED BY <1>1, <1>3, <1>4, <2>1, DecryptTypes DEF ETypeOK
<1>8. CASE UNCHANGED allvars
  BY <1>3, <1>4, <1>8 DEF allvars, evars, dvars, ETypeOK
<1> QED BY <1>5, <1>6, <1>7, <1>8 DEF Next, Returned, allvars

\* encrypt() and decrypt() are well behaved for every input: they return once, and their
\* loops stay within the document.
THEOREM EncTypeCorrect == Spec => []ETypeOK
<1>1. ETypeOK /\ Handed /\ [Next]_allvars => (ETypeOK /\ Handed)'
  BY HandedStep, TypeStep
<1>2. Spec => [](ETypeOK /\ Handed)
  BY <1>1, TypeInit, PTL DEF Spec, allvars
<1> QED BY <1>2, PTL

-----------------------------------------------------------------------------
(* What encrypt() has filled.                                              *)

WrappedFor(i) == <<"wrapped", WrapKek(Tpl.eks[i], Sender), dkey>>

\* An EncryptedKey whose KeyValue encrypt() fills (NeedsOriginator, for any of them).
Agrees(i) == Tpl.eks[i].method = "KwAes" /\ ~Sender.hsm.kw.on /\ Tpl.eks[i].agree # <<>>

\* The loop starts with the first EncryptedKey and, without an error, ends after the last.
LoopEnds == (epc = "start" => ek = 1) /\ (estatus = "Ok" => epc = "done" /\ ek > Len(Tpl.eks))

\* From the first stage on the data is encrypted, with a key of the right size.
DataEncrypted ==
    epc = "keys" \/ estatus = "Ok" =>
        /\ dkey = resolve_encryption_key /\ DataKeyOK(dkey) /\ Plaintext # <<>>
        /\ cipher \in {<<"data", dkey, Plaintext>>, Spoiled}

\* `result' was changed by an EncryptedKey the loop has passed, and each that it has
\* passed had a key-encryption key.
Passed == /\ edited => \E i \in ToFill : i < ek
          /\ \A i \in ToFill : i < ek => Usable(WrapKek(Tpl.eks[i], Sender), Tpl.eks[i])

\* The CipherValues up to ek are filled where they should be, the others are as they were.
FilledBelow == NoLookalike /\ AgreementFirst =>
    \A i \in DOMAIN Tpl.eks :
        /\ i \in ToFill /\ i < ek => cvs[i] = WrappedFor(i)
        /\ ~(i \in ToFill /\ i < ek) => cvs[i] = Tpl.text[i]

\* The same for the KeyValues, and nothing was cut at a stale place.
OriginatorsBelow == AgreementFirst =>
    /\ ~garbled /\ (epc = "keys" \/ estatus = "Ok" => cipher = <<"data", dkey, Plaintext>>)
    /\ \A i \in DOMAIN Tpl.eks :
        /\ i \in ToFill /\ i < ek /\ Agrees(i) => okis[i] = OriginatorKey(Tpl.eks[i])
        /\ ~(i \in ToFill /\ i < ek /\ Agrees(i)) => okis[i] = Tpl.okis[i]

Filling == LoopEnds /\ DataEncrypted /\ Passed /\ FilledBelow /\ OriginatorsBelow

\* encrypt() starts with the template.
LEMMA FillingInit == Init => Filling
<1> SUFFICES ASSUME Init PROVE Filling
  OBVIOUS
<1>1. TemplateOK(Tpl) /\ DOMAIN Tpl.eks = 1 .. Len(Tpl.eks) /\ Len(Tpl.eks) \in Nat
  BY EncJobsAssumption, SeqDomain DEF Init, EInit, Tpl, TemplateOK
<1>2. ek = 1 /\ epc = "start" /\ estatus = "pending" /\ ~edited /\ ~garbled
      /\ cvs = Tpl.text /\ okis = Tpl.okis
  BY DEF Init, EInit, Tpl
<1>3. \A i \in DOMAIN Tpl.eks : ~(i < ek)
  BY <1>1, <1>2
<1>4. Passed
  BY <1>2, <1>3 DEF Passed, ToFill
<1> QED BY <1>2, <1>3, <1>4 DEF Filling, LoopEnds, DataEncrypted, FilledBelow, OriginatorsBelow

\* The EncryptedKey the loop is at.
LEMMA AtKey ==
    ASSUME ETypeOK, TemplateOK(Tpl), MoreKeys
    PROVE  /\ ek \in DOMAIN Tpl.eks /\ DOMAIN Tpl.eks = 1 .. Len(Tpl.eks)
           /\ \A i \in DOMAIN Tpl.eks : i < ek + 1 <=> (i < ek \/ i = ek)
           /\ ek \in ToFill <=> ~Skipped
<1>1. DOMAIN Tpl.eks = 1 .. Len(Tpl.eks) /\ Len(Tpl.eks) \in Nat
  BY SeqDomain DEF TemplateOK
<1>2. ek \in DOMAIN Tpl.eks
  BY <1>1 DEF ETypeOK, MoreKeys
<1>3. \A i \in DOMAIN Tpl.eks : i < ek + 1 <=> (i < ek \/ i = ek)
  BY <1>1, <1>2
<1>4. ek \in ToFill <=> ~Skipped
  BY <1>2 DEF ToFill, Skipped, Ek
<1> QED BY <1>1, <1>2, <1>3, <1>4

\* result.replacen finds the CipherValue of the EncryptedKey the loop is at: the ones
\* before it are filled, or do not look like it.
LEMMA ReplacesOwn ==
    ASSUME ETypeOK, TemplateOK(Tpl), MoreKeys, ~Skipped, FilledBelow, NoLookalike, AgreementFirst, NEW v
    PROVE  /\ \A i \in DOMAIN Tpl.eks : i # ek => ReplaceText(cvs, v)[i] = cvs[i]
           /\ ReplaceText(cvs, v)[ek] = v
<1> DEFINE S == {i \in DOMAIN cvs : cvs[i] = Empty /\ Tpl.eks[i].form = Ek.form}
<1>1. DOMAIN cvs = DOMAIN Tpl.eks /\ ek \in DOMAIN Tpl.eks /\ ek \in ToFill
  BY AtKey DEF ETypeOK
<1>2. IsSeq(Tpl.eks) /\ DOMAIN Tpl.eks = 1 .. Len(Tpl.eks) /\ Len(Tpl.eks) \in Nat
  BY SeqDomain DEF TemplateOK
<1>3. ek \in S
  <2>1. ~(ek < ek)
    BY <1>1, <1>2
  <2>2. cvs[ek] = Tpl.text[ek] /\ Tpl.text[ek] = Empty
    BY <1>1, <2>1 DEF FilledBelow, ToFill
  <2> QED BY <1>1, <2>2 DEF Ek
<1>4. ASSUME NEW j \in S, j < ek PROVE FALSE
  <2>1. j \in DOMAIN Tpl.eks /\ cvs[j] = <<>> /\ Tpl.eks[j].form = Tpl.eks[ek].form
    BY <1>1 DEF Ek, Empty
  <2>2. CASE j \in ToFill
    <3>1. cvs[j] = WrappedFor(j)
      BY <1>4, <2>1, <2>2 DEF FilledBelow
    <3> QED BY <2>1, <3>1 DEF WrappedFor
  <2>3. CASE j \notin ToFill
    <3>1. cvs[j] = Tpl.text[j]
      BY <2>1, <2>3 DEF FilledBelow
    <3> QED BY <1>1, <2>1, <2>3, <3>1 DEF NoLookalike, Empty
  <2> QED BY <2>2, <2>3
<1>5. FirstOf(S) = ek
  <2>1. S \in SUBSET (DOMAIN Tpl.eks)
    BY <1>1
  <2> HIDE DEF S
  <2> QED BY <1>2, <1>3, <1>4, <2>1, FindsFirst
<1>6. ReplaceText(cvs, v) = [cvs EXCEPT ![ek] = v]
  BY <1>5 DEF ReplaceText
<1> QED BY <1>1, <1>6

\* fill_originator_key_value finds the KeyValue of the EncryptedKey the loop is at: it is
\* the first that needs one.
LEMMA FillsOwn ==
    ASSUME ETypeOK, TemplateOK(Tpl), MoreKeys, ~Skipped, OriginatorsBelow, AgreementFirst,
           NeedsOriginator, Passed
    PROVE  /\ ~edited
           /\ \A i \in DOMAIN Tpl.eks : i # ek => fill_originator_key_value(okis)[i] = okis[i]
           /\ fill_originator_key_value(okis)[ek] = OriginatorKey(Ek)
<1> DEFINE S == {i \in DOMAIN okis : Tpl.eks[i].agree # <<>> /\ okis[i] = okis[ek]}
<1>1. DOMAIN okis = DOMAIN Tpl.eks /\ ek \in DOMAIN Tpl.eks /\ ek \in ToFill
  BY AtKey DEF ETypeOK
<1>2. IsSeq(Tpl.eks) /\ DOMAIN Tpl.eks = 1 .. Len(Tpl.eks) /\ Len(Tpl.eks) \in Nat
  BY SeqDomain DEF TemplateOK
<1>3. Tpl.eks[ek].method = "KwAes" /\ Tpl.eks[ek].agree # <<>>
  BY DEF NeedsOriginator, Ek
<1>4. \A j \in DOMAIN Tpl.eks : j < ek =>
         j \notin ToFill /\ (Tpl.eks[j].agree # <<>> => Tpl.okis[j] # Tpl.okis[ek])
  BY <1>1, <1>3 DEF AgreementFirst
<1>5. ~edited
  BY <1>4 DEF Passed, ToFill
<1>6. \A j \in DOMAIN Tpl.eks : j < ek \/ j = ek => okis[j] = Tpl.okis[j]
  <2>1. ~(ek < ek)
    BY <1>1, <1>2
  <2> QED BY <1>4, <2>1 DEF OriginatorsBelow
<1>7. ek \in S
  BY <1>1, <1>3
<1>8. \A j \in S : ~(j < ek)
  BY <1>1, <1>4, <1>6
<1>9. FirstOf(S) = ek
  <2>1. S \in SUBSET (DOMAIN Tpl.eks)
    BY <1>1
  <2> HIDE DEF S
  <2> QED BY <1>2, <1>7, <1>8, <2>1, FindsFirst
<1>10. fill_originator_key_value(okis) = [okis EXCEPT ![ek] = OriginatorKey(Ek)]
  BY <1>9 DEF fill_originator_key_value
<1> QED BY <1>1, <1>5, <1>10

\* With key agreement in the first EncryptedKey only, nothing is cut at a stale place.
LEMMA CutsInPlace ==
    ASSUME ETypeOK, TemplateOK(Tpl), MoreKeys, ~Skipped, Filling, AgreementFirst, WrapKey
    PROVE  /\ cvs' = ReplaceText(cvs, <<"wrapped", WrapKek(Ek, Sender), dkey>>)
           /\ cipher' = cipher /\ garbled' = garbled
           /\ okis' = IF NeedsOriginator THEN fill_originator_key_value(okis) ELSE okis
<1> DEFINE w == <<"wrapped", WrapKek(Ek, Sender), dkey>>
<1>1. NeedsOriginator => ~edited
  BY FillsOwn DEF Filling
<1>2. PICK t \in AfterOriginator :
         /\ okis' = t.okis /\ cipher' = t.cipher /\ garbled' = t.markup
         /\ cvs' = ReplaceText(t.cvs, w)
  BY DEF WrapKey
<1>3. t = IF NeedsOriginator THEN [Texts EXCEPT !.okis = fill_originator_key_value(okis)] ELSE Texts
  BY <1>1 DEF AfterOriginator
<1>4. /\ t.cvs = cvs /\ t.cipher = cipher /\ t.markup = garbled
      /\ t.okis = IF NeedsOriginator THEN fill_originator_key_value(okis) ELSE okis
  BY <1>3 DEF Texts
<1> QED BY <1>2, <1>4

\* The ciphertext of the data may be cut into as well.
LEMMA CipherKept ==
    ASSUME NEW t \in AfterOriginator
    PROVE  t.cipher \in {cipher, Spoiled}
<1>1. CASE ~NeedsOriginator \/ ~edited
  BY <1>1 DEF AfterOriginator, Texts
<1>2. CASE NeedsOriginator /\ edited
  <2>1. t \in SpoiledTexts
    BY <1>2 DEF AfterOriginator
  <2> QED BY <2>1 DEF SpoiledTexts, Texts
<1> QED BY <1>1, <1>2

\* What depends on the input alone does not change.
LEMMA JobUnchanged ==
    ASSUME job' = job
    PROVE  /\ Tpl' = Tpl /\ Sender' = Sender /\ Receiver' = Receiver
           /\ resolve_encryption_key' = resolve_encryption_key /\ Plaintext' = Plaintext
           /\ ToFill' = ToFill /\ NoLookalike' = NoLookalike /\ AgreementFirst' = AgreementFirst
<1>1. Tpl' = Tpl /\ Sender' = Sender /\ Receiver' = Receiver
  BY DEF Tpl, Sender, Receiver
<1>2. Plaintext' = Plaintext
  BY <1>1 DEF Plaintext
<1>3. ToFill' = ToFill
  BY <1>1 DEF ToFill
<1>4. NoLookalike' = NoLookalike /\ AgreementFirst' = AgreementFirst
  BY <1>1, <1>3 DEF NoLookalike, AgreementFirst
<1>5. SessionBytes' = SessionBytes
  BY <1>1 DEF SessionBytes
<1>6. FirstKid' = FirstKid
  BY <1>1, <1>5 DEF FirstKid, ChildBytes
<1>7. resolve_encryption_key' = resolve_encryption_key
  BY <1>1, <1>5, <1>6 DEF resolve_encryption_key, DerivationFailed, ChildBytes
<1> QED BY <1>1, <1>2, <1>3, <1>4, <1>7

\* A step that leaves the state of encrypt() alone.
LEMMA FillingStutter ==
    ASSUME Filling, UNCHANGED evars
    PROVE  Filling'
<1>1. /\ job' = job /\ dkey' = dkey /\ cipher' = cipher /\ cvs' = cvs /\ okis' = okis
      /\ edited' = edited /\ garbled' = garbled /\ ek' = ek /\ epc' = epc /\ estatus' = estatus
  BY DEF evars
<1>2. /\ Tpl' = Tpl /\ Sender' = Sender /\ Receiver' = Receiver
      /\ resolve_encryption_key' = resolve_encryption_key /\ Plaintext' = Plaintext
      /\ ToFill' = ToFill /\ NoLookalike' = NoLookalike /\ AgreementFirst' = AgreementFirst
  BY <1>1, JobUnchanged
<1>3. LoopEnds' /\ DataEncrypted'
  BY <1>1, <1>2 DEF Filling, LoopEnds, DataEncrypted, DataKeyOK
<1>4. Passed'
  BY <1>1, <1>2 DEF Filling, Passed
<1>5. FilledBelow'
  BY <1>1, <1>2 DEF Filling, FilledBelow, WrappedFor
<1>6. OriginatorsBelow'
  BY <1>1, <1>2 DEF Filling, OriginatorsBelow, Agrees, OriginatorKey
<1> QED BY <1>3, <1>4, <1>5, <1>6 DEF Filling

\* One iteration of the loop over the EncryptedKeys.
LEMMA FillingWrap ==
    ASSUME ETypeOK, TemplateOK(Tpl), Filling, WrapKey
    PROVE  Filling'
<1>1. /\ MoreKeys /\ ~Skipped /\ Usable(WrapKek(Ek, Sender), Ek)
      /\ job' = job /\ dkey' = dkey /\ epc' = epc /\ estatus' = estatus
      /\ ek' = ek + 1
  BY DEF WrapKey
<1>2. /\ Tpl' = Tpl /\ Sender' = Sender /\ Receiver' = Receiver
      /\ resolve_encryption_key' = resolve_encryption_key /\ Plaintext' = Plaintext
      /\ ToFill' = ToFill /\ NoLookalike' = NoLookalike /\ AgreementFirst' = AgreementFirst
  BY <1>1, JobUnchanged
<1>3. /\ ek \in DOMAIN Tpl.eks /\ ek \in ToFill /\ DOMAIN Tpl.eks = 1 .. Len(Tpl.eks)
      /\ \A i \in DOMAIN Tpl.eks : i < ek' <=> (i < ek \/ i = ek)
  BY <1>1, AtKey
<1>4. LoopEnds' /\ DataEncrypted'
  <2>1. LoopEnds'
    BY <1>1, <1>2 DEF Filling, LoopEnds, MoreKeys, ETypeOK
  <2>2. cipher' \in {cipher, Spoiled}
    BY CipherKept DEF WrapKey
  <2>3. DataEncrypted'
    BY <1>1, <1>2, <2>2 DEF Filling, DataEncrypted, DataKeyOK, Spoiled
  <2> QED BY <2>1, <2>3
<1>5. Passed'
  <2>1. \E i \in ToFill : i < ek'
    BY <1>3
  <2>2. \A i \in ToFill : i < ek' => Usable(WrapKek(Tpl.eks[i], Sender), Tpl.eks[i])
    BY <1>1, <1>3 DEF Filling, Passed, ToFill, Ek
  <2> QED BY <1>2, <2>1, <2>2 DEF Passed
<1>6. FilledBelow'
  <2> SUFFICES ASSUME NoLookalike, AgreementFirst PROVE
        \A i \in DOMAIN Tpl.eks :
            /\ i \in ToFill /\ i < ek' => cvs'[i] = WrappedFor(i)'
            /\ ~(i \in ToFill /\ i < ek') => cvs'[i] = Tpl.text[i]
    BY <1>2 DEF FilledBelow
  <2>1. /\ \A i \in DOMAIN Tpl.eks : i # ek => cvs'[i] = cvs[i]
        /\ cvs'[ek] = <<"wrapped", WrapKek(Ek, Sender), dkey>>
    BY <1>1, ReplacesOwn, CutsInPlace DEF Filling
  <2>2. \A i : WrappedFor(i)' = WrappedFor(i)
    BY <1>1, <1>2 DEF WrappedFor
  <2>3. WrappedFor(ek) = <<"wrapped", WrapKek(Ek, Sender), dkey>>
    BY DEF WrappedFor, Ek
  <2>4. ~(ek < ek)
    BY <1>3
  <2> QED BY <1>3, <2>1, <2>2, <2>3, <2>4 DEF Filling, FilledBelow
<1>7. OriginatorsBelow'
  <2> SUFFICES ASSUME AgreementFirst PROVE
        /\ ~garbled'
        /\ epc = "keys" \/ estatus = "Ok" => cipher' = <<"data", dkey, Plaintext>>
        /\ \A i \in DOMAIN Tpl.eks :
            /\ i \in ToFill /\ i < ek' /\ Agrees(i)' => okis'[i] = OriginatorKey(Tpl.eks[i])'
            /\ ~(i \in ToFill /\ i < ek' /\ Agrees(i)') => okis'[i] = Tpl.okis[i]
    BY <1>1, <1>2 DEF OriginatorsBelow
  <2>1. /\ \A i : Agrees(i)' <=> Agrees(i)
        /\ \A i : OriginatorKey(Tpl.eks[i])' = OriginatorKey(Tpl.eks[i])
    BY <1>2 DEF Agrees, OriginatorKey
  <2>a. /\ ~garbled /\ (epc = "keys" \/ estatus = "Ok" => cipher = <<"data", dkey, Plaintext>>)
        /\ \A i \in DOMAIN Tpl.eks :
            /\ i \in ToFill /\ i < ek /\ Agrees(i) => okis[i] = OriginatorKey(Tpl.eks[i])
            /\ ~(i \in ToFill /\ i < ek /\ Agrees(i)) => okis[i] = Tpl.okis[i]
    BY DEF Filling, OriginatorsBelow
  <2>b. /\ ~garbled' /\ cipher' = cipher
        /\ okis' = IF NeedsOriginator THEN fill_originator_key_value(okis) ELSE okis
    BY <1>1, <2>a, CutsInPlace
  <2>2. NeedsOriginator <=> Agrees(ek)
    BY DEF NeedsOriginator, Agrees, Ek
  <2>3. ~(ek < ek)
    BY <1>3
  <2>4. CASE NeedsOriginator
    <3>1. /\ \A i \in DOMAIN Tpl.eks : i # ek => fill_originator_key_value(okis)[i] = okis[i]
          /\ fill_originator_key_value(okis)[ek] = OriginatorKey(Ek)
      BY <1>1, <2>4, FillsOwn DEF Filling
    <3>2. okis' = fill_originator_key_value(okis)
      BY <2>4, <2>b
    <3>3. Ek = Tpl.eks[ek]
      BY DEF Ek
    <3> QED BY <1>3, <2>1, <2>2, <2>3, <2>4, <2>a, <2>b, <3>1, <3>2, <3>3
  <2>5. CASE ~NeedsOriginator
    BY <1>3, <2>1, <2>2, <2>3, <2>5, <2>a, <2>b
  <2> QED BY <2>4, <2>5
<1> QED BY <1>4, <1>5, <1>6, <1>7 DEF Filling

\* An EncryptedKey the loop passes over.
LEMMA FillingSkip ==
    ASSUME ETypeOK, TemplateOK(Tpl), Filling, SkipKey
    PROVE  Filling'
<1>1. /\ MoreKeys /\ Skipped /\ job' = job /\ dkey' = dkey /\ cipher' = cipher /\ cvs' = cvs
      /\ okis' = okis /\ edited' = edited /\ garbled' = garbled /\ epc' = epc
      /\ estatus' = estatus /\ ek' = ek + 1
  BY DEF SkipKey
<1>2. /\ Tpl' = Tpl /\ Sender' = Sender /\ Receiver' = Receiver
      /\ resolve_encryption_key' = resolve_encryption_key /\ Plaintext' = Plaintext
      /\ ToFill' = ToFill /\ NoLookalike' = NoLookalike /\ AgreementFirst' = AgreementFirst
  BY <1>1, JobUnchanged
<1>3. /\ ek \in DOMAIN Tpl.eks /\ ek \notin ToFill
      /\ \A i \in DOMAIN Tpl.eks : i < ek' <=> (i < ek \/ i = ek)
  BY <1>1, AtKey
<1>4. \A i \in ToFill : i \in DOMAIN Tpl.eks /\ (i < ek' <=> i < ek)
  BY <1>3 DEF ToFill
<1>5. LoopEnds' /\ DataEncrypted'
  BY <1>1, <1>2 DEF Filling, LoopEnds, DataEncrypted, DataKeyOK, MoreKeys, ETypeOK
<1>6. Passed'
  BY <1>1, <1>2, <1>4 DEF Filling, Passed
<1>7. FilledBelow'
  BY <1>1, <1>2, <1>4 DEF Filling, FilledBelow, WrappedFor
<1>8. OriginatorsBelow'
  BY <1>1, <1>2, <1>4 DEF Filling, OriginatorsBelow, Agrees, OriginatorKey
<1> QED BY <1>5, <1>6, <1>7, <1>8 DEF Filling

\* The data is encrypted, or encrypt() returns.
LEMMA FillingRest ==
    ASSUME ETypeOK, TemplateOK(Tpl), Filling, EncryptFails \/ EncryptData \/ WrapFails \/ ReturnEncrypted
    PROVE  Filling'
<1>1. /\ job' = job /\ cvs' = cvs /\ okis' = okis /\ edited' = edited /\ garbled' = garbled
      /\ ek' = ek /\ epc' # "start"
  BY DEF EncryptFails, EncryptData, WrapFails, ReturnEncrypted, EStop
<1>2. /\ Tpl' = Tpl /\ Sender' = Sender /\ Receiver' = Receiver
      /\ resolve_encryption_key' = resolve_encryption_key /\ Plaintext' = Plaintext
      /\ ToFill' = ToFill /\ NoLookalike' = NoLookalike /\ AgreementFirst' = AgreementFirst
  BY <1>1, JobUnchanged
<1>3. DOMAIN Tpl.eks = 1 .. Len(Tpl.eks) /\ Len(Tpl.eks) \in Nat
  BY SeqDomain DEF TemplateOK
<1>4. dkey' = dkey \/ \A i \in DOMAIN Tpl.eks : ~(i < ek)
  <2>1. CASE EncryptData
    <3>1. ek = 1
      BY <2>1 DEF EncryptData, Filling, LoopEnds
    <3> QED BY <1>3, <3>1
  <2>2. CASE ~EncryptData
    BY <2>2 DEF EncryptFails, WrapFails, ReturnEncrypted, EStop
  <2> QED BY <2>1, <2>2
<1>5. LoopEnds'
  BY <1>1, <1>2 DEF EncryptFails, EncryptData, WrapFails, ReturnEncrypted, EStop, Filling, LoopEnds,
                    ETypeOK, MoreKeys
<1>6. DataEncrypted'
  <2>1. CASE EncryptData
    BY <1>1, <1>2, <2>1 DEF EncryptData, Refused, DataEncrypted, DataKeyOK
  <2>2. CASE ReturnEncrypted
    BY <1>1, <1>2, <2>2 DEF ReturnEncrypted, EStop, Filling, DataEncrypted, DataKeyOK
  <2>3. CASE EncryptFails \/ WrapFails
    BY <1>1, <2>3 DEF EncryptFails, WrapFails, EStop, DataEncrypted
  <2> QED BY <2>1, <2>2, <2>3
<1>7. Passed'
  BY <1>1, <1>2 DEF Filling, Passed
<1>8. FilledBelow'
  BY <1>1, <1>2, <1>4 DEF Filling, FilledBelow, WrappedFor
<1>9. OriginatorsBelow'
  <2>1. AgreementFirst /\ (epc' = "keys" \/ estatus' = "Ok") => cipher' = <<"data", dkey', Plaintext>>
    BY DEF EncryptFails, EncryptData, WrapFails, ReturnEncrypted, EStop, Filling, OriginatorsBelow
  <2> QED BY <1>1, <1>2, <2>1 DEF Filling, OriginatorsBelow, Agrees, OriginatorKey
<1> QED BY <1>5, <1>6, <1>7, <1>8, <1>9 DEF Filling

\* The invariant of encrypt() and of what is handed over.
EncInv == ETypeOK /\ Handed /\ Filling

\* Every step of encrypt(), of the caller and of decrypt() keeps the invariant.
LEMMA EncInvStep == EncInv /\ [Next]_allvars => EncInv'
<1> SUFFICES ASSUME EncInv, [Next]_allvars PROVE EncInv'
  OBVIOUS
<1>1. ETypeOK' /\ Handed' /\ TemplateOK(Tpl)
  BY HandedStep, TypeStep, DocumentIsTemplate DEF EncInv
<1>2. CASE EncryptStep
  <2>1. Filling'
    BY <1>1, <1>2, FillingWrap, FillingSkip, FillingRest DEF EncryptStep, ENext, EncInv
  <2> QED BY <1>1, <2>1 DEF EncInv
<1>3. CASE ~EncryptStep
  <2>1. UNCHANGED evars
    BY <1>3 DEF Next, Deliver, DecryptStep, Returned, allvars
  <2> QED BY <1>1, <2>1, FillingStutter DEF EncInv
<1> QED BY <1>2, <1>3

\* The invariant holds of every behaviour.
THEOREM EncInvariant == Spec => []EncInv
<1>1. Init => EncInv
  BY TypeInit, FillingInit DEF EncInv
<1> QED BY <1>1, EncInvStep, PTL DEF Spec, allvars

\* Every EncryptedKey to be filled gets the data key wrapped for itself, although the
\* replacements are made by text: the ones before it are filled and no longer look like it,
\* and no KeyValue is put at a stale place, as long as the first one filled is the only one
\* with key agreement.
THEOREM EveryRecipientServed == Spec => []KeysInPlace
<1>1. EncInv => KeysInPlace
  <2> SUFFICES ASSUME EncInv, estatus = "Ok", NoLookalike, AgreementFirst, NEW i \in ToFill
               PROVE  cvs[i] = WrappedFor(i)
    BY DEF KeysInPlace, WrappedFor
  <2>1. DOMAIN Tpl.eks = 1 .. Len(Tpl.eks) /\ Len(Tpl.eks) \in Nat
    BY DocumentIsTemplate, SeqDomain DEF EncInv, TemplateOK
  <2>2. ek > Len(Tpl.eks) /\ ek \in Nat /\ i \in DOMAIN Tpl.eks
    BY <2>1 DEF EncInv, Filling, LoopEnds, ETypeOK, ToFill
  <2>3. i < ek
    BY <2>1, <2>2
  <2> QED BY <2>2, <2>3 DEF EncInv, Filling, FilledBelow
<1> QED BY <1>1, EncInvariant, PTL

-----------------------------------------------------------------------------
(* What decrypt() returns.                                                 *)

\* What decrypt() is given: a ciphertext of the plaintext under a key of the right size,
\* unless a KeyValue was put into it.
LEMMA Delivered ==
    ASSUME EncInv, dpc # "idle"
    PROVE  /\ din.data \in {<<"data", dkey, Plaintext>>, Spoiled} /\ dkey # NoBytes
           /\ AgreementFirst => din.data = <<"data", dkey, Plaintext>>
           /\ dkey = resolve_encryption_key
           /\ dkey.len = din.doc.method.size
           /\ din.doc.method.size \in Nat /\ din.doc.method.size # 0
<1>1. estatus = "Ok" /\ din.data = cipher /\ din.doc.method = Tpl.method /\ TemplateOK(Tpl)
  BY DocumentIsTemplate DEF EncInv, Handed
<1> QED BY <1>1 DEF EncInv, Filling, DataEncrypted, DataKeyOK, TemplateOK, OriginatorsBelow

\* A result comes from the ciphertext alone: octets that were not decoded have no key, nor
\* has a ciphertext that was cut into.
LEMMA RightCiphertext ==
    ASSUME EncInv, dpc # "idle", ~Unreadable, SameKey
    PROVE  CipherBytes = <<"data", dkey, Plaintext>>
<1>1. din.doc.method.size # 0 /\ din.data \in {<<"data", dkey, Plaintext>>, Spoiled}
  BY Delivered
<1>2. CASE CipherBytes \in {<<"undecoded", NoBytes>>, Spoiled}
  <2>1. Effective = NoBytes
    BY <1>2 DEF SameKey, Spoiled
  <2>2. Effective.len = 0
    BY <2>1 DEF NoBytes, Bytes
  <2> QED BY <1>1, <2>2 DEF Unreadable
<1>3. CASE CipherBytes \notin {<<"undecoded", NoBytes>>, Spoiled}
  BY <1>1, <1>3 DEF Unreadable, CipherBytes
<1> QED BY <1>2, <1>3

\* What is returned as data is made from the plaintext.
FromPlaintext == dpc = "done" /\ plain = "Data" => out = Result(Plaintext)

\* Only finishing the text writes out, and it writes the text made of the plaintext.
LEMMA FromPlaintextStep == EncInv /\ FromPlaintext /\ [Next]_allvars => FromPlaintext'
<1> SUFFICES ASSUME EncInv, FromPlaintext, [Next]_allvars PROVE FromPlaintext'
  OBVIOUS
<1>1. EncInv' /\ job' = job
  BY EncInvStep, EncryptKeepsJob DEF Next, EncryptStep, Deliver, DecryptStep, Returned, allvars, evars
<1>2. din.doc.place = Tpl.place /\ TemplateOK(Tpl) /\ Tpl' = Tpl /\ Plaintext' = Plaintext
  BY <1>1, DocumentIsTemplate, JobUnchanged DEF EncInv
<1>3. din'.doc.place = din.doc.place
  <2>1. din'.doc = [Tpl EXCEPT !.parses = din'.doc.parses]
    BY <1>1, <1>2 DEF EncInv, Handed
  <2> QED BY <1>2, <2>1, OnlyParses
<1>4. Result(Plaintext)' = Result(Plaintext)
  BY <1>2, <1>3 DEF Result
<1>5. CASE DecryptData /\ UNCHANGED evars
  <2>1. dpc # "idle" /\ ~Unreadable /\ SameKey /\ out' = Result(CipherBytes[3])
    BY <1>5 DEF DecryptData, Return
  <2>2. CipherBytes[3] = Plaintext
    BY <2>1, RightCiphertext
  <2> QED BY <1>4, <2>1, <2>2 DEF FromPlaintext
<1>6. CASE DNext /\ ~DecryptData
  <2>1. plain' # "Data" \/ dpc' # "done"
    BY <1>6 DEF DNext, DStart, DParseFails, UnwrapChild, UnwrapChildFails, DeriveChild,
                DeriveChildFails, PassChild, EndLoop1, NamedChild, RetrieveChild,
                RetrieveChildFails, SkipChild, ResolveFails, FirstKeyFallback, DataFails,
                DecryptGarbage, Return, DStop, Found, GotoKid
  <2> QED BY <2>1 DEF FromPlaintext
<1>7. CASE ~DecryptStep
  <2>1. UNCHANGED <<plain, out>> /\ (dpc' = "done" => dpc = "done")
    BY <1>7 DEF Next, EncryptStep, Deliver, Returned, allvars, dvars
  <2> QED BY <1>4, <2>1 DEF FromPlaintext
<1> QED BY <1>5, <1>6, <1>7 DEF DecryptStep

\* Whatever is returned as data is the sender's plaintext, put into the document and converted:
\* never another text, never the ciphertext of a wrong key or undecoded octets.
THEOREM OnlyThePlaintext == Spec => []FromPlaintext
<1>1. Init => FromPlaintext
  BY DEF Init, FromPlaintext
<1> QED BY <1>1, EncInvariant, FromPlaintextStep, PTL DEF Spec, allvars

\* Data declared not to be XML comes back character for character, and octet for octet
\* unless it declares ISO-8859-1 itself.
THEOREM OpaqueRestored == Spec => []OpaqueKept
<1>1. EncInv /\ FromPlaintext => OpaqueKept
  <2> SUFFICES ASSUME EncInv, out = Result(Plaintext), IsOpaque(Place)
               PROVE  /\ DOMAIN out = DOMAIN Plaintext
                      /\ \A i \in DOMAIN Plaintext :
                            \/ out[i] = Plaintext[i]
                            \/ DeclaresLatin1(Plaintext) /\ Plaintext[i].k = "hi" /\ out[i] = Plain("hi1")
    BY DEF FromPlaintext, OpaqueKept, Opaque, IsOpaque
  <2>1. din.doc.place = Place
    BY DocumentIsTemplate DEF EncInv, Place
  <2>2. replace_encrypted_data_bytes(Place, Plaintext) = Plaintext
    BY DEF replace_encrypted_data_bytes
  <2>3. out = maybe_convert_encoding(Plaintext)
    BY <2>1, <2>2 DEF Result
  <2>4. CASE HeaderReadable(Plaintext) /\ DeclaresLatin1(Plaintext) /\ Utf8(Plaintext)
    BY <2>3, <2>4 DEF maybe_convert_encoding, utf8_to_latin1
  <2>5. CASE ~(HeaderReadable(Plaintext) /\ DeclaresLatin1(Plaintext) /\ Utf8(Plaintext))
    BY <2>3, <2>5 DEF maybe_convert_encoding, utf8_to_latin1
  <2> QED BY <2>4, <2>5
<1> QED BY <1>1, EncInvariant, OnlyThePlaintext, PTL

-----------------------------------------------------------------------------
(* The text that comes back.                                              *)

\* A reader who goes by the declaration sees the characters that were converted.
LEMMA ReadBack ==
    ASSUME NEW t, t \in Seq(Readable), HeaderReadable(t),
           DeclaresLatin1(t) => /\ t[1].k = "decl" /\ t[1].n = "latin1"
                                /\ \A i \in DOMAIN t : t[i].k # "wide"
    PROVE  AsRead(maybe_convert_encoding(t)) = t
<1> DEFINE c == maybe_convert_encoding(t)
           Latin1(s) == s # <<>> /\ s[1].k = "decl" /\ s[1].n = "latin1"
           Read(s, x) == CASE Latin1(s) /\ x.k = "hi1" -> Plain("hi")
                           [] Latin1(s) /\ x.k \in {"hi", "wide"} -> Broken
                           [] ~Latin1(s) /\ x.k = "hi1" -> Broken
                           [] OTHER -> x
<1>1. AsRead(c) = [i \in DOMAIN c |-> Read(c, c[i])]
  BY DEF AsRead
<1>2. /\ t = [i \in DOMAIN t |-> t[i]] /\ DOMAIN t = 1 .. Len(t)
      /\ \A i \in DOMAIN t : t[i].k # "hi1" /\ (t[i].k = "hi" => t[i] = Plain("hi"))
  <2>1. \A x \in Readable : x.k # "hi1" /\ (x.k = "hi" => x = Plain("hi"))
    BY DEF Readable, Token, NotUtf8
  <2>2. t = [i \in DOMAIN t |-> t[i]] /\ DOMAIN t = 1 .. Len(t) /\ \A i \in DOMAIN t : t[i] \in Readable
    OBVIOUS
  <2> QED BY <2>1, <2>2
<1>3. Plain("hi1").k = "hi1" /\ Plain("hi").k = "hi"
  BY DEF Plain, Tok
<1>4. CASE DeclaresLatin1(t)
  <2>1. Utf8(t)
    BY DEF Utf8, Readable
  <2>2. c = [i \in DOMAIN t |-> IF t[i].k = "hi" THEN Plain("hi1") ELSE t[i]]
    BY <1>4, <2>1 DEF maybe_convert_encoding, utf8_to_latin1
  <2>3. 1 \in DOMAIN t
    <3>1. t # <<>>
      BY <1>4 DEF DeclaresLatin1
    <3> QED BY <1>2, <3>1
  <2>4. DOMAIN c = DOMAIN t /\ c[1] = t[1] /\ c # <<>>
    BY <1>4, <2>2, <2>3
  <2>5. Latin1(c)
    BY <1>4, <2>4
  <2>6. ASSUME NEW i \in DOMAIN t PROVE Read(c, c[i]) = t[i]
    <3> DEFINE y == c[i]
    <3>1. y = IF t[i].k = "hi" THEN Plain("hi1") ELSE t[i]
      BY <2>2
    <3> HIDE DEF c, y, Latin1
    <3>2. CASE t[i].k = "hi"
      <4>1. y.k = "hi1"
        BY <1>3, <3>1, <3>2
      <4>2. Read(c, y) = Plain("hi")
        BY <2>5, <4>1
      <4> QED BY <1>2, <3>2, <4>2 DEF y
    <3>3. CASE t[i].k # "hi"
      <4>1. y = t[i] /\ y.k # "hi" /\ y.k # "hi1" /\ y.k # "wide"
        BY <1>2, <1>4, <3>1, <3>3
      <4>2. Read(c, y) = y
        BY <2>5, <4>1
      <4> QED BY <4>1, <4>2 DEF y
    <3> QED BY <3>2, <3>3
  <2> HIDE DEF c, Read
  <2> QED BY <1>1, <1>2, <2>4, <2>6 DEF c
<1>5. CASE ~DeclaresLatin1(t)
  <2>1. c = t
    BY <1>5 DEF maybe_convert_encoding
  <2>2. ~Latin1(t)
    BY <1>5, FirstInHeader
  <2> HIDE DEF c, Latin1
  <2>3. ASSUME NEW i \in DOMAIN t PROVE Read(t, t[i]) = t[i]
    BY <1>2, <2>2
  <2> HIDE DEF Read
  <2> QED BY <1>1, <1>2, <2>1, <2>3 DEF c
<1> QED BY <1>4, <1>5

\* The texts of a job.
LEMMA JobTexts ==
    ASSUME job \in Jobs
    PROVE  Place.before \in Seq(Token) /\ Place.after \in Seq(Token) /\ Plaintext \in Seq(Token)
<1>1. TextsOK(job)
  BY EncJobsAssumption
<1>2. Place.before \in Seq(Token) /\ Place.after \in Seq(Token) /\ job.data \in Seq(Token)
  BY <1>1 DEF TextsOK, Place, Tpl
<1>3. job.node # <<>> => extract_node_data(job.data, job.node[1]) \in Seq(Token)
  <2> SUFFICES ASSUME job.node # <<>> PROVE extract_node_data(job.data, job.node[1]) \in Seq(Token)
    OBVIOUS
  <2>1. ElementsEnd(job.data)
    BY <1>1 DEF TextsOK
  <2> QED BY <1>2, <2>1, NodeType
<1> QED BY <1>2, <1>3 DEF Plaintext, Payload

\* What decrypt() returns means what the document with the plaintext in its place means, for
\* every text: normalize_line_endings, normalize_empty_elements and
\* normalize_self_closing_space, once on the plaintext and once more on the whole document,
\* the prolog of replace_encrypted_data_bytes and maybe_convert_encoding change nothing a
\* reader is told, as long as the search for empty elements cannot be misled.
THEOREM PlaintextComesBack == Spec => []PlaintextRestored
<1>1. EncInv /\ FromPlaintext => PlaintextRestored
  <2> SUFFICES ASSUME EncInv, FromPlaintext, Comparable, Regular PROVE Restored
    BY DEF PlaintextRestored
  <2>1. job \in Jobs /\ din.doc.place = Place
    BY DocumentIsTemplate DEF EncInv, Handed, Place
  <2>2. out = maybe_convert_encoding(Spliced)
    BY <2>1 DEF FromPlaintext, Comparable, Result, Spliced
  <2>3. Place.before \in Seq(Readable) /\ Place.after \in Seq(Readable) /\ Plaintext \in Seq(Readable)
    <3>1. Utf8(Place.before \o Plaintext \o Place.after)
      BY DEF Comparable, Whole
    <3>2. Place.before \in Seq(Token) /\ Place.after \in Seq(Token) /\ Plaintext \in Seq(Token)
      BY <2>1, JobTexts
    <3> QED BY <3>1, <3>2, Utf8Parts
  <2>4. ~IsOpaque(Place)
    BY DEF Comparable, IsOpaque
  <2>5. /\ Embeddable
        /\ IsRoot(Place) => Tidy(Plaintext)
        /\ ~IsRoot(Place) => Tidy(Place.before \o Plaintext \o Place.after) /\ Steady(Place.before \o Plaintext \o Place.after)
    BY DEF Comparable, Regular, Meant, Whole
  <2>6. Spliced \in Seq(Readable) /\ Inner(Meaning(Spliced)) = Inner(Meaning(Meant))
    BY <2>3, <2>4, <2>5, SplicedMeans DEF Embeddable, Spliced, Meant, Whole
  <2>7. AsRead(out) = Spliced
    BY <2>2, <2>6, ReadBack DEF Comparable, Convertible
  <2> QED BY <2>6, <2>7 DEF Restored
<1> QED BY <1>1, EncInvariant, OnlyThePlaintext, PTL

-----------------------------------------------------------------------------
(* A CipherReference that leads to the ciphertext.                         *)

\* The transforms of a CipherReference, one after the other.
LEMMA TransformsApplied ==
    ASSUME NEW r, NEW b, r.transforms \in {<<"Base64">>, <<"XPath", "Base64">>},
           r.uri = "#", ById(r.els, r.id) # 0, b = r.els[ById(r.els, r.id)].text
    PROVE  resolve_cipher_reference(r) =
              IF r.transforms = <<"Base64">> THEN CipherTransform(b, "Base64", r)
              ELSE CipherTransform(CipherTransform(b, "XPath", r), "Base64", r)
<1> DEFINE base == CASE r.uri = "" -> IF r.only THEN "b64" ELSE "mixed"
                     [] r.uri = "#" -> IF ById(r.els, r.id) = 0 THEN "Err" ELSE r.els[ById(r.els, r.id)].text
                     [] OTHER -> "Err"
           ts == r.transforms
           S == DOMAIN ts
           Step(iter, s) == IF s = {} THEN base ELSE CipherTransform(iter[s \ {Max(s)}], ts[Max(s)], r)
           W == CHOOSE iter : iter = [s \in SUBSET S |-> Step(iter, s)]
           f1 == CipherTransform(base, ts[1], r)
           f2 == CipherTransform(f1, ts[2], r)
           v == [s \in SUBSET S |-> IF s = {} THEN base
                                   ELSE IF s = {1} THEN f1
                                   ELSE IF s = {2} THEN CipherTransform(base, ts[2], r) ELSE f2]
<1>0. resolve_cipher_reference(r) = W[S]
  BY DEF resolve_cipher_reference, FoldLeft, MapThenFoldSet
<1>a. base = b
  OBVIOUS
<1> HIDE DEF base
<1>1. S = {1} \/ S = {1, 2}
  OBVIOUS
<1>2. Max({1}) = 1 /\ Max({2}) = 2 /\ Max({1, 2}) = 2
  BY DEF Max
<1>3. v = [s \in SUBSET S |-> Step(v, s)]
  <2>1. ASSUME NEW s \in SUBSET S PROVE v[s] = Step(v, s)
    <3>1. s = {} \/ s = {1} \/ s = {2} \/ s = {1, 2}
      BY <1>1
    <3>2. CASE s = {}
      BY <3>2
    <3>3. CASE s = {1}
      BY <1>2, <3>3
    <3>4. CASE s = {2}
      BY <1>2, <3>4
    <3>5. CASE s = {1, 2}
      BY <1>2, <3>5
    <3> QED BY <3>1, <3>2, <3>3, <3>4, <3>5
  <2> QED BY <2>1
<1>4. W = [s \in SUBSET S |-> Step(W, s)]
  <2> DEFINE F(g) == g = [s \in SUBSET S |-> Step(g, s)]
  <2>1. \E g : F(g)
    BY <1>3
  <2>2. W = CHOOSE g : F(g)
    OBVIOUS
  <2> HIDE DEF F, W
  <2>3. F(W)
    BY <2>1, <2>2
  <2> QED BY <2>3 DEF F
<1> HIDE DEF W
<1>5. W[{}] = base /\ W[{1}] = CipherTransform(base, ts[1], r)
  <2>1. {} \in SUBSET S /\ {1} \in SUBSET S
    BY <1>1
  <2>2. W[{}] = base
    BY <1>4, <2>1
  <2>3. W[{1}] = CipherTransform(W[{1} \ {1}], ts[1], r)
    BY <1>2, <1>4, <2>1
  <2>4. {1} \ {1} = {}
    OBVIOUS
  <2> QED BY <2>2, <2>3, <2>4
<1>6. CASE ts = <<"Base64">>
  <2>1. S = {1} /\ ts[1] = "Base64"
    BY <1>6
  <2> QED BY <1>0, <1>5, <1>6, <1>a, <2>1
<1>7. CASE ts = <<"XPath", "Base64">>
  <2>1. /\ S = {1, 2} /\ {1, 2} \in SUBSET S /\ {1, 2} \ {2} = {1}
        /\ ts # <<"Base64">> /\ ts[1] = "XPath" /\ ts[2] = "Base64"
    BY <1>7
  <2>2. W[{1, 2}] = CipherTransform(W[{1, 2} \ {2}], ts[2], r)
    BY <1>2, <1>4, <2>1
  <2> QED BY <1>0, <1>5, <1>a, <2>1, <2>2
<1> QED BY <1>6, <1>7

\* One element has the ID: the ID map and the lookup by ID and name find it.
LEMMA OneElement ==
    ASSUME NEW r, ReferenceOK(r), NEW i \in DOMAIN r.els,
           r.els[i] = [id |-> r.id, name |-> r.name, text |-> "b64"],
           \A j \in DOMAIN r.els \ {i} : r.els[j].id # r.id
    PROVE  ById(r.els, r.id) = i /\ i # 0 /\ apply_cipher_ref_xpath(r) = "b64"
<1>1. i \in Nat /\ i # 0
  BY SeqDomain DEF ReferenceOK
<1>2. r.els[i].id = r.id /\ r.els[i].name = r.name /\ r.els[i].text = "b64"
  OBVIOUS
<1>3. {j \in DOMAIN r.els : r.els[j].id = r.id} = {i}
  BY <1>2
<1>4. Max({i}) = i
  BY <1>1 DEF Max
<1>5. ById(r.els, r.id) = i
  BY <1>3, <1>4 DEF ById
<1>6. r.name # "unsupported"
  BY <1>2 DEF ReferenceOK
<1>7. apply_cipher_ref_xpath(r) = "b64"
  BY <1>1, <1>2, <1>5, <1>6 DEF apply_cipher_ref_xpath
<1> QED BY <1>1, <1>5, <1>7

\* resolve_cipher_reference returns the ciphertext of such a reference.
LEMMA ReferenceResolves ==
    ASSUME NEW r, ReferenceOK(r), NEW i \in DOMAIN r.els,
           r.uri = "#", r.transforms \in {<<"Base64">>, <<"XPath", "Base64">>},
           r.els[i] = [id |-> r.id, name |-> r.name, text |-> "b64"],
           \A j \in DOMAIN r.els \ {i} : r.els[j].id # r.id
    PROVE  resolve_cipher_reference(r) = "octets"
<1>1. ById(r.els, r.id) = i /\ i # 0 /\ apply_cipher_ref_xpath(r) = "b64" /\ r.els[i].text = "b64"
  BY OneElement
<1>2. CipherTransform("b64", "XPath", r) = "b64" /\ CipherTransform("b64", "Base64", r) = "octets"
  BY <1>1 DEF CipherTransform
<1> QED BY <1>1, <1>2, TransformsApplied

\* The receiver reads the ciphertext, wherever the application has put it.
LEMMA ReachesCiphertext ==
    ASSUME EncInv, dpc # "idle", Reachable
    PROVE  CipherBytes = din.data
<1>1. /\ din.cref = job.detached /\ din.ctx = Receiver /\ IsSeq(job.detached)
      /\ \A r \in ToSet(job.detached) : ReferenceOK(r)
  BY DocumentIsTemplate, EncJobsAssumption DEF EncInv, Handed
<1>2. CASE job.detached = <<>>
  BY <1>1, <1>2 DEF CipherBytes
<1>3. CASE job.detached # <<>>
  <2> DEFINE r == din.cref[1]
  <2>1. r \in ToSet(job.detached)
    <3>1. 1 \in DOMAIN job.detached
      BY <1>1, <1>3, SeqDomain DEF IsSeq
    <3> QED BY <1>1, <3>1 DEF ToSet
  <2>2. ReferenceOK(r) /\ ~Receiver.disable_cipher_reference /\ r.uri = "#"
        /\ r.transforms \in {<<"Base64">>, <<"XPath", "Base64">>}
    BY <1>1, <2>1 DEF Reachable
  <2>3. PICK i \in DOMAIN r.els : /\ r.els[i] = [id |-> r.id, name |-> r.name, text |-> "b64"]
                                 /\ \A j \in DOMAIN r.els \ {i} : r.els[j].id # r.id
    BY <2>1 DEF Reachable
  <2>4. resolve_cipher_reference(r) = "octets"
    BY <2>2, <2>3, ReferenceResolves
  <2> QED BY <1>1, <1>3, <2>2, <2>4 DEF CipherBytes
<1> QED BY <1>2, <1>3

\* With the sender's key the data is readable.
LEMMA RightKeyReads ==
    ASSUME EncInv, dpc = "data", found = dkey, Reachable, AgreementFirst
    PROVE  ~Unreadable /\ SameKey
<1>1. CipherBytes = <<"data", dkey, Plaintext>> /\ dkey.len = din.doc.method.size
      /\ din.doc.method.size \in Nat
  BY ReachesCiphertext, Delivered
<1>2. Effective = dkey
  BY <1>1 DEF Effective
<1> QED BY <1>1, <1>2 DEF Unreadable, SameKey

-----------------------------------------------------------------------------
(* Multi-recipient encryption.                                             *)

\* The receiver looks at the OriginatorKeyInfo.
LooksAtOriginator(e, c) == e.method = "KwAes" /\ ~c.hsm.kw.on /\ e.agree # <<>>

\* Only key agreement does.
LEMMA OriginatorUnused ==
    ASSUME NEW e, NEW c, NEW p, NEW q, ~LooksAtOriginator(e, c)
    PROVE  UnwrapKek(e, c, p) = UnwrapKek(e, c, q)
BY DEF UnwrapKek, LooksAtOriginator

\* A key that was agreed on is no key of an HSM.
LEMMA AgreedIsNoHsmKey ==
    ASSUME NEW e, NEW c, NEW p, NEW h, LooksAtOriginator(e, c), HsmKek(h, e) # NoBytes
    PROVE  UnwrapKek(e, c, p) # HsmKek(h, e)
<1>1. UnwrapKek(e, c, p) = resolve_agreement_method_kek(e.agree[1], c.keys, p, e.size)
  BY DEF UnwrapKek, LooksAtOriginator
<1>2. HsmKek(h, e).val = <<"raw", h.mat>>
  BY DEF HsmKek, Bytes
<1>3. \A m, n, k, z : Agreed(m, n, k, z).val = <<"dh", {m, n}, k>>
  BY DEF Agreed, Bytes
<1>4. UnwrapKek(e, c, p) = NoBytes \/ \E m, n, k, z : UnwrapKek(e, c, p) = Agreed(m, n, k, z)
  BY <1>1 DEF resolve_agreement_method_kek
<1>5. CASE \E m, n, k, z : UnwrapKek(e, c, p) = Agreed(m, n, k, z)
  <2>1. PICK m, n, k, z : UnwrapKek(e, c, p) = Agreed(m, n, k, z)
    BY <1>5
  <2>2. UnwrapKek(e, c, p).val[1] = "dh"
    BY <1>3, <2>1
  <2>3. HsmKek(h, e).val[1] = "raw"
    BY <1>2
  <2> QED BY <2>2, <2>3
<1> QED BY <1>4, <1>5

\* The key-encryption key the receiver selects for an EncryptedKey that was filled is the
\* sender's iff it is meant for the receiver: its KeyValue is as it should be.
LEMMA KekOfReceiver ==
    ASSUME EncInv, dpc # "idle", AgreementFirst, NEW i \in ToFill
    PROVE  /\ Usable(WrapKek(Tpl.eks[i], Sender), Tpl.eks[i])
           /\ UnwrapKek(Tpl.eks[i], Receiver, okis[i]) = WrapKek(Tpl.eks[i], Sender) <=> ForReceiver(i)
<1> DEFINE e == Tpl.eks[i]
<1>1. i \in DOMAIN Tpl.eks /\ i < ek
  <2>1. estatus = "Ok" /\ DOMAIN Tpl.eks = 1 .. Len(Tpl.eks) /\ Len(Tpl.eks) \in Nat
    BY DocumentIsTemplate, SeqDomain DEF EncInv, Handed, TemplateOK
  <2>2. ek > Len(Tpl.eks) /\ ek \in Nat /\ i \in DOMAIN Tpl.eks
    BY <2>1 DEF EncInv, Filling, LoopEnds, ETypeOK, ToFill
  <2> QED BY <2>1, <2>2
<1>2. Usable(WrapKek(e, Sender), e)
  BY <1>1 DEF EncInv, Filling, Passed
<1>3. CASE ~LooksAtOriginator(e, Receiver)
  <2>1. UnwrapKek(e, Receiver, okis[i]) = UnwrapKek(e, Receiver, Originator(e))
    BY <1>3, OriginatorUnused
  <2> QED BY <1>2, <2>1 DEF ForReceiver
<1>4. CASE LooksAtOriginator(e, Receiver) /\ Sender.hsm.kw.on
  <2>1. WrapKek(e, Sender) = HsmKek(Sender.hsm.kw, e) /\ WrapKek(e, Sender) # NoBytes
    BY <1>2, <1>4 DEF WrapKek, LooksAtOriginator, Usable
  <2>2. \A p : UnwrapKek(e, Receiver, p) # WrapKek(e, Sender)
    BY <1>4, <2>1, AgreedIsNoHsmKey
  <2> QED BY <1>2, <2>2 DEF ForReceiver
<1>5. CASE LooksAtOriginator(e, Receiver) /\ ~Sender.hsm.kw.on
  <2>1. Agrees(i)
    BY <1>5 DEF Agrees, LooksAtOriginator
  <2>2. okis[i] = OriginatorKey(e)
    BY <1>1, <2>1 DEF EncInv, Filling, OriginatorsBelow
  <2>3. WrapKek(e, Sender) = resolve_agreement_method_encrypt(e.agree[1], Sender.keys, e.size)
    BY <1>5 DEF WrapKek, LooksAtOriginator
  <2>4. resolve_originator_key(e.agree[1], Sender.keys) # 0
    BY <1>2, <2>3 DEF resolve_agreement_method_encrypt, Usable
  <2>5. Originator(e) = OriginatorKey(e)
    BY <1>5, <2>4 DEF Originator, LooksAtOriginator
  <2> QED BY <1>2, <2>2, <2>5 DEF ForReceiver
<1> QED BY <1>3, <1>4, <1>5

\* Decrypting an EncryptedKey that was filled: the data key for the one it is meant for, an
\* error for everybody else.
LEMMA UnwrapsOwn ==
    ASSUME EncInv, dpc # "idle", NoLookalike, AgreementFirst, NEW i \in ToFill,
           Tpl.eks[i].method = "Cipher" => Tpl.eks[i].auth \/ ForReceiver(i)
    PROVE  /\ ForReceiver(i) => decrypt_encrypted_key(i) = {dkey}
           /\ ~ForReceiver(i) => decrypt_encrypted_key(i) = {NoBytes}
<1> DEFINE e == Tpl.eks[i]
           kek == UnwrapKek(e, Receiver, okis[i])
<1>1. /\ Eks[i] = e /\ din.ctx = Receiver /\ din.okis[i] = okis[i] /\ din.cvs[i] = cvs[i]
  BY DocumentIsTemplate DEF EncInv, Handed, Eks
<1>2. cvs[i] = <<"wrapped", WrapKek(e, Sender), dkey>>
  <2>1. estatus = "Ok" /\ DOMAIN Tpl.eks = 1 .. Len(Tpl.eks) /\ Len(Tpl.eks) \in Nat
    BY DocumentIsTemplate, SeqDomain DEF EncInv, Handed, TemplateOK
  <2>2. ek > Len(Tpl.eks) /\ ek \in Nat /\ i \in DOMAIN Tpl.eks
    BY <2>1 DEF EncInv, Filling, LoopEnds, ETypeOK, ToFill
  <2>3. i < ek
    BY <2>1, <2>2
  <2> QED BY <2>2, <2>3 DEF EncInv, Filling, FilledBelow, WrappedFor
<1>3. Len(cvs[i]) = 3 /\ cvs[i][2] = WrapKek(e, Sender) /\ cvs[i][3] = dkey
  BY <1>2
<1>4. e.method # "missing" /\ Usable(WrapKek(e, Sender), e) /\ (kek = WrapKek(e, Sender) <=> ForReceiver(i))
  BY KekOfReceiver DEF ToFill
<1>5. decrypt_encrypted_key(i) = IF ~Usable(kek, e) THEN {NoBytes}
                                 ELSE IF cvs[i][2] = kek THEN {cvs[i][3]}
                                 ELSE IF e.method = "Cipher" /\ ~e.auth THEN {NoBytes, WrongBytes}
                                 ELSE {NoBytes}
  BY <1>1, <1>3, <1>4 DEF decrypt_encrypted_key
<1> HIDE DEF e, kek
<1>6. e.method = "Cipher" => e.auth \/ ForReceiver(i)
  BY DEF e
<1> QED BY <1>3, <1>4, <1>5, <1>6

\* What the sender and the receiver have to do with each other, by the input alone.
Intended ==
    /\ NoDerived /\ NoLookalike /\ AgreementFirst /\ Reachable
    /\ KidKeys \subseteq ToFill
    /\ \E i \in KidKeys : ForReceiver(i)
    /\ \A i \in KidKeys : Tpl.eks[i].method = "Cipher" => Tpl.eks[i].auth \/ ForReceiver(i)

\* Whom a document is meant for is settled by the template, which no step changes.
LEMMA IntendedUnchanged ==
    ASSUME job' = job
    PROVE  /\ Intended' <=> Intended
           /\ \A i : ForReceiver(i)' <=> ForReceiver(i)
<1>1. /\ Tpl' = Tpl /\ Sender' = Sender /\ Receiver' = Receiver
      /\ ToFill' = ToFill /\ NoLookalike' = NoLookalike /\ AgreementFirst' = AgreementFirst
  BY JobUnchanged
<1>2. \A i : ForReceiver(i)' <=> ForReceiver(i)
  BY <1>1 DEF ForReceiver, Originator, OriginatorKey
<1>3. KidKeys' = KidKeys /\ (NoDerived' <=> NoDerived)
  BY <1>1 DEF KidKeys, NoDerived
<1>4. Reachable' <=> Reachable
  BY <1>1 DEF Reachable
<1> QED BY <1>1, <1>2, <1>3, <1>4 DEF Intended

\* The search of a receiver that an EncryptedKey is meant for: it does not get past that
\* EncryptedKey, and what it finds is the data key.
Searching == Intended =>
    /\ dpc = "wrapped" =>
          \A k \in DOMAIN Tpl.kids : k < kid /\ Tpl.kids[k].t = "EncryptedKey" => ~ForReceiver(Tpl.kids[k].ek)
    /\ dpc # "named"
    /\ dpc = "data" => found = dkey
    /\ dpc = "done" => plain = "Data"

\* The child the first loop is at.
LEMMA AtChild ==
    ASSUME EncInv, InLoop1
    PROVE  /\ kid \in DOMAIN Tpl.kids /\ Child = Tpl.kids[kid]
           /\ \A k \in DOMAIN Tpl.kids : k < kid + 1 <=> (k < kid \/ k = kid)
           /\ Child.t = "EncryptedKey" => Child.ek \in KidKeys
<1>1. Kids = Tpl.kids /\ DOMAIN Tpl.kids = 1 .. Len(Tpl.kids) /\ Len(Tpl.kids) \in Nat
  BY DocumentIsTemplate, SeqDomain DEF EncInv, TemplateOK, Kids
<1>2. kid \in DOMAIN Tpl.kids
  BY <1>1 DEF InLoop1, EncInv, ETypeOK
<1>3. \A k \in DOMAIN Tpl.kids : k < kid + 1 <=> (k < kid \/ k = kid)
  BY <1>1, <1>2
<1>4. Child = Tpl.kids[kid]
  BY <1>1 DEF Child
<1> QED BY <1>2, <1>3, <1>4 DEF KidKeys

\* One step of decrypt().
LEMMA SearchingDecrypt ==
    ASSUME EncInv, Intended, Searching, DNext, UNCHANGED evars
    PROVE  Searching'
<1>1. /\ job' = job /\ dkey' = dkey /\ Tpl' = Tpl
      /\ \A i : ForReceiver(i)' <=> ForReceiver(i)
  BY JobUnchanged, IntendedUnchanged DEF evars
<1>2. \A i \in KidKeys : /\ ForReceiver(i) => decrypt_encrypted_key(i) = {dkey}
                         /\ ~ForReceiver(i) => decrypt_encrypted_key(i) = {NoBytes}
  <2> TAKE i \in KidKeys
  <2>1. dpc # "idle" /\ i \in ToFill /\ (Tpl.eks[i].method = "Cipher" => Tpl.eks[i].auth \/ ForReceiver(i))
    BY DecryptKeepsInput DEF Intended
  <2> QED BY <2>1, UnwrapsOwn DEF Intended
<1>3. dkey # NoBytes
  BY Delivered, DecryptKeepsInput
<1>4. CASE DStart
  <2>1. kid' = 1 /\ dpc' = "wrapped"
    BY <1>4 DEF DStart, GotoKid
  <2>2. DOMAIN Tpl.kids = 1 .. Len(Tpl.kids)
    BY DocumentIsTemplate, SeqDomain DEF EncInv, TemplateOK
  <2> QED BY <1>1, <2>1, <2>2 DEF Searching
<1>5. CASE DParseFails
  BY <1>5 DEF DParseFails, EncInv, Handed, Filling, OriginatorsBelow, Intended
<1>6. CASE UnwrapChild
  <2>1. InLoop1 /\ Child.t = "EncryptedKey"
    BY <1>6 DEF UnwrapChild
  <2>2. PICK k \in decrypt_encrypted_key(Child.ek) \ {NoBytes} : Found(k, "EncryptedKey")
    BY <1>6 DEF UnwrapChild
  <2>3. k = dkey
    BY <1>2, <2>1, <2>2, AtChild
  <2> QED BY <1>1, <2>2, <2>3 DEF Found, Searching
<1>7. CASE UnwrapChildFails
  <2>1. InLoop1 /\ Child.t = "EncryptedKey" /\ NoBytes \in decrypt_encrypted_key(Child.ek)
        /\ kid' = kid + 1 /\ dpc' = "wrapped" /\ dpc = "wrapped"
    BY <1>7 DEF UnwrapChildFails, GotoKid, InLoop1
  <2>2. ~ForReceiver(Child.ek) /\ Child = Tpl.kids[kid]
    BY <1>2, <1>3, <2>1, AtChild
  <2>3. \A k \in DOMAIN Tpl.kids : k < kid' <=> (k < kid \/ k = kid)
    BY <2>1, AtChild
  <2> QED BY <1>1, <2>1, <2>2, <2>3 DEF Searching
<1>8. CASE PassChild
  <2>1. InLoop1 /\ Child.t # "EncryptedKey" /\ kid' = kid + 1 /\ dpc' = "wrapped" /\ dpc = "wrapped"
    BY <1>8 DEF PassChild, GotoKid, InLoop1
  <2>2. Child = Tpl.kids[kid] /\ \A k \in DOMAIN Tpl.kids : k < kid' <=> (k < kid \/ k = kid)
    BY <2>1, AtChild
  <2> QED BY <1>1, <2>1, <2>2 DEF Searching
<1>9. CASE DeriveChild \/ DeriveChildFails
  <2>1. InLoop1 /\ Child.t = "DerivedKey"
    BY <1>9 DEF DeriveChild, DeriveChildFails
  <2> QED BY <2>1, AtChild DEF Intended, NoDerived
<1>10. CASE EndLoop1
  <2>1. dpc = "wrapped" /\ kid > Len(Kids) /\ kid \in Nat
    BY <1>10 DEF EndLoop1, EncInv, ETypeOK
  <2>2. Kids = Tpl.kids /\ DOMAIN Tpl.kids = 1 .. Len(Tpl.kids) /\ Len(Tpl.kids) \in Nat
    BY DocumentIsTemplate, SeqDomain DEF EncInv, TemplateOK, Kids
  <2>3. \A k \in DOMAIN Tpl.kids : k < kid
    BY <2>1, <2>2
  <2>4. \A i \in KidKeys : ~ForReceiver(i)
    BY <2>1, <2>3 DEF KidKeys, Searching
  <2> QED BY <2>4 DEF Intended
<1>11. CASE NamedChild \/ RetrieveChild \/ RetrieveChildFails \/ SkipChild \/ ResolveFails \/ FirstKeyFallback
  <2>1. dpc = "named"
    BY <1>11 DEF NamedChild, RetrieveChild, RetrieveChildFails, SkipChild, ResolveFails,
                 FirstKeyFallback, InLoop2, NoChildKey
  <2> QED BY <2>1 DEF Searching
<1>12. CASE DataFails \/ DecryptGarbage \/ DecryptData
  <2>1. dpc = "data"
    BY <1>12 DEF DataFails, DecryptGarbage, DecryptData
  <2>2. ~Unreadable /\ SameKey
    BY <2>1, RightKeyReads DEF Searching, Intended
  <2>3. DecryptData
    BY <1>12, <2>2 DEF DataFails, DecryptGarbage
  <2> QED BY <2>3 DEF DecryptData, Return, Searching
<1> QED BY <1>4, <1>5, <1>6, <1>7, <1>8, <1>9, <1>10, <1>11, <1>12 DEF DNext

\* The search is kept on its way by every step.
LEMMA SearchingStep == EncInv /\ Searching /\ [Next]_allvars => Searching'
<1> SUFFICES ASSUME EncInv, Searching, [Next]_allvars, Intended' PROVE Searching'
  BY DEF Searching
<1>1. job' = job
  BY EncryptKeepsJob DEF Next, EncryptStep, Deliver, DecryptStep, Returned, allvars, evars
<1>2. Intended /\ Tpl' = Tpl /\ \A i : ForReceiver(i)' <=> ForReceiver(i)
  BY <1>1, JobUnchanged, IntendedUnchanged
<1>3. CASE EncryptStep
  <2>1. dpc' = "idle"
    BY <1>3, EncryptKeepsJob DEF EncryptStep, EncInv, Handed, ETypeOK, dvars
  <2> QED BY <2>1 DEF Searching
<1>4. CASE Deliver
  BY <1>4 DEF Deliver, Searching
<1>5. CASE DecryptStep
  BY <1>2, <1>5, SearchingDecrypt DEF DecryptStep
<1>6. CASE UNCHANGED allvars
  BY <1>2, <1>6 DEF allvars, evars, dvars, Searching
<1> QED BY <1>3, <1>4, <1>5, <1>6 DEF Next, Returned, allvars

\* A receiver that one of the EncryptedKeys is meant for gets the data, for every number and
\* order of recipients, kinds of key-encryption keys and places of the ciphertext.
THEOREM EveryRecipientReads == Spec => []AnyRecipientDecrypts
<1>1. Init => Searching
  BY DEF Init, Searching
<1>2. Spec => []Searching
  BY <1>1, EncInvariant, SearchingStep, PTL DEF Spec, allvars
<1>3. Searching => AnyRecipientDecrypts
  BY DEF Searching, AnyRecipientDecrypts, Intended
<1> QED BY <1>2, <1>3, PTL

-----------------------------------------------------------------------------
(* Shared keys: both sides select by themselves.                           *)

\* Sender and receiver hold the same keys and the KeyInfo has no EncryptedKey, by the
\* input alone.
SameKeys ==
    /\ DerivedFirst /\ AgreementFirst /\ Reachable
    /\ \A k \in DOMAIN Tpl.kids : Tpl.kids[k].t \notin {"EncryptedKey", "RetrievalMethod"}
    /\ Receiver.keys = Sender.keys

\* Children that return no key to the sender.
Keyless(k) == ChildBytes(Tpl.kids[k]) = NoBytes

\* The condition on the two managers is settled by the job, which no step changes.
LEMMA SameKeysUnchanged ==
    ASSUME job' = job
    PROVE  (SameKeys' <=> SameKeys) /\ \A k : Keyless(k)' <=> Keyless(k)
<1>1. Tpl' = Tpl /\ Sender' = Sender /\ Receiver' = Receiver /\ (AgreementFirst' <=> AgreementFirst)
  BY JobUnchanged
<1>2. (DerivedFirst' <=> DerivedFirst) /\ (Reachable' <=> Reachable)
  BY <1>1 DEF DerivedFirst, Reachable
<1>3. \A k : Keyless(k)' <=> Keyless(k)
  BY <1>1 DEF Keyless, ChildBytes, SessionBytes
<1> QED BY <1>1, <1>2, <1>3 DEF SameKeys

\* resolve_encryption_key takes the first child that returns a key.
LEMMA FirstChildTaken ==
    ASSUME TemplateOK(Tpl), NEW k \in DOMAIN Tpl.kids, ~Keyless(k),
           \A j \in DOMAIN Tpl.kids : j < k => Keyless(j)
    PROVE  resolve_encryption_key = ChildBytes(Tpl.kids[k])
<1> DEFINE S == {i \in DOMAIN Tpl.kids : ChildBytes(Tpl.kids[i]) # NoBytes}
<1>1. IsSeq(Tpl.kids) /\ k # 0
  BY SeqDomain DEF TemplateOK
<1>2. k \in S /\ \A j \in S : ~(j < k)
  BY DEF Keyless
<1>3. S \in SUBSET (DOMAIN Tpl.kids)
  OBVIOUS
<1> HIDE DEF S
<1>4. FirstOf(S) = k
  BY <1>1, <1>2, <1>3, FindsFirst
<1>5. FirstKid = k
  BY <1>4 DEF FirstKid, S
<1> QED BY <1>1, <1>5 DEF resolve_encryption_key

\* Without one, the first key of the manager encrypts, or a session key.
LEMMA NoChildTaken ==
    ASSUME TemplateOK(Tpl), IsSeq(Sender.keys), \A j \in DOMAIN Tpl.kids : Keyless(j),
           resolve_encryption_key # NoBytes, resolve_encryption_key.val # <<"session">>
    PROVE  /\ ~DerivationFailed
           /\ resolve_encryption_key = SymmetricBytes(Sender.keys, first_key(Sender.keys))
<1>1. FirstKid = 0
  <2> DEFINE S == {i \in DOMAIN Tpl.kids : ChildBytes(Tpl.kids[i]) # NoBytes}
  <2>1. S = {}
    BY DEF Keyless
  <2> QED BY <2>1 DEF FirstKid, FirstOf
<1>2. ~DerivationFailed /\ Sender.keys # <<>>
  BY <1>1 DEF resolve_encryption_key
<1>3. SessionBytes.val = <<"session">>
  BY DEF SessionBytes, Bytes
<1>4. resolve_encryption_key = SymmetricBytes(Sender.keys, 1)
  BY <1>1, <1>2, <1>3 DEF resolve_encryption_key
<1>5. first_key(Sender.keys) = 1
  BY <1>2 DEF first_key, IsSeq
<1> QED BY <1>2, <1>4, <1>5

\* The receiver's view of a child is the sender's.
LEMMA SameSelection ==
    ASSUME EncInv, SameKeys
    PROVE  /\ \A k \in DOMAIN Tpl.kids : Tpl.kids[k].t = "DerivedKey" =>
                 resolve_derived_key(Tpl.kids[k], Keys, din.doc.method.size) = ChildBytes(Tpl.kids[k])
           /\ \A k \in DOMAIN Tpl.kids : Tpl.kids[k].t = "KeyName" =>
                 NamedBytes(Keys, Tpl.kids[k].name) = ChildBytes(Tpl.kids[k])
           /\ \A k \in DOMAIN Tpl.kids : Tpl.kids[k].t \notin {"DerivedKey", "KeyName"} => Keyless(k)
           /\ Keys = Sender.keys
<1>1. Keys = Sender.keys /\ din.doc.method = Tpl.method
  BY DocumentIsTemplate DEF EncInv, Keys, SameKeys
<1> QED BY <1>1 DEF ChildBytes, Keyless, SameKeys

\* The search of a receiver with the sender's keys: what it passes returned no key to the
\* sender, and what it finds is the data key.
Selecting ==
    /\ dpc = "idle" => ~ekfail /\ ~derfail
    /\ dpc # "idle" /\ SameKeys /\ dkey.val # <<"session">> =>
          /\ ~ekfail
          /\ derfail => \E k \in DOMAIN Tpl.kids : Tpl.kids[k].t = "DerivedKey"
          /\ dpc = "wrapped" =>
                \A k \in DOMAIN Tpl.kids : k < kid /\ Tpl.kids[k].t = "DerivedKey" => Keyless(k)
          /\ dpc = "named" =>
                \A k \in DOMAIN Tpl.kids : k < kid \/ Tpl.kids[k].t = "DerivedKey" => Keyless(k)
          /\ dpc = "data" => found = dkey
          /\ dpc = "done" => plain = "Data"

\* The child the second loop is at.
LEMMA AtNamedChild ==
    ASSUME EncInv, InLoop2
    PROVE  /\ kid \in DOMAIN Tpl.kids /\ Child = Tpl.kids[kid]
           /\ \A k \in DOMAIN Tpl.kids : k < kid + 1 <=> (k < kid \/ k = kid)
<1>1. Kids = Tpl.kids /\ DOMAIN Tpl.kids = 1 .. Len(Tpl.kids) /\ Len(Tpl.kids) \in Nat
  BY DocumentIsTemplate, SeqDomain DEF EncInv, TemplateOK, Kids
<1>2. kid \in DOMAIN Tpl.kids
  BY <1>1 DEF InLoop2, EncInv, ETypeOK
<1> QED BY <1>1, <1>2 DEF Child

\* Past the last child.
LEMMA PastChildren ==
    ASSUME EncInv, kid > Len(Kids)
    PROVE  \A k \in DOMAIN Tpl.kids : k < kid
<1>1. Kids = Tpl.kids /\ DOMAIN Tpl.kids = 1 .. Len(Tpl.kids) /\ Len(Tpl.kids) \in Nat
  BY DocumentIsTemplate, SeqDomain DEF EncInv, TemplateOK, Kids
<1>2. kid \in Nat
  BY <1>1 DEF EncInv, ETypeOK
<1> QED BY <1>1, <1>2

\* Before the first.
LEMMA BeforeChildren ==
    ASSUME EncInv
    PROVE  \A k \in DOMAIN Tpl.kids : ~(k < 1)
<1>1. DOMAIN Tpl.kids = 1 .. Len(Tpl.kids) /\ Len(Tpl.kids) \in Nat
  BY DocumentIsTemplate, SeqDomain DEF EncInv, TemplateOK
<1> QED BY <1>1

\* One step of decrypt().
LEMMA SelectingDecrypt ==
    ASSUME EncInv, SameKeys, dkey.val # <<"session">>, Selecting, DNext, UNCHANGED evars
    PROVE  Selecting'
<1>1. /\ dkey' = dkey /\ Tpl' = Tpl /\ SameKeys' /\ \A k : Keyless(k)' <=> Keyless(k)
  BY JobUnchanged, SameKeysUnchanged DEF evars
<1>2. /\ dpc # "idle" /\ dpc' # "idle" /\ TemplateOK(Tpl) /\ IsSeq(Sender.keys)
      /\ dkey = resolve_encryption_key /\ dkey # NoBytes
  BY DecryptKeepsInput, DocumentIsTemplate, Delivered, EncJobsAssumption DEF EncInv, Handed, Sender
<1>3. /\ ~ekfail
      /\ derfail => \E k \in DOMAIN Tpl.kids : Tpl.kids[k].t = "DerivedKey"
      /\ dpc = "wrapped" =>
            \A k \in DOMAIN Tpl.kids : k < kid /\ Tpl.kids[k].t = "DerivedKey" => Keyless(k)
      /\ dpc = "named" =>
            \A k \in DOMAIN Tpl.kids : k < kid \/ Tpl.kids[k].t = "DerivedKey" => Keyless(k)
      /\ dpc = "data" => found = dkey
  BY <1>2 DEF Selecting
<1> SUFFICES /\ ~ekfail'
             /\ derfail' => \E k \in DOMAIN Tpl.kids : Tpl.kids[k].t = "DerivedKey"
             /\ dpc' = "wrapped" =>
                   \A k \in DOMAIN Tpl.kids : k < kid' /\ Tpl.kids[k].t = "DerivedKey" => Keyless(k)
             /\ dpc' = "named" =>
                   \A k \in DOMAIN Tpl.kids : k < kid' \/ Tpl.kids[k].t = "DerivedKey" => Keyless(k)
             /\ dpc' = "data" => found' = dkey
             /\ dpc' = "done" => plain' = "Data"
  BY <1>1, <1>2 DEF Selecting
<1>4. CASE DStart
  <2>1. kid' = 1 /\ dpc' = "wrapped" /\ UNCHANGED <<ekfail, derfail>>
    BY <1>4 DEF DStart, GotoKid
  <2> QED BY <1>3, <2>1, BeforeChildren
<1>5. CASE DParseFails
  BY <1>5 DEF DParseFails, EncInv, Handed, Filling, OriginatorsBelow, SameKeys
<1>6. CASE UnwrapChild \/ UnwrapChildFails
  <2>1. InLoop1 /\ Child.t = "EncryptedKey"
    BY <1>6 DEF UnwrapChild, UnwrapChildFails
  <2> QED BY <2>1, AtChild DEF SameKeys
<1>7. CASE DeriveChild
  <2>1. /\ InLoop1 /\ Child.t = "DerivedKey" /\ Derived # NoBytes /\ found' = Derived /\ dpc' = "data"
        /\ UNCHANGED <<ekfail, derfail>> /\ dpc = "wrapped"
    BY <1>7 DEF DeriveChild, Found, InLoop1
  <2>2. kid \in DOMAIN Tpl.kids /\ Tpl.kids[kid].t = "DerivedKey" /\ Derived = ChildBytes(Tpl.kids[kid])
    BY <2>1, AtChild, SameSelection DEF Derived
  <2>3. ASSUME NEW j \in DOMAIN Tpl.kids, j < kid PROVE Keyless(j)
    <3>1. CASE Tpl.kids[j].t = "DerivedKey"
      BY <1>3, <2>1, <2>3, <3>1
    <3>2. CASE Tpl.kids[j].t = "KeyName"
      <4>1. kid < j
        BY <2>2, <3>2 DEF SameKeys, DerivedFirst
      <4>2. kid \in Nat /\ j \in Nat
        BY <1>2, <2>2, SeqDomain DEF TemplateOK
      <4> QED BY <2>3, <4>1, <4>2
    <3>3. CASE Tpl.kids[j].t \notin {"DerivedKey", "KeyName"}
      BY <3>3, SameSelection
    <3> QED BY <3>1, <3>2, <3>3
  <2>4. Derived = dkey
    <3>1. ~Keyless(kid)
      BY <2>1, <2>2 DEF Keyless
    <3> QED BY <1>2, <2>2, <2>3, <3>1, FirstChildTaken
  <2> QED BY <1>3, <2>1, <2>4
<1>8. CASE DeriveChildFails \/ PassChild
  <2>1. /\ InLoop1 /\ kid' = kid + 1 /\ dpc' = "wrapped" /\ dpc = "wrapped" /\ ekfail' = ekfail
        /\ Child.t = "DerivedKey" => Derived = NoBytes
        /\ derfail' => derfail \/ Child.t = "DerivedKey"
    BY <1>8 DEF DeriveChildFails, PassChild, GotoKid, InLoop1
  <2>2. /\ kid \in DOMAIN Tpl.kids /\ Child = Tpl.kids[kid]
        /\ \A k \in DOMAIN Tpl.kids : k < kid' <=> (k < kid \/ k = kid)
    BY <2>1, AtChild
  <2>3. Tpl.kids[kid].t = "DerivedKey" => Keyless(kid)
    BY <2>1, <2>2, SameSelection DEF Derived, Keyless
  <2> QED BY <1>3, <2>1, <2>2, <2>3
<1>9. CASE EndLoop1
  <2>1. kid > Len(Kids) /\ kid' = 1 /\ dpc' = "named" /\ dpc = "wrapped" /\ UNCHANGED <<ekfail, derfail>>
    BY <1>9 DEF EndLoop1, GotoKid
  <2>2. \A k \in DOMAIN Tpl.kids : k < kid /\ ~(k < kid')
    BY <2>1, PastChildren, BeforeChildren
  <2> QED BY <1>3, <2>1, <2>2
<1>10. CASE NamedChild
  <2>1. /\ InLoop2 /\ Child.t = "KeyName" /\ NamedBytes(Keys, Child.name) # NoBytes /\ dpc = "named"
        /\ found' = NamedBytes(Keys, Child.name) /\ dpc' = "data" /\ UNCHANGED <<ekfail, derfail>>
    BY <1>10 DEF NamedChild, HasNamedKey, Found, InLoop2
  <2>2. kid \in DOMAIN Tpl.kids /\ NamedBytes(Keys, Child.name) = ChildBytes(Tpl.kids[kid])
    BY <2>1, AtNamedChild, SameSelection
  <2>3. ~Keyless(kid) /\ \A j \in DOMAIN Tpl.kids : j < kid => Keyless(j)
    BY <1>3, <2>1, <2>2 DEF Keyless
  <2>4. found' = dkey
    BY <1>2, <2>1, <2>2, <2>3, FirstChildTaken
  <2> QED BY <1>3, <2>1, <2>4
<1>11. CASE SkipChild
  <2>1. InLoop2 /\ ~HasNamedKey /\ kid' = kid + 1 /\ dpc' = "named" /\ dpc = "named"
        /\ UNCHANGED <<ekfail, derfail>>
    BY <1>11 DEF SkipChild, GotoKid, InLoop2
  <2>2. /\ kid \in DOMAIN Tpl.kids /\ Child = Tpl.kids[kid]
        /\ \A k \in DOMAIN Tpl.kids : k < kid' <=> (k < kid \/ k = kid)
    BY <2>1, AtNamedChild
  <2>3. Keyless(kid)
    <3>1. CASE Tpl.kids[kid].t = "DerivedKey"
      BY <1>3, <2>1, <2>2, <3>1
    <3>2. CASE Tpl.kids[kid].t = "KeyName"
      BY <2>1, <2>2, <3>2, SameSelection DEF HasNamedKey, Keyless
    <3>3. CASE Tpl.kids[kid].t \notin {"DerivedKey", "KeyName"}
      BY <2>2, <3>3, SameSelection
    <3> QED BY <3>1, <3>2, <3>3
  <2> QED BY <1>3, <2>1, <2>2, <2>3
<1>12. CASE RetrieveChild \/ RetrieveChildFails
  <2>1. InLoop2 /\ Child.t = "RetrievalMethod"
    BY <1>12 DEF RetrieveChild, RetrieveChildFails, HasTarget
  <2> QED BY <2>1, AtNamedChild DEF SameKeys
<1>13. CASE ResolveFails \/ FirstKeyFallback
  <2>1. dpc = "named" /\ kid > Len(Kids)
    BY <1>13 DEF ResolveFails, FirstKeyFallback, NoChildKey
  <2>2. \A k \in DOMAIN Tpl.kids : Keyless(k)
    BY <1>3, <2>1, PastChildren
  <2>3. ~DerivationFailed /\ dkey = SymmetricBytes(Sender.keys, first_key(Sender.keys))
    BY <1>2, <2>2, NoChildTaken
  <2>4. FallbackBytes = dkey
    BY <2>3, SameSelection DEF FallbackBytes
  <2>5. ~derfail
    BY <1>3, <2>3 DEF DerivationFailed
  <2>6. FirstKeyFallback
    BY <1>2, <1>3, <1>13, <2>4, <2>5 DEF ResolveFails
  <2> QED BY <1>3, <2>4, <2>6 DEF FirstKeyFallback, Found
<1>14. CASE DataFails \/ DecryptGarbage \/ DecryptData
  <2>1. dpc = "data"
    BY <1>14 DEF DataFails, DecryptGarbage, DecryptData
  <2>2. ~Unreadable /\ SameKey
    BY <1>3, <2>1, RightKeyReads DEF SameKeys
  <2>3. DecryptData
    BY <1>14, <2>2 DEF DataFails, DecryptGarbage
  <2> QED BY <1>3, <2>3 DEF DecryptData, Return
<1> QED BY <1>4, <1>5, <1>6, <1>7, <1>8, <1>9, <1>10, <1>11, <1>12, <1>13, <1>14 DEF DNext

\* The selection is kept on its way by every step.
LEMMA SelectingStep == EncInv /\ Selecting /\ [Next]_allvars => Selecting'
<1> SUFFICES ASSUME EncInv, Selecting, [Next]_allvars PROVE Selecting'
  OBVIOUS
<1>1. job' = job
  BY EncryptKeepsJob DEF Next, EncryptStep, Deliver, DecryptStep, Returned, allvars, evars
<1>2. Tpl' = Tpl /\ (SameKeys' <=> SameKeys) /\ \A k : Keyless(k)' <=> Keyless(k)
  BY <1>1, JobUnchanged, SameKeysUnchanged
<1>3. CASE EncryptStep
  <2>1. dpc = "idle" /\ dpc' = "idle" /\ UNCHANGED <<ekfail, derfail>>
    BY <1>3, EncryptKeepsJob DEF EncryptStep, EncInv, Handed, ETypeOK, dvars
  <2> QED BY <2>1 DEF Selecting
<1>4. CASE Deliver
  BY <1>4 DEF Deliver, Selecting
<1>5. CASE DecryptStep
  <2>1. DNext /\ UNCHANGED evars /\ dkey' = dkey
    BY <1>5 DEF DecryptStep, evars
  <2>2. dpc' # "idle"
    BY <2>1, DecryptKeepsInput
  <2>3. CASE SameKeys /\ dkey.val # <<"session">>
    BY <2>1, <2>3, SelectingDecrypt
  <2>4. CASE ~(SameKeys /\ dkey.val # <<"session">>)
    BY <1>2, <2>1, <2>2, <2>4 DEF Selecting
  <2> QED BY <2>3, <2>4
<1>6. CASE UNCHANGED allvars
  BY <1>2, <1>6 DEF allvars, evars, dvars, Selecting
<1> QED BY <1>3, <1>4, <1>5, <1>6 DEF Next, Returned, allvars

\* Without EncryptedKeys, sender and receiver select the same key from the same keys, by
\* two different algorithms, and the data comes back: for every KeyInfo in which a
\* DerivedKey stands before any KeyName.
THEOREM SharedKeysAgree == Spec => []SharedKeysDecrypt
<1>1. Init => Selecting
  BY DEF Init, Selecting
<1>2. Spec => []Selecting
  BY <1>1, EncInvariant, SelectingStep, PTL DEF Spec, allvars
<1>3. Selecting => SharedKeysDecrypt
  BY DEF Selecting, SharedKeysDecrypt, SameKeys
<1> QED BY <1>2, <1>3, PTL
=============================================================================
