------------------------------- MODULE Encrypt -------------------------------
(***************************************************************************)
(* encrypt() of crates/bergshamra-enc/src/encrypt.rs: the data key is      *)
(* selected or generated, the EncryptedData's CipherValue is filled, then  *)
(* every EncryptedKey of the document with an empty CipherValue, in        *)
(* document order.                                                         *)
(***************************************************************************)
EXTENDS EncKeys, EncText

\* What encrypt() may be called with: tpl the template, data and node the data file and the
\* --node-name option, sender and receiver the contexts, detached <<>> or the
\* CipherReference behind which the ciphertext is moved.
CONSTANT Jobs

\* A template is a document of EncKeys: its EncryptedKeys have a CipherValue (text) and the
\* KeyValue of an OriginatorKeyInfo (okis) each, and a child <EncryptedKey> of the KeyInfo
\* is one of them.
TemplateOK(t) ==
    /\ t = [parses |-> t.parses, method |-> t.method, kids |-> t.kids, eks |-> t.eks,
            text |-> t.text, okis |-> t.okis, reference |-> t.reference, place |-> t.place]
    /\ IsSeq(t.kids) /\ IsSeq(t.eks) /\ IsSeq(t.text) /\ IsSeq(t.okis)
    /\ DOMAIN t.text = DOMAIN t.eks /\ DOMAIN t.okis = DOMAIN t.eks
    /\ \A k \in DOMAIN t.kids : t.kids[k].t = "EncryptedKey" => t.kids[k].ek \in DOMAIN t.eks
    /\ t.method.size \in Nat

\* The elements a CipherReference may lead to; "unsupported" stands for an XPath expression
\* of another form and is no name of an element.
ReferenceOK(r) == IsSeq(r.els) /\ \A i \in DOMAIN r.els : r.els[i].name # "unsupported"

\* The texts of a job; a data file from which a node is taken is well formed.
TextsOK(j) == /\ {j.tpl.place.before, j.tpl.place.after, j.data} \subseteq Seq(Token)
              /\ j.node # <<>> => ElementsEnd(j.data)

ASSUME EncJobsAssumption ==
    \A j \in Jobs : /\ TemplateOK(j.tpl) /\ IsSeq(j.sender.keys) /\ IsSeq(j.receiver.keys) /\ TextsOK(j)
                    /\ IsSeq(j.detached) /\ \A r \in ToSet(j.detached) : ReferenceOK(r)

VARIABLES job,
          dkey,        \* key_bytes, the key of the data
          cipher,      \* the CipherValue of the EncryptedData
          cvs,         \* the CipherValues of the EncryptedKeys
          okis,        \* the KeyValues of their OriginatorKeyInfos
          edited,      \* result has been changed by encrypt_session_key
          garbled,     \* the markup was changed at a stale place
          ek,          \* the next EncryptedKey, from 1
          epc, estatus

evars == <<job, dkey, cipher, cvs, okis, edited, garbled, ek, epc, estatus>>

Tpl == job.tpl
Sender == job.sender
Empty == <<>>
Filled == <<"text">>    \* content a template may already have

EStop(v) == /\ estatus' = v /\ epc' = "done"
            /\ UNCHANGED <<job, dkey, cipher, cvs, okis, edited, garbled, ek>>

-----------------------------------------------------------------------------
(* The data key.                                                           *)

SessionBytes == Bytes(<<"session">>, Tpl.method.size)

\* What one child of the KeyInfo returns: the key of a KeyName, a new session key for an
\* EncryptedKey, the key of a DerivedKey.
ChildBytes(c) ==
    CASE c.t = "KeyName" -> NamedBytes(Sender.keys, c.name)
      [] c.t = "EncryptedKey" -> SessionBytes
      [] c.t = "DerivedKey" -> resolve_derived_key(c, Sender.keys, Tpl.method.size)
      [] OTHER -> NoBytes

FirstKid == FirstOf({i \in DOMAIN Tpl.kids : ChildBytes(Tpl.kids[i]) # NoBytes})

DerivationFailed == \E i \in DOMAIN Tpl.kids : Tpl.kids[i].t = "DerivedKey"

\* resolve_encryption_key: the first child that returns a key; if none does, a DerivedKey
\* that failed is an error; else the first managed key if symmetric, or a session key.
resolve_encryption_key ==
    CASE FirstKid # 0 -> ChildBytes(Tpl.kids[FirstKid])
      [] FirstKid = 0 /\ (DerivationFailed \/ Sender.keys = <<>>) -> NoBytes
      [] OTHER -> IF HasSymmetricBytes(Sender.keys[1]) THEN SymmetricBytes(Sender.keys, 1)
                  ELSE SessionBytes

\* The cipher needs a key of exactly its size; an unsupported one is an error.
DataKeyOK(k) == k # NoBytes /\ Tpl.method.size # 0 /\ k.len = Tpl.method.size

\* cmd_encrypt selects what is encrypted; a node that is not there is an error.
Plaintext == Payload(job.data, Tpl.place.before, job.node)

\* encrypt() only fills a CipherValue: a template with a CipherReference is an error.
Refused == Plaintext = <<>> \/ ~DataKeyOK(resolve_encryption_key) \/ Tpl.reference

EncryptFails == epc = "start" /\ Refused /\ EStop("Err")

EncryptData == /\ epc = "start"
               /\ ~Refused
               /\ dkey' = resolve_encryption_key
               /\ cipher' = <<"data", resolve_encryption_key, Plaintext>>
               /\ epc' = "keys"
               /\ UNCHANGED <<job, cvs, okis, edited, garbled, ek, estatus>>

-----------------------------------------------------------------------------
(* encrypt_session_key: one iteration per EncryptedKey.                    *)

MoreKeys == epc = "keys" /\ ek <= Len(Tpl.eks)
Ek == Tpl.eks[ek]

\* Filled at the start of the loop, or without a method: left alone.
Skipped == Ek.method = "missing" \/ Tpl.text[ek] # Empty

SkipKey == /\ MoreKeys /\ Skipped
           /\ ek' = ek + 1
           /\ UNCHANGED <<job, dkey, cipher, cvs, okis, edited, garbled, epc, estatus>>

\* Variant: the first empty CipherValue, whatever its text.
ReplaceAnyText(c, value) ==
    LET s == FirstOf({i \in DOMAIN c : c[i] = Empty})
    IN  [c EXCEPT ![s] = value]

\* result.replacen(cv_xml, .., 1): the first CipherValue with the same literal text.
ReplaceText(c, value) ==
    LET s == FirstOf({i \in DOMAIN c : c[i] = Empty /\ Tpl.eks[i].form = Ek.form})
    IN  [c EXCEPT ![s] = value]

\* Key agreement: the originator's public key is put into the document first.
NeedsOriginator == Ek.method = "KwAes" /\ ~Sender.hsm.kw.on /\ Ek.agree # <<>>

OriginatorKey(e) == <<Sender.keys[resolve_originator_key(e.agree[1], Sender.keys)].mat>>

\* fill_originator_key_value cuts the KeyValue out of `result' at the byte range it had
\* before any EncryptedKey was filled.  Until then that is the KeyValue, and the first one
\* with the same text is replaced.
fill_originator_key_value(o) ==
    LET s == FirstOf({i \in DOMAIN o : Tpl.eks[i].agree # <<>> /\ o[i] = o[ek]})
    IN  [o EXCEPT ![s] = OriginatorKey(Ek)]

\* The cut at a stale range: what stands there now, and where that occurs first, is replaced
\* by a KeyValue.
Misplaced == NeedsOriginator /\ edited

Spoiled == <<"spoiled", NoBytes>>    \* what is left of a text that was cut into

Texts == [cvs |-> cvs, okis |-> okis, cipher |-> cipher, markup |-> garbled]

\* It lies in a filled CipherValue, a KeyValue, the ciphertext of the data, or the markup.
SpoiledTexts ==
    {[Texts EXCEPT !.cvs[i] = Spoiled] : i \in {j \in DOMAIN cvs : cvs[j] # Empty}}
      \union {[Texts EXCEPT !.okis[i] = Spoiled] : i \in DOMAIN okis}
      \union {[Texts EXCEPT !.cipher = Spoiled], [Texts EXCEPT !.markup = TRUE]}

AfterOriginator ==
    CASE ~NeedsOriginator -> {Texts}
      [] NeedsOriginator /\ ~edited -> {[Texts EXCEPT !.okis = fill_originator_key_value(okis)]}
      [] OTHER -> SpoiledTexts

\* Without a usable key it is an error; a cut that begins or ends in the middle of a
\* character is a panic.
WrapFails == /\ MoreKeys /\ ~Skipped
             /\ ~Usable(WrapKek(Ek, Sender), Ek) \/ Misplaced
             /\ EStop("Err")

WrapKey == /\ MoreKeys /\ ~Skipped
           /\ Usable(WrapKek(Ek, Sender), Ek)
           /\ \E t \in AfterOriginator :
                /\ okis' = t.okis /\ cipher' = t.cipher /\ garbled' = t.markup
                /\ cvs' = ReplaceText(t.cvs, <<"wrapped", WrapKek(Ek, Sender), dkey>>)
           /\ edited' = TRUE
           /\ ek' = ek + 1
           /\ UNCHANGED <<job, dkey, epc, estatus>>

ReturnEncrypted == epc = "keys" /\ ek > Len(Tpl.eks) /\ EStop("Ok")

-----------------------------------------------------------------------------
EInit == /\ job \in Jobs
         /\ dkey = NoBytes /\ cipher = Empty
         /\ cvs = job.tpl.text /\ okis = job.tpl.okis
         /\ edited = FALSE /\ garbled = FALSE
         /\ ek = 1 /\ epc = "start" /\ estatus = "pending"

ENext == EncryptFails \/ EncryptData \/ SkipKey \/ WrapFails \/ WrapKey \/ ReturnEncrypted

ESpec == EInit /\ [][ENext]_evars
=============================================================================
