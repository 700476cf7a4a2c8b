--------------------------- MODULE EncryptDecrypt ---------------------------
(***************************************************************************)
(* encrypt() and decrypt() composed: the document a sender encrypts from a *)
(* template is given to one receiver.                                      *)
(***************************************************************************)
EXTENDS Encrypt, Decrypt

Receiver == job.receiver

Init == /\ EInit
        /\ din = [doc |-> job.tpl, ctx |-> job.receiver, cvs |-> job.tpl.text,
                  okis |-> job.tpl.okis, data |-> Empty, cref |-> <<>>]
        /\ kid = 1 /\ dpc = "idle" /\ ekfail = FALSE /\ derfail = FALSE
        /\ found = NoBytes /\ via = "none" /\ plain = "pending" /\ out = <<>>

EncryptStep == ENext /\ UNCHANGED dvars

\* Markup changed at a stale place may or may not be well-formed XML; what still parses is
\* read as the template.  The
\* application may have moved the ciphertext behind a same-document CipherReference.
Deliver == /\ estatus = "Ok" /\ dpc = "idle"
           /\ \E ok \in (IF garbled THEN BOOLEAN ELSE {TRUE}) :
                din' = [din EXCEPT !.doc.parses = ok, !.cref = job.detached,
                                !.cvs = cvs, !.okis = okis, !.data = cipher]
           /\ dpc' = "start"
           /\ UNCHANGED <<kid, ekfail, derfail, found, via, plain, out>>
           /\ UNCHANGED evars

DecryptStep == DNext /\ UNCHANGED evars

\* The call has returned; any other state without a step would be a deadlock.
Returned == /\ estatus = "Err" \/ dpc = "done"
            /\ UNCHANGED <<evars, dvars>>

Next == EncryptStep \/ Deliver \/ DecryptStep \/ Returned

Spec == Init /\ [][Next]_<<evars, dvars>>

-----------------------------------------------------------------------------
(* Properties.                                                             *)

\* Type invariant: encrypt() and decrypt() return exactly once, the CipherValues keep
\* their number, and the loops over children stay within the KeyInfo.
ETypeOK == /\ epc \in {"start", "keys", "done"} /\ (estatus = "pending") <=> (epc # "done")
           /\ DOMAIN cvs = DOMAIN Tpl.eks /\ DOMAIN okis = DOMAIN Tpl.eks
           /\ ek \in 1 .. Len(Tpl.eks) + 1
           /\ dpc \in {"idle", "start", "wrapped", "named", "data", "done"}
           /\ (plain = "pending") <=> (dpc # "done")
           /\ kid \in 1 .. Len(Kids) + 1
           /\ dpc = "data" => found # NoBytes

\* The EncryptedKeys encrypt() fills.
ToFill == {i \in DOMAIN Tpl.eks : Tpl.eks[i].method # "missing" /\ Tpl.text[i] = Empty}

\* No CipherValue that stays empty looks like one that is filled.
NoLookalike == \A i \in ToFill, j \in DOMAIN Tpl.eks \ ToFill :
                  Tpl.text[j] = Empty => Tpl.eks[j].form # Tpl.eks[i].form

\* Key agreement only in the first EncryptedKey that is filled, and no KeyValue
\* before it that looks like the one to fill.
AgreementFirst == \A i \in ToFill, j \in DOMAIN Tpl.eks :
                     Tpl.eks[i].method = "KwAes" /\ Tpl.eks[i].agree # <<>> /\ j < i =>
                        j \notin ToFill /\ (Tpl.eks[j].agree # <<>> => Tpl.okis[j] # Tpl.okis[i])

\* Every recipient gets its own copy: the textual replacements of encrypt_session_key put
\* the data key, wrapped for THIS EncryptedKey, into each EncryptedKey's CipherValue, and
\* no later replacement cuts into it (AgreementFirst).
KeysInPlace ==
    estatus = "Ok" /\ NoLookalike /\ AgreementFirst =>
        \A i \in ToFill : cvs[i] = <<"wrapped", WrapKek(Tpl.eks[i], Sender), dkey>>

\* The originator's public key as it should be in the document.
Originator(e) == IF e.agree = <<>> \/ resolve_originator_key(e.agree[1], Sender.keys) = 0 THEN <<>>
                 ELSE OriginatorKey(e)

\* encrypt.rs:268, "Fill in OriginatorKeyInfo's KeyValue with the originator's public key":
\* in the document encrypt() returns, every KeyValue it filled is in its place.
OriginatorFilled ==
    estatus = "Ok" => \A i \in ToFill : LET e == Tpl.eks[i]
                                        IN  e.method = "KwAes" /\ ~Sender.hsm.kw.on /\ e.agree # <<>>
                                              => okis[i] = Originator(e)

\* Whether the receiver's selection finds the key the sender wrapped for.
ForReceiver(i) == UnwrapKek(Tpl.eks[i], Receiver, Originator(Tpl.eks[i])) = WrapKek(Tpl.eks[i], Sender)

KidKeys == {Tpl.kids[k].ek : k \in {j \in DOMAIN Tpl.kids : Tpl.kids[j].t = "EncryptedKey"}}
NoDerived == \A k \in DOMAIN Tpl.kids : Tpl.kids[k].t # "DerivedKey"

\* The receiver may look at the ciphertext, and a CipherReference leads to it: one element
\* has the ID and the name, and holds the ciphertext alone.
Reachable ==
    \A r \in ToSet(job.detached) :
        /\ ~Receiver.disable_cipher_reference
        /\ r.uri = "#" /\ r.transforms \in {<<"Base64">>, <<"XPath", "Base64">>}
        /\ \E i \in DOMAIN r.els : /\ r.els[i] = [id |-> r.id, name |-> r.name, text |-> "b64"]
                                  /\ \A j \in DOMAIN r.els \ {i} : r.els[j].id # r.id

\* Multi-recipient encryption: a receiver that one of the EncryptedKeys is meant for gets
\* the data, whatever the number and order of the others, which all fail for it; with key agreement,
\* because its OriginatorKeyInfo was given the originator's key.
AnyRecipientDecrypts ==
    (/\ dpc = "done" /\ NoDerived /\ NoLookalike /\ AgreementFirst /\ Reachable
     /\ KidKeys \subseteq ToFill
     /\ \E i \in KidKeys : ForReceiver(i)
     /\ \A i \in KidKeys : Tpl.eks[i].method = "Cipher" => Tpl.eks[i].auth \/ ForReceiver(i))
    => plain = "Data"

DerivedFirst == \A j, k \in DOMAIN Tpl.kids :
                   Tpl.kids[k].t = "DerivedKey" /\ Tpl.kids[j].t = "KeyName" => k < j

\* Without EncryptedKeys both sides select the key by themselves (resolve_encryption_key,
\* resolve_decryption_key): with the same keys they agree and the data comes back, as long
\* as a DerivedKey stands before any KeyName and the EncryptedKeys of the document, which
\* encrypt() fills wherever they stand, do not spoil its text.
SharedKeysDecrypt ==
    (/\ dpc = "done" /\ DerivedFirst /\ AgreementFirst /\ Reachable
     /\ \A k \in DOMAIN Tpl.kids : Tpl.kids[k].t \notin {"EncryptedKey", "RetrievalMethod"}
     /\ dkey.val # <<"session">>
     /\ Receiver.keys = Sender.keys)
    => plain = "Data"

Place == Tpl.place

\* A declaration can only stand at the start of the document.  The line ends of the
\* document around the plaintext are not normalized: none is split at the border.
Embeddable ==
    \/ IsRoot(Place)
    \/ /\ \A i \in DOMAIN Plaintext : Plaintext[i].k \notin {"decl", "doctype"}
       /\ Ends(Place.before, "CR") /\ Plaintext # <<>> => Plaintext[1].k # "CR"
       /\ Ends(Plaintext, "CR") /\ Place.after # <<>> => Place.after[1].k # "LF"

Whole == Place.before \o Plaintext \o Place.after

\* The text a reader is meant to get.
Meant == IF IsRoot(Place) THEN Plaintext ELSE Whole

Spliced == replace_encrypted_data_bytes(Place, Plaintext)

\* The characters a reader sees who goes by the declaration at the start of a text.
AsRead(t) ==
    LET latin1 == t # <<>> /\ t[1].k = "decl" /\ t[1].n = "latin1"
        Read(x) == CASE latin1 /\ x.k = "hi1" -> Plain("hi")
                     [] latin1 /\ x.k \in {"hi", "wide"} -> Broken
                     [] ~latin1 /\ x.k = "hi1" -> Broken
                     [] OTHER -> x
    IN  [i \in DOMAIN t |-> Read(t[i])]

\* Every character has an octet in ISO-8859-1 if that is declared, at the very start, and no
\* character reaches over the end of the header.
Convertible == /\ HeaderReadable(Spliced)
               /\ DeclaresLatin1(Spliced) =>
                     /\ Spliced[1].k = "decl" /\ Spliced[1].n = "latin1"
                     /\ \A i \in DOMAIN Spliced : Spliced[i].k # "wide"

Comparable == /\ dpc = "done" /\ plain = "Data" /\ Place.type \in {"Element", "Content"}
              /\ Embeddable /\ Utf8(Whole) /\ Convertible

Restored == Inner(Meaning(AsRead(out))) = Inner(Meaning(Meant))

\* The rewriting of tags cannot be misled; in a document around the plaintext it is repeated.
Regular == Tidy(Meant) /\ (IsRoot(Place) \/ Steady(Meant))

\* Type Element or Content: what decrypt() returns means, to a reader of the encoding it
\* declares, what the document with the plaintext in place of the EncryptedData means,
\* whatever the line ends, empty elements and prologs on either side; for texts in which
\* the rewriting of tags cannot be misled (Regular).
PlaintextRestored == Comparable /\ Regular => Restored

Opaque == dpc = "done" /\ plain = "Data" /\ (Place.type = "other" \/ (Place.type = "" /\ Place.mime_other))

\* Data declared not to be XML (another Type, or no Type and another MimeType) comes back
\* character for character: neither line ends nor what looks like a tag is touched, wherever
\* the EncryptedData stands.  Only data that itself declares ISO-8859-1 is not returned
\* "as-is" (decrypt.rs:1371): the characters of that encoding are written in it
\* (maybe_convert_encoding).
OpaqueKept ==
    Opaque => /\ DOMAIN out = DOMAIN Plaintext
              /\ \A i \in DOMAIN Plaintext :
                    \/ out[i] = Plaintext[i]
                    \/ DeclaresLatin1(Plaintext) /\ Plaintext[i].k = "hi" /\ out[i] = Plain("hi1")

\* decrypt.rs:1467, "Normalize empty XML elements from `<tag ...></tag>` to `<tag .../>`
\* form": the rewriting never changes what the document means.
EmptyElementsOnly == Comparable => Restored

\* decrypt.rs:228, "a structurally-present DerivedKey whose derivation failed must surface
\* as an error, not cascade into a KeyName fallback that silently uses the wrong key".
DerivationErrorSurfaces == dpc = "done" /\ derfail /\ ~ekfail /\ via = "KeyName" => plain = "Err"
=============================================================================
