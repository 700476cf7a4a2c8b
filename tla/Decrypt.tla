------------------------------- MODULE Decrypt -------------------------------
(***************************************************************************)
(* decrypt_to_bytes() of crates/bergshamra-enc/src/decrypt.rs: the search  *)
(* for the data key (resolve_decryption_key), child by child, the          *)
(* decryption of the data, and the plaintext put into the document.        *)
(***************************************************************************)
EXTENDS EncKeys, EncText

VARIABLES din,      \* the input: the document, its CipherValues, the context
          kid,      \* the child of the KeyInfo being looked at
          dpc,      \* "start", "wrapped" (loop 1), "named" (loop 2), "data", "done"
          ekfail,   \* last_ek_error is set
          derfail,  \* last_derived_error is set
          found,    \* key_bytes
          via,      \* the kind of child the key came from
          plain,    \* "pending", "Data", "Garbage" (a wrong result) or "Err"
          out       \* the text returned

dvars == <<din, kid, dpc, ekfail, derfail, found, via, plain, out>>

Kids == din.doc.kids
Child == Kids[kid]
Keys == din.ctx.keys
Eks == din.doc.eks

Return(v, t) == /\ plain' = v /\ out' = t /\ dpc' = "done"
                /\ UNCHANGED <<din, kid, ekfail, derfail, found, via>>

DStop(v) == Return(v, <<>>)

Found(k, w) == /\ found' = k /\ via' = w /\ dpc' = "data"
               /\ UNCHANGED <<din, kid, ekfail, derfail, plain, out>>

GotoKid(i, stage) == /\ kid' = i /\ dpc' = stage
                     /\ UNCHANGED <<din, found, via, plain, out>>

-----------------------------------------------------------------------------
(* decrypt_encrypted_key: the set of its possible outcomes.  CBC with a    *)
(* wrong key may fail on the padding or return wrong bytes; everything     *)
(* else detects a wrong key.                                               *)

WrongBytes == Bytes(<<"garbage">>, 16)

decrypt_encrypted_key(i) ==
    LET e == Eks[i]
        kek == UnwrapKek(e, din.ctx, din.okis[i])
        cv == din.cvs[i]
    IN  IF e.method = "missing" \/ Len(cv) # 3 \/ ~Usable(kek, e) THEN {NoBytes}
        ELSE IF cv[2] = kek THEN {cv[3]}
        ELSE IF e.method = "Cipher" /\ ~e.auth THEN {NoBytes, WrongBytes}
        ELSE {NoBytes}

-----------------------------------------------------------------------------
(* CipherReference: a same-document reference and its transforms.  els are *)
(* the elements with an Id in document order: id, name, and text, which is *)
(* "b64" (the ciphertext in base64) or "mixed" (anything else); only says  *)
(* that the document has no other text.                                    *)

Named(els, id, name) == {i \in DOMAIN els : els[i].id = id /\ els[i].name = name}

\* build_id_map: later elements replace earlier ones.
ById(els, id) == LET at == {i \in DOMAIN els : els[i].id = id} IN IF at = {} THEN 0 ELSE Max(at)

\* apply_cipher_ref_xpath, for self::text()[parent::NAME[@Id="ID"]]: the element of the ID
\* map if it has the name, else the first that has both.
apply_cipher_ref_xpath(r) ==
    LET m == ById(r.els, r.id)
        at == IF m # 0 /\ r.els[m].name = r.name THEN m ELSE FirstOf(Named(r.els, r.id, r.name))
    IN  IF r.name = "unsupported" \/ at = 0 THEN "Err" ELSE r.els[at].text

CipherTransform(x, t, r) ==
    CASE x = "Err" -> "Err"
      [] x # "Err" /\ t = "Base64" -> IF x = "b64" THEN "octets" ELSE "Err"
      [] x # "Err" /\ t = "XPath" -> apply_cipher_ref_xpath(r)
      [] OTHER -> "Err"

resolve_cipher_reference(r) ==
    LET m == ById(r.els, r.id)
        data == CASE r.uri = "" -> IF r.only THEN "b64" ELSE "mixed"
                  [] r.uri = "#" -> IF m = 0 THEN "Err" ELSE r.els[m].text
                  [] OTHER -> "Err"
    IN  FoldLeft(LAMBDA x, t : CipherTransform(x, t, r), data, r.transforms)

-----------------------------------------------------------------------------
(* The stages.                                                             *)

DStart == /\ dpc = "start"
          /\ din.doc.parses
          /\ GotoKid(1, "wrapped")
          /\ UNCHANGED <<ekfail, derfail>>

DParseFails == dpc = "start" /\ ~din.doc.parses /\ DStop("Err")

\* Loop 1: EncryptedKeys and DerivedKeys; the first that yields a key returns.
InLoop1 == dpc = "wrapped" /\ kid <= Len(Kids)

UnwrapChild == /\ InLoop1 /\ Child.t = "EncryptedKey"
               /\ \E k \in decrypt_encrypted_key(Child.ek) \ {NoBytes} : Found(k, "EncryptedKey")

\* Variant: the first EncryptedKey that fails ends the search.
UnwrapChildFailsAtOnce == /\ InLoop1 /\ Child.t = "EncryptedKey"
                          /\ NoBytes \in decrypt_encrypted_key(Child.ek)
                          /\ DStop("Err")

UnwrapChildFails == /\ InLoop1 /\ Child.t = "EncryptedKey"
                    /\ NoBytes \in decrypt_encrypted_key(Child.ek)
                    /\ ekfail' = TRUE
                    /\ GotoKid(kid + 1, "wrapped")
                    /\ UNCHANGED derfail

\* Variant: the MasterKeyName is not looked at.
DerivedFromFirst == resolve_derived_key([Child EXCEPT !.master = NoName], Keys,
                                        din.doc.method.size)

Derived == resolve_derived_key(Child, Keys, din.doc.method.size)

DeriveChild == /\ InLoop1 /\ Child.t = "DerivedKey"
               /\ Derived # NoBytes
               /\ Found(Derived, "DerivedKey")

DeriveChildFails == /\ InLoop1 /\ Child.t = "DerivedKey"
                    /\ Derived = NoBytes
                    /\ derfail' = TRUE
                    /\ GotoKid(kid + 1, "wrapped")
                    /\ UNCHANGED ekfail

PassChild == /\ InLoop1 /\ Child.t \notin {"EncryptedKey", "DerivedKey"}
             /\ GotoKid(kid + 1, "wrapped")
             /\ UNCHANGED <<ekfail, derfail>>

EndLoop1 == /\ dpc = "wrapped" /\ kid > Len(Kids)
            /\ GotoKid(1, "named")
            /\ UNCHANGED <<ekfail, derfail>>

\* Loop 2: KeyNames and RetrievalMethods.  A RetrievalMethod whose target exists
\* decides, success or not.
InLoop2 == dpc = "named" /\ kid <= Len(Kids)

\* Variant: a named key without symmetric bytes counts as found.
HasNamedKeyAnyKind == Child.t = "KeyName" /\ find_by_name(Keys, Child.name) # 0

HasNamedKey == Child.t = "KeyName" /\ NamedBytes(Keys, Child.name) # NoBytes
HasTarget == Child.t = "RetrievalMethod" /\ Child.ek # 0

NamedChild == InLoop2 /\ HasNamedKey /\ Found(NamedBytes(Keys, Child.name), "KeyName")

RetrieveChild == /\ InLoop2 /\ HasTarget
                 /\ \E k \in decrypt_encrypted_key(Child.ek) \ {NoBytes} : Found(k, "EncryptedKey")

RetrieveChildFails == /\ InLoop2 /\ HasTarget
                      /\ NoBytes \in decrypt_encrypted_key(Child.ek)
                      /\ DStop("Err")

SkipChild == /\ InLoop2 /\ ~HasNamedKey /\ ~HasTarget
             /\ GotoKid(kid + 1, "named")
             /\ UNCHANGED <<ekfail, derfail>>

\* After the loops: pending errors first, then the first key of the manager.
NoChildKey == dpc = "named" /\ kid > Len(Kids)
FallbackBytes == SymmetricBytes(Keys, first_key(Keys))

ResolveFails == /\ NoChildKey
                /\ ekfail \/ derfail \/ FallbackBytes = NoBytes
                /\ DStop("Err")

FirstKeyFallback == /\ NoChildKey
                    /\ ~ekfail /\ ~derfail /\ FallbackBytes # NoBytes
                    /\ Found(FallbackBytes, "first")

\* The data: an over-long key is truncated to the size of the cipher.
Effective == IF found.len > din.doc.method.size /\ din.doc.method.size > 0
             THEN Bytes(found.val, din.doc.method.size) ELSE found

\* read_cipher_data: the CipherValue, or what a CipherReference leads to; <<>> on an error.
\* A ciphertext that was not decoded is no ciphertext of any key.
CipherBytes ==
    CASE din.cref = <<>> -> din.data
      [] din.cref # <<>> /\ din.ctx.disable_cipher_reference -> <<>>
      [] OTHER -> LET r == resolve_cipher_reference(din.cref[1])
                  IN  IF r = "Err" THEN <<>> ELSE IF r = "octets" THEN din.data ELSE <<"undecoded", NoBytes>>

Unreadable == CipherBytes = <<>> \/ Effective.len # din.doc.method.size

SameKey == CipherBytes # <<>> /\ CipherBytes[2] = Effective

\* The text returned for a plaintext.
Result(t) == maybe_convert_encoding(replace_encrypted_data_bytes(din.doc.place, t))

DataFails == /\ dpc = "data"
             /\ Unreadable \/ ~SameKey
             /\ DStop("Err")

DecryptData == dpc = "data" /\ ~Unreadable /\ SameKey /\ Return("Data", Result(CipherBytes[3]))

\* An unauthenticated cipher need not notice a wrong key.
DecryptGarbage == /\ dpc = "data" /\ ~Unreadable /\ ~SameKey
                  /\ ~din.doc.method.auth
                  /\ Return("Garbage", Result(<<Plain("octets")>>))

-----------------------------------------------------------------------------
DNext == \/ DStart \/ DParseFails
         \/ UnwrapChild \/ UnwrapChildFails \/ DeriveChild \/ DeriveChildFails \/ PassChild
         \/ EndLoop1 \/ NamedChild \/ RetrieveChild \/ RetrieveChildFails \/ SkipChild
         \/ ResolveFails \/ FirstKeyFallback
         \/ DataFails \/ DecryptData \/ DecryptGarbage
=============================================================================
