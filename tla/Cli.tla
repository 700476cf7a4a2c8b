--------------------------------- MODULE Cli ---------------------------------
(***************************************************************************)
(* The command line, crates/bergshamra/src/main.rs: a command reads its    *)
(* input, fills a KeysManager from the files its options name, one after   *)
(* the other, and hands it to the library.  For verify, the library call   *)
(* is DsigVerify; for sign, encrypt and decrypt the model ends where the   *)
(* call starts (DsigSign, Encrypt and Decrypt take it from there).         *)
(*                                                                         *)
(* A command is a record: its name, whether the input is readable, the     *)
(* document, the password, the files of each option (sequences; an entry   *)
(* of named and hmac also has the name before the colon, or NoName) and    *)
(* the switches.  floor is <<>> without --hmac-min-out-len.                *)
(***************************************************************************)
EXTENDS DsigVerify, KeyLoad

CONSTANT Commands

\* Every option that may be repeated has a list of files; the input is a document.
ASSUME CommandsAssumption ==
    \A c \in Commands :
        /\ DocOK(c.doc) /\ IsSeq(c.session)
        /\ \A fs \in {c.keys_file, c.key, c.pkcs12, c.certs, c.trusted, c.untrusted, c.aes, c.crl} :
              IsSeq(fs) /\ \A i \in DOMAIN fs : FileOK(fs[i])
        /\ \A es \in {c.named, c.hmac} : IsSeq(es) /\ \A i \in DOMAIN es : FileOK(es[i].file)

VARIABLES cmd,   \* the command line
          todo,  \* the loads that are still to be done, in order
          mgr,   \* the KeysManager
          exit   \* how the command ended

cvars == <<cmd, todo, mgr, exit>>

Exits == {"running", "Ok", "Invalid", "Err", "called"}

-----------------------------------------------------------------------------
(* The order of the loads.                                                 *)

Loads(op, fs) == [i \in DOMAIN fs |-> [op |-> op, name |-> NoName, file |-> fs[i]]]
NamedLoads(op, es) == [i \in DOMAIN es |-> [op |-> op, name |-> es[i].name, file |-> es[i].file]]

\* build_keys_manager: trusted certificates are keys too.
build_keys_manager(c, certs) ==
    Loads("keys", c.keys_file) \o Loads("key", c.key) \o NamedLoads("named", c.named)
      \o Loads("pkcs12", c.pkcs12) \o Loads("key", certs) \o Loads("key", c.trusted)
      \o NamedLoads("hmac", c.hmac) \o Loads("aes", c.aes)

\* cmd_verify loads untrusted certificates as keys after the --cert ones, and then the
\* certificate and CRL stores; the other commands have just the manager.
KeyPlan(c) == build_keys_manager(c, IF c.name = "verify" THEN c.certs \o c.untrusted ELSE c.certs)

StorePlan(c) ==
    IF c.name = "verify"
    THEN Loads("trusted", c.trusted) \o Loads("untrusted", c.untrusted) \o Loads("crl", c.crl)
    ELSE <<>>

LoadPlan(c) == KeyPlan(c) \o StorePlan(c)

EmptyManager == [keys |-> <<>>, trusted |-> {}, untrusted |-> {}, crls |-> {}]

-----------------------------------------------------------------------------
(* One load.  A load that fails ends the command.                          *)

\* Variant: the octets become a key of the kind signatures use.
FallbackHmac(f) == SecretKey("Hmac", f)

\* A named key that no loader reads is the file's octets, as an AES key.
FallbackKey(f) == SecretKey("Aes", f)

\* The keys a load adds; <<>> when it fails (a keys.xml without keys does not).
LoadedKeys(e, pwd) ==
    LET f == e.file
        k == load_key_file_with_password(f, pwd)
        keys == CASE e.op = "key" -> <<k>>
                  [] e.op = "named" -> <<NamedAs(IF k = NoKey THEN FallbackKey(f) ELSE k, e.name)>>
                  [] e.op = "pkcs12" -> <<load_pkcs12(f.item, pwd)>>
                  [] e.op = "hmac" -> <<NamedAs(SecretKey("Hmac", f), e.name)>>
                  [] e.op = "aes" -> <<SecretKey("Aes", f)>>
                  [] OTHER -> <<>>
    IN  IF ~f.readable \/ keys = <<NoKey>> THEN <<>> ELSE keys

Labels == [trusted |-> "CERTIFICATE", untrusted |-> "CERTIFICATE", crl |-> "X509 CRL"]

\* Whether a load goes through.  A --key-name value without a colon is refused.
LoadOK(e, pwd) ==
    CASE e.op = "keys" -> load_keys_file(e.file).ok
      [] e.op \in DOMAIN Labels -> load_as_der(e.file, Labels[e.op]) # {}
      [] OTHER -> /\ LoadedKeys(e, pwd) # <<>>
                  /\ e.op = "named" => e.name # NoName

Done(op) == exit = "running" /\ todo # <<>> /\ Head(todo).op = op /\ LoadOK(Head(todo), cmd.pwd)

Step(m) == /\ mgr' = m
           /\ todo' = Tail(todo)
           /\ UNCHANGED <<cmd, exit, vars>>

AddKeys(ks) == Step([mgr EXCEPT !.keys = @ \o ks])

LoadKeysFile == Done("keys") /\ AddKeys(load_keys_file(Head(todo).file).keys)

\* --key, --cert, --untrusted and --trusted.
LoadKeyFile == Done("key") /\ AddKeys(LoadedKeys(Head(todo), cmd.pwd))

LoadNamedKey == Done("named") /\ AddKeys(LoadedKeys(Head(todo), cmd.pwd))

LoadPkcs12 == Done("pkcs12") /\ AddKeys(LoadedKeys(Head(todo), cmd.pwd))

LoadHmacKey == Done("hmac") /\ AddKeys(LoadedKeys(Head(todo), cmd.pwd))

LoadAesKey == Done("aes") /\ AddKeys(LoadedKeys(Head(todo), cmd.pwd))

Certificates(f) == {i.cert : i \in load_as_der(f, "CERTIFICATE")}

RevokedEntries(f) == UNION {i.entries : i \in load_as_der(f, "X509 CRL")}

AddTrustedCerts ==
    Done("trusted") /\ Step([mgr EXCEPT !.trusted = @ \union Certificates(Head(todo).file)])

AddUntrustedCerts ==
    Done("untrusted") /\ Step([mgr EXCEPT !.untrusted = @ \union Certificates(Head(todo).file)])

AddCrls ==
    Done("crl") /\ Step([mgr EXCEPT !.crls = @ \union RevokedEntries(Head(todo).file)])

Finish(how) == exit' = how /\ UNCHANGED <<cmd, todo, mgr, vars>>

\* Variant: a file that cannot be loaded is passed over.
LoadSkipped == /\ exit = "running" /\ todo # <<>>
               /\ ~LoadOK(Head(todo), cmd.pwd)
               /\ Step(mgr)

\* Variant: a file that cannot be loaded is tried again.
LoadRetried == /\ exit = "running" /\ todo # <<>>
               /\ ~LoadOK(Head(todo), cmd.pwd)
               /\ UNCHANGED <<cvars, vars>>

LoadFails == /\ exit = "running" /\ todo # <<>>
             /\ ~LoadOK(Head(todo), cmd.pwd)
             /\ Finish("Err")

-----------------------------------------------------------------------------
(* The library call.                                                       *)

\* Variant: trust anchors alone do not switch the validation on.
InlineX509Explicit(c) == c.x509

\* ADR-0004: --trusted switches the validation of inline certificates on.
InlineX509(c) == c.x509 \/ (c.trusted # <<>> /\ ~c.skip_strict)

\* DsigContext::new_permissive, then the options.
VerifyContext(c, m) ==
    [trusted_keys_only |-> c.trusted_keys_only, strict |-> c.strict,
     hmac_min |-> IF c.floor = <<>> THEN 0 ELSE c.floor[1],
     insecure |-> c.insecure, verify_keys |-> c.verify_keys, x509 |-> InlineX509(c),
     skip_time |-> c.skip_time, now |-> c.now, keys |-> m.keys, trusted |-> m.trusted,
     untrusted |-> m.untrusted, crls |-> m.crls,
     hsm |-> [on |-> FALSE, alg |-> "none", mat |-> "none"]]

Loaded == exit = "running" /\ todo = <<>> /\ pc = "idle"

StartVerify == /\ Loaded /\ cmd.name = "verify"
               /\ doc' = cmd.doc
               /\ ctx' = VerifyContext(cmd, mgr)
               /\ pc' = "parse"
               /\ UNCHANGED <<hmac, vrefs, key, source, leaf, result, cvars>>

VerifyStep == exit = "running" /\ Next /\ UNCHANGED cvars

\* Variant: an Invalid result is not told from a Valid one.
ReportOk == exit = "running" /\ pc = "done" /\ Finish(IF result = "Err" THEN "Err" ELSE "Ok")

\* The exit status of verify: 0, 1 or the error status.
Report == /\ exit = "running" /\ pc = "done"
          /\ Finish(IF result = "Valid" THEN "Ok" ELSE result)

\* generate_session_key: TYPE-BITS, bits a positive multiple of 8.
SessionKeyOK(s) == s.kind \in {"Hmac", "Aes", "Des3"} /\ s.bits % 8 = 0 /\ s.bits > 0

SessionKey(s) == SecretKey(s.kind, [mat |-> "session", size |-> s.bits \div 8])

\* Variant: the session key is added like any other.
WithSessionKeyLast(m, s) == [m EXCEPT !.keys = Append(@, SessionKey(s))]

\* insert_key_first.
WithSessionKey(m, s) == [m EXCEPT !.keys = <<SessionKey(s)>> \o @]

CallSign == /\ Loaded /\ cmd.name = "sign"
            /\ \A s \in ToSet(cmd.session) : SessionKeyOK(s)
            /\ mgr' = IF cmd.session = <<>> THEN mgr ELSE WithSessionKey(mgr, cmd.session[1])
            /\ exit' = "called"
            /\ UNCHANGED <<cmd, todo, vars>>

SessionKeyRefused == /\ Loaded /\ cmd.name = "sign"
                     /\ \E s \in ToSet(cmd.session) : ~SessionKeyOK(s)
                     /\ Finish("Err")

\* cmd_decrypt and cmd_encrypt: EncContext::new(mgr).
CallCipher == Loaded /\ cmd.name \in {"decrypt", "encrypt"} /\ Finish("called")

-----------------------------------------------------------------------------
\* The input is read before anything else.
CInit == /\ cmd \in Commands
         /\ todo = LoadPlan(cmd)
         /\ mgr = EmptyManager
         /\ exit = IF cmd.readable THEN "running" ELSE "Err"
         /\ doc = cmd.doc /\ ctx = VerifyContext(cmd, EmptyManager)
         /\ pc = "idle" /\ hmac = NoLength /\ vrefs = <<>> /\ key = NoKey
         /\ source = "none" /\ leaf = <<>> /\ result = "pending"

CNext == \/ LoadKeysFile \/ LoadKeyFile \/ LoadNamedKey \/ LoadPkcs12 \/ LoadHmacKey
         \/ LoadAesKey \/ AddTrustedCerts \/ AddUntrustedCerts \/ AddCrls \/ LoadFails
         \/ StartVerify \/ VerifyStep \/ Report
         \/ CallSign \/ SessionKeyRefused \/ CallCipher

\* One process that runs to its end.
CSpec == CInit /\ [][CNext]_<<cvars, vars>> /\ WF_<<cvars, vars>>(CNext)

-----------------------------------------------------------------------------
(* Properties.                                                             *)

\* Type invariant: what is left to do is an end of the plan, the manager only has keys,
\* a verdict is reported as it was returned, and the library is not entered earlier.
CTypeOK == /\ exit \in Exits
           /\ IsSuffix(todo, LoadPlan(cmd))
           /\ NoKey \notin ToSet(mgr.keys)
           /\ pc # "idle" => todo = <<>> /\ cmd.name = "verify"
           /\ exit = "Ok" => result = "Valid"
           /\ exit = "Invalid" => result = "Invalid"

Entered == exit = "called" \/ pc # "idle"

\* What the files of the options hold, read from the files and not from the manager.
HeldCerts(fs) == UNION {CASE f.form = "pem" -> {b.item.cert : b \in {x \in ToSet(f.blocks) :
                                                    x.label = "CERTIFICATE" /\ x.state = "ok"}}
                          [] OTHER -> {f.item.cert} : f \in ToSet(fs)}
HeldEntries(fs) == UNION {CASE f.form = "pem" -> UNION {b.item.entries : b \in {x \in ToSet(f.blocks) :
                                                    x.label = "X509 CRL" /\ x.state = "ok"}}
                            [] OTHER -> f.item.entries : f \in ToSet(fs)}

GivenConfig == [trusted |-> HeldCerts(cmd.trusted), untrusted |-> HeldCerts(cmd.untrusted),
                crls |-> HeldEntries(cmd.crl), now |-> cmd.now, skip_time |-> cmd.skip_time]

\* ADR-0004, "trusted roots constrain inline X.509 verification": when verify --trusted
\* succeeds with the key of an inline certificate (and neither --insecure nor
\* --x509-skip-strict-checks is given), that certificate leads to a certificate of the
\* --trusted files, and no CRL of the --crl files has revoked it.  For chains listed leaf
\* first, as LeafFirstKeyTrusted.
TrustedRootsConstrain ==
    (/\ exit = "Ok" /\ cmd.trusted # <<>> /\ ~cmd.skip_strict /\ ~cmd.insecure
     /\ source = "x509" /\ LeafFirst(key.chain))
    => \E c \in KeyCertificates(key) : validate_cert_chain(c, ToSet(key.chain), GivenConfig)

ItemMaterial(i) ==
    CASE i.t \in {"pkcs8", "pkcs1", "spki"} -> {i.mat}
      [] i.t = "cert" -> {i.cert.mat}
      [] i.t = "encrypted" -> {i.of.mat}
      [] i.t = "pfx" -> {b.of.mat : b \in {x \in ToSet(SafeBags(i)) : x.t \in {"key", "shrouded"}}}
      [] OTHER -> {}

FileMaterial(f) == {f.mat} \union ItemMaterial(f.item) \union UNION {ItemMaterial(b.item) : b \in ToSet(f.blocks)}

\* All or nothing: the library is only entered with a key from every key file that was
\* named, in the order of build_keys_manager (the keys of keys.xml come first, the session
\* key before all); no command goes on without the keys of a file that failed.
EveryFileCounts ==
    Entered =>
        LET plan == KeyPlan(cmd)
            first == Len(cmd.keys_file)
            before == Len(mgr.keys) - (Len(plan) - first)
        IN  /\ before >= 0
            /\ \A i \in first + 1 .. Len(plan) :
                  mgr.keys[before + i - first].mat \in FileMaterial(plan[i].file)

\* The keys the loaders read from a file; those of a --key-name file that none could read
\* are none.
ReadKeys(e, pwd) ==
    CASE e.op = "keys" -> ToSet(load_keys_file(e.file).keys)
      [] e.op = "named" -> {load_key_file_with_password(e.file, pwd)} \ {NoKey}
      [] OTHER -> ToSet(LoadedKeys(e, pwd))

\* A --key-name file that no loader could read (a wrong password, a damaged file) is kept
\* as an AES key, and no signature is ever valid under it, whatever name the document asks
\* for: what a key of the manager verifies is verified by a key, with its chain, that a
\* loader read from a file of the command line; what another key verifies, by one of the
\* document, and never with --trusted-keys-only.
OnlyReadKeysVerify ==
    exit = "Ok" =>
        IF source = "manager"
        THEN \E e \in ToSet(LoadPlan(cmd)) : \E k \in ReadKeys(e, cmd.pwd) :
                key.kind = k.kind /\ key.mat = k.mat /\ key.chain = k.chain
        ELSE ~cmd.trusted_keys_only /\ key.mat \in Policy!DocumentMaterial(cmd.doc)

\* A password that is not the one of a PKCS#12 file with a MAC, or of an encrypted PEM
\* key given with --key, ends every command before the library is entered.
Protected(f, pwd) == \/ f.item.t = "pfx" /\ f.item.mac # <<>> /\ f.item.mac[1] # pwd
                     \/ f.form = "pem" /\ \E b \in ToSet(f.blocks) : b.item.t = "encrypted" /\ b.item.pwd # pwd

WrongPasswordStops ==
    Entered => \A f \in ToSet(cmd.pkcs12 \o cmd.key) :
                  ~Protected(f, OrEmpty(cmd.pwd))

\* main.rs:587, "Insert it first so it takes priority for signing": sign() uses the first
\* key, which is the session key whatever other files were given.
SessionKeySigns ==
    exit = "called" /\ cmd.name = "sign" /\ cmd.session # <<>> =>
        mgr.keys[first_key(mgr.keys)].mat = "session"

\* Every command ends.
CommandEnds == <>(exit # "running")

\* What XML-DSig 1.1 derives for a truncated MAC: at least 80 bits and half of the hash.
SpecFloor(d) == 80 <= d.bits /\ d.fullmac * 4 <= d.bits

\* main.rs:70, "Minimum HMAC output length in bits (default: spec-derived)": without the
\* option, a truncated MAC below the length of the specification does not verify.
DefaultHmacFloor ==
    exit = "Ok" /\ cmd.floor = <<>> /\ doc.method = "Hmac" /\ doc.hmaclen = "bits" => SpecFloor(doc)
=============================================================================
