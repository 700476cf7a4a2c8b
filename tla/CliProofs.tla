------------------------------ MODULE CliProofs ------------------------------
(***************************************************************************)
(* Theorems about the commands, for every set of command lines: what is    *)
(* loaded, in which order, and what the library may rely on.               *)
(***************************************************************************)
EXTENDS Cli, DsigVerifyProofs, SequenceTheorems

-----------------------------------------------------------------------------
(* Sequences.                                                              *)

\* A sequence over any set is a Vec.
LEMMA SeqIsSeq ==
    ASSUME NEW S, NEW s \in Seq(S)
    PROVE  IsSeq(s)
BY SeqOfRange DEF IsSeq, Range

\* A function on 1 .. n is a sequence of length n.
LEMMA FunctionSeq ==
    ASSUME NEW n \in Nat, NEW s, s = [i \in 1 .. n |-> s[i]]
    PROVE  IsSeq(s) /\ Len(s) = n
<1> DEFINE S == {s[i] : i \in DOMAIN s}
<1>1. DOMAIN s = 1 .. n /\ s \in [1 .. n -> S]
  OBVIOUS
<1>2. s \in Seq(S)
  BY <1>1, SeqDef
<1>3. Len(s) \in Nat /\ DOMAIN s = 1 .. Len(s)
  BY <1>2, LenProperties
<1>4. Len(s) = n
  BY <1>1, <1>3
<1> QED BY <1>2, <1>4 DEF IsSeq

\* The elements of a sequence.
LEMMA InElements ==
    ASSUME NEW s, NEW i \in DOMAIN s
    PROVE  s[i] \in ToSet(s)
BY DEF ToSet

\* Concatenation of two Vecs.
LEMMA ConcatSeq ==
    ASSUME NEW s, IsSeq(s), NEW t, IsSeq(t)
    PROVE  /\ IsSeq(s \o t) /\ Len(s \o t) = Len(s) + Len(t)
           /\ \A i \in 1 .. Len(s) : (s \o t)[i] = s[i]
           /\ \A i \in 1 .. Len(t) : (s \o t)[Len(s) + i] = t[i]
<1> DEFINE S == {s[i] : i \in DOMAIN s} \union {t[i] : i \in DOMAIN t}
<1>1. s \in Seq(S) /\ t \in Seq(S)
  BY DEF IsSeq
<1> HIDE DEF S
<1>2. s \o t \in Seq(S) /\ Len(s \o t) = Len(s) + Len(t) /\ Len(s) \in Nat /\ Len(t) \in Nat
  BY <1>1
<1>3. /\ \A i \in 1 .. Len(s) : (s \o t)[i] = s[i]
      /\ \A i \in 1 .. Len(t) : (s \o t)[Len(s) + i] = t[i]
  BY <1>1
<1>4. IsSeq(s \o t)
  BY <1>2, SeqIsSeq
<1> QED BY <1>2, <1>3, <1>4

\* The elements of a concatenation.
LEMMA ConcatElements ==
    ASSUME NEW s, IsSeq(s), NEW t, IsSeq(t)
    PROVE  ToSet(s \o t) = ToSet(s) \union ToSet(t)
<1>1. /\ DOMAIN s = 1 .. Len(s) /\ DOMAIN t = 1 .. Len(t)
      /\ DOMAIN (s \o t) = 1 .. Len(s) + Len(t) /\ Len(s) \in Nat /\ Len(t) \in Nat
  BY SeqDomain, ConcatSeq
<1>2. ASSUME NEW x \in ToSet(s \o t) PROVE x \in ToSet(s) \union ToSet(t)
  <2>1. PICK i \in 1 .. Len(s) + Len(t) : x = (s \o t)[i]
    BY <1>1 DEF ToSet
  <2>2. CASE i \in 1 .. Len(s)
    BY <1>1, <2>1, <2>2, ConcatSeq DEF ToSet
  <2>3. CASE i \notin 1 .. Len(s)
    <3>1. i - Len(s) \in 1 .. Len(t) /\ i = Len(s) + (i - Len(s))
      BY <1>1, <2>1, <2>3
    <3>2. x = t[i - Len(s)]
      BY <2>1, <3>1, ConcatSeq
    <3> QED BY <1>1, <3>1, <3>2 DEF ToSet
  <2> QED BY <2>2, <2>3
<1>3. ASSUME NEW i \in 1 .. Len(s) PROVE s[i] \in ToSet(s \o t)
  <2>1. i \in DOMAIN (s \o t) /\ (s \o t)[i] = s[i]
    BY <1>1, ConcatSeq
  <2>2. (s \o t)[i] \in ToSet(s \o t)
    BY <2>1, InElements
  <2> QED BY <2>1, <2>2
<1>4. ASSUME NEW i \in 1 .. Len(t) PROVE t[i] \in ToSet(s \o t)
  <2>1. Len(s) + i \in DOMAIN (s \o t) /\ (s \o t)[Len(s) + i] = t[i]
    BY <1>1, ConcatSeq
  <2>2. (s \o t)[Len(s) + i] \in ToSet(s \o t)
    BY <2>1, InElements
  <2> QED BY <2>1, <2>2
<1> QED BY <1>1, <1>2, <1>3, <1>4 DEF ToSet

-----------------------------------------------------------------------------
(* The plan of the loads.                                                  *)

SingleOps == {"key", "named", "pkcs12", "hmac", "aes"}
StoreOps == {"trusted", "untrusted", "crl"}

\* Loads of an option: one per file, in order.
LEMMA LoadsSeq ==
    ASSUME NEW op, NEW fs, IsSeq(fs)
    PROVE  /\ IsSeq(Loads(op, fs)) /\ Len(Loads(op, fs)) = Len(fs)
           /\ \A i \in DOMAIN fs : Loads(op, fs)[i] = [op |-> op, name |-> NoName, file |-> fs[i]]
<1> DEFINE s == Loads(op, fs)
           n == Len(fs)
<1>1. DOMAIN fs = 1 .. n /\ n \in Nat
  BY SeqDomain
<1>2. s = [i \in 1 .. n |-> [op |-> op, name |-> NoName, file |-> fs[i]]]
  BY <1>1 DEF Loads
<1> HIDE DEF s, n
<1>3. s = [i \in 1 .. n |-> s[i]]
  BY <1>2
<1>4. IsSeq(s) /\ Len(s) = n
  BY <1>1, <1>3, FunctionSeq
<1> QED BY <1>1, <1>2, <1>4 DEF s, n

\* The same with names.
LEMMA NamedLoadsSeq ==
    ASSUME NEW op, NEW es, IsSeq(es)
    PROVE  /\ IsSeq(NamedLoads(op, es)) /\ Len(NamedLoads(op, es)) = Len(es)
           /\ \A i \in DOMAIN es :
                 NamedLoads(op, es)[i] = [op |-> op, name |-> es[i].name, file |-> es[i].file]
<1> DEFINE s == NamedLoads(op, es)
           n == Len(es)
<1>1. DOMAIN es = 1 .. n /\ n \in Nat
  BY SeqDomain
<1>2. s = [i \in 1 .. n |-> [op |-> op, name |-> es[i].name, file |-> es[i].file]]
  BY <1>1 DEF NamedLoads
<1> HIDE DEF s, n
<1>3. s = [i \in 1 .. n |-> s[i]]
  BY <1>2
<1>4. IsSeq(s) /\ Len(s) = n
  BY <1>1, <1>3, FunctionSeq
<1> QED BY <1>1, <1>2, <1>4 DEF s, n

\* A list of loads whose first k are of keys.xml files and the others of single keys.
KeysFirst(s, k) == /\ IsSeq(s) /\ k \in 0 .. Len(s)
                   /\ \A i \in 1 .. k : s[i].op = "keys"
                   /\ \A i \in k + 1 .. Len(s) : s[i].op \in SingleOps
                   /\ \A i \in DOMAIN s : FileOK(s[i].file)

\* It stays one when more single loads are appended.
LEMMA KeysFirstAppended ==
    ASSUME NEW s, NEW k, KeysFirst(s, k), NEW t, IsSeq(t),
           \A i \in DOMAIN t : t[i].op \in SingleOps /\ FileOK(t[i].file)
    PROVE  KeysFirst(s \o t, k)
<1> DEFINE u == s \o t
<1>1. IsSeq(s) /\ k \in 0 .. Len(s)
  BY DEF KeysFirst
<1>2. /\ Len(s) \in Nat /\ DOMAIN s = 1 .. Len(s) /\ Len(t) \in Nat /\ DOMAIN t = 1 .. Len(t)
  BY <1>1, SeqDomain
<1>3. /\ IsSeq(u) /\ Len(u) = Len(s) + Len(t)
      /\ \A i \in 1 .. Len(s) : u[i] = s[i]
      /\ \A i \in 1 .. Len(t) : u[Len(s) + i] = t[i]
  BY <1>1, ConcatSeq
<1>4. DOMAIN u = 1 .. Len(s) + Len(t)
  BY <1>3, SeqDomain
<1> HIDE DEF u
<1>5. \A i \in Len(s) + 1 .. Len(s) + Len(t) : u[i].op \in SingleOps /\ FileOK(u[i].file)
  <2> TAKE i \in Len(s) + 1 .. Len(s) + Len(t)
  <2>1. i - Len(s) \in DOMAIN t /\ u[i] = t[i - Len(s)]
    BY <1>2, <1>3
  <2> QED BY <2>1
<1>6. \A i \in 1 .. k : u[i].op = "keys"
  BY <1>1, <1>2, <1>3 DEF KeysFirst
<1>7. \A i \in k + 1 .. Len(u) : u[i].op \in SingleOps
  <2> TAKE i \in k + 1 .. Len(u)
  <2>1. CASE i <= Len(s)
    BY <1>1, <1>2, <1>3, <2>1 DEF KeysFirst
  <2>2. CASE i > Len(s)
    BY <1>1, <1>2, <1>3, <1>5, <2>2
  <2> QED BY <1>1, <1>2, <2>1, <2>2
<1>8. \A i \in DOMAIN u : FileOK(u[i].file)
  <2> TAKE i \in DOMAIN u
  <2>1. CASE i <= Len(s)
    BY <1>2, <1>3, <1>4, <2>1 DEF KeysFirst
  <2>2. CASE i > Len(s)
    BY <1>2, <1>4, <1>5, <2>2
  <2> QED BY <1>2, <1>4, <2>1, <2>2
<1>9. k \in 0 .. Len(u)
  BY <1>1, <1>2, <1>3
<1> QED BY <1>3, <1>6, <1>7, <1>8, <1>9 DEF KeysFirst, u

\* A list of files whose contents are well formed.
FilesOK(fs) == IsSeq(fs) /\ \A i \in DOMAIN fs : FileOK(fs[i])

\* The loads of such a list are well formed too.
LEMMA LoadsOK ==
    ASSUME NEW op, NEW fs, FilesOK(fs)
    PROVE  /\ IsSeq(Loads(op, fs))
           /\ \A i \in DOMAIN Loads(op, fs) : Loads(op, fs)[i].op = op /\ FileOK(Loads(op, fs)[i].file)
           /\ ToSet(Loads(op, fs)) = {[op |-> op, name |-> NoName, file |-> f] : f \in ToSet(fs)}
<1>1. IsSeq(Loads(op, fs))
  BY LoadsSeq DEF FilesOK
<1>2. \A i \in DOMAIN Loads(op, fs) : Loads(op, fs)[i].op = op /\ FileOK(Loads(op, fs)[i].file)
  BY DEF FilesOK, Loads
<1>3. ToSet(Loads(op, fs)) = {[op |-> op, name |-> NoName, file |-> f] : f \in ToSet(fs)}
  BY DEF ToSet, Loads
<1> QED BY <1>1, <1>2, <1>3

\* Two lists of files make one.
LEMMA FilesConcat ==
    ASSUME NEW s, FilesOK(s), NEW t, FilesOK(t)
    PROVE  FilesOK(s \o t)
<1>1. IsSeq(s) /\ IsSeq(t)
  BY DEF FilesOK
<1>2. IsSeq(s \o t) /\ ToSet(s \o t) = ToSet(s) \union ToSet(t)
  BY <1>1, ConcatSeq, ConcatElements
<1>3. \A f \in ToSet(s) \union ToSet(t) : FileOK(f)
  BY DEF FilesOK, ToSet
<1> QED BY <1>2, <1>3, InElements DEF FilesOK

\* The plan of build_keys_manager: the keys.xml files first, then one key per file; every
\* --key and --pkcs12 file is part of it.
LEMMA KeyPlanShape ==
    ASSUME NEW c \in Commands
    PROVE  /\ KeysFirst(KeyPlan(c), Len(c.keys_file))
           /\ ToSet(Loads("key", c.key)) \subseteq ToSet(KeyPlan(c))
           /\ ToSet(Loads("pkcs12", c.pkcs12)) \subseteq ToSet(KeyPlan(c))
<1> DEFINE certs == IF c.name = "verify" THEN c.certs \o c.untrusted ELSE c.certs
           k == Len(c.keys_file)
           s1 == Loads("keys", c.keys_file)
           s2 == s1 \o Loads("key", c.key)
           s3 == s2 \o NamedLoads("named", c.named)
           s4 == s3 \o Loads("pkcs12", c.pkcs12)
           s5 == s4 \o Loads("key", certs)
           s6 == s5 \o Loads("key", c.trusted)
           s7 == s6 \o NamedLoads("hmac", c.hmac)
           s8 == s7 \o Loads("aes", c.aes)
<1>1. /\ FilesOK(c.keys_file) /\ FilesOK(c.key) /\ FilesOK(c.pkcs12) /\ FilesOK(c.certs)
      /\ FilesOK(c.trusted) /\ FilesOK(c.untrusted) /\ FilesOK(c.aes)
  BY CommandsAssumption DEF FilesOK
<1>2. \A es \in {c.named, c.hmac} : IsSeq(es) /\ \A i \in DOMAIN es : FileOK(es[i].file)
  BY CommandsAssumption
<1>3. FilesOK(certs)
  BY <1>1, FilesConcat
<1>4. ASSUME NEW op \in {"named", "hmac"}, NEW es \in {c.named, c.hmac}
      PROVE  /\ IsSeq(NamedLoads(op, es))
             /\ \A i \in DOMAIN NamedLoads(op, es) :
                   NamedLoads(op, es)[i].op \in SingleOps /\ FileOK(NamedLoads(op, es)[i].file)
  BY <1>2, NamedLoadsSeq DEF SingleOps, NamedLoads
<1>5. KeyPlan(c) = s8
  BY DEF KeyPlan, build_keys_manager
<1>6. ASSUME NEW op \in SingleOps, NEW fs, FilesOK(fs)
      PROVE  /\ IsSeq(Loads(op, fs))
             /\ \A i \in DOMAIN Loads(op, fs) : Loads(op, fs)[i].op \in SingleOps /\ FileOK(Loads(op, fs)[i].file)
  BY <1>6, LoadsOK
<1>7. KeysFirst(s1, k)
  <2>1. IsSeq(s1) /\ Len(s1) = k /\ k \in Nat
    BY <1>1, LoadsSeq, SeqDomain DEF FilesOK
  <2>2. DOMAIN s1 = 1 .. k
    BY <2>1, SeqDomain
  <2>3. \A i \in DOMAIN s1 : s1[i].op = "keys" /\ FileOK(s1[i].file)
    BY <1>1, LoadsOK
  <2> QED BY <2>1, <2>2, <2>3 DEF KeysFirst
<1> HIDE DEF s1, s2, s3, s4, s5, s6, s7, s8, certs, k
<1>8. KeysFirst(s2, k)
  BY <1>1, <1>6, <1>7, KeysFirstAppended DEF s2, SingleOps
<1>9. KeysFirst(s3, k)
  BY <1>4, <1>8, KeysFirstAppended DEF s3
<1>10. KeysFirst(s4, k)
  BY <1>1, <1>6, <1>9, KeysFirstAppended DEF s4, SingleOps
<1>11. KeysFirst(s5, k)
  BY <1>3, <1>6, <1>10, KeysFirstAppended DEF s5, SingleOps
<1>12. KeysFirst(s6, k)
  BY <1>1, <1>6, <1>11, KeysFirstAppended DEF s6, SingleOps
<1>13. KeysFirst(s7, k)
  BY <1>4, <1>12, KeysFirstAppended DEF s7
<1>14. KeysFirst(s8, k)
  BY <1>1, <1>6, <1>13, KeysFirstAppended DEF s8, SingleOps
<1>15. \A s, t : IsSeq(s) /\ IsSeq(t) => ToSet(s) \subseteq ToSet(s \o t) /\ ToSet(t) \subseteq ToSet(s \o t)
  BY ConcatElements
<1>16. \A s : KeysFirst(s, k) => IsSeq(s)
  BY DEF KeysFirst
<1>17. IsSeq(Loads("key", c.key)) /\ IsSeq(Loads("pkcs12", c.pkcs12))
  BY <1>1, <1>6 DEF SingleOps
<1>18. ToSet(Loads("key", c.key)) \subseteq ToSet(s2) /\ ToSet(s2) \subseteq ToSet(s3)
  BY <1>4, <1>7, <1>8, <1>15, <1>16, <1>17 DEF s2, s3
<1>19. ToSet(Loads("pkcs12", c.pkcs12)) \subseteq ToSet(s4) /\ ToSet(s3) \subseteq ToSet(s4)
  BY <1>9, <1>15, <1>16, <1>17 DEF s4
<1>20. ToSet(s4) \subseteq ToSet(s5) /\ ToSet(s5) \subseteq ToSet(s6)
  BY <1>1, <1>3, <1>6, <1>10, <1>11, <1>15, <1>16 DEF s5, s6, SingleOps
<1>21. ToSet(s6) \subseteq ToSet(s7) /\ ToSet(s7) \subseteq ToSet(s8)
  BY <1>1, <1>4, <1>6, <1>12, <1>13, <1>15, <1>16 DEF s7, s8, SingleOps
<1> QED BY <1>5, <1>14, <1>18, <1>19, <1>20, <1>21 DEF k

\* The stores come after the keys, and each store from its own option.
LEMMA StorePlanShape ==
    ASSUME NEW c \in Commands
    PROVE  /\ IsSeq(StorePlan(c)) /\ \A i \in DOMAIN StorePlan(c) : StorePlan(c)[i].op \in StoreOps
           /\ c.name = "verify" =>
                 ToSet(StorePlan(c)) = ToSet(Loads("trusted", c.trusted))
                   \union ToSet(Loads("untrusted", c.untrusted)) \union ToSet(Loads("crl", c.crl))
<1>1. FilesOK(c.trusted) /\ FilesOK(c.untrusted) /\ FilesOK(c.crl)
  BY CommandsAssumption DEF FilesOK
<1>2. CASE c.name = "verify"
  <2> DEFINE t == Loads("trusted", c.trusted)
             u == Loads("untrusted", c.untrusted)
             l == Loads("crl", c.crl)
  <2>1. IsSeq(t) /\ IsSeq(u) /\ IsSeq(l)
    BY <1>1, LoadsOK
  <2>2. \A e \in ToSet(t) \union ToSet(u) \union ToSet(l) : e.op \in StoreOps
    BY <1>1, LoadsOK DEF StoreOps
  <2>3. StorePlan(c) = (t \o u) \o l
    BY <1>2 DEF StorePlan
  <2> HIDE DEF t, u, l
  <2>4. IsSeq(t \o u) /\ ToSet(t \o u) = ToSet(t) \union ToSet(u)
    BY <2>1, ConcatSeq, ConcatElements
  <2>5. /\ IsSeq((t \o u) \o l)
        /\ ToSet((t \o u) \o l) = ToSet(t) \union ToSet(u) \union ToSet(l)
    BY <2>1, <2>4, ConcatSeq, ConcatElements
  <2>6. \A i \in DOMAIN StorePlan(c) : StorePlan(c)[i].op \in StoreOps
    BY <2>2, <2>3, <2>5, InElements
  <2> QED BY <2>3, <2>5, <2>6 DEF t, u, l
<1>3. CASE c.name # "verify"
  BY <1>3 DEF StorePlan, IsSeq
<1> QED BY <1>2, <1>3

-----------------------------------------------------------------------------
(* What a load adds.                                                       *)

\* The DER decoders only return keys of the octets they were given.
LEMMA DerMaterial ==
    ASSUME NEW i, load_der_auto(i) # NoKey
    PROVE  /\ load_der_auto(i).kind # "none" /\ load_der_auto(i).mat \in ItemMaterial(i)
           /\ i.t \in {"pkcs8", "pkcs1", "spki", "cert"}
<1>1. CASE load_private_key_pkcs8_der(i) # NoKey
  BY <1>1 DEF load_der_auto, OrElseKey, load_private_key_pkcs8_der, PrivateKey, NoKey, LoadableKinds, ItemMaterial
<1>2. CASE load_private_key_pkcs8_der(i) = NoKey /\ load_pkcs1_der(i) # NoKey
  BY <1>2 DEF load_der_auto, OrElseKey, load_pkcs1_der, PrivateKey, NoKey, ItemMaterial
<1>3. CASE load_private_key_pkcs8_der(i) = NoKey /\ load_pkcs1_der(i) = NoKey /\ load_spki_der(i) # NoKey
  BY <1>3 DEF load_der_auto, OrElseKey, load_spki_der, PrivateKey, NoKey, LoadableKinds, ItemMaterial
<1>4. CASE /\ load_private_key_pkcs8_der(i) = NoKey /\ load_pkcs1_der(i) = NoKey
           /\ load_spki_der(i) = NoKey
  BY <1>4 DEF load_der_auto, OrElseKey, load_x509_cert_der, CertKey, NoKey, ItemMaterial
<1> QED BY <1>1, <1>2, <1>3, <1>4

\* A certificate file gives the certificate's key.
LEMMA CertMaterial ==
    ASSUME NEW i, load_x509_cert_der(i) # NoKey
    PROVE  /\ load_x509_cert_der(i).kind # "none" /\ load_x509_cert_der(i).mat \in ItemMaterial(i)
           /\ i.t = "cert"
BY DEF load_x509_cert_der, CertKey, NoKey, ItemMaterial

\* A decrypted private key is what was encrypted.
LEMMA DecryptedMaterial ==
    ASSUME NEW i, NEW pwd, load_private_key_pkcs8_der(Decrypted(i, pwd)) # NoKey
    PROVE  /\ load_private_key_pkcs8_der(Decrypted(i, pwd)).kind # "none"
           /\ load_private_key_pkcs8_der(Decrypted(i, pwd)).mat = i.of.mat
           /\ i.pwd = pwd
<1> DEFINE d == Decrypted(i, pwd)
<1>1. d.t = "pkcs8" /\ d.kind \in LoadableKinds
  BY DEF load_private_key_pkcs8_der
<1>2. i.pwd = pwd /\ d = i.of
  BY <1>1 DEF Decrypted, Garbage, NoItem
<1> QED BY <1>1, <1>2 DEF load_private_key_pkcs8_der, PrivateKey, NoKey, LoadableKinds

\* A PEM file gives a key of one of its blocks.
LEMMA PemMaterial ==
    ASSUME NEW bs, IsSeq(bs), NEW i, i = decode_vec(bs), i # NoItem
    PROVE  ToSet(bs) = {bs[1]} /\ i = bs[1].item
<1>1. Len(bs) = 1 /\ i = bs[1].item
  BY DEF decode_vec
<1>2. DOMAIN bs = {1}
  BY <1>1, SeqDomain
<1> QED BY <1>1, <1>2 DEF ToSet

\* An error of the decoder is an error of the loaders above it.
LEMMA NoItemNoKey == load_der_auto(NoItem) = NoKey /\ load_x509_cert_der(NoItem) = NoKey
BY DEF load_der_auto, OrElseKey, load_private_key_pkcs8_der, load_pkcs1_der, load_spki_der,
       load_x509_cert_der, NoItem

\* A PKCS#12 file gives the key of one of its bags, once its MAC is verified.
LEMMA Pkcs12Material ==
    ASSUME NEW i, NEW pwd, i.t = "pfx" => IsSeq(SafeBags(i)), load_pkcs12(i, pwd) # NoKey
    PROVE  /\ load_pkcs12(i, pwd).kind # "none" /\ load_pkcs12(i, pwd).mat \in ItemMaterial(i)
           /\ i.t = "pfx" /\ verify_mac(i, OrEmpty(pwd))
<1> DEFINE w == OrEmpty(pwd)
           bags == SafeBags(i)
           keys == {j \in DOMAIN bags : bags[j].t \in {"key", "shrouded"}}
           p == parse_pfx(i, w)
           k == load_private_key_pkcs8_der(p.keys[1])
           b == bags[FirstOf(keys)]
<1>1. i.t = "pfx" /\ p.ok /\ p.keys # <<>> /\ k # NoKey /\ load_pkcs12(i, pwd) = [k EXCEPT !.chain = p.certs]
  BY DEF load_pkcs12, Failed
<1>2. verify_mac(i, w) /\ keys # {} /\ p.keys = <<BagKey(b, w)>>
  BY <1>1 DEF parse_pfx, Failed
<1>3. FirstOf(keys) \in keys
  BY <1>1, <1>2, FindIndex
<1>4. b.of.mat \in ItemMaterial(i)
  BY <1>1, <1>3 DEF ItemMaterial, ToSet
<1> HIDE DEF b, keys, p, w
<1>5. k = load_private_key_pkcs8_der(BagKey(b, w))
  BY <1>2
<1> HIDE DEF k
<1>6. k.kind # "none" /\ k.mat = b.of.mat /\ k = PrivateKey(k.kind, k.mat)
  <2>1. CASE b.t = "shrouded"
    <3>1. k = load_private_key_pkcs8_der(Decrypted(b, w))
      BY <1>5, <2>1 DEF BagKey
    <3>2. k = PrivateKey(k.kind, k.mat)
      BY <1>1, <3>1 DEF load_private_key_pkcs8_der, PrivateKey, NoKey
    <3> QED BY <1>1, <3>1, <3>2, DecryptedMaterial
  <2>2. CASE b.t # "shrouded"
    <3>1. k = load_private_key_pkcs8_der(b.of)
      BY <1>5, <2>2 DEF BagKey
    <3> QED BY <1>1, <3>1 DEF load_private_key_pkcs8_der, PrivateKey, NoKey, LoadableKinds
  <2> QED BY <2>1, <2>2
<1>7. load_pkcs12(i, pwd).kind = k.kind /\ load_pkcs12(i, pwd).mat = k.mat
  BY <1>1, <1>6 DEF PrivateKey, NoKey
<1> QED BY <1>1, <1>2, <1>4, <1>6, <1>7 DEF w

\* A key file gives a key of its own material, and none under a wrong password.
LEMMA KeyFileMaterial ==
    ASSUME NEW f, FileOK(f), NEW pwd, NEW k, k = load_key_file_with_password(f, pwd), k # NoKey
    PROVE  /\ k.kind # "none" /\ k.mat \in FileMaterial(f)
           /\ ~Protected(f, OrEmpty(pwd))
<1>1. IsSeq(f.blocks) /\ (f.form = "pem" => f.item = NoItem) /\ (f.item.t = "pfx" => IsSeq(SafeBags(f.item)))
  BY DEF FileOK
<1>2. NoItem.t # "pfx"
  BY DEF NoItem
<1>3. CASE k = load_pkcs12(f.item, pwd)
  <2>1. /\ k.kind # "none" /\ k.mat \in ItemMaterial(f.item) /\ f.item.t = "pfx"
        /\ verify_mac(f.item, OrEmpty(pwd))
    BY <1>1, <1>3, Pkcs12Material
  <2> QED BY <1>1, <1>2, <2>1 DEF FileMaterial, Protected, verify_mac
<1>4. CASE f.form # "pem" /\ k \in {load_x509_cert_der(f.item), load_der_auto(f.item)}
  <2>1. k.kind # "none" /\ k.mat \in ItemMaterial(f.item) /\ f.item.t # "pfx"
    BY <1>4, DerMaterial, CertMaterial
  <2> QED BY <1>4, <2>1 DEF FileMaterial, Protected
<1>5. CASE f.form = "pem" /\ k \in {load_x509_cert_pem(f.blocks), load_pem_auto(f.blocks, pwd)}
  <2> DEFINE i == decode_vec(f.blocks)
  <2>1. i # NoItem
    <3> SUFFICES ASSUME i = NoItem PROVE k = NoKey
      OBVIOUS
    <3>1. NoItem.t # "encrypted"
      BY DEF NoItem
    <3> QED BY <1>5, <3>1, NoItemNoKey DEF load_x509_cert_pem, load_pem_auto, load_encrypted_pem
  <2>2. ToSet(f.blocks) = {f.blocks[1]} /\ i = f.blocks[1].item
    BY <1>1, <2>1, PemMaterial
  <2>3. CASE k \in {load_x509_cert_der(i), load_der_auto(i)}
    <3>1. k.kind # "none" /\ k.mat \in ItemMaterial(i) /\ i.t # "encrypted"
      BY <2>3, DerMaterial, CertMaterial
    <3> QED BY <1>1, <1>2, <1>5, <2>2, <3>1 DEF FileMaterial, Protected
  <2>4. CASE k = load_encrypted_pem(f.blocks, pwd) /\ pwd # NoPwd
    <3>1. i.t = "encrypted" /\ k = load_private_key_pkcs8_der(Decrypted(i, pwd))
      BY <2>4 DEF load_encrypted_pem
    <3>2. k.kind # "none" /\ k.mat = i.of.mat /\ i.pwd = pwd
      BY <3>1, DecryptedMaterial
    <3>3. k.mat \in ItemMaterial(i)
      BY <3>1, <3>2 DEF ItemMaterial
    <3> QED BY <1>1, <1>2, <1>5, <2>2, <2>4, <3>2, <3>3 DEF FileMaterial, Protected, OrEmpty
  <2> QED BY <1>5, <2>3, <2>4 DEF load_x509_cert_pem, load_pem_auto
<1> QED BY <1>3, <1>4, <1>5 DEF load_key_file_with_password, FileOK

\* A load of a single key that goes through adds one key, of the file's own material.
LEMMA LoadedOne ==
    ASSUME NEW e, FileOK(e.file), e.op \in SingleOps, NEW pwd, LoadOK(e, pwd)
    PROVE  /\ LoadedKeys(e, pwd) = <<LoadedKeys(e, pwd)[1]>>
           /\ LoadedKeys(e, pwd)[1].kind # "none"
           /\ LoadedKeys(e, pwd)[1].mat \in FileMaterial(e.file)
           /\ e.op \in {"key", "pkcs12"} => ~Protected(e.file, OrEmpty(pwd))
<1> DEFINE f == e.file
           k == load_key_file_with_password(f, pwd)
           Goal == /\ LoadedKeys(e, pwd) = <<LoadedKeys(e, pwd)[1]>>
                   /\ LoadedKeys(e, pwd)[1].kind # "none"
                   /\ LoadedKeys(e, pwd)[1].mat \in FileMaterial(e.file)
                   /\ e.op \in {"key", "pkcs12"} => ~Protected(e.file, OrEmpty(pwd))
<1> SUFFICES Goal
  OBVIOUS
<1>0. ASSUME NEW x, LoadedKeys(e, pwd) = <<x>>, x.kind # "none", x.mat \in FileMaterial(f),
             e.op \in {"key", "pkcs12"} => ~Protected(f, OrEmpty(pwd))
      PROVE  Goal
  <2>1. LoadedKeys(e, pwd)[1] = x
    BY <1>0
  <2> QED BY <1>0, <2>1
<1> HIDE DEF Goal
<1>1. LoadedKeys(e, pwd) # <<>>
  BY DEF LoadOK, SingleOps, Labels
<1>2. \A kind \in {"Hmac", "Aes"} : \A n : /\ SecretKey(kind, f).kind # "none"
                                      /\ SecretKey(kind, f).mat \in FileMaterial(f)
                                      /\ NamedAs(SecretKey(kind, f), n).kind # "none"
                                      /\ NamedAs(SecretKey(kind, f), n).mat \in FileMaterial(f)
  BY DEF SecretKey, NoKey, NamedAs, FileMaterial
<1>3. CASE e.op = "key"
  <2>1. LoadedKeys(e, pwd) = <<k>> /\ k # NoKey
    BY <1>1, <1>3 DEF LoadedKeys
  <2> QED BY <1>0, <1>3, <2>1, KeyFileMaterial
<1>4. CASE e.op = "pkcs12"
  <2> DEFINE p == load_pkcs12(f.item, pwd)
  <2>1. LoadedKeys(e, pwd) = <<p>> /\ p # NoKey
    BY <1>1, <1>4 DEF LoadedKeys
  <2>2. /\ p.kind # "none" /\ p.mat \in ItemMaterial(f.item)
        /\ f.item.t = "pfx" /\ verify_mac(f.item, OrEmpty(pwd))
    <3>1. f.item.t = "pfx" => IsSeq(SafeBags(f.item))
      BY DEF FileOK
    <3> HIDE DEF f
    <3> QED BY <2>1, <3>1, Pkcs12Material
  <2>3. f.form # "pem"
    <3>1. f.form = "pem" => f.item = NoItem
      BY DEF FileOK
    <3>2. NoItem.t # "pfx"
      BY DEF NoItem
    <3> QED BY <2>2, <3>1, <3>2
  <2> QED BY <1>0, <2>1, <2>2, <2>3 DEF FileMaterial, Protected, verify_mac
<1>5. CASE e.op = "named"
  <2> DEFINE g == IF k = NoKey THEN FallbackKey(f) ELSE k
  <2>1. LoadedKeys(e, pwd) = <<NamedAs(g, e.name)>>
    BY <1>1, <1>5 DEF LoadedKeys
  <2>2. CASE k = NoKey
    BY <1>0, <1>2, <1>5, <2>1, <2>2 DEF FallbackKey
  <2>3. CASE k # NoKey
    <3>1. k.kind # "none" /\ k.mat \in FileMaterial(f)
      BY <2>3, KeyFileMaterial
    <3>2. NamedAs(k, e.name).kind # "none" /\ NamedAs(k, e.name).mat \in FileMaterial(f)
      BY <3>1 DEF NamedAs
    <3> QED BY <1>0, <1>5, <2>1, <2>3, <3>2
  <2> QED BY <2>2, <2>3
<1>6. CASE e.op = "hmac"
  BY <1>0, <1>1, <1>2, <1>6 DEF LoadedKeys
<1>7. CASE e.op = "aes"
  BY <1>0, <1>1, <1>2, <1>7 DEF LoadedKeys
<1> QED BY <1>3, <1>4, <1>5, <1>6, <1>7 DEF SingleOps

\* What a certificate or CRL file that could be loaded gives is what it holds.
LEMMA StoreFile ==
    ASSUME NEW f, FileOK(f), NEW label, load_as_der(f, label) # {}
    PROVE  load_as_der(f, label) =
             IF f.form = "pem"
             THEN {b.item : b \in {x \in ToSet(f.blocks) : x.label = label /\ x.state = "ok"}}
             ELSE {f.item}
<1>1. CASE f.form # "pem"
  BY <1>1 DEF load_as_der
<1>2. CASE f.form = "pem"
  <2> DEFINE bs == f.blocks
             mine == {i \in DOMAIN bs : bs[i].label = label}
             torn == {i \in mine : bs[i].state = "unended"}
             cut == FirstOf(torn)
             read == {i \in mine : cut = 0 \/ i < cut}
  <2>1. load_as_der(f, label) = pem_decode_all(bs, label)
    BY <1>2 DEF load_as_der
  <2>2. /\ \A i \in read : bs[i].state # "garbled"
        /\ \A i \in mine \ read : bs[i].state = "unended"
        /\ load_as_der(f, label) = {bs[i].item : i \in read}
    BY <2>1 DEF pem_decode_all
  <2>3. IsSeq(bs) /\ \A i \in DOMAIN bs : bs[i].state \in {"ok", "garbled", "unended"}
    BY DEF FileOK
  <2>4. DOMAIN bs = 1 .. Len(bs) /\ Len(bs) \in Nat
    BY <2>3, SeqDomain
  <2>5. \A i \in read : i \notin torn
    <3>1. torn \in SUBSET Nat
      BY <2>4
    <3>2. torn # {} => cut \in torn /\ \A i \in torn : cut <= i
      BY <3>1, FirstOfLeast
    <3>3. torn = {} \/ cut # 0
      BY <2>4, <3>2
    <3> SUFFICES ASSUME NEW i \in torn, i \in read PROVE FALSE
      OBVIOUS
    <3>4. cut = 0 \/ i < cut
      OBVIOUS
    <3> HIDE DEF torn, cut
    <3>5. i \in Nat /\ cut \in Nat /\ cut <= i /\ cut # 0
      BY <3>1, <3>2, <3>3
    <3> QED BY <3>4, <3>5
  <2>6. read = {i \in mine : bs[i].state = "ok"}
    <3> HIDE DEF cut
    <3> QED BY <2>2, <2>3, <2>5
  <2>7. {bs[i].item : i \in read} = {b.item : b \in {x \in ToSet(bs) : x.label = label /\ x.state = "ok"}}
    BY <2>6 DEF ToSet
  <2> QED BY <1>2, <2>2, <2>7
<1> QED BY <1>1, <1>2

-----------------------------------------------------------------------------
(* The progress of the loads.                                              *)

\* How many loads are done, and what is known then: the rest of the plan is still to do,
\* and no load has failed.
DoneLoads(c, t) == Len(LoadPlan(c)) - Len(t)

Planned(c, t) == /\ IsSeq(t) /\ DoneLoads(c, t) \in Nat
                 /\ \A i \in 1 .. Len(t) : t[i] = LoadPlan(c)[DoneLoads(c, t) + i]
                 /\ \A i \in 1 .. DoneLoads(c, t) : LoadOK(LoadPlan(c)[i], c.pwd)

\* Whatever the keys.xml files brought, the keys of the single files are the last ones,
\* in the order of the plan.
KeysKept(c, d, ks) ==
    LET k == Len(c.keys_file)
        n == IF d <= Len(KeyPlan(c)) THEN d ELSE Len(KeyPlan(c))
    IN  /\ IsSeq(ks) /\ \A i \in DOMAIN ks : ks[i].kind # "none"
        /\ n - k <= Len(ks)
        /\ \A i \in k + 1 .. n : ks[Len(ks) - n + i].mat \in FileMaterial(KeyPlan(c)[i].file)

StoredCerts(c, op, d) ==
    UNION {Certificates(LoadPlan(c)[i].file) : i \in {j \in 1 .. d : LoadPlan(c)[j].op = op}}
StoredEntries(c, d) ==
    UNION {RevokedEntries(LoadPlan(c)[i].file) : i \in {j \in 1 .. d : LoadPlan(c)[j].op = "crl"}}

StoresKept(c, d, m) == /\ m.trusted = StoredCerts(c, "trusted", d)
                       /\ m.untrusted = StoredCerts(c, "untrusted", d)
                       /\ m.crls = StoredEntries(c, d)

\* The plan is the keys, then the stores.
LEMMA PlanShape ==
    ASSUME NEW c \in Commands
    PROVE  /\ IsSeq(LoadPlan(c)) /\ Len(LoadPlan(c)) = Len(KeyPlan(c)) + Len(StorePlan(c))
           /\ Len(LoadPlan(c)) \in Nat /\ Len(KeyPlan(c)) \in Nat /\ Len(StorePlan(c)) \in Nat
           /\ Len(c.keys_file) \in 0 .. Len(KeyPlan(c))
           /\ \A i \in 1 .. Len(KeyPlan(c)) : LoadPlan(c)[i] = KeyPlan(c)[i]
           /\ \A i \in 1 .. Len(c.keys_file) : LoadPlan(c)[i].op = "keys"
           /\ \A i \in Len(c.keys_file) + 1 .. Len(KeyPlan(c)) : LoadPlan(c)[i].op \in SingleOps
           /\ \A i \in 1 .. Len(KeyPlan(c)) : FileOK(LoadPlan(c)[i].file)
           /\ \A i \in Len(KeyPlan(c)) + 1 .. Len(LoadPlan(c)) : LoadPlan(c)[i].op \in StoreOps
<1> DEFINE p == KeyPlan(c)
           s == StorePlan(c)
           k == Len(c.keys_file)
<1>1. KeysFirst(p, k)
  BY KeyPlanShape
<1>2. IsSeq(p) /\ k \in 0 .. Len(p) /\ IsSeq(s)
  BY <1>1, StorePlanShape DEF KeysFirst
<1>3. Len(p) \in Nat /\ Len(s) \in Nat /\ DOMAIN p = 1 .. Len(p) /\ DOMAIN s = 1 .. Len(s)
  BY <1>2, SeqDomain
<1>4. LoadPlan(c) = p \o s
  BY DEF LoadPlan
<1> HIDE DEF p, s, k
<1>5. /\ IsSeq(p \o s) /\ Len(p \o s) = Len(p) + Len(s)
      /\ \A i \in 1 .. Len(p) : (p \o s)[i] = p[i]
      /\ \A i \in 1 .. Len(s) : (p \o s)[Len(p) + i] = s[i]
  BY <1>2, ConcatSeq
<1>6. \A i \in 1 .. k : (p \o s)[i].op = "keys"
  BY <1>1, <1>2, <1>3, <1>5 DEF KeysFirst
<1>7. \A i \in k + 1 .. Len(p) : (p \o s)[i].op \in SingleOps
  BY <1>1, <1>2, <1>3, <1>5 DEF KeysFirst
<1>8. \A i \in 1 .. Len(p) : FileOK((p \o s)[i].file)
  BY <1>1, <1>3, <1>5 DEF KeysFirst
<1>9. \A i \in Len(p) + 1 .. Len(p \o s) : (p \o s)[i].op \in StoreOps
  <2> TAKE i \in Len(p) + 1 .. Len(p \o s)
  <2>1. i - Len(p) \in 1 .. Len(s) /\ Len(p) + (i - Len(p)) = i
    BY <1>3, <1>5
  <2>2. (p \o s)[i] = s[i - Len(p)]
    BY <1>5, <2>1
  <2> QED BY <1>3, <2>1, <2>2, StorePlanShape DEF s
<1> QED BY <1>2, <1>3, <1>4, <1>5, <1>6, <1>7, <1>8, <1>9 DEF p, s, k

\* At the start nothing is done.
LEMMA PlannedFirst ==
    ASSUME NEW c \in Commands
    PROVE  /\ Planned(c, LoadPlan(c)) /\ DoneLoads(c, LoadPlan(c)) = 0
           /\ KeysKept(c, 0, <<>>) /\ StoresKept(c, 0, EmptyManager)
<1>1. IsSeq(LoadPlan(c)) /\ Len(LoadPlan(c)) \in Nat /\ Len(c.keys_file) \in Nat /\ Len(KeyPlan(c)) \in Nat
  BY PlanShape
<1>2. DoneLoads(c, LoadPlan(c)) = 0
  BY <1>1 DEF DoneLoads
<1>3. Planned(c, LoadPlan(c))
  BY <1>1, <1>2 DEF Planned
<1>4. KeysKept(c, 0, <<>>)
  BY <1>1 DEF KeysKept, IsSeq
<1>5. StoresKept(c, 0, EmptyManager)
  BY DEF StoresKept, EmptyManager, StoredCerts, StoredEntries
<1> QED BY <1>2, <1>3, <1>4, <1>5

\* A load that goes through is the next one of the plan.
LEMMA PlannedNext ==
    ASSUME NEW c \in Commands, NEW t, Planned(c, t), t # <<>>, LoadOK(Head(t), c.pwd)
    PROVE  /\ Planned(c, Tail(t)) /\ DoneLoads(c, Tail(t)) = DoneLoads(c, t) + 1
           /\ DoneLoads(c, t) + 1 \in 1 .. Len(LoadPlan(c))
           /\ Head(t) = LoadPlan(c)[DoneLoads(c, t) + 1]
<1> DEFINE p == LoadPlan(c)
           d == DoneLoads(c, t)
           S == {t[i] : i \in DOMAIN t}
<1>1. IsSeq(p) /\ Len(p) \in Nat
  BY PlanShape
<1>2. t \in Seq(S)
  BY DEF Planned, IsSeq
<1>3. d \in Nat /\ d = Len(p) - Len(t)
  BY DEF Planned, DoneLoads
<1> HIDE DEF S
<1>4. /\ Len(t) \in Nat \ {0} /\ Len(Tail(t)) = Len(t) - 1 /\ Head(t) = t[1] /\ Tail(t) \in Seq(S)
      /\ \A i \in 1 .. Len(t) - 1 : Tail(t)[i] = t[i + 1]
  BY <1>2
<1>5. IsSeq(Tail(t)) /\ DoneLoads(c, Tail(t)) = d + 1 /\ d + 1 \in 1 .. Len(p)
  <2>1. DoneLoads(c, Tail(t)) = Len(p) - Len(Tail(t))
    BY DEF DoneLoads
  <2>2. IsSeq(Tail(t))
    BY <1>4, SeqIsSeq
  <2> HIDE DEF d, p
  <2> QED BY <1>1, <1>3, <1>4, <2>1, <2>2
<1> HIDE DEF d, p
<1>6. \A i \in 1 .. Len(t) : t[i] = p[d + i]
  BY DEF Planned, d, p
<1>7. Head(t) = p[d + 1]
  BY <1>4, <1>6
<1>8. \A i \in 1 .. Len(Tail(t)) : Tail(t)[i] = p[d + 1 + i]
  <2> TAKE i \in 1 .. Len(Tail(t))
  <2>1. i + 1 \in 1 .. Len(t) /\ d + (i + 1) = d + 1 + i /\ i \in 1 .. Len(t) - 1
    BY <1>3, <1>4
  <2>2. t[i + 1] = p[d + (i + 1)]
    BY <1>6, <2>1
  <2> QED BY <1>4, <2>1, <2>2
<1>9. \A i \in 1 .. d + 1 : LoadOK(p[i], c.pwd)
  <2>1. \A i \in 1 .. d : LoadOK(p[i], c.pwd)
    BY DEF Planned, d, p
  <2> QED BY <1>3, <1>7, <2>1
<1> QED BY <1>3, <1>5, <1>7, <1>8, <1>9 DEF Planned, d, p

\* The keys of a keys.xml file come before every single key.
LEMMA KeysOfFile ==
    ASSUME NEW c \in Commands, NEW d \in Nat, d + 1 \in 1 .. Len(LoadPlan(c)), NEW ks, KeysKept(c, d, ks),
           NEW e, e = LoadPlan(c)[d + 1], e.op = "keys", LoadOK(e, c.pwd)
    PROVE  KeysKept(c, d + 1, ks \o load_keys_file(e.file).keys)
<1> DEFINE k == Len(c.keys_file)
           n == Len(KeyPlan(c))
           new == load_keys_file(e.file).keys
           es == KeyEntries(e.file)
<1>1. k \in 0 .. n /\ n \in Nat /\ Len(LoadPlan(c)) \in Nat
  BY PlanShape
<1>2. d + 1 <= k
  <2>1. e.op \notin SingleOps /\ e.op \notin StoreOps
    BY DEF SingleOps, StoreOps
  <2>2. d + 1 \notin k + 1 .. n /\ d + 1 \notin n + 1 .. Len(LoadPlan(c))
    BY <2>1, PlanShape
  <2> HIDE DEF k, n
  <2> QED BY <1>1, <2>2
<1>3. FileOK(e.file) /\ load_keys_file(e.file).ok
  <2>1. d + 1 \in 1 .. n
    BY <1>1, <1>2
  <2>2. FileOK(e.file)
    BY <2>1, PlanShape
  <2>3. load_keys_file(e.file).ok
    <3>1. load_keys_file(e.file).ok \in BOOLEAN
      BY DEF load_keys_file, Failed
    <3>2. LoadOK(e, c.pwd) = load_keys_file(e.file).ok
      BY Zenon DEF LoadOK, Labels
    <3> QED BY <3>1, <3>2
  <2> QED BY <2>2, <2>3
<1>4. IsSeq(new) /\ \A i \in DOMAIN new : new[i].kind # "none"
  <2>1. /\ IsSeq(es) /\ \A i \in DOMAIN es : es[i].key.kind # "none"
    BY <1>3 DEF FileOK
  <2>2. new = [i \in DOMAIN es |-> NamedAs(es[i].key, es[i].name)]
    BY <1>3 DEF load_keys_file, Failed
  <2> HIDE DEF es, new
  <2>3. DOMAIN es = 1 .. Len(es) /\ Len(es) \in Nat
    BY <2>1, SeqDomain
  <2>4. IsSeq(new)
    BY <2>2, <2>3, FunctionSeq
  <2>5. \A i \in DOMAIN es : NamedAs(es[i].key, es[i].name).kind # "none"
    BY <2>1 DEF NamedAs
  <2> QED BY <2>2, <2>4, <2>5
<1> HIDE DEF k, n, new
<1>5. IsSeq(ks) /\ \A i \in DOMAIN ks : ks[i].kind # "none"
  BY DEF KeysKept
<1>6. IsSeq(ks \o new) /\ ToSet(ks \o new) = ToSet(ks) \union ToSet(new)
  BY <1>4, <1>5, ConcatSeq, ConcatElements
<1>7. \A i \in DOMAIN (ks \o new) : (ks \o new)[i].kind # "none"
  <2>1. \A x \in ToSet(ks) \union ToSet(new) : x.kind # "none"
    BY <1>4, <1>5 DEF ToSet
  <2> QED BY <1>6, <2>1, InElements
<1>8. Len(ks \o new) \in Nat
  BY <1>6, SeqDomain
<1> DEFINE m == IF d + 1 <= n THEN d + 1 ELSE n
<1>9. m - k <= Len(ks \o new) /\ k + 1 .. m = {}
  BY <1>1, <1>2, <1>8
<1> HIDE DEF m
<1> QED BY <1>6, <1>7, <1>9 DEF KeysKept, k, n, m, new

\* The key of a single file becomes the last one.
LEMMA KeyOfSingle ==
    ASSUME NEW c \in Commands, NEW d \in Nat, d + 1 \in 1 .. Len(LoadPlan(c)), NEW ks, KeysKept(c, d, ks),
           NEW e, e = LoadPlan(c)[d + 1], e.op \in SingleOps, LoadOK(e, c.pwd)
    PROVE  KeysKept(c, d + 1, ks \o LoadedKeys(e, c.pwd))
<1> DEFINE k == Len(c.keys_file)
           n == Len(KeyPlan(c))
<1>1. k \in 0 .. n /\ n \in Nat /\ Len(LoadPlan(c)) \in Nat
  BY PlanShape
<1>2. d + 1 \in k + 1 .. n
  <2>1. e.op # "keys" /\ e.op \notin StoreOps
    BY DEF SingleOps, StoreOps
  <2>2. d + 1 \notin 1 .. k /\ d + 1 \notin n + 1 .. Len(LoadPlan(c))
    BY <2>1, PlanShape
  <2> HIDE DEF k, n
  <2> QED BY <1>1, <2>2
<1>3. FileOK(e.file) /\ e = KeyPlan(c)[d + 1]
  <2>1. d + 1 \in 1 .. n
    BY <1>1, <1>2
  <2> QED BY <2>1, PlanShape
<1>4. PICK x : LoadedKeys(e, c.pwd) = <<x>> /\ x.kind # "none" /\ x.mat \in FileMaterial(e.file)
  BY <1>3, LoadedOne
<1> DEFINE new == ks \o <<x>>
<1> HIDE DEF k, n
<1>5. /\ IsSeq(ks) /\ \A i \in DOMAIN ks : ks[i].kind # "none"
      /\ d - k <= Len(ks)
      /\ \A i \in k + 1 .. d : ks[Len(ks) - d + i].mat \in FileMaterial(KeyPlan(c)[i].file)
  <2>1. d <= n
    BY <1>1, <1>2
  <2> QED BY <2>1 DEF KeysKept, k, n
<1>6. IsSeq(<<x>>) /\ Len(<<x>>) = 1 /\ <<x>>[1] = x /\ DOMAIN <<x>> = {1}
  BY DEF IsSeq
<1>7. DOMAIN ks = 1 .. Len(ks) /\ Len(ks) \in Nat
  BY <1>5, SeqDomain
<1>8. /\ IsSeq(new) /\ Len(new) = Len(ks) + 1 /\ new[Len(ks) + 1] = x
      /\ \A i \in 1 .. Len(ks) : new[i] = ks[i]
  BY <1>5, <1>6, ConcatSeq
<1>9. DOMAIN new = 1 .. Len(ks) + 1
  BY <1>8, SeqDomain
<1> HIDE DEF new
<1>10. \A i \in DOMAIN new : new[i].kind # "none"
  BY <1>4, <1>5, <1>7, <1>8, <1>9
<1>11. \A i \in k + 1 .. d + 1 : new[Len(new) - (d + 1) + i].mat \in FileMaterial(KeyPlan(c)[i].file)
  <2> TAKE i \in k + 1 .. d + 1
  <2>1. CASE i = d + 1
    BY <1>3, <1>4, <1>7, <1>8, <2>1
  <2>2. CASE i # d + 1
    <3>1. i \in k + 1 .. d /\ Len(new) - (d + 1) + i = Len(ks) - d + i
      BY <1>1, <1>2, <1>7, <1>8, <2>2
    <3>2. Len(ks) - d + i \in 1 .. Len(ks)
      BY <1>1, <1>2, <1>5, <1>7, <3>1
    <3> QED BY <1>5, <1>8, <3>1, <3>2
  <2> QED BY <2>1, <2>2
<1>12. (d + 1) - k <= Len(new) /\ d + 1 <= n
  BY <1>1, <1>2, <1>5, <1>7, <1>8
<1>13. KeysKept(c, d + 1, new)
  BY <1>8, <1>10, <1>11, <1>12 DEF KeysKept, k, n
<1> QED BY <1>4, <1>13 DEF new

\* The stores do not touch the keys.
LEMMA KeysOfStore ==
    ASSUME NEW c \in Commands, NEW d \in Nat, d + 1 \in 1 .. Len(LoadPlan(c)), NEW ks, KeysKept(c, d, ks),
           LoadPlan(c)[d + 1].op \in StoreOps
    PROVE  KeysKept(c, d + 1, ks)
<1> DEFINE k == Len(c.keys_file)
           n == Len(KeyPlan(c))
<1>1. k \in 0 .. n /\ n \in Nat /\ Len(LoadPlan(c)) \in Nat
  BY PlanShape
<1>2. d >= n
  <2>1. LoadPlan(c)[d + 1].op # "keys" /\ LoadPlan(c)[d + 1].op \notin SingleOps
    BY DEF SingleOps, StoreOps
  <2>2. d + 1 \notin 1 .. k /\ d + 1 \notin k + 1 .. n
    BY <2>1, PlanShape
  <2> HIDE DEF k, n
  <2> QED BY <1>1, <2>2
<1>3. (IF d <= n THEN d ELSE n) = (IF d + 1 <= n THEN d + 1 ELSE n)
  BY <1>1, <1>2
<1> QED BY <1>3 DEF KeysKept

\* A union with one more member.
LEMMA UnionMore == \A A, x : UNION (A \union {x}) = (UNION A) \union x
OBVIOUS

\* One more load adds to the store of its option.
LEMMA CertsNext ==
    ASSUME NEW c, NEW d \in Nat, NEW n, n = d + 1, NEW e, e = LoadPlan(c)[n], NEW op
    PROVE  /\ e.op = op => StoredCerts(c, op, n) = StoredCerts(c, op, d) \union Certificates(e.file)
           /\ e.op # op => StoredCerts(c, op, n) = StoredCerts(c, op, d)
<1> DEFINE J(b) == {j \in 1 .. b : LoadPlan(c)[j].op = op}
           A(b) == {Certificates(LoadPlan(c)[i].file) : i \in J(b)}
<1>1. 1 .. n = (1 .. d) \union {n}
  OBVIOUS
<1>2. StoredCerts(c, op, n) = UNION A(n) /\ StoredCerts(c, op, d) = UNION A(d)
  BY DEF StoredCerts
<1>3. CASE e.op = op
  <2>1. A(n) = A(d) \union {Certificates(e.file)}
    BY <1>1, <1>3
  <2> HIDE DEF A
  <2>2. UNION A(n) = (UNION A(d)) \union Certificates(e.file)
    BY <2>1, UnionMore
  <2>3. StoredCerts(c, op, n) = StoredCerts(c, op, d) \union Certificates(e.file)
    BY <1>2, <2>2
  <2> QED BY <1>3, <2>3
<1>4. CASE e.op # op
  <2>1. A(n) = A(d)
    BY <1>1, <1>4
  <2> HIDE DEF A
  <2> QED BY <1>2, <1>4, <2>1
<1> QED BY <1>3, <1>4

\* The same for the CRLs.
LEMMA EntriesNext ==
    ASSUME NEW c, NEW d \in Nat, NEW n, n = d + 1, NEW e, e = LoadPlan(c)[n]
    PROVE  \A x : x \in StoredEntries(c, n) <=>
                     x \in StoredEntries(c, d) \/ (e.op = "crl" /\ x \in RevokedEntries(e.file))
<1> DEFINE J(b) == {j \in 1 .. b : LoadPlan(c)[j].op = "crl"}
           A(b) == {RevokedEntries(LoadPlan(c)[i].file) : i \in J(b)}
<1>1. 1 .. n = (1 .. d) \union {n}
  OBVIOUS
<1>2. StoredEntries(c, n) = UNION A(n) /\ StoredEntries(c, d) = UNION A(d)
  BY DEF StoredEntries
<1>3. CASE e.op = "crl"
  <2>1. A(n) = A(d) \union {RevokedEntries(e.file)}
    BY <1>1, <1>3
  <2> HIDE DEF A
  <2>2. UNION A(n) = (UNION A(d)) \union RevokedEntries(e.file)
    BY <2>1, UnionMore
  <2>3. StoredEntries(c, n) = StoredEntries(c, d) \union RevokedEntries(e.file)
    BY <1>2, <2>2
  <2> QED BY <1>3, <2>3
<1>4. CASE e.op # "crl"
  <2>1. A(n) = A(d)
    BY <1>1, <1>4
  <2> HIDE DEF A
  <2> QED BY <1>2, <1>4, <2>1
<1> QED BY <1>3, <1>4

-----------------------------------------------------------------------------
(* The inductive invariant of a command.                                   *)

\* What is loaded follows the plan.
Progress == /\ cmd \in Commands
            /\ Planned(cmd, todo)
            /\ mgr = [keys |-> mgr.keys, trusted |-> mgr.trusted, untrusted |-> mgr.untrusted, crls |-> mgr.crls]
            /\ KeysKept(cmd, DoneLoads(cmd, todo), mgr.keys)
            /\ StoresKept(cmd, DoneLoads(cmd, todo), mgr)

\* verify() is entered with the document and the finished manager, and its verdict is
\* the one that is reported.
LibraryCall == /\ exit \in Exits /\ VerdictGiven /\ result \in Verdicts /\ ChainValidated
               /\ pc # "idle" => /\ todo = <<>> /\ cmd.name = "verify"
                                 /\ doc = cmd.doc /\ ctx = VerifyContext(cmd, mgr)
               /\ exit = "called" => todo = <<>>
               /\ exit = "Ok" => result = "Valid"
               /\ exit = "Invalid" => result = "Invalid"

\* The session key is the first one when sign() is called.
SessionFirst == exit = "called" /\ cmd.name = "sign" /\ cmd.session # <<>> =>
                    Len(mgr.keys) > 0 /\ mgr.keys[1].mat = "session"

CInv == Progress /\ LibraryCall /\ SessionFirst

\* The steps of verify(): the inputs stay, and a verdict ends it.
LEMMA VerifyFrame ==
    ASSUME VerdictGiven, result \in Verdicts, Next
    PROVE  /\ pc # "idle" /\ UNCHANGED <<doc, ctx>>
           /\ VerdictGiven' /\ result' \in Verdicts
<1> DEFINE Goal == pc # "idle" /\ UNCHANGED <<doc, ctx>> /\ VerdictGiven' /\ result' \in Verdicts
<1> SUFFICES Goal
  OBVIOUS
<1>1. ASSUME NEW v \in {"Valid", "Invalid", "Err"}, Return(v), pc # "idle" PROVE Goal
  BY <1>1 DEF Return, VerdictGiven, Verdicts
<1>2. ASSUME NEW s \in Stages \ {"done"}, Goto(s), pc # "done", pc # "idle" PROVE Goal
  BY <1>2 DEF Goto, VerdictGiven, Verdicts
<1> HIDE DEF Goal
<1>3. CASE ParseFails \/ HmacLengthUnreadable \/ HmacLengthRejected \/ PqContextFails
  BY <1>1, <1>3 DEF ParseFails, HmacLengthUnreadable, HmacLengthRejected, PqContextFails
<1>4. CASE ReferenceFails \/ ReferenceMismatch \/ StrictFails \/ ValueFails \/ ValueLengthMismatch
  BY <1>1, <1>4 DEF ReferenceFails, ReferenceMismatch, StrictFails, ValueFails, ValueLengthMismatch
<1>5. CASE HsmRejects \/ HsmFails \/ HsmAccepts \/ NoKeyFound \/ ChainRejected
  BY <1>1, <1>5 DEF HsmRejects, HsmFails, HsmAccepts, NoKeyFound, ChainRejected
<1>6. CASE KeyUnusable \/ SignatureRejected \/ SignatureAccepted
  BY <1>1, <1>6 DEF KeyUnusable, SignatureRejected, SignatureAccepted
<1>7. CASE Parse \/ ReadHmacLength \/ ReadPqContext \/ VerifyReference \/ ReferencesDone
  BY <1>2, <1>7 DEF Parse, ReadHmacLength, ReadPqContext, VerifyReference, ReferencesDone, Stages
<1>8. CASE CheckPositions \/ ReadSignatureValue \/ ResolveKey \/ ValidateChain \/ SkipValidation
  BY <1>2, <1>8 DEF CheckPositions, ReadSignatureValue, ResolveKey, ValidateChain, SkipValidation, Stages
<1> QED BY <1>3, <1>4, <1>5, <1>6, <1>7, <1>8 DEF Next

\* A step that leaves the loads alone.
LEMMA ProgressFrame == Progress /\ UNCHANGED <<cmd, todo, mgr>> => Progress'
BY DEF Progress

\* One load of each kind.
LEMMA ProgressLoad ==
    ASSUME Progress,
           LoadKeysFile \/ LoadKeyFile \/ LoadNamedKey \/ LoadPkcs12 \/ LoadHmacKey \/ LoadAesKey
             \/ AddTrustedCerts \/ AddUntrustedCerts \/ AddCrls
    PROVE  /\ Progress' /\ UNCHANGED <<cmd, exit, vars>>
           /\ exit = "running" /\ todo # <<>>
<1> DEFINE d == DoneLoads(cmd, todo)
           e == Head(todo)
           loads == LoadKeyFile \/ LoadNamedKey \/ LoadPkcs12 \/ LoadHmacKey \/ LoadAesKey
<1>1. /\ todo # <<>> /\ LoadOK(e, cmd.pwd) /\ todo' = Tail(todo)
      /\ UNCHANGED <<cmd, exit, vars>> /\ exit = "running"
  BY DEF LoadKeysFile, LoadKeyFile, LoadNamedKey, LoadPkcs12, LoadHmacKey, LoadAesKey,
         AddTrustedCerts, AddUntrustedCerts, AddCrls, Done, AddKeys, Step
<1>2. cmd \in Commands /\ Planned(cmd, todo) /\ KeysKept(cmd, d, mgr.keys) /\ StoresKept(cmd, d, mgr)
  BY DEF Progress
<1>3. /\ Planned(cmd, Tail(todo)) /\ DoneLoads(cmd, Tail(todo)) = d + 1
      /\ d + 1 \in 1 .. Len(LoadPlan(cmd)) /\ e = LoadPlan(cmd)[d + 1]
  BY <1>1, <1>2, PlannedNext
<1>4. d \in Nat
  BY <1>2 DEF Planned
<1> HIDE DEF d, e
<1>5. ASSUME NEW m, mgr' = m, m = [keys |-> m.keys, trusted |-> m.trusted, untrusted |-> m.untrusted, crls |-> m.crls],
             KeysKept(cmd, d + 1, m.keys), StoresKept(cmd, d + 1, m)
      PROVE  Progress'
  <2>1. cmd' = cmd /\ todo' = Tail(todo) /\ mgr' = m
    BY <1>1, <1>5
  <2> QED BY <1>2, <1>3, <1>5, <2>1 DEF Progress
<1>6. mgr = [keys |-> mgr.keys, trusted |-> mgr.trusted, untrusted |-> mgr.untrusted, crls |-> mgr.crls]
  BY DEF Progress
<1> DEFINE More(op, old, new) == IF e.op = op THEN old \union new ELSE old
<1>7. /\ StoredCerts(cmd, "trusted", d + 1) = More("trusted", mgr.trusted, Certificates(e.file))
       /\ StoredCerts(cmd, "untrusted", d + 1) = More("untrusted", mgr.untrusted, Certificates(e.file))
       /\ StoredEntries(cmd, d + 1) = More("crl", mgr.crls, RevokedEntries(e.file))
  <2>1. /\ mgr.trusted = StoredCerts(cmd, "trusted", d) /\ mgr.untrusted = StoredCerts(cmd, "untrusted", d)
        /\ mgr.crls = StoredEntries(cmd, d)
    BY <1>2 DEF StoresKept
  <2> DEFINE n == d + 1
  <2>2. d \in Nat /\ n = d + 1 /\ e = LoadPlan(cmd)[n]
    BY <1>3, <1>4
  <2> HIDE DEF n
  <2>3. /\ e.op = "trusted" => StoredCerts(cmd, "trusted", n) = StoredCerts(cmd, "trusted", d) \union Certificates(e.file)
        /\ e.op # "trusted" => StoredCerts(cmd, "trusted", n) = StoredCerts(cmd, "trusted", d)
    BY <2>2, CertsNext
  <2>4. /\ e.op = "untrusted" => StoredCerts(cmd, "untrusted", n) = StoredCerts(cmd, "untrusted", d) \union Certificates(e.file)
        /\ e.op # "untrusted" => StoredCerts(cmd, "untrusted", n) = StoredCerts(cmd, "untrusted", d)
    BY <2>2, CertsNext
  <2>5. \A x : x \in StoredEntries(cmd, n) <=>
                  x \in StoredEntries(cmd, d) \/ (e.op = "crl" /\ x \in RevokedEntries(e.file))
    BY <2>2, EntriesNext
  <2> QED BY <2>1, <2>3, <2>4, <2>5 DEF n
<1>8. ASSUME NEW ks, mgr' = [mgr EXCEPT !.keys = ks], KeysKept(cmd, d + 1, ks), e.op \notin StoreOps
      PROVE  Progress'
  <2> DEFINE m == [keys |-> ks, trusted |-> mgr.trusted, untrusted |-> mgr.untrusted, crls |-> mgr.crls]
  <2>1. mgr' = m
    BY <1>6, <1>8
  <2>2. StoresKept(cmd, d + 1, m)
    BY <1>8, <1>7 DEF StoresKept, StoreOps
  <2> QED BY <1>5, <1>8, <2>1, <2>2
<1>9. CASE LoadKeysFile
  <2>1. e.op = "keys" /\ mgr' = [mgr EXCEPT !.keys = mgr.keys \o load_keys_file(e.file).keys]
    BY <1>9 DEF LoadKeysFile, Done, AddKeys, Step, e
  <2>2. KeysKept(cmd, d + 1, mgr.keys \o load_keys_file(e.file).keys)
    BY <1>1, <1>2, <1>3, <1>4, <2>1, KeysOfFile
  <2> QED BY <1>1, <1>8, <2>1, <2>2 DEF StoreOps
<1>10. CASE loads
  <2>1. e.op \in SingleOps /\ mgr' = [mgr EXCEPT !.keys = mgr.keys \o LoadedKeys(e, cmd.pwd)]
    BY <1>10 DEF LoadKeyFile, LoadNamedKey, LoadPkcs12, LoadHmacKey, LoadAesKey, Done, AddKeys, Step, e, SingleOps
  <2>2. KeysKept(cmd, d + 1, mgr.keys \o LoadedKeys(e, cmd.pwd))
    BY <1>1, <1>2, <1>3, <1>4, <2>1, KeyOfSingle
  <2> QED BY <1>1, <1>8, <2>1, <2>2 DEF StoreOps, SingleOps
<1>11. e.op \in StoreOps => KeysKept(cmd, d + 1, mgr.keys)
  BY <1>2, <1>3, <1>4, KeysOfStore
<1>12. CASE AddTrustedCerts
  <2> DEFINE m == [keys |-> mgr.keys, trusted |-> mgr.trusted \union Certificates(e.file),
                   untrusted |-> mgr.untrusted, crls |-> mgr.crls]
  <2>1. e.op = "trusted" /\ mgr' = m
    BY <1>6, <1>12 DEF AddTrustedCerts, Done, Step, e
  <2>2. StoresKept(cmd, d + 1, m)
    BY <1>7, <2>1 DEF StoresKept
  <2> QED BY <1>1, <1>5, <1>11, <2>1, <2>2 DEF StoreOps
<1>13. CASE AddUntrustedCerts
  <2> DEFINE m == [keys |-> mgr.keys, trusted |-> mgr.trusted,
                   untrusted |-> mgr.untrusted \union Certificates(e.file), crls |-> mgr.crls]
  <2>1. e.op = "untrusted" /\ mgr' = m
    BY <1>6, <1>13 DEF AddUntrustedCerts, Done, Step, e
  <2>2. StoresKept(cmd, d + 1, m)
    BY <1>7, <2>1 DEF StoresKept
  <2> QED BY <1>1, <1>5, <1>11, <2>1, <2>2 DEF StoreOps
<1>14. CASE AddCrls
  <2> DEFINE m == [keys |-> mgr.keys, trusted |-> mgr.trusted, untrusted |-> mgr.untrusted,
                   crls |-> mgr.crls \union RevokedEntries(e.file)]
  <2>1. e.op = "crl" /\ mgr' = m
    BY <1>6, <1>14 DEF AddCrls, Done, Step, e
  <2>2. StoresKept(cmd, d + 1, m)
    BY <1>7, <2>1 DEF StoresKept
  <2> QED BY <1>1, <1>5, <1>11, <2>1, <2>2 DEF StoreOps
<1> QED BY <1>1, <1>9, <1>10, <1>12, <1>13, <1>14

\* A key inserted first leaves the keys of the files the last ones.
LEMMA KeyInsertedFirst ==
    ASSUME NEW c \in Commands, NEW d \in Nat, NEW ks, KeysKept(c, d, ks), NEW x, x.kind # "none"
    PROVE  /\ KeysKept(c, d, <<x>> \o ks) /\ Len(<<x>> \o ks) > 0 /\ (<<x>> \o ks)[1] = x
<1> DEFINE k == Len(c.keys_file)
           n == IF d <= Len(KeyPlan(c)) THEN d ELSE Len(KeyPlan(c))
           new == <<x>> \o ks
<1>1. k \in Nat /\ n \in Nat
  BY PlanShape
<1>2. /\ IsSeq(ks) /\ \A i \in DOMAIN ks : ks[i].kind # "none"
      /\ n - k <= Len(ks)
      /\ \A i \in k + 1 .. n : ks[Len(ks) - n + i].mat \in FileMaterial(KeyPlan(c)[i].file)
  BY DEF KeysKept
<1>3. IsSeq(<<x>>) /\ Len(<<x>>) = 1 /\ <<x>>[1] = x
  BY DEF IsSeq
<1>4. DOMAIN ks = 1 .. Len(ks) /\ Len(ks) \in Nat
  BY <1>2, SeqDomain
<1>5. /\ IsSeq(new) /\ Len(new) = 1 + Len(ks) /\ new[1] = x
      /\ \A i \in 1 .. Len(ks) : new[1 + i] = ks[i]
  BY <1>2, <1>3, ConcatSeq
<1>6. DOMAIN new = 1 .. 1 + Len(ks)
  BY <1>5, SeqDomain
<1> HIDE DEF new, n, k
<1>7. \A i \in DOMAIN new : new[i].kind # "none"
  <2> TAKE i \in DOMAIN new
  <2>1. CASE i = 1
    BY <1>5, <2>1
  <2>2. CASE i # 1
    <3>1. i - 1 \in 1 .. Len(ks) /\ 1 + (i - 1) = i
      BY <1>4, <1>6, <2>2
    <3> QED BY <1>2, <1>4, <1>5, <3>1
  <2> QED BY <2>1, <2>2
<1>8. \A i \in k + 1 .. n : new[Len(new) - n + i].mat \in FileMaterial(KeyPlan(c)[i].file)
  <2> TAKE i \in k + 1 .. n
  <2>1. Len(ks) - n + i \in 1 .. Len(ks) /\ Len(new) - n + i = 1 + (Len(ks) - n + i)
    BY <1>1, <1>2, <1>4, <1>5
  <2> QED BY <1>2, <1>5, <2>1
<1>9. n - k <= Len(new)
  BY <1>1, <1>2, <1>4, <1>5
<1>10. KeysKept(c, d, new)
  BY <1>5, <1>7, <1>8, <1>9 DEF KeysKept, k, n
<1> QED BY <1>4, <1>5, <1>10 DEF new

\* The call of sign().
LEMMA ProgressSign ==
    ASSUME Progress, CallSign
    PROVE  Progress' /\ SessionFirst'
<1>1. /\ cmd' = cmd /\ todo' = todo /\ exit' = "called" /\ \A s \in ToSet(cmd.session) : SessionKeyOK(s)
      /\ mgr' = IF cmd.session = <<>> THEN mgr ELSE WithSessionKey(mgr, cmd.session[1])
  BY DEF CallSign
<1>2. CASE cmd.session = <<>>
  <2>1. mgr' = mgr
    BY <1>1, <1>2
  <2> QED BY <1>1, <1>2, <2>1, ProgressFrame DEF SessionFirst
<1>3. CASE cmd.session # <<>>
  <2> DEFINE x == SessionKey(cmd.session[1])
             d == DoneLoads(cmd, todo)
  <2>1. cmd \in Commands /\ IsSeq(cmd.session)
    BY CommandsAssumption DEF Progress
  <2>2. cmd.session[1] \in ToSet(cmd.session)
    <3>1. 1 \in DOMAIN cmd.session
      BY <1>3, <2>1 DEF IsSeq
    <3> QED BY <3>1, InElements
  <2>3. x.kind # "none" /\ x.mat = "session"
    BY <1>1, <2>2 DEF SessionKeyOK, SessionKey, SecretKey, NoKey
  <2>4. d \in Nat /\ KeysKept(cmd, d, mgr.keys) /\ StoresKept(cmd, d, mgr)
    BY DEF Progress, Planned
  <2>5. mgr' = [keys |-> <<x>> \o mgr.keys, trusted |-> mgr.trusted, untrusted |-> mgr.untrusted, crls |-> mgr.crls]
    BY <1>1, <1>3 DEF WithSessionKey, Progress
  <2> HIDE DEF x, d
  <2>6. /\ KeysKept(cmd, d, <<x>> \o mgr.keys) /\ Len(<<x>> \o mgr.keys) > 0
        /\ (<<x>> \o mgr.keys)[1] = x
    BY <2>1, <2>3, <2>4, KeyInsertedFirst
  <2>7. StoresKept(cmd, d, mgr')
    BY <2>4, <2>5 DEF StoresKept
  <2>8. KeysKept(cmd, d, mgr'.keys)
    BY <2>5, <2>6
  <2>9. Progress'
    BY <1>1, <2>5, <2>7, <2>8 DEF Progress, d
  <2>10. SessionFirst'
    BY <2>3, <2>5, <2>6 DEF SessionFirst
  <2> QED BY <2>9, <2>10
<1> QED BY <1>2, <1>3

\* The invariant holds at first.
LEMMA CInvInit == CInit => CInv
<1> SUFFICES ASSUME CInit PROVE CInv
  OBVIOUS
<1>1. /\ cmd \in Commands /\ todo = LoadPlan(cmd) /\ mgr = EmptyManager
      /\ exit \in {"running", "Err"} /\ pc = "idle" /\ result = "pending"
  BY DEF CInit
<1>2. Planned(cmd, todo) /\ DoneLoads(cmd, todo) = 0 /\ KeysKept(cmd, 0, <<>>) /\ StoresKept(cmd, 0, EmptyManager)
  BY <1>1, PlannedFirst
<1>3. Progress
  BY <1>1, <1>2 DEF Progress, EmptyManager
<1>4. LibraryCall
  BY <1>1 DEF LibraryCall, Exits, VerdictGiven, Verdicts, ChainValidated
<1> QED BY <1>1, <1>3, <1>4 DEF CInv, SessionFirst

\* Every step of a command preserves it.
LEMMA CInvInductive == CInv /\ [CNext]_<<cvars, vars>> => CInv'
<1> SUFFICES ASSUME CInv, [CNext]_<<cvars, vars>> PROVE CInv'
  OBVIOUS
<1>1. Progress /\ LibraryCall /\ SessionFirst
  BY DEF CInv
<1>2. UNCHANGED vars => VerdictGiven' /\ result' = result /\ pc' = pc /\ doc' = doc /\ ctx' = ctx /\ ChainValidated'
  <2> SUFFICES ASSUME UNCHANGED vars
               PROVE  VerdictGiven' /\ result' = result /\ pc' = pc /\ doc' = doc /\ ctx' = ctx /\ ChainValidated'
    OBVIOUS
  <2>1. ChainValidated'
    BY <1>1, ChainValidatedInductive DEF LibraryCall
  <2> QED BY <1>1, <2>1 DEF vars, LibraryCall, VerdictGiven
<1>3. CASE LoadKeysFile \/ LoadKeyFile \/ LoadNamedKey \/ LoadPkcs12 \/ LoadHmacKey \/ LoadAesKey
             \/ AddTrustedCerts \/ AddUntrustedCerts \/ AddCrls
  <2>1. Progress' /\ UNCHANGED <<cmd, exit, vars>> /\ exit = "running" /\ todo # <<>>
    BY <1>1, <1>3, ProgressLoad
  <2> QED BY <1>1, <1>2, <2>1 DEF CInv, LibraryCall, SessionFirst
<1>4. ASSUME NEW how \in {"Ok", "Invalid", "Err", "called"}, Finish(how),
             how = "Ok" => result = "Valid", how = "Invalid" => result = "Invalid",
             how = "called" => todo = <<>> /\ cmd.name # "sign"
      PROVE  CInv'
  <2>1. exit' = how /\ UNCHANGED <<cmd, todo, mgr, vars>>
    BY <1>4 DEF Finish
  <2>2. Progress'
    BY <1>1, <2>1, ProgressFrame
  <2>3. LibraryCall'
    BY <1>1, <1>2, <1>4, <2>1 DEF LibraryCall, Exits
  <2> QED BY <1>4, <2>1, <2>2, <2>3 DEF CInv, SessionFirst
<1>5. CASE LoadFails \/ SessionKeyRefused
  BY <1>4, <1>5 DEF LoadFails, SessionKeyRefused
<1>6. CASE Report
  <2>1. result \in {"Valid", "Invalid", "Err"}
    BY <1>1, <1>6 DEF Report, LibraryCall, VerdictGiven, Verdicts
  <2> QED BY <1>4, <1>6, <2>1 DEF Report
<1>7. CASE CallCipher
  BY <1>4, <1>7 DEF CallCipher, Loaded
<1>8. CASE CallSign
  <2>1. Progress' /\ SessionFirst'
    BY <1>1, <1>8, ProgressSign
  <2>2. exit' = "called" /\ todo' = <<>> /\ pc = "idle" /\ UNCHANGED vars
    BY <1>8 DEF CallSign, Loaded
  <2> QED BY <1>1, <1>2, <2>1, <2>2 DEF CInv, LibraryCall, Exits
<1>9. CASE StartVerify
  <2>1. /\ exit = "running" /\ todo = <<>> /\ cmd.name = "verify" /\ UNCHANGED <<cmd, todo, mgr, exit, result>>
        /\ doc' = cmd.doc /\ ctx' = VerifyContext(cmd, mgr) /\ pc = "idle" /\ pc' = "parse"
    BY <1>9 DEF StartVerify, Loaded, cvars
  <2>2. Progress'
    BY <1>1, <2>1, ProgressFrame
  <2>3. result = "pending"
    BY <1>1, <2>1 DEF LibraryCall, VerdictGiven
  <2>4. VerdictGiven' /\ ChainValidated'
    BY <2>1, <2>3 DEF VerdictGiven, ChainValidated
  <2> QED BY <1>1, <2>1, <2>2, <2>4 DEF CInv, LibraryCall, SessionFirst
<1>10. CASE VerifyStep
  <2>1. exit = "running" /\ Next /\ UNCHANGED <<cmd, todo, mgr, exit>>
    BY <1>10 DEF VerifyStep, cvars
  <2>2. pc # "idle" /\ UNCHANGED <<doc, ctx>> /\ VerdictGiven' /\ result' \in Verdicts
    BY <1>1, <2>1, VerifyFrame DEF LibraryCall
  <2>3. ChainValidated'
    BY <1>1, <2>1, ChainValidatedInductive DEF LibraryCall
  <2>4. Progress'
    BY <1>1, <2>1, ProgressFrame
  <2> QED BY <1>1, <2>1, <2>2, <2>3, <2>4 DEF CInv, LibraryCall, SessionFirst
<1>11. CASE UNCHANGED <<cvars, vars>>
  <2>1. UNCHANGED <<cmd, todo, mgr, exit>> /\ UNCHANGED vars
    BY <1>11 DEF cvars
  <2> QED BY <1>1, <1>2, <2>1, ProgressFrame DEF CInv, LibraryCall, SessionFirst
<1> QED BY <1>3, <1>5, <1>6, <1>7, <1>8, <1>9, <1>10, <1>11 DEF CNext

\* The invariant holds in every state of a command.
LEMMA CommandInvariant == CSpec => []CInv
BY CInvInit, CInvInductive, PTL DEF CSpec

-----------------------------------------------------------------------------
(* The theorems.                                                           *)

\* What is left of a plan, index by index, is an end of it.
LEMMA EndOfPlan ==
    ASSUME NEW c \in Commands, NEW t, Planned(c, t)
    PROVE  IsSuffix(t, LoadPlan(c))
<1> DEFINE p == LoadPlan(c)
           r == Reverse(t)
           q == Reverse(p)
<1>1. IsSeq(t) /\ IsSeq(p) /\ Len(p) - Len(t) \in Nat
  BY PlanShape DEF Planned, DoneLoads
<1>2. Len(t) \in Nat /\ Len(p) \in Nat
  BY <1>1, SeqDomain
<1>3. \A i \in 1 .. Len(t) : t[i] = p[Len(p) - Len(t) + i]
  BY DEF Planned, DoneLoads
<1>4. /\ r = [i \in 1 .. Len(t) |-> t[(Len(t) - i) + 1]]
      /\ q = [i \in 1 .. Len(p) |-> p[(Len(p) - i) + 1]]
  BY DEF Reverse
<1> HIDE DEF p, r, q
<1>5. IsSeq(r) /\ Len(r) = Len(t) /\ IsSeq(q) /\ Len(q) = Len(p)
  BY <1>2, <1>4, FunctionSeq
<1>6. \A i \in 1 .. Len(t) : r[i] = q[i]
  <2> TAKE i \in 1 .. Len(t)
  <2>1. /\ (Len(t) - i) + 1 \in 1 .. Len(t) /\ i \in 1 .. Len(p)
        /\ Len(p) - Len(t) + ((Len(t) - i) + 1) = (Len(p) - i) + 1
    BY <1>1, <1>2
  <2> QED BY <1>3, <1>4, <2>1
<1>7. SubSeq(r, 1, Len(r)) = SubSeq(q, 1, Len(r))
  <2>1. /\ SubSeq(r, 1, Len(t)) = [i \in 1 .. Len(t) |-> r[i]]
        /\ SubSeq(q, 1, Len(t)) = [i \in 1 .. Len(t) |-> q[i]]
    BY <1>1, <1>2, <1>5 DEF IsSeq
  <2> QED BY <1>5, <1>6, <2>1
<1>8. Len(r) <= Len(q)
  BY <1>1, <1>2, <1>5
<1> QED BY <1>7, <1>8 DEF IsSuffix, IsPrefix, p, r, q

\* Commands are well typed: the loads follow the plan, nothing that is no key enters the
\* manager, verify() is entered after the last load, and the exit status is its verdict.
THEOREM CommandTypeCorrect == CSpec => []CTypeOK
<1>1. CInv => CTypeOK
  <2> SUFFICES ASSUME CInv PROVE CTypeOK
    OBVIOUS
  <2>1. IsSuffix(todo, LoadPlan(cmd))
    BY EndOfPlan DEF CInv, Progress
  <2>2. NoKey \notin ToSet(mgr.keys)
    <3>1. \A i \in DOMAIN mgr.keys : mgr.keys[i].kind # "none"
      BY DEF CInv, Progress, KeysKept
    <3>2. NoKey.kind = "none"
      BY DEF NoKey
    <3> QED BY <3>1, <3>2 DEF ToSet
  <2>3. exit \in Exits
    BY DEF CInv, LibraryCall
  <2>4. (pc # "idle" => todo = <<>> /\ cmd.name = "verify")
        /\ (exit = "Ok" => result = "Valid") /\ (exit = "Invalid" => result = "Invalid")
    BY DEF CInv, LibraryCall
  <2> QED BY <2>1, <2>2, <2>3, <2>4 DEF CTypeOK
<1> QED BY <1>1, CommandInvariant, PTL

\* main.rs, "Insert it first so it takes priority for signing": sign() is called with the
\* session key first, whatever files were loaded before it was made.
THEOREM SessionKeyFirst == CSpec => []SessionKeySigns
<1>1. CInv => SessionKeySigns
  <2> SUFFICES ASSUME CInv, exit = "called", cmd.name = "sign", cmd.session # <<>>
               PROVE  mgr.keys[first_key(mgr.keys)].mat = "session"
    BY DEF SessionKeySigns
  <2>1. Len(mgr.keys) > 0 /\ mgr.keys[1].mat = "session"
    BY DEF CInv, SessionFirst
  <2>2. Len(mgr.keys) \in Nat
    BY SeqDomain DEF CInv, Progress, KeysKept
  <2> QED BY <2>1, <2>2 DEF first_key
<1> QED BY <1>1, CommandInvariant, PTL

\* When the library is entered, every load of the plan has gone through.
LEMMA AllLoaded ==
    ASSUME CInv, Entered
    PROVE  /\ cmd \in Commands /\ DoneLoads(cmd, todo) = Len(LoadPlan(cmd))
           /\ \A e \in ToSet(LoadPlan(cmd)) : LoadOK(e, cmd.pwd)
<1>1. todo = <<>> /\ cmd \in Commands /\ Planned(cmd, todo)
  BY DEF CInv, LibraryCall, Progress, Entered
<1>2. IsSeq(LoadPlan(cmd)) /\ Len(LoadPlan(cmd)) \in Nat /\ DOMAIN LoadPlan(cmd) = 1 .. Len(LoadPlan(cmd))
  BY <1>1, PlanShape, SeqDomain
<1>3. DoneLoads(cmd, todo) = Len(LoadPlan(cmd))
  BY <1>1, <1>2 DEF DoneLoads
<1>4. \A i \in 1 .. Len(LoadPlan(cmd)) : LoadOK(LoadPlan(cmd)[i], cmd.pwd)
  BY <1>1, <1>3 DEF Planned
<1> QED BY <1>1, <1>2, <1>3, <1>4 DEF ToSet

\* All or nothing: the library is entered with a key of every key file that was named, in
\* the order of the options.
THEOREM NoFileSkipped == CSpec => []EveryFileCounts
<1>1. CInv => EveryFileCounts
  <2> DEFINE p == KeyPlan(cmd)
             k == Len(cmd.keys_file)
             ks == mgr.keys
  <2> SUFFICES ASSUME CInv, Entered
               PROVE  /\ Len(ks) - (Len(p) - k) >= 0
                      /\ \A i \in k + 1 .. Len(p) :
                            ks[(Len(ks) - (Len(p) - k)) + i - k].mat \in FileMaterial(p[i].file)
    BY DEF EveryFileCounts
  <2>1. cmd \in Commands /\ DoneLoads(cmd, todo) = Len(LoadPlan(cmd))
    BY AllLoaded
  <2>2. Len(p) \in Nat /\ k \in Nat /\ Len(p) <= Len(LoadPlan(cmd)) /\ Len(LoadPlan(cmd)) \in Nat
    BY <2>1, PlanShape
  <2>3. KeysKept(cmd, Len(LoadPlan(cmd)), ks)
    BY <2>1 DEF CInv, Progress
  <2>4. (IF Len(LoadPlan(cmd)) <= Len(p) THEN Len(LoadPlan(cmd)) ELSE Len(p)) = Len(p)
    BY <2>2
  <2>5. /\ IsSeq(ks) /\ Len(p) - k <= Len(ks)
        /\ \A i \in k + 1 .. Len(p) : ks[Len(ks) - Len(p) + i].mat \in FileMaterial(p[i].file)
    BY <2>3, <2>4 DEF KeysKept
  <2>6. Len(ks) \in Nat
    BY <2>5, SeqDomain
  <2> HIDE DEF p, k, ks
  <2>7. \A i \in k + 1 .. Len(p) : (Len(ks) - (Len(p) - k)) + i - k = Len(ks) - Len(p) + i
    BY <2>2, <2>6
  <2> QED BY <2>2, <2>5, <2>6, <2>7
<1> QED BY <1>1, CommandInvariant, PTL

\* A wrong password for a PKCS#12 file or an encrypted key ends the command before the
\* library is entered.
THEOREM PasswordsChecked == CSpec => []WrongPasswordStops
<1>1. CInv => WrongPasswordStops
  <2> SUFFICES ASSUME CInv, Entered, NEW f \in ToSet(cmd.pkcs12 \o cmd.key)
               PROVE  ~Protected(f, OrEmpty(cmd.pwd))
    BY DEF WrongPasswordStops
  <2>1. cmd \in Commands /\ \A e \in ToSet(LoadPlan(cmd)) : LoadOK(e, cmd.pwd)
    BY AllLoaded
  <2>2. FilesOK(cmd.pkcs12) /\ FilesOK(cmd.key)
    BY <2>1, CommandsAssumption DEF FilesOK
  <2>3. f \in ToSet(cmd.pkcs12) \union ToSet(cmd.key) /\ FileOK(f)
    <3>1. f \in ToSet(cmd.pkcs12) \union ToSet(cmd.key)
      BY <2>2, ConcatElements DEF FilesOK
    <3> QED BY <2>2, <3>1 DEF FilesOK, ToSet
  <2>4. PICK op \in {"key", "pkcs12"} : [op |-> op, name |-> NoName, file |-> f] \in ToSet(KeyPlan(cmd))
    <3>1. CASE f \in ToSet(cmd.pkcs12)
      BY <2>1, <2>2, <3>1, LoadsOK, KeyPlanShape
    <3>2. CASE f \in ToSet(cmd.key)
      BY <2>1, <2>2, <3>2, LoadsOK, KeyPlanShape
    <3> QED BY <2>3, <3>1, <3>2
  <2> DEFINE e == [op |-> op, name |-> NoName, file |-> f]
  <2>5. e \in ToSet(LoadPlan(cmd))
    <3>1. IsSeq(KeyPlan(cmd)) /\ IsSeq(StorePlan(cmd))
      BY <2>1, KeyPlanShape, StorePlanShape DEF KeysFirst
    <3> QED BY <2>4, <3>1, ConcatElements DEF LoadPlan
  <2>6. e.op \in SingleOps /\ e.op \in {"key", "pkcs12"} /\ e.file = f
    BY <2>4 DEF SingleOps
  <2> HIDE DEF e
  <2>7. LoadOK(e, cmd.pwd)
    BY <2>1, <2>5
  <2> QED BY <2>3, <2>6, <2>7, LoadedOne
<1> QED BY <1>1, CommandInvariant, PTL

-----------------------------------------------------------------------------
(* --trusted constrains inline certificates.                               *)

\* The loads of one store are those of its option's files.
LEMMA LoadsOfStore ==
    ASSUME NEW c \in Commands, c.name = "verify"
    PROVE  /\ {e \in ToSet(LoadPlan(c)) : e.op = "trusted"} = ToSet(Loads("trusted", c.trusted))
           /\ {e \in ToSet(LoadPlan(c)) : e.op = "untrusted"} = ToSet(Loads("untrusted", c.untrusted))
           /\ {e \in ToSet(LoadPlan(c)) : e.op = "crl"} = ToSet(Loads("crl", c.crl))
<1>1. FilesOK(c.trusted) /\ FilesOK(c.untrusted) /\ FilesOK(c.crl)
  BY CommandsAssumption DEF FilesOK
<1> DEFINE T == ToSet(Loads("trusted", c.trusted))
           U == ToSet(Loads("untrusted", c.untrusted))
           L == ToSet(Loads("crl", c.crl))
           K == ToSet(KeyPlan(c))
<1>2. (\A e \in T : e.op = "trusted") /\ (\A e \in U : e.op = "untrusted") /\ (\A e \in L : e.op = "crl")
  BY <1>1, LoadsOK
<1>3. IsSeq(KeyPlan(c)) /\ IsSeq(StorePlan(c))
  BY KeyPlanShape, StorePlanShape DEF KeysFirst
<1>4. \A e \in K : e.op \notin {"trusted", "untrusted", "crl"}
  <2> SUFFICES ASSUME NEW i \in DOMAIN KeyPlan(c) PROVE KeyPlan(c)[i].op \notin {"trusted", "untrusted", "crl"}
    BY DEF ToSet
  <2> DEFINE k == Len(c.keys_file)
             n == Len(KeyPlan(c))
  <2>1. i \in 1 .. n /\ k \in 0 .. n /\ n \in Nat
    BY <1>3, SeqDomain, PlanShape
  <2>2. /\ \A j \in 1 .. k : KeyPlan(c)[j].op = "keys"
        /\ \A j \in k + 1 .. n : KeyPlan(c)[j].op \in SingleOps
    BY KeyPlanShape DEF KeysFirst
  <2> HIDE DEF k, n
  <2>3. i \in 1 .. k \/ i \in k + 1 .. n
    BY <2>1
  <2> QED BY <2>2, <2>3 DEF SingleOps
<1>5. ToSet(StorePlan(c)) = T \union U \union L
  BY StorePlanShape
<1>6. ToSet(LoadPlan(c)) = K \union ToSet(StorePlan(c))
  BY <1>3, ConcatElements DEF LoadPlan
<1> HIDE DEF T, U, L, K
<1>7. ToSet(LoadPlan(c)) = K \union T \union U \union L
  BY <1>5, <1>6
<1> QED BY <1>2, <1>4, <1>7 DEF T, U, L

\* The elements of a plan and its indices.
LEMMA StoredByElement ==
    ASSUME NEW c \in Commands
    PROVE  /\ \A op : StoredCerts(c, op, Len(LoadPlan(c)))
                        = UNION {Certificates(e.file) : e \in {x \in ToSet(LoadPlan(c)) : x.op = op}}
           /\ StoredEntries(c, Len(LoadPlan(c)))
                = UNION {RevokedEntries(e.file) : e \in {x \in ToSet(LoadPlan(c)) : x.op = "crl"}}
<1> DEFINE p == LoadPlan(c)
           J(op) == {j \in 1 .. Len(p) : p[j].op = op}
           X(op) == {x \in ToSet(p) : x.op = op}
<1>1. DOMAIN p = 1 .. Len(p)
  BY PlanShape, SeqDomain
<1> HIDE DEF p
<1>2. \A op : X(op) = {p[j] : j \in J(op)}
  BY <1>1 DEF ToSet
<1>3. ASSUME NEW op
      PROVE  /\ {Certificates(p[i].file) : i \in J(op)} = {Certificates(e.file) : e \in X(op)}
             /\ {RevokedEntries(p[i].file) : i \in J(op)} = {RevokedEntries(e.file) : e \in X(op)}
  <2> HIDE DEF J, X
  <2>1. X(op) = {p[j] : j \in J(op)}
    BY <1>2
  <2>2. {Certificates(p[i].file) : i \in J(op)} = {Certificates(e.file) : e \in X(op)}
    BY <2>1
  <2>3. {RevokedEntries(p[i].file) : i \in J(op)} = {RevokedEntries(e.file) : e \in X(op)}
    BY <2>1
  <2> QED BY <2>2, <2>3
<1>4. \A op : StoredCerts(c, op, Len(p)) = UNION {Certificates(p[i].file) : i \in J(op)}
  BY DEF StoredCerts, p
<1>5. StoredEntries(c, Len(p)) = UNION {RevokedEntries(p[i].file) : i \in J("crl")}
  BY DEF StoredEntries, p
<1> HIDE DEF J, X
<1>6. \A op : StoredCerts(c, op, Len(p)) = UNION {Certificates(e.file) : e \in X(op)}
  BY <1>3, <1>4
<1>7. StoredEntries(c, Len(p)) = UNION {RevokedEntries(e.file) : e \in X("crl")}
  BY <1>3, <1>5
<1> QED BY <1>6, <1>7 DEF X, p

\* What a file of an option puts into its store is what it holds.
LEMMA FileHeld ==
    ASSUME NEW f, FileOK(f)
    PROVE  /\ load_as_der(f, "CERTIFICATE") # {} =>
                 Certificates(f) = CASE f.form = "pem" -> {b.item.cert : b \in {x \in ToSet(f.blocks) :
                                                    x.label = "CERTIFICATE" /\ x.state = "ok"}}
                                     [] OTHER -> {f.item.cert}
           /\ load_as_der(f, "X509 CRL") # {} =>
                 RevokedEntries(f) = CASE f.form = "pem" -> UNION {b.item.entries : b \in {x \in ToSet(f.blocks) :
                                                    x.label = "X509 CRL" /\ x.state = "ok"}}
                                       [] OTHER -> f.item.entries
<1> DEFINE B(label) == {x \in ToSet(f.blocks) : x.label = label /\ x.state = "ok"}
<1>1. ASSUME NEW label, load_as_der(f, label) # {}
      PROVE  load_as_der(f, label) = IF f.form = "pem" THEN {b.item : b \in B(label)} ELSE {f.item}
  BY <1>1, StoreFile
<1>2. ASSUME load_as_der(f, "CERTIFICATE") # {}
      PROVE  Certificates(f) = IF f.form = "pem" THEN {b.item.cert : b \in B("CERTIFICATE")} ELSE {f.item.cert}
  <2> HIDE DEF B
  <2> QED BY <1>1, <1>2 DEF Certificates
<1>3. ASSUME load_as_der(f, "X509 CRL") # {}
      PROVE  RevokedEntries(f) = IF f.form = "pem" THEN UNION {b.item.entries : b \in B("X509 CRL")} ELSE f.item.entries
  <2> HIDE DEF B
  <2>1. CASE f.form = "pem"
    <3>1. load_as_der(f, "X509 CRL") = {b.item : b \in B("X509 CRL")}
      BY <1>1, <1>3, <2>1
    <3>2. {i.entries : i \in load_as_der(f, "X509 CRL")} = {b.item.entries : b \in B("X509 CRL")}
      BY <3>1
    <3> QED BY <2>1, <3>2 DEF RevokedEntries
  <2>2. CASE f.form # "pem"
    <3>1. load_as_der(f, "X509 CRL") = {f.item}
      BY <1>1, <1>3, <2>2
    <3>2. {i.entries : i \in load_as_der(f, "X509 CRL")} = {f.item.entries}
      BY <3>1
    <3>3. UNION {f.item.entries} = f.item.entries
      OBVIOUS
    <3> QED BY <2>2, <3>2, <3>3 DEF RevokedEntries
  <2> QED BY <2>1, <2>2
<1> QED BY <1>2, <1>3

\* The stores of verify hold what the files of their options hold.
LEMMA StoresHeld ==
    ASSUME NEW c \in Commands, c.name = "verify", \A e \in ToSet(LoadPlan(c)) : LoadOK(e, c.pwd)
    PROVE  /\ StoredCerts(c, "trusted", Len(LoadPlan(c))) = HeldCerts(c.trusted)
           /\ StoredCerts(c, "untrusted", Len(LoadPlan(c))) = HeldCerts(c.untrusted)
           /\ StoredEntries(c, Len(LoadPlan(c))) = HeldEntries(c.crl)
<1> DEFINE Load(op, f) == [op |-> op, name |-> NoName, file |-> f]
           X(op) == {x \in ToSet(LoadPlan(c)) : x.op = op}
<1>1. FilesOK(c.trusted) /\ FilesOK(c.untrusted) /\ FilesOK(c.crl)
  BY CommandsAssumption DEF FilesOK
<1>2. /\ X("trusted") = {Load("trusted", f) : f \in ToSet(c.trusted)}
      /\ X("untrusted") = {Load("untrusted", f) : f \in ToSet(c.untrusted)}
      /\ X("crl") = {Load("crl", f) : f \in ToSet(c.crl)}
  BY <1>1, LoadsOfStore, LoadsOK
<1>3. \A op : \A e \in X(op) : LoadOK(e, c.pwd)
  OBVIOUS
<1>4. /\ \A op : StoredCerts(c, op, Len(LoadPlan(c))) = UNION {Certificates(e.file) : e \in X(op)}
      /\ StoredEntries(c, Len(LoadPlan(c))) = UNION {RevokedEntries(e.file) : e \in X("crl")}
  BY StoredByElement
<1>5. \A op, f : Load(op, f).op = op /\ Load(op, f).file = f
  OBVIOUS
<1>6. ASSUME NEW op \in DOMAIN Labels, NEW f, LoadOK(Load(op, f), c.pwd)
      PROVE  load_as_der(f, Labels[op]) # {}
  BY <1>6 DEF LoadOK, Labels
<1> HIDE DEF Load, X
<1>7. ASSUME NEW op \in {"trusted", "untrusted"}, NEW fs, FilesOK(fs), X(op) = {Load(op, f) : f \in ToSet(fs)}
      PROVE  StoredCerts(c, op, Len(LoadPlan(c))) = HeldCerts(fs)
  <2> DEFINE H(f) == CASE f.form = "pem" -> {b.item.cert : b \in {x \in ToSet(f.blocks) :
                                                    x.label = "CERTIFICATE" /\ x.state = "ok"}}
                       [] OTHER -> {f.item.cert}
  <2>1. \A f \in ToSet(fs) : FileOK(f) /\ load_as_der(f, "CERTIFICATE") # {}
    <3>1. \A f \in ToSet(fs) : FileOK(f)
      BY <1>7 DEF FilesOK, ToSet
    <3>2. op \in DOMAIN Labels /\ Labels[op] = "CERTIFICATE"
      <4>1. CASE op = "trusted"
        BY <4>1 DEF Labels
      <4>2. CASE op = "untrusted"
        BY <4>2 DEF Labels
      <4> QED BY <4>1, <4>2
    <3> QED BY <1>3, <1>6, <1>7, <3>1, <3>2
  <2>2. \A f \in ToSet(fs) : Certificates(f) = H(f)
    BY <2>1, FileHeld
  <2>3. HeldCerts(fs) = UNION {H(f) : f \in ToSet(fs)}
    BY DEF HeldCerts
  <2> HIDE DEF H
  <2>4. {Certificates(e.file) : e \in X(op)} = {H(f) : f \in ToSet(fs)}
    BY <1>5, <1>7, <2>2
  <2> QED BY <1>4, <2>3, <2>4
<1>8. StoredEntries(c, Len(LoadPlan(c))) = HeldEntries(c.crl)
  <2> DEFINE fs == c.crl
             H(f) == CASE f.form = "pem" -> UNION {b.item.entries : b \in {x \in ToSet(f.blocks) :
                                                    x.label = "X509 CRL" /\ x.state = "ok"}}
                       [] OTHER -> f.item.entries
  <2>1. \A f \in ToSet(fs) : FileOK(f) /\ load_as_der(f, "X509 CRL") # {}
    <3>1. \A f \in ToSet(fs) : FileOK(f)
      BY <1>1 DEF FilesOK, ToSet
    <3>2. "crl" \in DOMAIN Labels /\ Labels["crl"] = "X509 CRL"
      BY DEF Labels
    <3> QED BY <1>2, <1>3, <1>6, <3>1, <3>2
  <2>2. \A f \in ToSet(fs) : RevokedEntries(f) = H(f)
    BY <2>1, FileHeld
  <2>3. HeldEntries(fs) = UNION {H(f) : f \in ToSet(fs)}
    BY DEF HeldEntries
  <2> HIDE DEF H, fs
  <2>4. {RevokedEntries(e.file) : e \in X("crl")} = {H(f) : f \in ToSet(fs)}
    BY <1>2, <1>5, <2>2 DEF fs
  <2> QED BY <1>4, <2>3, <2>4 DEF fs
<1> QED BY <1>1, <1>2, <1>7, <1>8

\* ADR-0004: a successful verify --trusted with the key of an inline certificate means
\* that this certificate leads to one of the certificates in the --trusted files and is
\* not revoked by the --crl files; nothing between the files and validate_cert_chain
\* drops or adds a root, an intermediate or a CRL entry.
THEOREM RootsConstrain == CSpec => []TrustedRootsConstrain
<1>1. CInv => TrustedRootsConstrain
  <2> SUFFICES ASSUME CInv, exit = "Ok", cmd.trusted # <<>>, ~cmd.skip_strict, ~cmd.insecure,
                      source = "x509", LeafFirst(key.chain)
               PROVE  \E c \in KeyCertificates(key) : validate_cert_chain(c, ToSet(key.chain), GivenConfig)
    BY DEF TrustedRootsConstrain
  <2>1. result = "Valid" /\ pc # "idle"
    BY DEF CInv, LibraryCall, VerdictGiven
  <2>2. /\ cmd.name = "verify" /\ doc = cmd.doc /\ ctx = VerifyContext(cmd, mgr) /\ ChainValidated
    BY <2>1 DEF CInv, LibraryCall
  <2>3. /\ cmd \in Commands /\ DoneLoads(cmd, todo) = Len(LoadPlan(cmd))
        /\ \A e \in ToSet(LoadPlan(cmd)) : LoadOK(e, cmd.pwd)
    BY <2>1, AllLoaded DEF Entered
  <2>4. DocOK(doc)
    BY <2>2, <2>3, CommandsAssumption
  <2>5. /\ ~ctx.hsm.on /\ ~ctx.insecure /\ ctx.x509
    <3>1. VerifyContext(cmd, mgr).hsm.on = FALSE
      BY DEF VerifyContext
    <3>2. VerifyContext(cmd, mgr).insecure = cmd.insecure
      BY DEF VerifyContext
    <3>3. VerifyContext(cmd, mgr).x509 = InlineX509(cmd)
      BY DEF VerifyContext
    <3>4. InlineX509(cmd)
      BY Zenon DEF InlineX509
    <3> QED BY <2>2, <3>1, <3>2, <3>3, <3>4, Zenon
  <2>6. /\ ctx.trusted = mgr.trusted /\ ctx.untrusted = mgr.untrusted /\ ctx.crls = mgr.crls
        /\ ctx.now = cmd.now /\ ctx.skip_time = cmd.skip_time
    BY <2>2 DEF VerifyContext
  <2>7. StoresKept(cmd, Len(LoadPlan(cmd)), mgr)
    BY <2>3 DEF CInv, Progress
  <2>8. /\ mgr.trusted = HeldCerts(cmd.trusted) /\ mgr.untrusted = HeldCerts(cmd.untrusted)
        /\ mgr.crls = HeldEntries(cmd.crl)
    BY <2>2, <2>3, <2>7, StoresHeld DEF StoresKept
  <2>9. CertConfig(ctx) = GivenConfig
    BY <2>6, <2>8 DEF CertConfig, GivenConfig
  <2>10. /\ key = SelectedKey /\ key # NoKey /\ source = SelectedSource
         /\ NeedsX509(ctx, key, source) => ChainOK(ctx, key)
    BY <2>1, <2>2, <2>5 DEF ChainValidated
  <2>11. EmbeddedKey # NoKey /\ Len(EmbeddedKey.chain) > 0 /\ key = EmbeddedKey
    BY <2>10 DEF SelectedSource, SelectedKey, OrElseKey
  <2>12. ChainOK(ctx, key)
    BY <2>5, <2>10, <2>11 DEF NeedsX509
  <2>13. 1 \in DOMAIN key.chain /\ CertOf(key).mat = key.mat
    BY <2>4, <2>11, EmbeddedCertificate
  <2>14. CertOf(key) \in KeyCertificates(key)
    BY <2>13 DEF KeyCertificates, CertOf
  <2>15. validate_cert_chain(CertOf(key), ToSet(key.chain), GivenConfig)
    BY <2>9, <2>12 DEF ChainOK, ToSet
  <2> QED BY <2>14, <2>15
<1> QED BY <1>1, CommandInvariant, PTL

-----------------------------------------------------------------------------
(* The keys a signature may be valid under.                                *)

\* A key, with its chain, that a loader read from a file of the command line.
ReadFrom(e, c, x) == \E k \in ReadKeys(e, c.pwd) : x.kind = k.kind /\ x.mat = k.mat /\ x.chain = k.chain
Read(c, x) == \E e \in ToSet(LoadPlan(c)) : ReadFrom(e, c, x)

\* Until a library call adds a session key, the other keys are AES keys.
FromFiles == exit # "called" => \A i \in DOMAIN mgr.keys : mgr.keys[i].kind = "Aes" \/ Read(cmd, mgr.keys[i])

\* A load of the plan, and the file of one that adds keys.
LEMMA PlannedLoad ==
    ASSUME NEW c \in Commands, NEW n \in 1 .. Len(LoadPlan(c)), NEW e, e = LoadPlan(c)[n]
    PROVE  e \in ToSet(LoadPlan(c)) /\ (e.op \notin StoreOps => FileOK(e.file))
<1>1. /\ IsSeq(LoadPlan(c)) /\ Len(KeyPlan(c)) \in Nat /\ Len(LoadPlan(c)) \in Nat
      /\ \A i \in 1 .. Len(KeyPlan(c)) : FileOK(LoadPlan(c)[i].file)
      /\ \A i \in Len(KeyPlan(c)) + 1 .. Len(LoadPlan(c)) : LoadPlan(c)[i].op \in StoreOps
  BY PlanShape
<1>2. DOMAIN LoadPlan(c) = 1 .. Len(LoadPlan(c))
  BY <1>1, SeqDomain
<1>3. n \in 1 .. Len(KeyPlan(c)) \/ n \in Len(KeyPlan(c)) + 1 .. Len(LoadPlan(c))
  BY <1>1
<1> QED BY <1>1, <1>2, <1>3 DEF ToSet

\* The keys of a keys.xml file are a sequence.
LEMMA FileKeysSeq ==
    ASSUME NEW f, FileOK(f)
    PROVE  IsSeq(load_keys_file(f).keys)
<1> DEFINE es == KeyEntries(f)
           new == [i \in DOMAIN es |-> NamedAs(es[i].key, es[i].name)]
<1>1. IsSeq(es)
  BY DEF FileOK
<1>2. load_keys_file(f).keys = new \/ load_keys_file(f).keys = <<>>
  BY DEF load_keys_file, Failed
<1>3. IsSeq(new)
  <2> HIDE DEF es
  <2>1. DOMAIN es = 1 .. Len(es) /\ Len(es) \in Nat
    BY <1>1, SeqDomain
  <2> QED BY <2>1, FunctionSeq
<1>4. IsSeq(<<>>)
  BY DEF IsSeq
<1> QED BY <1>2, <1>3, <1>4

\* What a load of a single file adds was read from it, or is the AES key of its octets.
LEMMA LoadedRead ==
    ASSUME NEW e, NEW c, e.op \in SingleOps, NEW x \in ToSet(LoadedKeys(e, c.pwd))
    PROVE  x.kind = "Aes" \/ ReadFrom(e, c, x)
<1> DEFINE f == e.file
           k == load_key_file_with_password(f, c.pwd)
<1>1. LoadedKeys(e, c.pwd) # <<>>
  BY DEF ToSet
<1>2. CASE e.op = "named"
  <2>1. LoadedKeys(e, c.pwd) = <<NamedAs(IF k = NoKey THEN FallbackKey(f) ELSE k, e.name)>>
    BY <1>1, <1>2 DEF LoadedKeys
  <2>2. x = NamedAs(IF k = NoKey THEN FallbackKey(f) ELSE k, e.name)
    BY <2>1 DEF ToSet
  <2>3. CASE k = NoKey
    BY <2>2, <2>3 DEF NamedAs, FallbackKey, SecretKey, NoKey
  <2>4. CASE k # NoKey
    <3>1. k \in ReadKeys(e, c.pwd)
      BY <1>2, <2>4 DEF ReadKeys
    <3>2. x = [k EXCEPT !.name = e.name]
      BY <2>2, <2>4 DEF NamedAs
    <3> HIDE DEF k
    <3>3. x.kind = k.kind /\ x.mat = k.mat /\ x.chain = k.chain
      BY <3>2
    <3> QED BY <3>1, <3>3 DEF ReadFrom
  <2> QED BY <2>3, <2>4
<1>3. CASE e.op # "named"
  <2>1. e.op # "keys"
    BY DEF SingleOps
  <2>2. ReadKeys(e, c.pwd) = ToSet(LoadedKeys(e, c.pwd))
    BY <1>3, <2>1 DEF ReadKeys
  <2> QED BY <2>2 DEF ReadFrom
<1> QED BY <1>2, <1>3

\* Appending such keys keeps the manager one of such keys.
LEMMA FromFilesAppended ==
    ASSUME NEW c, NEW ks, NEW new, IsSeq(ks), IsSeq(new),
           \A i \in DOMAIN ks : ks[i].kind = "Aes" \/ Read(c, ks[i]),
           \A x \in ToSet(new) : x.kind = "Aes" \/ Read(c, x)
    PROVE  \A i \in DOMAIN (ks \o new) : (ks \o new)[i].kind = "Aes" \/ Read(c, (ks \o new)[i])
<1>1. IsSeq(ks \o new) /\ ToSet(ks \o new) = ToSet(ks) \union ToSet(new)
  BY ConcatSeq, ConcatElements
<1>2. \A x \in ToSet(ks) \union ToSet(new) : x.kind = "Aes" \/ Read(c, x)
  BY DEF ToSet
<1> QED BY <1>1, <1>2, InElements

\* Every step of a command preserves it.
LEMMA FromFilesInductive == CInv /\ FromFiles /\ [CNext]_<<cvars, vars>> => FromFiles'
<1> SUFFICES ASSUME CInv, FromFiles, [CNext]_<<cvars, vars>> PROVE FromFiles'
  OBVIOUS
<1>0. ASSUME NEW ks, mgr'.keys = ks, cmd' = cmd, \A i \in DOMAIN ks : ks[i].kind = "Aes" \/ Read(cmd, ks[i])
      PROVE  FromFiles'
  <2>1. \A x : Read(cmd, x)' = Read(cmd, x)
    BY <1>0 DEF Read, ReadFrom
  <2> QED BY <1>0, <2>1 DEF FromFiles
<1>1. UNCHANGED <<cmd, mgr>> /\ exit \in Exits \ {"called"} => FromFiles'
  BY DEF FromFiles
<1>2. ASSUME NEW new, IsSeq(new), AddKeys(new), exit = "running",
             \A x \in ToSet(new) : x.kind = "Aes" \/ Read(cmd, x)
      PROVE  FromFiles'
  <2>1. cmd' = cmd /\ mgr' = [mgr EXCEPT !.keys = mgr.keys \o new]
    BY <1>2 DEF AddKeys, Step
  <2>2. IsSeq(mgr.keys) /\ mgr'.keys = mgr.keys \o new
    <3>1. mgr = [keys |-> mgr.keys, trusted |-> mgr.trusted, untrusted |-> mgr.untrusted, crls |-> mgr.crls]
      BY DEF CInv, Progress
    <3>2. IsSeq(mgr.keys)
      BY DEF CInv, Progress, KeysKept
    <3> QED BY <2>1, <3>1, <3>2
  <2>3. \A i \in DOMAIN mgr.keys : mgr.keys[i].kind = "Aes" \/ Read(cmd, mgr.keys[i])
    BY <1>2 DEF FromFiles
  <2>4. \A i \in DOMAIN (mgr.keys \o new) : (mgr.keys \o new)[i].kind = "Aes" \/ Read(cmd, (mgr.keys \o new)[i])
    BY <1>2, <2>2, <2>3, FromFilesAppended
  <2> DEFINE ks == mgr.keys \o new
  <2>5. mgr'.keys = ks /\ \A i \in DOMAIN ks : ks[i].kind = "Aes" \/ Read(cmd, ks[i])
    BY <2>2, <2>4
  <2> HIDE DEF ks
  <2> QED BY <1>0, <2>1, <2>5
<1>3. ASSUME NEW op, Done(op)
      PROVE  /\ exit = "running" /\ Head(todo).op = op /\ LoadOK(Head(todo), cmd.pwd)
             /\ Head(todo) \in ToSet(LoadPlan(cmd))
             /\ op \notin StoreOps => FileOK(Head(todo).file)
  <2>1. exit = "running" /\ todo # <<>> /\ Head(todo).op = op /\ LoadOK(Head(todo), cmd.pwd)
    BY <1>3 DEF Done
  <2>2. cmd \in Commands /\ Planned(cmd, todo)
    BY DEF CInv, Progress
  <2> DEFINE n == DoneLoads(cmd, todo) + 1
  <2>3. n \in 1 .. Len(LoadPlan(cmd)) /\ Head(todo) = LoadPlan(cmd)[n]
    BY <2>1, <2>2, PlannedNext
  <2> HIDE DEF n
  <2> QED BY <2>1, <2>2, <2>3, PlannedLoad
<1>4. CASE LoadKeysFile
  <2> DEFINE e == Head(todo)
             new == load_keys_file(e.file).keys
  <2>1. Done("keys") /\ AddKeys(new)
    BY <1>4 DEF LoadKeysFile
  <2>2. exit = "running" /\ e.op = "keys" /\ e \in ToSet(LoadPlan(cmd)) /\ FileOK(e.file) /\ LoadOK(e, cmd.pwd)
    BY <1>3, <2>1 DEF StoreOps
  <2>3. ReadKeys(e, cmd.pwd) = ToSet(new)
    BY <2>2 DEF ReadKeys
  <2> HIDE DEF e
  <2>4. IsSeq(new)
    BY <2>2, FileKeysSeq
  <2> HIDE DEF new
  <2>5. \A x \in ToSet(new) : Read(cmd, x)
    BY <2>2, <2>3 DEF Read, ReadFrom
  <2> QED BY <1>2, <2>1, <2>2, <2>4, <2>5
<1>5. CASE LoadKeyFile \/ LoadNamedKey \/ LoadPkcs12 \/ LoadHmacKey \/ LoadAesKey
  <2> DEFINE e == Head(todo)
             new == LoadedKeys(e, cmd.pwd)
  <2>1. PICK op \in SingleOps : Done(op) /\ AddKeys(new)
    BY <1>5 DEF LoadKeyFile, LoadNamedKey, LoadPkcs12, LoadHmacKey, LoadAesKey, SingleOps
  <2>2. exit = "running" /\ e.op \in SingleOps /\ e \in ToSet(LoadPlan(cmd)) /\ FileOK(e.file) /\ LoadOK(e, cmd.pwd)
    BY <1>3, <2>1 DEF StoreOps, SingleOps
  <2> HIDE DEF e
  <2>3. new = <<new[1]>>
    BY <2>2, LoadedOne
  <2>4. \A x \in ToSet(new) : x.kind = "Aes" \/ ReadFrom(e, cmd, x)
    BY <2>2, LoadedRead
  <2> HIDE DEF new
  <2>5. IsSeq(new)
    BY <2>3 DEF IsSeq
  <2>6. \A x \in ToSet(new) : x.kind = "Aes" \/ Read(cmd, x)
    BY <2>2, <2>4 DEF Read
  <2> QED BY <1>2, <2>1, <2>2, <2>5, <2>6
<1>6. CASE AddTrustedCerts \/ AddUntrustedCerts \/ AddCrls
  <2>1. PICK op : Done(op)
    BY <1>6 DEF AddTrustedCerts, AddUntrustedCerts, AddCrls
  <2>2. exit = "running" /\ cmd' = cmd
    BY <1>6 DEF AddTrustedCerts, AddUntrustedCerts, AddCrls, Done, Step
  <2>3. mgr = [keys |-> mgr.keys, trusted |-> mgr.trusted, untrusted |-> mgr.untrusted, crls |-> mgr.crls]
    BY DEF CInv, Progress
  <2>4. mgr'.keys = mgr.keys
    BY <1>6, <2>3 DEF AddTrustedCerts, AddUntrustedCerts, AddCrls, Step
  <2>5. \A i \in DOMAIN mgr.keys : mgr.keys[i].kind = "Aes" \/ Read(cmd, mgr.keys[i])
    BY <2>2 DEF FromFiles
  <2> QED BY <2>2, <2>4, <2>5 DEF FromFiles, Read, ReadFrom
<1>7. CASE LoadFails \/ Report \/ SessionKeyRefused \/ CallCipher \/ StartVerify \/ VerifyStep
  <2>1. exit = "running" /\ UNCHANGED <<cmd, mgr>>
    BY <1>7 DEF LoadFails, Report, SessionKeyRefused, CallCipher, StartVerify, VerifyStep, Loaded, Finish, cvars
  <2> QED BY <1>1, <2>1 DEF Exits
<1>8. CASE CallSign
  BY <1>8 DEF CallSign, FromFiles
<1>9. CASE UNCHANGED <<cvars, vars>>
  BY <1>9 DEF FromFiles, cvars, Read, ReadFrom
<1> QED BY <1>4, <1>5, <1>6, <1>7, <1>8, <1>9 DEF CNext

\* A signature is only valid under a key that a loader read from a file of the command
\* line, or, without --trusted-keys-only, under one of the document: the AES key that
\* stands for a --key-name file nobody could read never verifies anything.
THEOREM OnlyReadKeys == CSpec => []OnlyReadKeysVerify
<1>1. CInit => FromFiles
  BY DEF CInit, FromFiles, EmptyManager
<1>2. CInv /\ FromFiles => OnlyReadKeysVerify
  <2> SUFFICES ASSUME CInv, FromFiles, exit = "Ok"
               PROVE  IF source = "manager" THEN Read(cmd, key)
                      ELSE ~cmd.trusted_keys_only /\ key.mat \in Policy!DocumentMaterial(cmd.doc)
    BY DEF OnlyReadKeysVerify, Read, ReadFrom
  <2>1. result = "Valid" /\ pc # "idle"
    BY DEF CInv, LibraryCall, VerdictGiven
  <2>2. cmd \in Commands /\ doc = cmd.doc /\ ctx = VerifyContext(cmd, mgr) /\ ChainValidated
    BY <2>1 DEF CInv, LibraryCall, Progress
  <2>3. VerifyContext(cmd, mgr).hsm.on = FALSE
    BY DEF VerifyContext
  <2>4. ctx.keys = mgr.keys /\ ctx.trusted_keys_only = cmd.trusted_keys_only
    BY <2>2 DEF VerifyContext
  <2>5. key = SelectedKey /\ key # NoKey /\ source = SelectedSource /\ UsableKey
    BY <2>1, <2>2, <2>3 DEF ChainValidated
  <2>6. IF EmbeddedKey # NoKey
        THEN ~ctx.trusted_keys_only /\ key.mat \in Policy!DocumentMaterial(doc)
        ELSE \E i \in DOMAIN ctx.keys : key = ctx.keys[i]
    <3>1. DocOK(doc)
      BY <2>2, CommandsAssumption
    <3>2. IsSeq(ctx.keys)
      BY <2>4 DEF CInv, Progress, KeysKept
    <3> QED BY <2>5, <3>1, <3>2, SelectedFrom
  <2>7. CASE EmbeddedKey = NoKey
    <3>1. source = "manager"
      BY <2>5, <2>7 DEF SelectedSource
    <3>2. PICK i \in DOMAIN mgr.keys : key = mgr.keys[i]
      BY <2>4, <2>6, <2>7
    <3>3. key.kind # "Aes"
      BY <2>5 DEF UsableKey, HasSigningKey, NonSigningKinds
    <3>4. Read(cmd, key)
      BY <3>2, <3>3 DEF FromFiles
    <3> QED BY <3>1, <3>4
  <2>8. CASE EmbeddedKey # NoKey
    <3>1. source # "manager"
      BY <2>5, <2>8 DEF SelectedSource
    <3>2. ~ctx.trusted_keys_only /\ key.mat \in Policy!DocumentMaterial(doc)
      BY <2>6, <2>8
    <3> QED BY <2>2, <2>4, <3>1, <3>2
  <2> QED BY <2>7, <2>8
<1>3. CInv /\ FromFiles /\ [CNext]_<<cvars, vars>> => FromFiles'
  BY FromFilesInductive
<1> QED BY <1>1, <1>2, <1>3, CommandInvariant, PTL DEF CSpec
=============================================================================
