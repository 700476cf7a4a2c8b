# Bergshamra in TLA+

A TLA+ model of bergshamra, a Rust library for XML signatures (XML-DSig), XML encryption
(XML-Enc) and canonicalization, with TLC configurations and TLAPS proofs. Paths such as
`verify.rs:193` are below `src/crates/<crate>/src/`.

The library is sequential: no threads, no network, no persistent state. Its difficulty is
elsewhere: one public function is a long sequence of checks, searches and text replacements
with early returns, whose result depends on combinations of document shape, key material and
policy that are too many to test one by one. The inputs are therefore what the models vary
(in `Init`, or as the next transform), and each stage of a function is one action.

## 1. The system

| Component | State | Operations | Where |
|---|---|---|---|
| Signature verification | `DsigContext`, locals of `verify()` | `verify` | dsig `verify.rs` 77-457, `context.rs` |
| Reference processing | `TransformData` (text, node set, octets) | `resolve_reference_uri`, `apply_transform` and its algorithms | dsig `verify.rs` 464-2764, crate transforms |
| Node sets | `NodeSet` (ids, namespace visibility, attribute mark) | constructors, intersection, union, subtract | xml `nodeset.rs`, `xpath.rs` |
| Canonicalization | namespace context of the walk | inclusive 1.0 and 1.1, exclusive | crate c14n |
| Signature creation | `result_xml`, the text being filled | `sign` | dsig `sign.rs` |
| Encryption | `result`, data key | `encrypt` | enc `encrypt.rs` |
| Decryption | remembered errors, candidate key, the text of the result | `decrypt`, `decrypt_to_bytes`, `resolve_decryption_key`, replacement and normalization | enc `decrypt.rs` |
| Key store | `KeysManager` | `find_*`, `first_key`, `add_*`, `insert_key_first` | keys `manager.rs`, `key.rs` |
| KeyInfo | - | `resolve_key_info`, extraction, retrieval | keys `keyinfo.rs`, dsig `verify.rs` 2770-3293 |
| X.509 | - | `find_leaf_cert`, `validate_cert_chain`, CRLs | keys `x509.rs`, `keyinfo.rs` |
| Key loading, PKCS#12 | - | `load_key_file_with_password`, `load_keys_file`, `parse_pfx`, `load_pkcs12` | keys `loader.rs`, `keysxml.rs`, crate pkcs12 |
| Primitives | - | digests, signatures, ciphers, key wrap, KDFs | crate crypto |
| Command line | the manager and context being filled, the exit status | `cmd_verify`, `cmd_sign`, `cmd_encrypt`, `cmd_decrypt`, `build_keys_manager` | bergshamra `main.rs` |

`verify` and `sign` call reference processing for every `<Reference>`; reference processing
calls canonicalization and node sets; `verify` and `decrypt` search the key store guided by
KeyInfo; `verify` validates certificates. The command line loads keys, certificates and CRLs
from files into one store and makes the library call. The two directions (sign/verify, encrypt/decrypt)
share no code for choosing keys and must agree.

What is hard, and what correctness means, component by component:

* *Verification*: "Valid" only if all of core validation and the policy hold, whatever the
  order of checks; the report of what was signed is exact; the certificate that is trusted is
  the one whose key was used; the key a name selects is the one used.
* *Reference processing*: a chain of transforms serializes and parses in the middle, so
  positions (NodeIds), marks and sets go stale; nothing filtered out may come back, the
  signature itself and comments stay out.
* *Canonicalization*: when ancestors are left out, prefixes, `xml:lang` and base URIs must
  still mean the same.
* *Signing*: values are put into the first empty element of a name, and KeyInfo is filled after
  the digests; the document returned must be consistent with its own digests.
* *Encryption/decryption*: several EncryptedKeys, of which all but one fail for a receiver;
  errors that are remembered while the search goes on; textual replacement; then three textual
  normalizations and a conversion of the encoding over text that may contain anything.
* *Command line*: up to eight kinds of files loaded in a row, one of which may fail; keys whose
  order decides which one signs; switches that together decide whether trust anchors count.

`PROJECT.json` lists these as hazards, each at its line with the properties that cover it.

## 2. Modules

| Module | Models | Extends |
|---|---|---|
| `Keys` | keys and the searches of `KeysManager` (0 = not found) | |
| `X509` | certificates, leaf selection, chain validation | `Keys` |
| `KeyInfo` | KeyInfo children and the three ways to a key | `X509` |
| `SigDoc` | a document as validation sees it and the queries on it | `KeyInfo` |
| `SignaturePolicy` | abstract: one step decides, "Valid" only under `CoreValid` | `SigDoc` |
| `DsigVerify` | `verify()`, one action per stage and outcome | `SigDoc` |
| `DsigSign` | `sign()`, one action per reference and population step | `SigDoc` |
| `SignVerify` | composition: sign, hand over, verify | `DsigSign`, an instance of `DsigVerify` |
| `EncKeys` | key selection of both directions, key agreement, wrapping | `Keys` |
| `EncText` | the text around encrypted data as tokens: extraction of a node, replacement, normalization, encoding | |
| `Encrypt`, `Decrypt` | `encrypt()`, `decrypt()` with both loops, CipherReference and the final text | `EncKeys`, `EncText` |
| `EncryptDecrypt` | composition: encrypt, hand over, decrypt | both |
| `XmlTree`, `NodeSets` | parsed documents, `NodeSet` | |
| `C14n` | what the canonicalizers write, as the document it parses to | `NodeSets` |
| `XPathFilter` | the XPath expressions the code reads and how it evaluates them | `NodeSets` |
| `Stylesheets` | the relationship transform and the XSLT subset, as events and the document they parse to | `C14n` |
| `Transforms` | a reference: URI resolution and any chain of transforms | `Stylesheets`, `XPathFilter` |
| `KeyLoad` | which key a file gives: PEM, DER, PKCS#12, keys.xml, passwords | `KeyInfo` |
| `Cli` | the commands: loads in order, contexts, the call of `verify()`, the exit status | `DsigVerify`, `KeyLoad` |
| `LookupLemmas` | lemmas: `find` over a Vec, key lookups, least elements | `Keys` |
| `DsigVerifyProofs`, `DsigSignProofs` | theorems about `verify()`; about `sign()`, alone and composed | `DsigVerify`; `SignVerify` |
| `TextLemmas`, `EncProofs` | lemmas on rewriting a text; theorems about `encrypt()` followed by `decrypt()` | `EncText`; `EncryptDecrypt` |
| `TransformLemmas`, `TransformProofs` | lemmas on documents, canonicalization, XSLT, filters; theorems about chains | `Stylesheets`, `XPathFilter`; `Transforms` |
| `CliProofs` | theorems about the commands | `Cli`, `DsigVerifyProofs` |
| `MCVerify`, `MCSign`, `MCEnc`, `MCTransforms`, `MCCli` | inputs for TLC | |

### How state and actions correspond to the code

**DsigVerify.** `doc` and `ctx` are the arguments, `pc` the stage, `hmac`, `vrefs`, `key`,
`source`, `leaf` the locals of the same meaning, `result` the value returned. The actions are in
the order of the function: `Parse`, `ReadHmacLength`, `ReadPqContext`, `VerifyReference` (once
per reference), `CheckPositions`, `ReadSignatureValue`, then either the HSM or `ResolveKey`,
`ValidateChain` or `SkipValidation`, and the signature check; each has its failing counterparts
(`?` and `return` in the code). Cryptography is symbolic: a signature records the key material
it was made by, a digest what it was computed over. The transforms of a reference are one
input here (`expected`, `actual`); their behaviour is `Transforms`' subject.

**DsigSign.** A document is a list of places that hold text (`slots`); `content` says where the
text of each comes from. Digests contain the content they cover, so a later edit under a
reference is visible. `replace_first_empty_element` and the population functions are operators
on `content`. They write whole elements: a start tag that is written anew loses its attributes, so that
an Id is gone from the document (`IdsNow`, which the later references and the verifier look at), and its
namespace declarations, so that the text no longer parses (`Reparsed`) or the element is none sign() and
verify() know (`Nameless`). Only `DEREncodedKeyValue` and `CipherValue` keep their tags. An `X509Data` without
child elements is written whatever its text (`PopulateX509`); one with children (`X509Template`) gets the data of the
first certificate of the signing key in every child that is empty, `X509Certificate` included
(`X509Content`). `SignVerify` turns the result into the document that `verify()` is given.

**Encrypt / Decrypt.** `cvs` and `okis` are the CipherValues and originator keys in the text,
filled by first-match replacement; `edited` says that positions in the unedited document no longer fit.
What `fill_originator_key_value` then cuts out and overwrites is anything that stands in the text by that
time: a filled CipherValue, a KeyValue, the ciphertext or markup (`SpoiledTexts`, and `garbled` for the last), or the
cut is a panic in the middle of a character. `Decrypt` has the loop position, the two remembered
errors and the key with the kind of child it came from. CBC without authentication may give
wrong bytes or fail: both are outcomes. A text is a sequence of tokens (tags with the form of what
follows the name, line ends, characters by width, the two ends of a comment, a processing instruction or a CDATA
section, and a `>`, a `/>`, an unfinished tag or a quotation mark where it is no markup), fine enough for every
decision the normalizations make. They scan such sections like the rest of the text: `OpenName` may start at a
`<` inside of a comment, and `Scan` follows the scan for ` />` through brackets and quotation marks wherever they stand. The
token of an XML declaration stands for the words of an encoding declaration; `out` is the final text, `Meaning` what an XML reader makes of it.

**Transforms.** `data` is `TransformData`. A node carries the set of nodes of the signed or
retrieved document it stands for (`orig`), through any number of canonicalizations; `Origin`
of a value is what it still stands for. Each transform is an action with its error cases;
`Digest` is `to_binary`. `C14n!canonicalize` gives the document that the canonical text parses
to: nodes written, parents, declarations and attributes, text joined; the order within a tag
and escaping are left out. `Stylesheets!xslt_execute` interprets the templates; a stylesheet names
its instructions by position, which makes the interpreter a function on node and instruction.

**Cli.** `cmd` is the command line, `todo` the loads still to be done in the order of
`build_keys_manager` (and `cmd_verify`'s three further loops), `mgr` the manager, `exit` the exit
status. One action per kind of load, each with the failing load as its counterpart (`LoadFails`
ends the command, as `?` does). `StartVerify` hands the context to `DsigVerify`, whose steps are
`VerifyStep`. What the octets of a file decode to is an attribute of the file; which decoder is
asked, with which password, and what follows from a failure, is `KeyLoad`.

### Not modelled

The octets: ASN.1 and base64 decoding, PKCS#12 key derivation, digests, signatures and ciphers
(symbolic here), escaping and the order of attributes in a tag. Processing instructions in canonicalization and
transforms. Quotation marks of two kinds, and what stands in attribute values, in the texts of `EncText`.
`cmd_info`, `--print-*`, and the output of results. Of `sign.rs` in crate crypto only which key and
length a method takes. `bergshamra-transforms/src/uri.rs` is not called by the library.

## 3. Runs

Passing runs:

| Run | States | What it shows |
|---|---|---|
| `VerifyAll` | 176 488 | `TypeOK`, `ReportComplete`, `LeafFirstKeyTrusted`, `NamedKeyUsed`, `ImplementsPolicy` over references, IDs, positions, HMAC lengths, KeyInfo, key stores, certificates |
| `SignVerify` | 15 503 | `STypeOK`, `SignedConsistently`, `RoundTrip`, `OnlyFills`, `EventuallyVerified` |
| `EncRoundTrip` | 45 756 | no deadlock before `Returned`; `ETypeOK`, `KeysInPlace`, `AnyRecipientDecrypts`, `SharedKeysDecrypt`, `PlaintextRestored`, `OpaqueKept` |
| `TransformChains` | 87 294 | `TTypeOK`; what stays out (`SignatureExcluded`, `CommentsExcluded`, `Narrowing`); what filters select (`Filter2Exact`, `MarksKept`); what canonical forms keep (`NamespacesKept`, `NoRedundantDeclaration`, `XmlAttributesKept`, `BaseKept`); the rewriting transforms (`RelationshipOrder`, `XsltCopies`) |
| `CliCommands` | 16 656 | `CTypeOK`, `TrustedRootsConstrain` (ADR-0004), `EveryFileCounts`, `OnlyReadKeysVerify`, `WrongPasswordStops`, `SessionKeySigns`, `CommandEnds` |

Runs that show a disagreement between the code and its own comments (the counterexample is the
expected result; `PROJECT.json` quotes the comment):

| Run | Disagreement |
|---|---|
| `RootFirst` | the first certificate of `x509_chain` is validated as the leaf, the key may be another's |
| `DecDerivation` | a failed derivation is overtaken by a KeyName |
| `StaleSignature` | enveloped-signature after a second parse removes another node |
| `XPathPrecedence` | `A or B and C` is read as `(A or B) and C` |
| `EmptyElements` | the search for empty elements joins a `>` with an end tag that is not its own |
| `HmacFloor` | without `--hmac-min-out-len` there is no floor, not a "spec-derived" one |
| `StaleKeyValue` | the originator's KeyValue is not filled in when an EncryptedKey before it was filled |

`SignatureExcluded` is `SignatureRemoved` restricted to chains without an earlier serialization,
`LeafFirstKeyTrusted` is `KeyCertificateTrusted` for chains listed leaf first, `RoundTrip` asks of
a template and its two sides what `Agreed` says, `PlaintextRestored` is
`EmptyElementsOnly` for texts that are `Regular`, `KeysInPlace` and `OriginatorFilled` are about the
same replacements with and without `AgreementFirst`: the passing property states how far the code's
promise goes, the failing run where it ends.

The model translates these further disagreements faithfully, and the passing properties are
stated so as not to claim the opposite; no run is devoted to them:

* an X509IssuerSerial is looked up by its serial number (`find_key_by_serial`) where `keyinfo.rs:71` says "match cert by
  issuer+serial": of two managed certificates with one serial number the first is taken;
* `sign()` means to "populate empty X509Data" (`sign.rs:325`) and takes an X509Data without child elements for
  an empty one (`sign.rs:522`): one with text is overwritten, the one exception in `OnlyFills`;
* `replace_first_empty_element` says "replace the text content" (`sign.rs:417`) and writes the element anew
  (`sign.rs:447`): an Id on a SignatureValue, DigestValue, X509Data or KeyValue is lost, and a later reference to
  it, or the verifier's, does not resolve: hence the last condition of `WellFormed`;
* opaque data is to be returned "as-is" (`decrypt.rs:1371`); if it declares ISO-8859-1 in its first bytes it is
  converted (`decrypt.rs:89`), which `OpaqueKept` admits;
* base URIs are resolved "according to RFC 3986" (`inclusive.rs:530`) without dot segments being removed
  (`inclusive.rs:600`): with the bases `http://a/b/c/`, `..` and `x` the canonical form has `http://a/b/c/x` where a
  reader has `http://a/b/x`. A final `..` is replaced like a name: hence `Resolvable` in `BaseKept`;
* `sign()` fills KeyInfo after the digests (`sign.rs:323`); a template as its documentation asks for
  it (`sign.rs:17`: empty values) whose reference covers an empty KeyInfo child is signed without an
  error and does not verify: hence the coverage condition of `WellFormed`;
* the command line that README.md:202 gives as equivalent to a context with `verify_keys` does not set
  `verify_keys` (and has no HMAC floor, as in `HmacFloor`);
* a certificate file with several PEM blocks is accepted as a trust store and refused as a key file,
  and `build_keys_manager` loads every `--trusted` file as a key first: `verify --trusted bundle.pem`
  ends with an error (`main.rs:1028`, `loader.rs`);
* a PEM block without its END line ends the reading of a CRL file in silence (`main.rs:902`);
* the relationship and XSLT transforms read the whole text of their input, whatever its node set;
  `Narrowing` therefore speaks of them only when their input has no node set, and
  `SignatureExcluded` wants a canonicalization between the removal and one of them;
* the XSLT identity shortcut does not look into the copy (`verify.rs:857`), `select="@*|node()"` passes
  over text nodes, and the first matching template wins;
* `xsl:copy` writes the local names of attributes (`verify.rs:1098`): two attributes that only their prefixes
  tell apart become one name given twice, text that is not XML. Text beside a comment is one text node
  after the copy, and strip-space drops blank text as it should: hence `Copyable` in `XsltCopies`;
* the first 200 bytes of a decrypted document may end inside a character: it is then not converted to
  the encoding it declares (`decrypt.rs:96`), and a declaration of ISO-8859-1 found further inside those
  bytes converts a text that does not start with it: hence `Convertible` in `PlaintextRestored`;
* the search for empty elements runs over the plaintext and then over the whole document. `<a><a x="1"></a></a>`
  is read as an empty element the second time, after the first has made `<a><a x="1"/></a>` of it: hence
  `Steady` in `Regular`. Line ends are only normalized in the plaintext, so a CRLF pair with one half in the
  document around it becomes two line ends (`decrypt.rs:1404`): hence the last conditions of `Embeddable`;
* an HMACOutputLength that does not parse, is no multiple of 8 or exceeds the MAC is ignored by
  `sign()` (`sign.rs:302`) and refused by `verify()`: hence `LengthAgrees` in `RoundTrip`;
* an HSM signs a post-quantum method without its context string (`sign.rs:217`), which `verify()` then
  reads: hence `ContextAgrees` in `RoundTrip`;
* in an X509Data with template children the first certificate of the key is written, whichever of the chain is the
  signer's (`sign.rs:601`), and `verify()` takes the key of the X509Data before that of a KeyValue: hence the
  last condition of `InlineKeyGiven` in `RoundTrip`;
* a start tag that is written anew loses the declaration of its own prefix, and the next parse fails
  (`sign.rs:447`, `553`, `911`): hence the conditions on tags in `WellFormed`;
* `fill_originator_key_value` (`encrypt.rs:640`) cuts the KeyValue at a range of the unedited document
  and fills the first textual match only: hence `AgreementFirst` in `KeysInPlace`, `AnyRecipientDecrypts`
  and `SharedKeysDecrypt` (EncryptedKeys that no KeyInfo names are filled as well, and can spoil the text);
* the rewritings of decrypted text look into comments, processing instructions and CDATA sections (`decrypt.rs:1495`,
  `1585`): hence what `Fits` says of sections, in `Regular`;
* in `resolve_encryption_key` a KeyName after a failed derivation returns before the error is
  looked at (`encrypt.rs:137`), as in `DecDerivation` on the other side;
* XPath Filter 2.0 returns octets unchanged (`verify.rs:2322`): `Filter2Exact` is about nodes;
* `not(ancestor-or-self::ds:Signature)` is taken for the enveloped-signature transform and
  keeps the other signatures (`verify.rs:1303`);
* an XPath filter starts a new node set: the mark that attribute nodes are excluded is lost,
  and namespace nodes are decided for elements outside the input (`verify.rs:2133`, `2148`);
* exclusive C14N does not look at the attribute mark (`exclusive.rs:227`), which inclusive C14N does; `XmlAttributesKept`
  and `BaseKept` are about the inclusive modes and sets without that mark, so no property speaks of the
  difference;
* a relative `xml:base` under a base with an authority and no path is glued to the authority
  (`inclusive.rs:595`), and a network path counts as an absolute path (`inclusive.rs:588`): with the final `..` above
  these are the values that are not `Resolvable`. A relative base that is made explicit at an
  element whose parent is left out is resolved once more by a reader when an ancestor further up is written with a base of
  its own (`inclusive.rs:579`): hence `OnceResolved`. The oracle of `BaseKept` (`ResolveByRfc`) is written from
  RFC 3986, sections 5.2.2 to 5.2.4, for references without scheme-only URIs, queries and fragments.

### Bounds

Documents have at most two references, one KeyInfo with at most two children, chains of at
most three certificates (all commands of `MCCli` have at most two files per option): the code treats references and children one by one, and every
ordered pair of kinds occurs, so that one step's leftover can disturb the next. Two
EncryptedKeys of every pair of methods make "an earlier one fails" and "a later one is
filled by the earlier one's replacement" happen. Chains of three transforms contain filter -
serialize - filter. Texts have nested elements with up to four tokens of content, which is
more than the window (one bracket and the token after it) the normalizations look at; the header in
which the encoding is looked for is `HeaderLen = 6` bytes instead of 200, so that the texts reach over
its end. The relationships part has equal, absent and unsorted Ids (`RelationshipOrder` leaves equal ones out: they keep the order of the part). The document of `MCTransforms` has a second signature inside the signed data,
two comments, an undeclared default namespace, a redeclared prefix, and `xml:lang` and `xml:base`
at several levels, with dot segments in them. Templates to sign have Ids and declarations on every element that sign() writes,
X509Data with text, and with every kind of child, empty and filled. No symmetry is used: the inputs are not symmetric.

Deadlock checking is off where the system stops: a verification that has returned, a reference
that has been digested, a command that has ended. In `EncRoundTrip` it is on, with a stuttering step `Returned`: every
call gets an answer.

### Fairness

`DsigVerify`, `SignVerify` and `Cli` assume weak fairness of their next-state relation: a called
function runs until it returns, a caller that has the document passes it on, and a command is one
process that runs to its end; `CommandEnds` then says that no combination of files and switches
leaves a command without a next step or in a loop. `EncryptDecrypt` and `Transforms` have
only safety properties and no fairness.

## 4. Proofs

A run shows a property for the inputs of its MC module; the theorems below state it for every value
of the constants: any number of references, keys, certificates, EncryptedKeys, files, nodes and
transforms. What they assume of the constants is stated in the modules, and TLC evaluates it on the
instances of the runs:

| Assumption | Module | Says |
|---|---|---|
| `DocsAssumption`, `CtxsAssumption` | `DsigVerify` | sequences are sequences, one list of IDs per node, lengths are naturals |
| `JobsAssumption` | `DsigSign` | the same of templates (`TemplateOK`: every place of a template has its text, and a place for KeyInfo content belongs to a child of its kind) and of the keys of both sides (`KeysOK`) |
| `EncJobsAssumption` | `Encrypt` | the same of encryption templates, the two managers and the data; texts are sequences of tokens, and a data file from which a node is taken parses |
| `HeaderLenAssumption`, `TagNamesAssumption` | `EncText` | the header is not empty; names include the ones that other tokens carry |
| `CommandsAssumption` | `Cli` | every option that may be repeated has a list of files; the input is a document |
| `TransformsAssumption`, `DocumentsAssumption`, `ChildrenAssumption` | `Transforms` | the documents are what a parser returns (`ParsedOK`: a finite tree in document order, comments and text without children, declarations on elements only, no prefix but the default one undeclared), stylesheets are well formed (`SheetOK`: children come after their parents) |

None of them restricts the content of a document, a key store or a command line further.

### verify() - `DsigVerifyProofs`

* `TypeCorrect`: `Spec => []TypeOK`; `TypeOK` is inductive.
* `VerifyImplementsPolicy`: the refinement of `SignaturePolicy`. A step that returns "Valid" checks
  only the signature; that everything else holds is known only from the stages passed. `Established`
  records this: beyond stage *s*, what the stages before it checked is true (IDs unique, HMAC length
  read and within the floor, every reference in `vrefs` passed, positions, and a key whose material
  is admissible). It is not implied by `TypeOK`, and with it each step is a `Decide` or a stutter.
* `TrustedLeaf` (`LeafFirstKeyTrusted`): `ChainValidated` says that `leaf` was validated whenever
  validation was due; `FirstCertificateHoldsKey` that in a leaf-first chain the first certificate is
  the one the key was taken from.
* `ReportIsComplete` (`ReportComplete`): `Established`, and `Reported`: `vrefs` is what the
  references up to the current one resolve to, also in the verdict.
* `NameIsRespected` (`NamedKeyUsed`): from `ChainValidated`, which also keeps what `ResolveKey` chose
  and that the key can check signatures (`CliProofs` needs this part).

### sign() - `DsigSignProofs`

`Spec` is sign() followed by verify(); the first lemma forgets verify().

* `SignTypeCorrect` (`STypeOK`) and `SignOnlyFills` (`OnlyFills`): every writer, the replacement of the
  first empty element included, changes places that are empty and have not been written, but for
  the first X509Data, which `populate_x509_data` may find with text.
* `SignConsistent` (`SignedConsistently`): a digest contains the content it covers, so the invariant
  must say what later steps still fill. `Consistent`: the digests made so far hold for the content as it
  is now, the empty DigestValues are exactly those of the references to come (so the first one in the
  document is the one just computed), nothing else is written before the signature is made, and
  what is written afterwards leaves it valid (`SignatureStays`). Tags are part of it: those a well-formed
  template lets sign() write anew declare no namespace and carry no ID that a reference needs, so every
  reference resolves to the element it named in the template, and nothing leaves its namespace.
* `SignedVerifies` (`RoundTrip`): when the two sides agree (`Agreed`), verify() returns Valid for what
  sign() returned. The peer may come to the key in three ways: from its own manager, from the KeyInfo
  that sign() populated, or by unwrapping the session key (`PeerEquipped`). `SignInv` adds to
  `Consistent` what the population steps leave behind: `Checked` (what sign() had to pass: a key, a
  known method, an allowed length), `OnlyWritten` (a place holds the template's text or what the
  step of its kind writes) and `Populated` (the first empty place of each kind is filled once
  its step is over). `Handed` says that verify() has the document and context made from the final
  state of sign() and that its own state is one `Passing` admits: every stage passed so far, so no failing action is
  enabled. The `Same...` lemmas show that the searches of verify() (IDs, KeyInfo children, inline keys,
  key unwrapping) give for the document handed over what they give for the template, except at the
  places sign() filled. Writing the proof is what gave `PeerEquipped` its present form: the earlier
  property held for the inputs of the run, which all have one of the three ways, and not for every store.

### encrypt() and decrypt() - `EncProofs`

* `EncTypeCorrect` (`ETypeOK`), with `Handed`: what decrypt() works on is what encrypt() returned.
* `EveryRecipientServed` (`KeysInPlace`). `Filling`: below the loop position each EncryptedKey to be
  filled holds its own wrapped key, above it the template's text is untouched; first-match
  replacement needs both halves, for it finds the right place only if no earlier one is still empty. A cut at a stale
  range could undo the first half: `AgreementFirst` says that there is none after the first fill.
* `OnlyThePlaintext` (no run has this property): the result of decrypt() is made from the plaintext,
  whatever keys were tried. From it and `EncInv`, `OpaqueRestored` (`OpaqueKept`): of the rewritings only the conversion of the encoding
  touches opaque data, and it changes nothing but single characters of a text that declares ISO-8859-1.
* `EveryRecipientReads` (`AnyRecipientDecrypts`). `Searching`: the search of an intended receiver does
  not pass its EncryptedKey, the errors remembered on the way do not end it, and a key in hand is the
  data key.
* `SharedKeysAgree` (`SharedKeysDecrypt`). `Selecting` relates the two selections child by child: what
  decrypt() passes over gave encrypt() no key either. The first attempt at this proof showed that the
  property was too strong: EncryptedKeys not named by a KeyInfo are filled too, and one with a key
  agreement can spoil the text that is handed over. The property has the condition `AgreementFirst` since.

* `PlaintextComesBack` (`PlaintextRestored`): `OnlyThePlaintext` gives the final text as a function of the
  plaintext and its place; the rest is about texts (`TextLemmas`). Each rewriting is a pass over the tokens
  of a part of the text that has written `U[i]` for the first `i` of them (`LinePass`, `EmptyPass`,
  `Shrunk`). By a least counterexample, `U[i]` means what the first `i` tokens mean, is open to the
  same CDATA section and ends in a way that gives the next token the same meaning; and it is `Tidy`
  again, so that the next rewriting finds what the lemma about it asks for. `FindsEmpty` is the heart: in
  a `Tidy` text the search for empty elements finds only start tags followed by their own end tag. After the
  first pass this still holds around a text that was `Steady`, which the second pass needs. A prolog says
  nothing but line ends, which `Inner` drops (`PrologKept`), and a reader undoes the conversion of
  the encoding (`ReadBack`). `FlattenSeq` is used through any solution of its recursion (`FlattenIs`).
  The attempt to prove the property as it stood found three kinds of text that break it, which the run did
  not have: the nested element, the split line end and the late declaration listed in section 3. They are
  conditions of the property and inputs of the run since; without any one of the conditions the run fails.

### Transforms - `TransformProofs`, `TransformLemmas`

* `TransformTypeCorrect` (`TTypeOK`): `TInv` adds `ValueOK`: node sets hold nodes of the text they
  travel with, through any number of parses.
* `MarksStayOut` (`MarksKept`), `FiltersExact` (`Filter2Exact`: the fold over the filters is, node by
  node, the membership that XPath Filter 2.0 defines).
* `ChainsNarrow` (`Narrowing`): `DInv`, the text of a value is a document (`ParsedOK`). Canonicalization,
  the relationship transform and the XSLT interpreter write documents again; their nodes stand
  for nodes that were there. This is the bulk of `TransformLemmas`.
* `CommentsStayOut` (`CommentsExcluded`): `CommentInv`. A comment that was left out is not in the set, or,
  once the text was written anew, not in the text.
* `SignatureStaysOut` (`SignatureExcluded`): `SignatureInv` follows the Signature through a chain: before
  the removal the text is still the signed one (`Fresh`); from the removal on the Signature is not in
  the node set; from the next canonicalization on not in the text at all, which is why
  a transform that reads the whole text must come after one.
* `NamespacesStay` (`NamespacesKept`), `NothingRepeated` (`NoRedundantDeclaration`) and
  `XmlAttributesStay` (`XmlAttributesKept`): what canonicalization keeps of the text of every value a
  chain can reach (`DInv`). `WrittenAs` says how a canonical text comes about: a strictly monotone map
  takes the elements of the node set to those of the text, parents to the nearest written ancestor,
  with the declarations and attributes the walk chose. The second parse, which joins text,
  keeps such a map. The context of the walk is the bindings written so far (`ContextWritten`) and, where an
  element answers for a prefix, that prefix's binding in the document; both by a least
  counterexample in document order. Hence the first two. An attribute that an element inherits is
  written on it exactly when its parent is left out (`EffectWritten`, also a least counterexample),
  hence the third. `BasesStay` (`BaseKept`) follows the same map. The bases of a document, of a
  canonical text and of the code are three solutions of one recursion down the tree with different ways to resolve
  (`Resolve`). The code leaves dot segments where they are, so the proof compares what the segments lead
  to: to climb a path that was joined as text is to climb its parts one after the other (`ClimbOn`), so that for
  `Resolvable` values the base by RFC 3986 is the base of the code resolved once, against the URI of the
  document (`ResolvedTwice`). An element of the text has its base from its parent, from the
  explicit value, or none at all. `WrittenPairs` pairs elements by rank; `PairsWritten` shows that this pairs each
  element of the text with the one it was written for. The proofs made `ParsedOK` precise: the
  declarations part is needed, and is kept by the parser, the relationship transform and XSLT.
* `ListOrderIrrelevant` (`RelationshipOrder`): what a relationship transform writes for a list of
  relationships with different Ids does not depend on the order of the list, for a list of any length. The
  sort puts each relationship at the place that is the number of those up to it (`RelRanks`); a permutation
  of the list keeps these numbers, and they determine the sorted sequence.
* `CopiesKeep` (`XsltCopies`): a stylesheet that copies every element keeps what stands in what, for every
  `Copyable` document, and what it writes parses again. Three arguments meet in `CopyKeeps`. The
  events of a text have levels (`LevelStep`), and balanced texts can be put one after the other or into a tag, with what they
  say known from their parts (`ConcatSays`, `WrapSays`). What the interpreter writes at a node is a
  balanced text in which no text follows text and which says what stands below the node (`NodeSays`): otherwise there is
  a last node where it is not, and its children come after it. Parsing a balanced text gives each
  event the place its level says (`PlaceUp`), joins nothing (`NoneJoined`), and the result has its shape and is
  well formed (`ParseShape`, `ParseWellFormed`). The proof corrected the property: its first form was
  false for documents with the attributes, blank text or several top nodes that `Copyable` excludes.

Five recursive functions over trees occur in these operators: ancestors, the context of the walk, base
URIs, the sequence of written nodes and the interpreter. The library's induction theorems cannot be instantiated here; the lemmas
show that the recursion has a solution (otherwise there is a least node without one, by
well-foundedness of `<` on Nat) and reason about a solution with the recursion equation.

### Commands - `CliProofs`

`CInv` has three parts. `Progress`: loads done and loads to do make up the plan of the command, and
the manager is what the loads done put into it, in their order. `LibraryCall`: verify() starts
with the finished manager, and the exit status is its verdict. `SessionFirst`: `insert_key_first` put
the session key before all others. From it:

* `CommandTypeCorrect` (`CTypeOK`), `SessionKeyFirst` (`SessionKeySigns`), `NoFileSkipped`
  (`EveryFileCounts`), `PasswordsChecked` (`WrongPasswordStops`);
* `RootsConstrain` (`TrustedRootsConstrain`), which uses `ChainValidated` of `DsigVerifyProofs` for
  the steps of verify() inside a command;
* `OnlyReadKeys` (`OnlyReadKeysVerify`). `FromFiles`: every key of the manager was read from a file of
  the command line, or is an AES key. An AES key is what a file that cannot be read becomes, and no
  signature method takes one (`UsableKey`), so a key of the manager that verified was read.

### Only model-checked

* Liveness (`EventuallyVerified`, `CommandEnds`): temporal reasoning under fairness is outside the prover.
  Every other property of a passing run is stated by a theorem.

## 5. What is left open

1. An abstract specification of encryption ("the receiver gets the data or an error") that
   `EncryptDecrypt` implements where authenticated methods are used; `OnlyThePlaintext` is its core.
2. Processing instructions; the octets of keys and certificates.
