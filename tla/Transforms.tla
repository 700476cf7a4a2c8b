----------------------------- MODULE Transforms -----------------------------
(***************************************************************************)
(* One <Reference> of a signature: resolve_reference_uri and the transform *)
(* chain of verify.rs (the same functions serve signing), up to the octets *)
(* that are digested.  TransformData is a record data:                     *)
(*   form   "xml" or "bin"                                                 *)
(*   text   the document its text parses to, <<>> if it does not parse     *)
(*   set    the node set of an "xml" value: <<>> for None                  *)
(*   from   what octets that are not XML were made of                      *)
(* The signed document o is SIGNED; SIG is its <Signature> and HERE the    *)
(* <XPath> or <XPointer> child of the transform.  The next transform is    *)
(* chosen from TRANSFORMS, so every chain up to MAXCHAIN is examined.      *)
(***************************************************************************)
EXTENDS Stylesheets, XPathFilter

CONSTANTS SIGNED, SIG, HERE, \* the signed document and two of its nodes
          URIS, TRANSFORMS, MAXCHAIN

ASSUME TransformsAssumption ==
    /\ SIG \in Nodes(SIGNED) /\ SIG \in AncestorsOrSelf(SIGNED, HERE)
    /\ MAXCHAIN \in Nat

\* The signed document and the files found for external URIs are parsed documents; a node of
\* the signed document stands for itself.
ASSUME DocumentsAssumption ==
    /\ ParsedOK(SIGNED)
    /\ \A n, m \in Nodes(SIGNED) : n # m => SIGNED[n].orig \intersect SIGNED[m].orig = {}
    /\ \A u \in URIS : /\ u.op \in {"document", "all", "id", "xpointer-id", "external"}
                       /\ u.op = "external" => \A t \in u.found : ParsedOK(t)

\* The children of a transform are sequences; Ids are listed once in their order; a stylesheet
\* is a tree of elements.
ASSUME ChildrenAssumption ==
    \A t \in TRANSFORMS :
        /\ t.alg = "xpath2" => Len(t.filters) \in Nat /\ DOMAIN t.filters = 1 .. Len(t.filters)
        /\ t.alg = "relationship" => /\ DOMAIN t.order \subseteq Nat
                                     /\ \A i, j \in DOMAIN t.order : t.order[i] = t.order[j] => i = j
        /\ t.alg = "xslt" => SheetOK(t.sheet)

VARIABLES uri, data, chain, status

vars == <<uri, data, chain, status>>

XmlData(text, set) == [form |-> "xml", text |-> text, set |-> set, from |-> {}]
BinData(text, from) == [form |-> "bin", text |-> text, set |-> <<>>, from |-> from]

AllOrig(text) == UNION {text[n].orig : n \in Nodes(text)}

\* The nodes of the resolved documents that a value still stands for.
Origin(v) == IF v.form = "xml" /\ v.set # <<>> THEN UNION {v.text[n].orig : n \in v.set[1].nodes}
             ELSE AllOrig(v.text) \union v.from

\* Variant: "#v" selects comments as well.
resolve_with_comments(u) ==
    CASE u.op = "document" -> {XmlData(SIGNED, <<all_without_comments(SIGNED)>>)}
      [] u.op = "all" -> {XmlData(SIGNED, <<>>)}
      [] u.op \in {"id", "xpointer-id"} ->
            {XmlData(SIGNED, <<tree_with_comments(SIGNED, n)>>) : n \in Carriers(SIGNED, u.value)}
      [] u.op = "external" -> {BinData(t, {}) : t \in u.found}

\* resolve_reference_uri: the values a URI resolves to, none when it fails.
\* Same-document URIs: "" (op "document"), "#xpointer(/)" (op "all"), "#v" and
\* "#xpointer(id('v'))"; an external URI gives the octets of the file found for it, none or
\* one of u.found.
resolve_reference_uri(u) ==
    CASE u.op = "document" -> {XmlData(SIGNED, <<all_without_comments(SIGNED)>>)}
      [] u.op = "all" -> {XmlData(SIGNED, <<>>)}
      [] u.op = "id" ->
            {XmlData(SIGNED, <<tree_without_comments(SIGNED, n)>>) : n \in Carriers(SIGNED, u.value)}
      [] u.op = "xpointer-id" ->
            {XmlData(SIGNED, <<tree_with_comments(SIGNED, n)>>) : n \in Carriers(SIGNED, u.value)}
      [] u.op = "external" -> {BinData(t, IF t = <<>> THEN {<<"octets", 1>>} ELSE {}) : t \in u.found}

Init == \E u \in URIS :
    /\ uri = u
    /\ chain = <<>>
    /\ LET r == resolve_reference_uri(u)
       IN  \/ r # {} /\ status = "run" /\ data \in r
           \/ r = {} /\ status = "failed" /\ data = BinData(<<>>, {})

----------------------------------------------------------------------------
(* One action per transform: data of form "bin" is parsed first by the     *)
(* transforms that work on nodes; text that does not parse is an error.    *)

\* The chain goes on with a new value, or the reference fails.
Becomes(t, v) == /\ data' = v
                 /\ chain' = Append(chain, t)
                 /\ UNCHANGED <<uri, status>>

Fails(t) == /\ status' = "failed"
            /\ chain' = Append(chain, t)
            /\ UNCHANGED <<uri, data>>

May(alg, t) == status = "run" /\ Len(chain) < MAXCHAIN /\ t \in TRANSFORMS /\ t.alg = alg

\* Variant: only the element itself is removed.
RemoveElement(v) ==
    LET s == IF v.set = <<>> THEN all(v.text) ELSE v.set[1]
    IN  XmlData(v.text, <<[s EXCEPT !.nodes = @ \ {SIG}]>>)

\* EnvelopedSignatureTransform::execute, with the NodeId that the Signature has in the signed
\* document; octets are refused.
RemoveSignature(v) ==
    LET s == IF v.set = <<>> THEN all(v.text) ELSE v.set[1]
    IN  XmlData(v.text, <<IF SIG \in Nodes(v.text) THEN remove_subtree(v.text, SIG, s) ELSE s>>)

ExecuteEnveloped(t) ==
    \/ data.form = "xml" /\ Becomes(t, RemoveSignature(data))
    \/ data.form = "bin" /\ Fails(t)

ApplyEnveloped == \E t \in TRANSFORMS : May("enveloped", t) /\ ExecuteEnveloped(t)

\* Variant: the node set stays with the text that no longer has those nodes.
OctetsKeepSet(v, m) == XmlData(canonicalize(v.text, v.set, m), v.set)

\* The text c as octets; text that does not parse again keeps only what it stands for.
Serialized(c) == IF WellFormed(c) THEN BinData(c, {}) ELSE BinData(<<>>, AllOrig(c))

\* C14nTransform::execute: the text of the node set, as octets.
Octets(v, m) == Serialized(canonicalize(v.text, v.set, m))

ApplyC14n == \E t \in TRANSFORMS :
    /\ May("c14n", t)
    /\ \/ data.text # <<>> /\ Becomes(t, Octets(data, t.mode))
       \/ data.text = <<>> /\ Fails(t)

\* Base64DecodeTransform: the text in the node set, or the octets, decoded.  Markup is not
\* base64; other text may or may not be.  What it decodes to is not XML here.
DecodedFrom(v) ==
    IF v.form = "bin" THEN v.from
    ELSE UNION {v.text[n].orig : n \in {k \in Nodes(v.text) : v.text[k].k = "text" /\ is_visible(v.set, k)}}

ApplyBase64 == \E t \in TRANSFORMS :
    /\ May("base64", t)
    /\ \/ ~(data.form = "bin" /\ data.text # <<>>) /\ Becomes(t, BinData(<<>>, DecodedFrom(data)))
       \/ Fails(t)

\* apply_xpath_transform: the enveloped shapes, then a boolean expression, then the compound.
ApplyXPath == \E t \in TRANSFORMS :
    /\ May("xpath", t)
    /\ LET e == t.expr
           envelope == is_enveloped_xpath(SIGNED, HERE, e)
           filter == ~envelope /\ Parses(SIGNED, HERE, e)
           compound == ~envelope /\ ~filter /\ IsCompound(SIGNED, HERE, e)
       IN  \/ envelope /\ ExecuteEnveloped(t)
           \/ /\ filter /\ data.text # <<>>
              /\ Becomes(t, XmlData(data.text, <<ParsedFilter(data.text, SIGNED, HERE, e, data.set)>>))
           \/ /\ compound /\ data.text # <<>> /\ UniqueIds(data.text)
              /\ Becomes(t, XmlData(data.text, <<CompoundFilter(data.text, SIGNED, HERE, e, data.set)>>))
           \/ /\ ~envelope
              /\ \/ ~filter /\ ~compound
                 \/ data.text = <<>>
                 \/ compound /\ ~UniqueIds(data.text)
              /\ Fails(t)

\* apply_xpointer_transform: octets pass unchanged.
ApplyXPointer == \E t \in TRANSFORMS :
    /\ May("xpointer", t)
    /\ LET found == Carriers(data.text, t.value)
       IN  \/ data.form = "bin" /\ Becomes(t, data)
           \/ /\ data.form = "xml" /\ UniqueIds(data.text) /\ found # {}
              /\ \E n \in found :
                   LET s == tree_with_comments(data.text, n)
                   IN  Becomes(t, XmlData(data.text,
                          <<IF data.set = <<>> THEN s ELSE intersection(data.set[1], s)>>))
           \/ /\ data.form = "xml" /\ (~UniqueIds(data.text) \/ found = {})
              /\ Fails(t)

\* apply_xpath_filter2_transform: octets pass unchanged; the output is the input set
\* intersected with the filter set.
Filter2Supported(t) == \A i \in DOMAIN t.filters :
    /\ t.filters[i].filter \in {"intersect", "subtract", "union"}
    /\ PathSupported(SIGNED, HERE, t.filters[i].path)

ApplyFilter2 == \E t \in TRANSFORMS :
    /\ May("xpath2", t)
    /\ \/ data.form = "bin" /\ Becomes(t, data)
       \/ /\ data.form = "xml" /\ Filter2Supported(t)
          /\ LET i == IF data.set = <<>> THEN all(data.text) ELSE data.set[1]
             IN  Becomes(t, XmlData(data.text,
                    <<intersection(i, FilterNodes(data.text, SIGNED, HERE, t.filters))>>))
       \/ data.form = "xml" /\ ~Filter2Supported(t) /\ Fails(t)

\* apply_relationship_transform: the text of the input, whatever its node set.
ApplyRelationship == \E t \in TRANSFORMS :
    /\ May("relationship", t)
    /\ \/ data.text # <<>> /\ Becomes(t, BinData(apply_relationship_transform(data.text, t), {}))
       \/ data.text = <<>> /\ Fails(t)

\* apply_xslt_transform: the same, unless the stylesheet is the identity; the result need
\* not be XML.
ApplyXslt == \E t \in TRANSFORMS :
    /\ May("xslt", t)
    /\ \/ IsIdentity(t.sheet) /\ Becomes(t, data)
       \/ ~IsIdentity(t.sheet) /\ data.text # <<>> /\ Becomes(t, Serialized(apply_minimal_xslt(data.text, t.sheet)))
       \/ ~IsIdentity(t.sheet) /\ data.text = <<>> /\ Fails(t)

\* Any other algorithm is refused, and so is a transform whose <XPath> or <XPointer> child is
\* missing or not of the form xpointer(id(...)).
ApplyUnsupported == \E t \in TRANSFORMS : May("other", t) /\ Fails(t)

\* TransformData::to_binary: inclusive C14N without comments when the chain ends with nodes.
DefaultMode == [exclusive |-> FALSE, comments |-> FALSE, base |-> FALSE, prefixes |-> {}]

Digest ==
    /\ status = "run"
    /\ status' = "digested"
    /\ data' = IF data.form = "bin" THEN data ELSE Octets(data, DefaultMode)
    /\ UNCHANGED <<uri, chain>>

Next == \/ ApplyEnveloped \/ ApplyC14n \/ ApplyBase64 \/ ApplyXPath \/ ApplyXPointer
        \/ ApplyFilter2 \/ ApplyRelationship \/ ApplyXslt \/ ApplyUnsupported \/ Digest

Spec == Init /\ [][Next]_vars

----------------------------------------------------------------------------
(* What the chain keeps.                                                   *)

\* Type invariant: a node set belongs to the text it travels with (NodeIds are positions in
\* one parse of one text), and namespace nodes belong to its elements.
TTypeOK ==
    /\ uri \in URIS
    /\ chain \in Seq(TRANSFORMS) /\ Len(chain) <= MAXCHAIN
    /\ status \in {"run", "digested", "failed"}
    /\ data.form \in {"xml", "bin"}
    /\ data.form = "bin" => data.set = <<>>
    /\ data.form = "xml" => data.text # <<>>
    /\ data.set # <<>> => /\ data.set[1].nodes \subseteq Nodes(data.text)
                          /\ data.set[1].noattrs \in BOOLEAN
                          /\ data.set[1].vis # <<>> =>
                               \A y \in DOMAIN data.set[1].vis[1] : IsElem(data.text, y[1])

\* The transforms that write a new document from the whole text, whatever the node set.
Rewrites(t) == t.alg = "relationship" \/ (t.alg = "xslt" /\ ~IsIdentity(t.sheet))

\* No transform brings anything back: what a value stands for after a step it stood for
\* before, through filters, canonicalization, a second parse, the joining of text and new
\* documents made of the old one (of its text, when that is without a node set).
Narrowing == [][
    (Len(chain') > Len(chain) /\ Rewrites(Last(chain')) => data.set = <<>>)
        => Origin(data') \subseteq Origin(data)]_vars

\* An enveloped-signature transform, or an XPath shape that is treated as one.
IsEnvelope(t) == \/ t.alg = "enveloped"
                 \/ t.alg = "xpath" /\ is_enveloped_xpath(SIGNED, HERE, t.expr)

SignatureOrig == UNION {SIGNED[n].orig : n \in Subtree(SIGNED, SIG)}

\* Once the transform has run on the signed text itself, nothing of the Signature being
\* verified is digested, whatever transforms stand before and after it; only a transform
\* that writes a new document needs a canonicalization before it, as the node set is lost.
SignatureExcluded ==
    \A i \in DOMAIN chain :
        /\ status # "failed" /\ IsEnvelope(chain[i]) /\ uri.op # "external"
        /\ \A j \in 1..(i - 1) : chain[j].alg \notin {"c14n", "base64"} /\ ~Rewrites(chain[j])
        /\ \A j \in (i + 1)..Len(chain) :
              Rewrites(chain[j]) => \E k \in (i + 1)..(j - 1) : chain[k].alg = "c14n"
        => Origin(data) \intersect SignatureOrig = {}

\* The same wherever the transform stands in the chain (enveloped.rs: "Removes the ancestor
\* `<Signature>` element from the node set").
SignatureRemoved ==
    (status # "failed" /\ \E i \in DOMAIN chain : IsEnvelope(chain[i]))
        => Origin(data) \intersect SignatureOrig = {}

CommentOrig == UNION {SIGNED[n].orig : n \in {k \in Nodes(SIGNED) : SIGNED[k].k = "comment"}}

\* URI="" and URI="#v" never digest a comment, even under C14N with comments or an XPointer
\* transform that selects comments (resolve_reference_uri, "bare `#id` excludes comments").
CommentsExcluded == uri.op \in {"document", "id"} => Origin(data) \intersect CommentOrig = {}

\* The step that has just been taken, on an "xml" value.
Stepped(alg) == /\ Len(chain') = Len(chain) + 1 /\ status' = "run"
                /\ chain'[Len(chain')].alg = alg
Input == IF data.set = <<>> THEN Nodes(data.text) ELSE data.set[1].nodes

\* XPath Filter 2.0, node by node: a node stays iff it was in the input and, from the last
\* union that selects it (or from the start), no later filter takes it out.
FilteredIn(n, fs) ==
    LET S(k) == evaluate_simple_xpath(data.text, SIGNED, HERE, fs[k].path).nodes
    IN  \E k \in 0..Len(fs) :
          /\ k = 0 \/ (fs[k].filter = "union" /\ n \in S(k))
          /\ \A j \in (k + 1)..Len(fs) : /\ fs[j].filter = "intersect" => n \in S(j)
                                         /\ fs[j].filter = "subtract" => n \notin S(j)

\* apply_xpath_filter2_transform on nodes selects exactly those.
Filter2Exact == [][
    (Stepped("xpath2") /\ data.form = "xml") =>
        data'.set[1].nodes = {n \in Input : FilteredIn(n, chain'[Len(chain')].filters)}]_vars

\* What a node set leaves out beside tree nodes, the namespace nodes and the attributes, stays
\* out under every transform that hands on nodes, except an XPath expression: that one builds
\* a new set (apply_parsed_xpath_filter) with marks of its own.
MarksKept == [][
    (/\ Len(chain') > Len(chain) /\ status' = "run" /\ data.set # <<>> /\ data'.set # <<>>
     /\ Last(chain').alg # "xpath" \/ IsEnvelope(Last(chain')))
    => /\ excludes_attrs(data.set) => excludes_attrs(data'.set)
       /\ \A n \in data'.set[1].nodes : IsElem(data.text, n) => \A q \in InScope(data.text, n) :
            is_ns_visible(data'.set[1], n, q) => is_ns_visible(data.set[1], n, q)]_vars

\* The children of the root of a part, and the part with them in another order.
Listed(d) == {n \in Nodes(d) : Depth(d, n) = 3}
Reordered(d, f) == [n \in Nodes(d) |-> IF n \in Listed(d) THEN d[f[n]] ELSE d[n]]

\* A part that is a list of relationships of different Ids and nothing else; the order of the
\* transform has them all (an absent one comes first).
IsList(d, t) ==
    /\ \A n \in Nodes(d) : Depth(d, n) <= 3
    /\ \A n \in Listed(d) : RelAttr(d, n, "Id") = <<>> \/ \E i \in DOMAIN t.order : t.order[i] = RelAttr(d, n, "Id")
    /\ \A n, m \in Listed(d) : n # m => RelAttr(d, n, "Id") # RelAttr(d, m, "Id")

\* apply_relationship_transform, "Selected relationships are sorted by `Id`": what is digested
\* for such a part does not depend on the order in which it lists them.
RelationshipOrder == [][
    (Stepped("relationship") /\ IsList(data.text, Last(chain'))) =>
        \A f \in Bijection(Listed(data.text), Listed(data.text)) :
            data'.text = apply_relationship_transform(Reordered(data.text, f), Last(chain'))]_vars

\* xslt_execute_body and xslt_apply_templates_to_node together: such a stylesheet keeps every
\* element and every text of such a document where it is, and what it writes is XML.
XsltCopies == [][
    (/\ Stepped("xslt") /\ ~IsIdentity(Last(chain').sheet)
     /\ Copies(Last(chain').sheet, data.text) /\ Copyable(Last(chain').sheet, data.text))
    => data'.text # <<>> /\ Shape(data'.text) = Shape(data.text)]_vars

\* XPath 1.0 on the expressions the code reads: "and" binds tighter than "or".
XPathTrue(e, n) == EvalWith(TRUE, data.text, SIGNED, HERE, e, TreeNode(n))
KeepsTrue(e) == data'.set[1].nodes \ {1} = {n \in Input \ {1} : XPathTrue(e, n)}
BooleanStep == /\ Stepped("xpath") /\ data.text # <<>>
               /\ Parses(SIGNED, HERE, chain'[Len(chain')].expr)

\* "If the expression evaluates to true, the node is included in the output": the nodes kept
\* by an XPath transform are those for which XPath 1.0 gives true.
XPathExact == [][
    LET e == chain'[Len(chain')].expr
    IN  (BooleanStep /\ ~is_enveloped_xpath(SIGNED, HERE, e)) => KeepsTrue(e)]_vars

----------------------------------------------------------------------------
(* What canonicalization keeps, for every node set a chain can produce.    *)

MODES == {t.mode : t \in {u \in TRANSFORMS : u.alg = "c14n"}} \union {DefaultMode}

\* The elements of a canonical text c, each with the one it was written from: they are the
\* elements of the node set, in order.
WrittenPairs(c) ==
    LET new == {k \in Nodes(c) : IsElem(c, k)}
        old == {n \in Nodes(data.text) : IsElem(data.text, n) /\ is_visible(data.set, n)}
    IN  {q \in new \X old : Rank(new, q[1]) = Rank(old, q[2])}

\* The prefixes a mode answers for at an element.
AnsweredFor(n, m) == (IF m.exclusive THEN Utilized(data.text, n, m)
                   ELSE InScope(data.text, n) \union {Default}) \ {Xml}

\* A value to canonicalize; a reference that failed is left with one that was.
Canonicalizable == status = "run" /\ data.form = "xml"
NsUnfiltered == Canonicalizable /\ ~has_ns_visible(data.set)

\* A prefix means in the canonical text what it meant in the document: exactly the in-scope
\* namespaces (inclusive), the utilized ones (exclusive), although ancestors are left out.
NamespacesKept == NsUnfiltered =>
    \A m \in MODES : LET c == canonicalize(data.text, data.set, m)
                     IN  \A q \in WrittenPairs(c) : \A p \in AnsweredFor(q[2], m) :
                            Binding(c, q[1], p) = Binding(data.text, q[2], p)

\* No declaration repeats what is already in force, so equal documents have equal text.
NoRedundantDeclaration == NsUnfiltered =>
    \A m \in MODES : LET c == canonicalize(data.text, data.set, m)
                     IN  \A k \in Nodes(c) : \A p \in DOMAIN c[k].decls :
                            c[k].decls[p] # Binding(c, c[k].p, p)

\* The xml:lang in effect at an element is the same in an inclusive canonical text, although
\* the ancestors that set it are left out (collect_inherited_xml_attrs).
XmlAttributesKept == (Canonicalizable /\ ~excludes_attrs(data.set)) =>
    \A m \in {x \in MODES : ~x.exclusive} :
        LET c == canonicalize(data.text, data.set, m)
        IN  \A q \in WrittenPairs(c) : InEffect(c, q[1], "lang") = InEffect(data.text, q[2], "lang")

\* Base URIs by RFC 3986, for any reader: the way up that ".." takes through the segments of
\* a path (5.2.4), the segments before the last one (5.2.3), and a reference resolved against
\* a base that has a scheme, an authority and a path (5.2.2); "host" stands for the scheme of
\* the document with the authority of a network path.
Turn(way, segment) == IF segment = "." THEN way
                      ELSE IF segment = ".." THEN Front(way)
                      ELSE Append(way, segment)

Climb(path) == LET way[i \in 0 .. Len(path)] == IF i = 0 THEN <<>> ELSE Turn(way[i - 1], path[i])
               IN  way[Len(path)]

remove_dot_segments(path) ==
    IF path # <<>> /\ path[Len(path)] \in {".", ".."} THEN Append(Climb(path), "") ELSE Climb(path)

Folder(base) == IF Len(base) = 1 THEN <<>> ELSE Front(Tail(base))

ResolveByRfc(base, ref) ==
    IF ref = <<>> THEN base
    ELSE IF HasScheme(ref) THEN <<Head(ref)>> \o remove_dot_segments(Tail(ref))
    ELSE IF Head(ref) = "net" THEN <<"host">> \o remove_dot_segments(Tail(ref))
    ELSE IF Head(ref) = "/" THEN <<Head(base)>> \o remove_dot_segments(Tail(ref))
    ELSE <<Head(base)>> \o remove_dot_segments(Folder(base) \o ref)

\* The URI of the document is the base where no xml:base is.
DocumentUri == <<"doc", "p", "q">>

HasBase(d, n) == XmlAttr(d, n, "base") # {}
OwnBase(d, n) == (CHOOSE a \in XmlAttr(d, n, "base") : TRUE).value

BaseByRfc(d, n) ==
    LET base[k \in Nodes(d)] ==
            LET above == IF d[k].p = 0 THEN DocumentUri ELSE base[d[k].p]
            IN  IF HasBase(d, k) THEN ResolveByRfc(above, OwnBase(d, k)) ELSE above
    IN  base[n]

\* The values on the way up to a node.
BasesAbove(d, n) == {OwnBase(d, k) : k \in {a \in AncestorsOrSelf(d, n) : HasBase(d, a)}}
Unset(d, n) == BasesAbove(d, n) \subseteq {<<>>}
Anchored(d, n) == \E v \in BasesAbove(d, n) : HasScheme(v)

\* What C14N 1.1 writes can keep the base URIs when a relative one is not made explicit (at an
\* element whose parent is left out) below another one that is written, against which a
\* reader would resolve it again.
OnceResolved(d, s) ==
    \A n \in Nodes(d) :
        (/\ IsElem(d, n) /\ is_visible(s, n) /\ s # <<>> /\ ParentHidden(d, s, n)
         /\ ~Unset(d, n) /\ ~Anchored(d, n)) =>
            \A a \in AncestorsOrSelf(d, n) \ {n} : (IsElem(d, a) => is_visible(s, a)) => Unset(d, a)

\* The code resolves as RFC 3986 does when no value ends in "..", which it would take for the
\* name to replace, none is an authority without a path, and none a network path.
Resolvable(v) ==
    v # <<>> => /\ v[Len(v)] # ".."
                /\ Head(v) # "net"
                /\ HasScheme(v) \/ Head(v) = "/" => Len(v) > 1
ValuesResolvable(d) ==
    \A n \in Nodes(d) : \A a \in XmlAttr(d, n, "base") : a.value \in Seq(STRING) /\ Resolvable(a.value)

SameBases ==
    \A m \in {x \in MODES : x.base /\ ~x.exclusive} :
        LET c == canonicalize(data.text, data.set, m)
        IN  \A q \in WrittenPairs(c) : BaseByRfc(c, q[1]) = BaseByRfc(data.text, q[2])

\* The base URI in effect at an element that C14N 1.1 writes is, to a reader who follows
\* RFC 3986, the one it had in the document, although the ancestors that set it are left out;
\* with "." and ".." in the middle of the values, for the values the code can resolve.
BaseKept == (/\ Canonicalizable /\ ~excludes_attrs(data.set)
             /\ OnceResolved(data.text, data.set) /\ ValuesResolvable(data.text)) => SameBases
=============================================================================
