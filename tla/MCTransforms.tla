---------------------------- MODULE MCTransforms ----------------------------
(***************************************************************************)
(* A signed document with a signature of its own, another signature inside *)
(* the data it covers, comments, a default namespace and its undeclaration,*)
(* inherited xml:* attributes, and an external document.                   *)
(***************************************************************************)
EXTENDS Transforms

None == [p \in {} |-> NoUri]
NoPred == [kind |-> "none", attr |-> "", values |-> {}]
Node(doc, i, k, p, ns, prefix, local, decls, attrs) ==
    [k |-> k, p |-> p, ns |-> ns, prefix |-> prefix, local |-> local, decls |-> decls,
     attrs |-> attrs, orig |-> IF k = "doc" THEN {} ELSE {<<doc, i>>}]
E(i, p, ns, prefix, local, decls, attrs) == Node("signed", i, "elem", p, ns, prefix, local, decls, attrs)
O(i, k, p) == Node("signed", i, k, p, NoUri, Default, "", None, {})
A(prefix, local, value) == [prefix |-> prefix, local |-> local, value |-> value]

Top == (Default :> "urn:a") @@ ("ds" :> DSIG) @@ ("p" :> "urn:p")

MCSigned ==
    << O(1, "doc", 0),
       O(2, "comment", 1),
       E(3, 1, "urn:a", Default, "r", Top, {A(Xml, "lang", <<"en">>), A(Xml, "base", <<"abs", "a", "b", "">>)}),
       E(4, 3, "urn:p", "p", "data", None, {A(Default, "Id", <<"d">>), A(Xml, "base", <<"b", "">>)}),
       O(5, "text", 4),
       O(6, "comment", 4),
       E(7, 4, NoUri, Default, "q", Default :> NoUri, {A("p", "x", <<"1">>), A(Xml, "base", <<"..", "c">>)}),
       O(8, "text", 7),
       E(9, 4, DSIG, "ds", "Signature", "p" :> "urn:p2", {A(Xml, "lang", <<"sv">>)}),
       E(10, 9, "urn:p2", "p", "o", None, {}),
       E(11, 3, DSIG, "ds", "Signature", None, {A(Default, "Id", <<"s">>)}),
       E(12, 11, DSIG, "ds", "Reference", None, {}),
       E(13, 12, DSIG, "ds", "XPath", None, {}) >>

MCSig == 11
MCHere == 13

External == << Node("ext", 1, "doc", 0, NoUri, Default, "", None, {}),
               Node("ext", 2, "elem", 1, "urn:p", "p", "data", "p" :> "urn:p",
                    {A(Default, "Id", <<"d">>), A(Xml, "base", <<"..", "x", "">>)}),
               Node("ext", 3, "text", 2, NoUri, Default, "", None, {}) >>

RelNode(i, k, p, local, decls, attrs) ==
    Node("rels", i, k, p, IF k = "elem" THEN REL ELSE NoUri, Default, local, decls, attrs)
Rel(i, id, attrs) == RelNode(i, "elem", 2, "Relationship", None,
                             attrs \union (IF id = "" THEN {} ELSE {A(Default, "Id", <<id>>)}))

\* A relationships part, not in the order of the Ids; one has no Id.
Parts == << RelNode(1, "doc", 0, "", None, {}),
            RelNode(2, "elem", 1, "Relationships", Default :> REL, {}),
            Rel(3, "r3", {A(Default, "Type", <<"t">>), A(Default, "Target", <<"x">>)}),
            Rel(4, "r1", {A(Default, "Type", <<"u">>), A(Default, "TargetMode", <<"External">>)}),
            Rel(5, "r2", {A(Default, "Type", <<"t">>)}),
            Rel(6, "", {A(Default, "Type", <<"t">>)}),
            Rel(7, "r4", {A(Default, "Type", <<"v">>)}) >>

MCUris == { [op |-> "document"], [op |-> "all"],
            [op |-> "id", value |-> <<"d">>], [op |-> "xpointer-id", value |-> <<"d">>],
            [op |-> "id", value |-> <<"missing">>],
            [op |-> "external", found |-> {External, Parts, <<>>}], [op |-> "external", found |-> {}] }

----------------------------------------------------------------------------
Name(prefix, local) == [prefix |-> prefix, local |-> local]
Leaf1(op) == [op |-> op]
Of(op, prefix, local) == [op |-> op, name |-> Name(prefix, local)]
Not(i) == [op |-> "not", arg |-> i]
Chain(args, ops) == [op |-> "chain", args |-> args, ops |-> ops]
XPath(e) == [alg |-> "xpath", expr |-> e]

Everything == XPath(<<Leaf1("true")>>)
OwnSignature == XPath(<<Of("ancestor-or-self", "ds", "Signature"), Not(1)>>)
HereSignature == XPath(<<Of("outside-here", "ds", "Signature")>>)
NotElementQ == XPath(<<Of("self", Default, "q"), Not(1), Leaf1("text"), Chain(<<2, 3>>, <<"or">>)>>)
WithAttributes == XPath(<<Leaf1("attributes")>>)
NsNodes == XPath(<<Leaf1("string-is-parent-ns"), Leaf1("is-not-ns-node"), Chain(<<1, 2>>, <<"or">>)>>)
OddElements == XPath(<<Leaf1("odd"), Leaf1("is-ns-node"), Chain(<<1, 2>>, <<"or">>)>>)
Mixed == XPath(<<Leaf1("text"), Of("self", "p", "data"), Of("parent", "p", "data"),
                 Chain(<<1, 2, 3>>, <<"or", "and">>)>>)
Compound == XPath(<<Of("ancestor-or-self", "p", "data"), Of("outside-here", "ds", "Reference"),
                    [op |-> "below-id", value |-> <<"s">>], Chain(<<1, 2, 3>>, <<"and", "or">>)>>)
Undeclared == XPath(<<Of("self", "nope", "q")>>)

F(filter, path) == [filter |-> filter, path |-> path]
Desc(prefix, local) == [op |-> "descendant", name |-> Name(prefix, local)]
Step(prefix, local) == [name |-> Name(prefix, local), pred |-> NoPred]
WithId == [kind |-> "equals", attr |-> "Id", values |-> {<<"d">>}]
NoId == [kind |-> "absent", attr |-> "Id", values |-> {}]
Filter2(fs) == [alg |-> "xpath2", filters |-> fs]
DropSignatures == Filter2(<<F("subtract", <<Desc("ds", "Signature")>>)>>)
DataOnly == Filter2(<<F("intersect", <<[op |-> "steps",
                         steps |-> <<Step(Default, "r"), [Step("nope", "*") EXCEPT !.pred = WithId]>>]>>),
                      F("subtract", <<Desc(Default, "q")>>),
                      F("union", <<[op |-> "steps", steps |->
                         <<Step(Default, "r"), Step("p", "data"), [Step(Default, "*") EXCEPT !.pred = NoId]>>],
                                   Desc("ds", "Reference")>>)>>)
BadFilter == Filter2(<<F("xor", <<[op |-> "root"]>>)>>)

Mode(x, c, b, ps) == [alg |-> "c14n", mode |-> [exclusive |-> x, comments |-> c, base |-> b, prefixes |-> ps]]
Inclusive == Mode(FALSE, TRUE, FALSE, {})
C14n11 == Mode(FALSE, FALSE, TRUE, {})
Exclusive == Mode(TRUE, FALSE, FALSE, {})
ExclusiveList == Mode(TRUE, TRUE, FALSE, {"p", Default})

Relationship(ids, types) == [alg |-> "relationship", ids |-> ids, types |-> types,
                             order |-> <<<<"r1">>, <<"r2">>, <<"r3">>, <<"r4">>>>]
SomeRels == Relationship({<<"r1">>}, {<<"t">>})

\* Stylesheets: the identity; a copy of r, data, q, Signature, o, ...; a page made of some of it.
Xslt(templates, code, ns, strip) ==
    [alg |-> "xslt", sheet |-> [templates |-> templates, code |-> code, ns |-> ns, strip |-> strip,
                                blank |-> {<<"signed", 8>>}]]
Template(parent, child, body) == [parent |-> parent, child |-> child, body |-> body]
Copy(body) == [op |-> "copy", body |-> body]
Apply(select) == [op |-> "apply", select |-> select]
IdentityXslt == Xslt(<<Template("", "@*|node()", <<1>>)>>, <<Copy(<<2>>), Apply("@*|node()")>>, NoUri, {})
CopyXslt == Xslt([i \in 1..7 |-> Template("", <<"r", "data", "q", "Signature", "o", "Reference", "XPath">>[i], <<1>>)],
                 <<Copy(<<2>>), Apply("")>>, NoUri, {"data"})
PageXslt == Xslt(<<Template("r", "data", <<1>>), Template("", "data", <<5>>), Template("", "r", <<2>>)>>,
                 << [op |-> "element", local |-> "b", ns |-> NoUri, attrs |-> {A(Default, "Id", <<"d">>)},
                     body |-> <<3, 4, 6>>],
                    [op |-> "element", local |-> "page", ns |-> "urn:h", attrs |-> {}, body |-> <<5>>],
                    [op |-> "text"], [op |-> "value-of", select |-> "q"], Apply("data"), Apply("@*|node()"),
                    [op |-> "sort"] >>,
                 "urn:h", {"q"})

Enveloped == [alg |-> "enveloped"]
Base64 == [alg |-> "base64"]
Other == [alg |-> "other"]
XPointer(v) == [alg |-> "xpointer", value |-> <<v>>]

\* Every algorithm; the expressions whose nodes differ; the filters that leave holes in the
\* tree or hide namespace nodes; every canonicalization.
MCTransformsAll == {Enveloped, Base64, Other, XPointer("d"),
                    OwnSignature, HereSignature, Compound, Undeclared,
                    NotElementQ, WithAttributes, NsNodes, OddElements, DropSignatures, DataOnly, BadFilter,
                    Inclusive, C14n11, Exclusive, ExclusiveList,
                    SomeRels, IdentityXslt, CopyXslt, PageXslt}

\* For the runs that examine one disagreement each.
MCTransformsSmall == {Enveloped, Everything, OwnSignature, Mixed, DropSignatures, Inclusive, Exclusive}
=============================================================================
