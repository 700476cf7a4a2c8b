------------------------------ MODULE XmlTree ------------------------------
(***************************************************************************)
(* A parsed XML document, as canonicalization and the transforms see it    *)
(* (the uppsala parser is external): a sequence of nodes in document order,*)
(* the first one the document node.  A node is a record:                   *)
(*   k       "doc", "elem", "text" or "comment"                            *)
(*   p       its parent, 0 for the document node                           *)
(*   ns, prefix, local   the name of an element                            *)
(*   decls   the namespace declarations of an element: prefix to URI       *)
(*   attrs   its attributes: records prefix, local, value; a value is a    *)
(*           sequence of names, the path of an xml:base and <<v>> otherwise*)
(*   orig    the nodes of the signed or retrieved document it stands for,  *)
(*           through any number of canonicalizations (a text node may join *)
(*           several): pairs of a document's name and a node; none for the *)
(*           document node, which is no content                            *)
(* NodeIds are positions: parsing the same text again gives the same ones. *)
(***************************************************************************)
EXTENDS Naturals, Sequences, FiniteSets

NoUri == ""
Default == ""      \* the prefix of the default namespace
Xml == "xml"

Nodes(d) == DOMAIN d

IsElem(d, n) == d[n].k = "elem"

\* What the parser guarantees of a document, as far as the transforms rely on it.
DocumentOK(d) ==
    /\ Len(d) \in Nat /\ Nodes(d) = 1 .. Len(d)
    /\ \A n \in Nodes(d) :
         /\ DOMAIN d[n] = {"k", "p", "ns", "prefix", "local", "decls", "attrs", "orig"}
         /\ d[n].k \in {"doc", "elem", "text", "comment"}
         /\ d[n].k = "doc" => d[n].orig = {}

\* ... of its tree: the document node first and only there, parents before their children.
TreeOK(d) ==
    \A n \in Nodes(d) :
        IF n = 1 THEN d[n].p = 0 /\ d[n].k = "doc"
        ELSE d[n].k # "doc" /\ d[n].p \in 1 .. (n - 1) /\ d[d[n].p].k \in {"doc", "elem"}

\* ... and of a text that parses: it has a document element.
Rooted(d) == \E n \in Nodes(d) : d[n].p = 1 /\ IsElem(d, n)

\* ... of its declarations: on elements only, and no prefix but the default one is undeclared.
DeclsOK(d) ==
    \A n \in Nodes(d) : /\ ~IsElem(d, n) => DOMAIN d[n].decls = {}
                        /\ \A p \in DOMAIN d[n].decls : p # Default => d[n].decls[p] # NoUri

\* All of it, for a text that may not parse.
ParsedOK(d) == DocumentOK(d) /\ TreeOK(d) /\ DeclsOK(d) /\ (d # <<>> => Rooted(d))

\* Walking doc.parent from a node up to the document node.
AncestorsOrSelf(d, n) ==
    LET up[m \in Nodes(d)] == {m} \union (IF d[m].p = 0 THEN {} ELSE up[d[m].p])
    IN  up[n]

\* collect_subtree_ids / remove_subtree: a node and everything below it.
Subtree(d, r) == {n \in Nodes(d) : r \in AncestorsOrSelf(d, n)}

Children(d, n) == {m \in Nodes(d) : d[m].p = n}

\* count(ancestor-or-self::node()).
Depth(d, n) == Cardinality(AncestorsOrSelf(d, n))

\* An element of that local name; an empty namespace URI matches any.
Named(d, n, name) == /\ IsElem(d, n)
                     /\ d[n].local = name.local
                     /\ name.ns = NoUri \/ d[n].ns = name.ns

Greatest(S) == CHOOSE n \in S : \A m \in S : m <= n

\* The namespace a prefix is bound to at an element: the nearest declaration counts,
\* and an empty URI undeclares.  NoUri when there is none.
Declaring(d, n, p) == {a \in AncestorsOrSelf(d, n) : p \in DOMAIN d[a].decls}

Binding(d, n, p) == IF Declaring(d, n, p) = {} THEN NoUri
                    ELSE d[Greatest(Declaring(d, n, p))].decls[p]

\* collect_inscope_namespaces_raw: the prefixes bound at an element.
InScope(d, n) == {p \in UNION {DOMAIN d[a].decls : a \in AncestorsOrSelf(d, n)} :
                    Binding(d, n, p) # NoUri}

\* The elements that carry an ID value; build_id_map fails on a value given twice.
IdOf(d, n) == {a.value : a \in {b \in d[n].attrs : b.prefix = Default /\ b.local = "Id"}}
Carriers(d, v) == {n \in Nodes(d) : v \in IdOf(d, n)}
UniqueIds(d) == \A n, m \in Nodes(d) : IdOf(d, n) \intersect IdOf(d, m) # {} => n = m
=============================================================================
