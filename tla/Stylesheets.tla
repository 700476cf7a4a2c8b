---------------------------- MODULE Stylesheets ----------------------------
(***************************************************************************)
(* The two transforms of verify.rs that write a new document: the OPC      *)
(* relationship transform and the XSLT subset.  Both read the whole text   *)
(* of their input, whatever node set it has.                               *)
(*                                                                         *)
(* What they write is a sequence of events: "start" (an element, written   *)
(* without a prefix, with its declarations and attributes), "end", "text"; *)
(* each with the nodes it was made from.                                   *)
(***************************************************************************)
EXTENDS C14n, SequencesExt

StartTag(local, decls, attrs, orig) ==
    [ev |-> "start", local |-> local, decls |-> decls, attrs |-> attrs, orig |-> orig]
EndTag == [ev |-> "end"]
TextOf(orig) == [ev |-> "text", orig |-> orig]

\* The document that parsing the events gives.
DocNode == [k |-> "doc", p |-> 0, ns |-> NoUri, prefix |-> Default, local |-> "", decls |-> NoNs,
            attrs |-> {}, orig |-> {}]

Level(es, i) == Cardinality({j \in 1 .. i - 1 : es[j].ev = "start"})
                  - Cardinality({j \in 1 .. i - 1 : es[j].ev = "end"})

ParseEvents(es) ==
    LET at == InOrder({i \in DOMAIN es : es[i].ev # "end"})
        above(i) == {h \in DOMAIN at : at[h] < i /\ es[at[h]].ev = "start" /\ Level(es, at[h]) = Level(es, i) - 1}
        parent(i) == IF above(i) = {} THEN 1 ELSE Greatest(above(i)) + 1
        node(i) == IF es[i].ev = "text" THEN [DocNode EXCEPT !.k = "text", !.p = parent(i), !.orig = es[i].orig]
                   ELSE [DocNode EXCEPT !.k = "elem", !.p = parent(i), !.local = es[i].local,
                                        !.decls = es[i].decls, !.attrs = es[i].attrs, !.orig = es[i].orig]
    IN  BindNames(JoinText(<<DocNode>> \o [h \in DOMAIN at |-> node(at[h])]))

\* Attributes are written by their local names; given twice with one value, one counts here once.
Unprefixed(attrs) == {[prefix |-> Default, local |-> a.local, value |-> a.value] : a \in attrs}

-----------------------------------------------------------------------------
(* apply_relationship_transform.  A transform has the sets ids and types   *)
(* of its references, and order, all Ids in use in alphabetical order.     *)

REL == "relationships"

\* get_attribute with its default; an absent Id or Type counts as the empty string.
RelAttr(d, n, local) ==
    LET given == {a \in d[n].attrs : a.prefix = Default /\ a.local = local}
    IN  IF given # {} THEN (CHOOSE a \in given : TRUE).value
        ELSE IF local = "TargetMode" THEN <<"Internal">> ELSE <<>>

\* The <Relationship> children of the root that a reference names.
SelectedRels(d, t) ==
    {n \in Nodes(d) : /\ IsElem(d, n) /\ d[n].local = "Relationship" /\ d[n].ns = REL
                      /\ IsElem(d, d[n].p) /\ d[d[n].p].p = 1
                      /\ RelAttr(d, n, "Id") \in t.ids \/ RelAttr(d, n, "Type") \in t.types}

\* Variant: document order.
SortedRels_document(d, t) == InOrder(SelectedRels(d, t))

\* rels.sort_by: by Id, the empty one first, equal ones in document order.
Before(d, t, n, m) ==
    LET place(k) == {i \in DOMAIN t.order : t.order[i] = RelAttr(d, k, "Id")}
    IN  \/ \E i \in place(n), j \in place(m) : i < j
        \/ place(n) = {} /\ place(m) # {}
        \/ place(n) = place(m) /\ n < m

SortedRels(d, t) ==
    LET S == SelectedRels(d, t)
    IN  [i \in 1 .. Cardinality(S) |->
            CHOOSE n \in S : Cardinality({m \in S : m = n \/ Before(d, t, m, n)}) = i]

RelAttrs(d, n) == {[prefix |-> Default, local |-> l, value |-> RelAttr(d, n, l)] :
                     l \in {"Id", "Target", "TargetMode", "Type"}}

apply_relationship_transform(d, t) ==
    LET rels == SortedRels(d, t)
    IN  ParseEvents(<<StartTag("Relationships", [p \in {Default} |-> REL], {}, {})>>
          \o FlattenSeq([i \in DOMAIN rels |->
                <<StartTag("Relationship", NoNs, RelAttrs(d, rels[i]), d[rels[i]].orig), EndTag>>])
          \o <<EndTag>>)

-----------------------------------------------------------------------------
(* apply_xslt_transform.  A stylesheet has templates, each with parent and *)
(* child (match="parent/child", or match="child" with parent "") and a     *)
(* body; code, the instructions, which a body names by their positions;    *)
(* ns, its default namespace; strip, the elements of strip-space; blank,   *)
(* the text nodes that are white space.                                    *)

\* The elements of a stylesheet: templates in a list, instructions after the one they stand in.
SheetOK(s) ==
    /\ Len(s.templates) \in Nat /\ DOMAIN s.templates = 1 .. Len(s.templates)
    /\ Len(s.code) \in Nat /\ DOMAIN s.code = 1 .. Len(s.code)
    /\ \A i \in DOMAIN s.templates : s.templates[i].body \in Seq(1 .. Len(s.code))
    /\ \A i \in DOMAIN s.code :
          s.code[i].op \in {"copy", "element"} => s.code[i].body \in Seq((i + 1) .. Len(s.code))

\* find_matching_template: the first in the stylesheet that matches an element.
find_matching_template(d, n, s) ==
    LET up == IF d[n].p = 0 THEN "" ELSE d[d[n].p].local
        hits == {i \in DOMAIN s.templates :
                   /\ IsElem(d, n) /\ s.templates[i].child = d[n].local
                   /\ s.templates[i].parent \in {"", up}}
    IN  IF hits = {} THEN 0 ELSE CHOOSE i \in hits : \A j \in hits : i <= j

\* xslt_node_matches_select, on element children only.
xslt_node_matches_select(d, n, select) == IsElem(d, n) /\ select \in {"@*|node()", d[n].local}

\* xslt_eval_value_of: the text of the first child element of the name.
xslt_eval_value_of(d, n, select) ==
    LET named == {m \in Children(d, n) : IsElem(d, m) /\ d[m].local = select}
        texts == {m \in Nodes(d) : named # {} /\ d[m].k = "text" /\ d[m].p = CHOOSE i \in named : \A j \in named : i <= j}
    IN  IF texts = {} THEN <<>> ELSE <<TextOf(d[CHOOSE i \in texts : \A j \in texts : i <= j].orig)>>

\* Variant: elements only, as with a select.
AllChildren_elements(d, n) == InOrder({m \in Children(d, n) : IsElem(d, m)})

\* The children of a node, in order.
AllChildren(d, n) == InOrder(Children(d, n))

IsBlank(d, n, s) == d[n].orig # {} /\ d[n].orig \subseteq s.blank

\* What a body writes at a context node, and what templates write at some nodes: out gives the
\* events of each instruction at each node, those of template matching as instruction 0.
Run(out, n, body) == FlattenSeq([j \in DOMAIN body |-> out[<<n, body[j]>>]])
ApplyTo(out, ms) == FlattenSeq([j \in DOMAIN ms |-> out[<<ms[j], 0>>]])

\* The body of the first template that matches; otherwise text is copied, unless it is blank
\* where strip-space says so, and an element hands on to its children.
xslt_apply_templates_to_node(d, s, out, n) ==
    LET tmpl == find_matching_template(d, n, s)
    IN  IF tmpl # 0 THEN Run(out, n, s.templates[tmpl].body)
        ELSE IF d[n].k = "text"
        THEN (IF IsBlank(d, n, s) /\ d[d[n].p].local \in s.strip THEN <<>> ELSE <<TextOf(d[n].orig)>>)
        ELSE IF IsElem(d, n) THEN ApplyTo(out, AllChildren(d, n)) ELSE <<>>

CopyTag(d, n) == StartTag(d[n].local, d[n].decls, Unprefixed(d[n].attrs), d[n].orig)
LiteralTag(s, c) == StartTag(c.local, IF s.ns # NoUri /\ c.ns \in {NoUri, s.ns} THEN [p \in {Default} |-> s.ns] ELSE NoNs,
                             Unprefixed(c.attrs), {})

\* One instruction c of a body.
xslt_execute_body(d, s, out, n, c) ==
    CASE c.op = "text" -> <<TextOf({})>>
      [] c.op = "apply" ->
            ApplyTo(out, IF c.select = "" THEN AllChildren(d, n)
                         ELSE InOrder({m \in Children(d, n) : xslt_node_matches_select(d, m, c.select)}))
      [] c.op = "value-of" -> xslt_eval_value_of(d, n, c.select)
      [] c.op = "copy" ->
            IF IsElem(d, n) THEN <<CopyTag(d, n)>> \o Run(out, n, c.body) \o <<EndTag>>
            ELSE IF d[n].k = "text" THEN <<TextOf(d[n].orig)>> ELSE <<>>
      [] c.op = "element" -> <<LiteralTag(s, c)>> \o Run(out, n, c.body) \o <<EndTag>>
      [] OTHER -> <<>>

\* The two call each other.
xslt_execute(d, s) ==
    LET out[q \in Nodes(d) \X (0 .. Len(s.code))] ==
            IF q[2] = 0 THEN xslt_apply_templates_to_node(d, s, out, q[1])
            ELSE xslt_execute_body(d, s, out, q[1], s.code[q[2]])
    IN  out[<<CHOOSE n \in Nodes(d) : d[n].p = 1 /\ IsElem(d, n), 0>>]

\* apply_minimal_xslt: from the document element.
apply_minimal_xslt(d, s) == ParseEvents(xslt_execute(d, s))

\* One template for all attributes and nodes with a copy in it, whatever the copy contains:
\* the input is handed on as it is.
IsIdentity(s) == /\ Len(s.templates) = 1 /\ s.templates[1].child = "@*|node()"
                 /\ \E i \in DOMAIN s.templates[1].body : s.code[s.templates[1].body[i]].op = "copy"

-----------------------------------------------------------------------------
(* What a stylesheet that copies is.                                       *)

\* A stylesheet that copies every element of the document and nothing else.
Copies(s, d) ==
    /\ \A n \in Nodes(d) : IsElem(d, n) =>
          LET m == find_matching_template(d, n, s)
          IN  /\ m # 0 /\ Len(s.templates[m].body) = 1
              /\ LET c == s.code[s.templates[m].body[1]]
                 IN  /\ c.op = "copy" /\ Len(c.body) = 1
                     /\ s.code[c.body[1]] = [op |-> "apply", select |-> ""]

\* One document element; no text that strip-space drops, or that is joined with another when
\* the comments between them are gone; no attributes that only their prefixes tell apart.
Copyable(s, d) ==
    /\ \A n, m \in Nodes(d) : d[n].p = 1 /\ d[m].p = 1 /\ "comment" \notin {d[n].k, d[m].k} => n = m
    /\ \A n \in Nodes(d) : d[n].k = "text" /\ IsBlank(d, n, s) => d[d[n].p].local \notin s.strip
    /\ \A n, m \in Nodes(d) : d[n].k = "text" /\ d[m].k = "text" /\ d[n].p = d[m].p /\ n < m =>
          \E e \in (n + 1) .. (m - 1) : IsElem(d, e) /\ d[e].p = d[n].p
    /\ \A n \in Nodes(d) : \A a, b \in d[n].attrs : a.local = b.local => a = b

Shape(d) == {<<d[n].orig, d[d[n].p].orig>> : n \in {m \in Nodes(d) : d[m].k \in {"elem", "text"}}}
=============================================================================
