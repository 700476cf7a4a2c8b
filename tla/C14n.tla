-------------------------------- MODULE C14n --------------------------------
(***************************************************************************)
(* Canonicalization, crates/bergshamra-c14n: the text written for a        *)
(* document d under a node set s (<<>> for None, else one NodeSet), given  *)
(* as the document that parsing it yields.  What a canonicalizer decides   *)
(* is which nodes it writes and, for each element, which namespace         *)
(* declarations and attributes; the order inside a tag and the escaping    *)
(* are left out.  A mode is a record:                                      *)
(*   exclusive, comments, base (C14N 1.1)   three switches                 *)
(*   prefixes   the InclusiveNamespaces PrefixList, Default for "#default" *)
(***************************************************************************)
EXTENDS NodeSets

is_visible(s, n) == s = <<>> \/ n \in s[1].nodes
has_ns_visible(s) == s # <<>> /\ s[1].vis # <<>>
excludes_attrs(s) == s # <<>> /\ s[1].noattrs

NoNs == [p \in {} |-> NoUri]

\* The map g with the entries of f inserted (insert replaces).
Over(f, g) == [p \in DOMAIN f \union DOMAIN g |-> IF p \in DOMAIN f THEN f[p] ELSE g[p]]

\* collect_inscope_namespaces, then the filter by namespace-node visibility.  The inclusive
\* walk keeps xmlns="" as an entry of its own, the exclusive one drops it.
VisibleNs(d, s, n, m) ==
    LET inscope == InScope(d, n) \union
                   (IF ~m.exclusive /\ Declaring(d, n, Default) # {} THEN {Default} ELSE {})
    IN  [p \in {q \in inscope : has_ns_visible(s) => is_ns_visible(s[1], n, q)}
            |-> Binding(d, n, p)]

\* Variant: nothing is known of the ancestors.
NeverRendered(p, v, ctx) == FALSE

\* The declaration p = v[p] is what the nearest written ancestor left in force.
Rendered(p, v, ctx) == p \in DOMAIN ctx /\ ctx[p] = v[p]

\* The prefixes an element uses, in its name, its attributes or the PrefixList.
Utilized(d, n, m) == {d[n].prefix} \union {a.prefix : a \in d[n].attrs \ {b \in d[n].attrs : b.prefix = Default}}
                     \union m.prefixes

\* inclusive.rs: every binding of v, the visible ones, that the context ctx does not give already; an empty
\* default only where it undoes one, and xmlns="" where the filter hides a default in force.
InclusiveDecls(s, v, ctx) ==
    LET shown == {p \in DOMAIN v \ {Xml} : /\ ~Rendered(p, v, ctx)
                                           /\ v[p] = NoUri => p \in DOMAIN ctx}
        hidden == {p \in {Default} \intersect DOMAIN ctx :
                     has_ns_visible(s) /\ ctx[p] # NoUri /\ p \notin DOMAIN v}
    IN  [p \in shown \union hidden |-> IF p \in shown THEN v[p] ELSE NoUri]

\* exclusive.rs: the bindings of the utilized prefixes u only.
ExclusiveDecls(u, v, ctx) ==
    LET shown == {p \in u \ {Xml} : p \in DOMAIN v /\ ~Rendered(p, v, ctx)}
        undone == {p \in u \intersect {Default} \intersect DOMAIN ctx :
                     p \notin DOMAIN v /\ ctx[p] # NoUri}
    IN  [p \in shown \union undone |-> IF p \in shown THEN v[p] ELSE NoUri]

Decls(d, s, n, m, ctx) ==
    IF m.exclusive THEN ExclusiveDecls(Utilized(d, n, m), VisibleNs(d, s, n, m), ctx)
    ELSE InclusiveDecls(s, VisibleNs(d, s, n, m), ctx)

\* The context an element that is written hands to its children: its visible bindings
\* (inclusive); what has been declared so far, less the utilized prefixes whose namespace node
\* is hidden (exclusive).
InclusiveChildNs(s, v, ctx) ==
    LET own == [p \in DOMAIN v \ {Xml} |-> v[p]]
    IN  IF has_ns_visible(s) THEN own ELSE Over(own, ctx)

ExclusiveChildNs(s, u, v, told) ==
    LET broken == IF has_ns_visible(s) THEN (u \ {Xml}) \ DOMAIN v ELSE {}
    IN  [p \in DOMAIN told \ broken |-> told[p]]

ChildNs(d, s, n, m, ctx) ==
    IF m.exclusive
    THEN ExclusiveChildNs(s, Utilized(d, n, m), VisibleNs(d, s, n, m), Over(Decls(d, s, n, m, ctx), ctx))
    ELSE InclusiveChildNs(s, VisibleNs(d, s, n, m), ctx)

\* Variant: an element that is not written changes the context of its children.
ContextThroughHidden(d, s, m) ==
    LET ctx[n \in Nodes(d)] ==
            IF ~IsElem(d, n) THEN NoNs ELSE ChildNs(d, s, n, m, ctx[d[n].p])
    IN  ctx

\* The context in force below each node: the document starts with none, and an element that
\* is not written passes on its own.
Context(d, s, m) ==
    LET ctx[n \in Nodes(d)] ==
            IF d[n].p = 0 THEN NoNs
            ELSE IF IsElem(d, n) /\ is_visible(s, n) THEN ChildNs(d, s, n, m, ctx[d[n].p])
            ELSE ctx[d[n].p]
    IN  ctx

\* URI references are sequences of the segments of a path, the last one empty after a final
\* "/", behind a head: "abs" and "abs:" stand for a scheme with an authority, "net" for an
\* authority alone (a network path), "/" starts an absolute path.  Schemes without authority,
\* queries and fragments are left out.
HasScheme(u) == u # <<>> /\ Head(u) \in {"abs", "abs:"}
HasAuthority(u) == HasScheme(u) \/ (u # <<>> /\ Head(u) = "net")

\* resolve_uri_reference: a relative path replaces the last name of the base, whatever it is.
\* A base with an authority and no path has no last name: the reference is glued to the
\* authority.  A network path counts as an absolute path.
resolve_uri_reference(base, ref) ==
    IF HasScheme(ref) THEN ref
    ELSE IF ref = <<>> THEN base
    ELSE IF Head(ref) \in {"/", "net"} /\ ~HasAuthority(base) THEN ref
    ELSE IF Head(ref) = "/" THEN <<Head(base)>> \o Tail(ref)
    ELSE IF Head(ref) = "net" THEN <<Head(base), "", "host">> \o Tail(ref)
    ELSE IF HasAuthority(base) /\ Len(base) = 1
         THEN <<IF HasScheme(base) THEN "abs:" ELSE "net">> \o Tail(ref)
    ELSE SubSeq(base, 1, Len(base) - 1) \o ref

XmlAttr(d, n, local) == {a \in d[n].attrs : a.prefix = Xml /\ a.local = local}

\* The xml:* attribute in effect at an element.
InEffect(d, n, local) == LET k == {a \in AncestorsOrSelf(d, n) : XmlAttr(d, a, local) # {}}
                         IN  IF k = {} THEN {} ELSE XmlAttr(d, Greatest(k), local)

\* Variant: the nearest xml:base as it stands.
NearestBase(d, n) ==
    LET has == {k \in AncestorsOrSelf(d, n) : XmlAttr(d, k, "base") # {}}
    IN  IF has = {} THEN <<>> ELSE (CHOOSE a \in XmlAttr(d, Greatest(has), "base") : TRUE).value

\* compute_absolute_base_uri: the xml:base values from the root down, each resolved against
\* the one before; <<>> when there is none.
compute_absolute_base_uri(d, n) ==
    LET base[k \in Nodes(d)] ==
            LET above == IF d[k].p = 0 THEN <<>> ELSE base[d[k].p]
                own == XmlAttr(d, k, "base")
            IN  IF own = {} THEN above
                ELSE LET ref == (CHOOSE a \in own : TRUE).value
                     IN  IF above = <<>> THEN ref ELSE resolve_uri_reference(above, ref)
    IN  base[n]

\* collect_inherited_xml_attrs: the xml:* attributes of the nearest ancestors that have them,
\* written or not, less the ones the element has itself.
collect_inherited_xml_attrs(d, n) ==
    LET above == AncestorsOrSelf(d, n) \ {n}
        locals == {a.local : a \in UNION {{b \in d[k].attrs : b.prefix = Xml} : k \in above}}
        nearest(l) == Greatest({k \in above : XmlAttr(d, k, l) # {}})
    IN  UNION {XmlAttr(d, nearest(l), l) : l \in {x \in locals : XmlAttr(d, n, x) = {}}}

\* The attributes written for an element.  Inclusive: none when the node set has no attribute
\* nodes; otherwise its own and, under a node set, when its parent is not written, the xml:*
\* attributes in effect, with xml:base made absolute in C14N 1.1.
ParentHidden(d, s, n) == ~IsElem(d, d[n].p) \/ ~is_visible(s, d[n].p)

\* Variant: no inheritance of xml:* attributes.
InclusiveAttrsOwn(d, s, n, m) == IF excludes_attrs(s) THEN {} ELSE d[n].attrs

InclusiveAttrs(d, s, n, m) ==
    LET all_xml == d[n].attrs \union collect_inherited_xml_attrs(d, n)
        base == compute_absolute_base_uri(d, n)
        rest == {a \in all_xml : ~(a.prefix = Xml /\ a.local = "base")}
    IN  IF excludes_attrs(s) THEN {}
        ELSE IF s = <<>> \/ ~ParentHidden(d, s, n) THEN d[n].attrs
        ELSE IF m.base /\ base # <<>>
             THEN rest \union {[prefix |-> Xml, local |-> "base", value |-> base]}
        ELSE all_xml

Attrs(d, s, n, m) == IF m.exclusive THEN d[n].attrs ELSE InclusiveAttrs(d, s, n, m)

\* Under a namespace filter, the declarations of an element that is not written are written
\* in its place, as text: all of them (inclusive) or the ones of the PrefixList (exclusive).
\* They are namespace nodes: that text stands for no node of the tree.
Floating(d, s, n, m, ctx) ==
    LET v == VisibleNs(d, s, n, m)
    IN  {p \in DOMAIN v \ {Xml} : /\ has_ns_visible(s)
                                  /\ m.exclusive => p \in m.prefixes
                                  /\ ~Rendered(p, v, ctx)
                                  /\ v[p] = NoUri => p \in DOMAIN ctx}

\* Some positions of a sequence, in order.
Rank(S, n) == Cardinality({m \in S : m <= n})
InOrder(S) == LET at == [n \in S |-> Rank(S, n)]
              IN  [i \in 1 .. Cardinality(S) |-> CHOOSE n \in S : at[n] = i]

\* process_node: what each node contributes to the text.
Written(d, s, m) ==
    LET ctx == Context(d, s, m)
    IN  {n \in Nodes(d) :
            CASE d[n].k = "doc" -> TRUE
              [] d[n].k = "elem" -> is_visible(s, n) \/ Floating(d, s, n, m, ctx[d[n].p]) # {}
              [] d[n].k = "text" -> is_visible(s, n)
              [] d[n].k = "comment" -> m.comments /\ is_visible(s, n)}

\* The nodes w of the text in document order, each below the nearest element written above it.
WriteNodes(d, s, m, w, ctx) ==
    LET tag(n) == d[n].k # "elem" \/ is_visible(s, n)
        above(n) == {k \in DOMAIN w : /\ w[k] # n /\ w[k] \in AncestorsOrSelf(d, n) /\ tag(w[k])}
        node(n) == [d[n] EXCEPT
                      !.p = IF n = 1 THEN 0 ELSE Greatest(above(n)),
                      !.decls = IF IsElem(d, n) THEN Decls(d, s, n, m, ctx[d[n].p]) ELSE @,
                      !.attrs = IF IsElem(d, n) THEN Attrs(d, s, n, m) ELSE @]
    IN  [i \in DOMAIN w |-> IF tag(w[i]) THEN node(w[i])
                            ELSE [node(w[i]) EXCEPT !.k = "text", !.decls = NoNs, !.attrs = {}, !.orig = {}]]

RawNodes(d, s, m) == WriteNodes(d, s, m, InOrder(Written(d, s, m)), Context(d, s, m))

\* Parsing joins text that follows text.
Joined(r, i) == /\ i > 1 /\ r[i].k = "text" /\ r[i - 1].k = "text" /\ r[i].p = r[i - 1].p

JoinText(r) ==
    LET heads == InOrder({i \in DOMAIN r : ~Joined(r, i)})
        run(i) == {j \in DOMAIN r : j >= i /\ \A k \in (i + 1)..j : Joined(r, k)}
    IN  [h \in DOMAIN heads |->
            [r[heads[h]] EXCEPT
               !.p = IF @ = 0 THEN 0 ELSE CHOOSE g \in DOMAIN heads : heads[g] = r[heads[h]].p,
               !.orig = UNION {r[j].orig : j \in run(heads[h])}]]

\* What the parser accepts: one document element, no text beside it, prefixes declared, no
\* attribute given twice.
WellFormed(r) ==
    /\ Cardinality({n \in Nodes(r) : r[n].p = 1 /\ r[n].k = "elem"}) = 1
    /\ ~\E n \in Nodes(r) : r[n].p = 1 /\ r[n].k = "text"
    /\ \A n \in Nodes(r) : IsElem(r, n) =>
         \A p \in ({r[n].prefix} \union {a.prefix : a \in r[n].attrs}) \ {Default, Xml} :
            Binding(r, n, p) # NoUri
    /\ \A n \in Nodes(r) : \A a, b \in r[n].attrs :
         (a.prefix = b.prefix /\ a.local = b.local) => a = b

\* The name of an element gets its namespace from the declarations in the text.
BindNames(r) == [n \in DOMAIN r |-> IF IsElem(r, n) THEN [r[n] EXCEPT !.ns = Binding(r, n, r[n].prefix)]
                                    ELSE r[n]]

\* canonicalize, and the document that parsing the text gives.
canonicalize(d, s, m) == BindNames(JoinText(RawNodes(d, s, m)))
=============================================================================
