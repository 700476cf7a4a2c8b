---------------------------- MODULE XPathFilter ----------------------------
(***************************************************************************)
(* The XPath expressions verify.rs understands, as functions of a document.*)
(* An expression of the XPath transform is a sequence of entries, operands *)
(* before the entries that use them, the last one the whole expression:    *)
(*   op "not" with arg                                                     *)
(*   op "chain" with args and ops: operands joined by "and" and "or" with  *)
(*      no parentheses between them, as they are written                   *)
(*   a leaf (Leaf below), with the name, literal or value it mentions      *)
(* A name is a prefix and a local name; d is the document filtered, o and  *)
(* x the signed document and its <XPath> element, where prefixes resolve.  *)
(***************************************************************************)
EXTENDS NodeSets

DSIG == "dsig"

\* resolve_prefixed_name, resolve_ns_prefix: <<>> for a prefix that is not declared;
\* a name without a prefix matches any namespace.
resolve_prefixed_name(o, x, name) ==
    IF name.prefix = Default THEN <<[ns |-> NoUri, local |-> name.local]>>
    ELSE IF Declaring(o, x, name.prefix) = {} THEN <<>>
    ELSE <<[ns |-> Binding(o, x, name.prefix), local |-> name.local]>>

----------------------------------------------------------------------------
(* The boolean expressions.                                                *)

NameLeaves == {"ancestor-or-self", "self", "parent"}
NsLeaves == {"name", "namespace-uri", "string-is-parent-ns", "is-ns-node", "is-not-ns-node", "odd"}
Leaf == {"true", "text", "attributes"} \union NameLeaves \union NsLeaves

\* parse_xpath_bool_expr gives up on an unknown operand and on an undeclared prefix.
Parses(o, x, e) ==
    \A i \in DOMAIN e : /\ e[i].op \in Leaf \union {"not", "chain"}
                        /\ e[i].op \in NameLeaves => resolve_prefixed_name(o, x, e[i].name) # <<>>

\* A context node c: the node c.n, or the namespace node for prefix c.prefix of element c.n.
TreeNode(n) == [n |-> n, ns |-> FALSE, prefix |-> Default]
NsNode(n, p) == [n |-> n, ns |-> TRUE, prefix |-> p]

\* name() as a prefix and a local part, empty for text; none for comments and the document.
NameOf(d, c) == IF c.ns THEN {[prefix |-> Default, local |-> c.prefix]}
                ELSE IF IsElem(d, c.n) THEN {[prefix |-> d[c.n].prefix, local |-> d[c.n].local]}
                ELSE IF d[c.n].k = "text" THEN {[prefix |-> Default, local |-> ""]}
                ELSE {}

\* eval_xpath_bool and eval_xpath_bool_ns on an operand.
EvalLeaf(d, o, x, a, c) ==
    LET name == resolve_prefixed_name(o, x, a.name)[1]
        up == IF c.ns THEN {c.n} ELSE {d[c.n].p} \ {0}
        uri == IF ~c.ns /\ IsElem(d, c.n) THEN d[c.n].ns ELSE NoUri
    IN  CASE a.op = "true" -> TRUE
          [] a.op = "ancestor-or-self" -> \E k \in AncestorsOrSelf(d, c.n) : Named(d, k, name)
          [] a.op = "self" -> ~c.ns /\ Named(d, c.n, name)
          [] a.op = "parent" -> \E k \in up : Named(d, k, name)
          [] a.op = "text" -> ~c.ns /\ d[c.n].k = "text"
          [] a.op = "attributes" -> ~c.ns /\ IsElem(d, c.n) /\ d[c.n].attrs # {}
          [] a.op = "name" -> a.literal \in NameOf(d, c)
          [] a.op = "namespace-uri" -> a.literal = uri
          [] a.op = "string-is-parent-ns" -> c.ns /\ Binding(d, c.n, c.prefix) = d[c.n].ns
          [] a.op = "is-ns-node" -> c.ns
          [] a.op = "is-not-ns-node" -> ~c.ns
          [] a.op = "odd" -> (Depth(d, c.n) + (IF c.ns THEN 1 ELSE 0)) % 2 = 1

\* Operands i and j have only the operator op between them.
Together(ops, op, i, j) == \A k \in DOMAIN ops : (i <= k /\ k < j) \/ (j <= k /\ k < i) => ops[k] = op

\* The value of a chain.  The code splits at " and " before " or ": a conjunction of
\* disjunctions.  XPath 1.0 reads a disjunction of conjunctions.
ChainValue(ops, val) ==
    \A i \in DOMAIN val : \E j \in DOMAIN val : Together(ops, "or", i, j) /\ val[j]

XPathChainValue(ops, val) ==
    \E i \in DOMAIN val : \A j \in DOMAIN val : Together(ops, "and", i, j) => val[j]

EvalWith(xpath10, d, o, x, e, c) ==
    LET chain(ops, val) == IF xpath10 THEN XPathChainValue(ops, val) ELSE ChainValue(ops, val)
        v[i \in DOMAIN e] ==
            CASE e[i].op = "not" -> ~v[e[i].arg]
              [] e[i].op = "chain" -> chain(e[i].ops, [j \in DOMAIN e[i].args |-> v[e[i].args[j]]])
              [] OTHER -> EvalLeaf(d, o, x, e[i], c)
    IN  v[Len(e)]

eval_xpath_bool(d, o, x, e, c) == EvalWith(FALSE, d, o, x, e, c)

expr_references_ns_nodes(e) == \E i \in DOMAIN e : e[i].op \in NsLeaves

\* Variant: the input node set is not consulted.
FilterAll(d, o, x, e, s) == NodeSet({n \in Nodes(d) \ {1} : eval_xpath_bool(d, o, x, e, TreeNode(n))})

\* apply_parsed_xpath_filter on a parsed document and its node set.  The result is a new set:
\* marks of the input set are not carried over, the document node is not visited.
ParsedFilter(d, o, x, e, s) ==
    LET ids == {n \in Nodes(d) \ {1} : /\ s # <<>> => n \in s[1].nodes
                                       /\ eval_xpath_bool(d, o, x, e, TreeNode(n))}
        nsnodes == UNION {{<<n, p>> : p \in InScope(d, n)} : n \in {k \in Nodes(d) : IsElem(d, k)}}
    IN  [nodes |-> ids,
         vis |-> IF expr_references_ns_nodes(e)
                 THEN <<[y \in nsnodes |-> eval_xpath_bool(d, o, x, e, NsNode(y[1], y[2]))]>>
                 ELSE <<>>,
         noattrs |-> Len(e) = 1 /\ e[1].op = "attributes"]

----------------------------------------------------------------------------
(* The shapes recognised before, and after, the boolean expressions.       *)

BoundToDsig(o, x, p) == \E a \in AncestorsOrSelf(o, x) : p \in DOMAIN o[a].decls /\ o[a].decls[p] = DSIG

\* is_enveloped_xpath: not(ancestor-or-self::P:Signature), and is_enveloped_xpath_here.
is_enveloped_xpath(o, x, e) ==
    /\ \/ Len(e) = 2 /\ e[1].op = "ancestor-or-self" /\ e[2].op = "not"
       \/ Len(e) = 1 /\ e[1].op = "outside-here"
    /\ e[1].name.local = "Signature" /\ e[1].name.prefix # Default
    /\ BoundToDsig(o, x, e[1].name.prefix)

\* try_compound_xpath_filter's only shape: A and outside-here B or below id.
IsCompound(o, x, e) ==
    /\ Len(e) = 4 /\ e[4].op = "chain" /\ e[4].ops = <<"and", "or">> /\ e[4].args = <<1, 2, 3>>
    /\ e[1].op = "ancestor-or-self" /\ e[2].op = "outside-here" /\ e[3].op = "below-id"
    /\ \A i \in {1, 2} : resolve_prefixed_name(o, x, e[i].name) # <<>>

\* Here a name without a prefix means no namespace.
ExactlyNamed(d, n, name) == IsElem(d, n) /\ d[n].local = name.local /\ d[n].ns = name.ns

\* find_ancestor_by_name_idx: a node of the signed document, none if there is no such element.
HereAncestor(o, x, name) == {a \in AncestorsOrSelf(o, x) : ExactlyNamed(o, a, name)}

\* (A and B) or C on the parsed document d.  The element of here() is found in the signed
\* document and looked up in d by its NodeId.
CompoundFilter(d, o, x, e, s) ==
    LET a == resolve_prefixed_name(o, x, e[1].name)[1]
        here == HereAncestor(o, x, resolve_prefixed_name(o, x, e[2].name)[1])
        A(n) == \E k \in AncestorsOrSelf(d, n) : ExactlyNamed(d, k, a)
        B(n) == here = {} \/ Greatest(here) \notin AncestorsOrSelf(d, n)
        C(n) == \E k \in Carriers(d, e[3].value) : k \in AncestorsOrSelf(d, n)
    IN  NodeSet({n \in Nodes(d) \ {1} : (s # <<>> => n \in s[1].nodes) /\ ((A(n) /\ B(n)) \/ C(n))})

----------------------------------------------------------------------------
(* The location paths of XPath Filter 2.0.  A path is a sequence of        *)
(* alternatives ("|"); each is the root, all descendants of a name, or     *)
(* steps from the root, each a name (local "*" for any) and a predicate.   *)

\* evaluate_xpath_predicate: an attribute absent, or equal to one of several values.
evaluate_xpath_predicate(d, n, pred) ==
    LET has == {a \in d[n].attrs : a.prefix = Default /\ a.local = pred.attr}
    IN  CASE pred.kind = "none" -> TRUE
          [] pred.kind = "absent" -> has = {}
          [] pred.kind = "equals" -> \E a \in has : a.value \in pred.values
          [] OTHER -> FALSE

\* A step's undeclared prefix matches any namespace.
StepMatches(d, o, x, n, step) ==
    LET r == resolve_prefixed_name(o, x, step.name)
    IN  /\ IsElem(d, n)
        /\ step.name.local = "*" \/ d[n].local = step.name.local
        /\ r # <<>> /\ r[1].ns # NoUri => d[n].ns = r[1].ns
        /\ evaluate_xpath_predicate(d, n, step.pred)

evaluate_path_steps(d, o, x, steps) ==
    LET at[k \in 0..Len(steps)] ==
            IF k = 0 THEN {1}
            ELSE {n \in UNION {Children(d, q) : q \in at[k - 1]} : StepMatches(d, o, x, n, steps[k])}
    IN  at[Len(steps)]

\* //P:name fails when P is not declared.
PathSupported(o, x, path) ==
    \A i \in DOMAIN path : /\ path[i].op \in {"root", "descendant", "steps"}
                           /\ path[i].op = "descendant" =>
                                resolve_prefixed_name(o, x, path[i].name) # <<>>

\* evaluate_simple_xpath: the nodes selected, each with its subtree.
evaluate_simple_xpath(d, o, x, path) ==
    LET sel(a) == CASE a.op = "root" -> {1}
                    [] a.op = "descendant" -> {n \in Nodes(d) : Named(d, n, resolve_prefixed_name(o, x, a.name)[1])}
                    [] a.op = "steps" -> evaluate_path_steps(d, o, x, a.steps)
    IN  NodeSet(UNION {Subtree(d, n) : n \in UNION {sel(path[i]) : i \in DOMAIN path}})

\* One <XPath> child f of the transform, applied to the filter set g.
ApplyFilter(d, o, x, f, g) ==
    LET t == evaluate_simple_xpath(d, o, x, f.path)
    IN  CASE f.filter = "intersect" -> intersection(g, t)
          [] f.filter = "subtract" -> subtract(g, t)
          [] f.filter = "union" -> union(g, t)

\* Variant: F starts empty.
FilterNodesFromNone(d, o, x, filters) ==
    LET after[k \in 0..Len(filters)] ==
            IF k = 0 THEN NodeSet({}) ELSE ApplyFilter(d, o, x, filters[k], after[k - 1])
    IN  after[Len(filters)]

\* The fold of apply_xpath_filter2_transform over its <XPath> children, from all nodes.
FilterNodes(d, o, x, filters) ==
    LET after[k \in 0..Len(filters)] ==
            IF k = 0 THEN all(d) ELSE ApplyFilter(d, o, x, filters[k], after[k - 1])
    IN  after[Len(filters)]
=============================================================================
