------------------------------ MODULE NodeSets ------------------------------
(***************************************************************************)
(* The NodeSet of crates/bergshamra-xml/src/nodeset.rs: a set of nodes of  *)
(* one document, with two marks for the nodes uppsala has no NodeId for:   *)
(*   vis      <<>> (None: every namespace node is visible) or one map from *)
(*            pairs <<element, prefix>> to whether that namespace node is  *)
(*            visible                                                      *)
(*   noattrs  exclude_attrs: the attribute nodes are not in the set        *)
(* All sets the library builds are of type Normal.                         *)
(***************************************************************************)
EXTENDS XmlTree

NodeSet(ids) == [nodes |-> ids, vis |-> <<>>, noattrs |-> FALSE]

NoComments(d, ids) == {n \in ids : d[n].k # "comment"}

all(d) == NodeSet(Nodes(d))
all_without_comments(d) == NodeSet(NoComments(d, Nodes(d)))
tree_without_comments(d, r) == NodeSet(NoComments(d, Subtree(d, r)))
tree_with_comments(d, r) == NodeSet(Subtree(d, r))

\* is_ns_visible: a namespace node the map does not mention is not visible.
is_ns_visible(s, e, p) ==
    s.vis = <<>> \/ (<<e, p>> \in DOMAIN s.vis[1] /\ s.vis[1][<<e, p>>])

remove_subtree(d, r, s) == [s EXCEPT !.nodes = @ \ Subtree(d, r)]

\* The visible pairs of a map.
Shown(m) == {x \in DOMAIN m : m[x]}

\* Variant: the map of the first set is forgotten when the second has none.
merge_ns_visible_second(a, b) == b

merge_ns_visible_intersection(a, b) ==
    IF a = <<>> THEN b
    ELSE IF b = <<>> THEN a
    ELSE <<[x \in Shown(a[1]) \intersect Shown(b[1]) |-> TRUE]>>

merge_ns_visible_union(a, b) ==
    IF a = <<>> \/ b = <<>> THEN <<>>
    ELSE <<[x \in DOMAIN a[1] \union Shown(b[1]) |->
              x \in Shown(b[1]) \/ (x \in DOMAIN a[1] /\ a[1][x])]>>

merge_ns_visible_subtract(a, b) ==
    IF b = <<>> THEN a
    ELSE LET m == IF a = <<>> THEN <<>> ELSE a[1]
         IN  <<[x \in DOMAIN m \union Shown(b[1]) |->
                  x \notin Shown(b[1]) /\ x \in DOMAIN m /\ m[x]]>>

intersection(s, t) == [nodes |-> s.nodes \intersect t.nodes,
                       vis |-> merge_ns_visible_intersection(s.vis, t.vis),
                       noattrs |-> s.noattrs \/ t.noattrs]

union(s, t) == [nodes |-> s.nodes \union t.nodes,
                vis |-> merge_ns_visible_union(s.vis, t.vis),
                noattrs |-> s.noattrs /\ t.noattrs]

subtract(s, t) == [nodes |-> s.nodes \ t.nodes,
                   vis |-> merge_ns_visible_subtract(s.vis, t.vis),
                   noattrs |-> s.noattrs]
=============================================================================
