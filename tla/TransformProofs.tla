--------------------------- MODULE TransformProofs ---------------------------
(***************************************************************************)
(* Theorems about Transforms, for every signed document, every set of URIs *)
(* and transforms and chains of any length.                                *)
(***************************************************************************)
EXTENDS Transforms, TransformLemmas, SequenceTheorems

-----------------------------------------------------------------------------
(* What the actions do, transform by transform.                            *)

\* The value v is what transform t makes of the data.
Outcome(t, v) ==
    \/ IsEnvelope(t) /\ data.form = "xml" /\ v = RemoveSignature(data)
    \/ t.alg = "c14n" /\ data.text # <<>> /\ v = Octets(data, t.mode)
    \/ t.alg = "base64" /\ v = BinData(<<>>, DecodedFrom(data))
    \/ /\ t.alg = "xpath" /\ ~IsEnvelope(t) /\ data.text # <<>>
       /\ \/ v = XmlData(data.text, <<ParsedFilter(data.text, SIGNED, HERE, t.expr, data.set)>>)
          \/ v = XmlData(data.text, <<CompoundFilter(data.text, SIGNED, HERE, t.expr, data.set)>>)
    \/ /\ t.alg = "xpointer" /\ data.form = "xml"
       /\ \E n \in Nodes(data.text) :
            LET s == tree_with_comments(data.text, n)
            IN  v = XmlData(data.text, <<IF data.set = <<>> THEN s ELSE intersection(data.set[1], s)>>)
    \/ /\ t.alg = "xpath2" /\ data.form = "xml" /\ Filter2Supported(t)
       /\ LET i == IF data.set = <<>> THEN all(data.text) ELSE data.set[1]
          IN  v = XmlData(data.text, <<intersection(i, FilterNodes(data.text, SIGNED, HERE, t.filters))>>)
    \/ t.alg = "relationship" /\ data.text # <<>> /\ v = BinData(apply_relationship_transform(data.text, t), {})
    \/ /\ t.alg = "xslt" /\ ~IsIdentity(t.sheet) /\ data.text # <<>>
       /\ v = Serialized(apply_minimal_xslt(data.text, t.sheet))
    \/ /\ \/ t.alg \in {"xpointer", "xpath2"} /\ data.form = "bin"
          \/ t.alg = "xslt" /\ IsIdentity(t.sheet)
       /\ v = data

\* A transform of the chain is taken: it gives a value, or the reference fails.
Taken(t) == /\ status = "run" /\ Len(chain) < MAXCHAIN /\ t \in TRANSFORMS
            /\ \/ \E v : Outcome(t, v) /\ Becomes(t, v)
               \/ Fails(t)

\* Every step takes a transform, or digests what there is.
LEMMA Steps == Next => Digest \/ \E t \in TRANSFORMS : Taken(t)
<1> SUFFICES ASSUME Next PROVE Digest \/ \E t \in TRANSFORMS : Taken(t)
  OBVIOUS
<1>1. CASE ApplyEnveloped
  BY <1>1 DEF ApplyEnveloped, ExecuteEnveloped, May, Taken, Outcome, IsEnvelope
<1>2. CASE ApplyC14n
  BY <1>2 DEF ApplyC14n, May, Taken, Outcome
<1>3. CASE ApplyBase64
  BY <1>3 DEF ApplyBase64, May, Taken, Outcome
<1>4. CASE ApplyXPath
  <2>1. PICK t \in TRANSFORMS :
          /\ May("xpath", t)
          /\ \/ is_enveloped_xpath(SIGNED, HERE, t.expr) /\ ExecuteEnveloped(t)
             \/ /\ ~is_enveloped_xpath(SIGNED, HERE, t.expr) /\ data.text # <<>>
                /\ Becomes(t, XmlData(data.text, <<ParsedFilter(data.text, SIGNED, HERE, t.expr, data.set)>>))
             \/ /\ ~is_enveloped_xpath(SIGNED, HERE, t.expr) /\ data.text # <<>>
                /\ Becomes(t, XmlData(data.text, <<CompoundFilter(data.text, SIGNED, HERE, t.expr, data.set)>>))
             \/ Fails(t)
    BY <1>4 DEF ApplyXPath
  <2> QED BY <2>1 DEF ExecuteEnveloped, May, Taken, Outcome, IsEnvelope
<1>5. CASE ApplyXPointer
  <2>1. PICK t \in TRANSFORMS :
          /\ May("xpointer", t)
          /\ \/ data.form = "bin" /\ Becomes(t, data)
             \/ /\ data.form = "xml"
                /\ \E n \in Carriers(data.text, t.value) :
                     LET s == tree_with_comments(data.text, n)
                     IN  Becomes(t, XmlData(data.text,
                            <<IF data.set = <<>> THEN s ELSE intersection(data.set[1], s)>>))
             \/ Fails(t)
    BY <1>5 DEF ApplyXPointer
  <2>2. Carriers(data.text, t.value) \subseteq Nodes(data.text)
    BY DEF Carriers
  <2> QED BY <2>1, <2>2 DEF May, Taken, Outcome
<1>6. CASE ApplyFilter2
  BY <1>6 DEF ApplyFilter2, May, Taken, Outcome
<1>7. CASE ApplyRelationship
  BY <1>7 DEF ApplyRelationship, May, Taken, Outcome
<1>8. CASE ApplyXslt
  BY <1>8 DEF ApplyXslt, May, Taken, Outcome
<1>9. CASE ApplyUnsupported
  BY <1>9 DEF ApplyUnsupported, May, Taken
<1> QED BY <1>1, <1>2, <1>3, <1>4, <1>5, <1>6, <1>7, <1>8, <1>9 DEF Next

-----------------------------------------------------------------------------
(* Node sets.                                                              *)

\* A node set of document d.
NodeSetOK(d, s) ==
    /\ DOMAIN s = {"nodes", "vis", "noattrs"}
    /\ s.nodes \subseteq Nodes(d) /\ s.noattrs \in BOOLEAN
    /\ s.vis # <<>> => \A y \in DOMAIN s.vis[1] : IsElem(d, y[1])

\* What TTypeOK says of a value, with the fields of its node set.
ValueOK(v) ==
    /\ v.form \in {"xml", "bin"}
    /\ v.form = "bin" => v.set = <<>>
    /\ v.form = "xml" => v.text # <<>>
    /\ v.set # <<>> => NodeSetOK(v.text, v.set[1])

\* The constructors make node sets of their document.
LEMMA NodeSetsOK ==
    ASSUME NEW d, NEW ids \in SUBSET Nodes(d)
    PROVE  NodeSetOK(d, NodeSet(ids))
BY DEF NodeSetOK, NodeSet

\* An intersection of two is one, if the first is and the second has no map.
LEMMA IntersectionOK ==
    ASSUME NEW d, NEW s, NEW t, NodeSetOK(d, s), t.vis = <<>>, t.noattrs \in BOOLEAN
    PROVE  NodeSetOK(d, intersection(s, t))
<1> DEFINE i == intersection(s, t)
<1>1. i = [nodes |-> s.nodes \intersect t.nodes, vis |-> s.vis, noattrs |-> s.noattrs \/ t.noattrs]
  BY DEF intersection, merge_ns_visible_intersection
<1> HIDE DEF i
<1>2. i.nodes \subseteq Nodes(d) /\ i.vis = s.vis
  BY <1>1 DEF NodeSetOK
<1>3. DOMAIN i = {"nodes", "vis", "noattrs"}
  BY <1>1
<1>4. i.noattrs \in BOOLEAN
  BY <1>1
<1> QED BY <1>2, <1>3, <1>4 DEF NodeSetOK, i

\* A filter over namespace nodes maps those of the elements of its document.
LEMMA ParsedFilterOK ==
    ASSUME NEW d, NEW e, NEW s
    PROVE  NodeSetOK(d, ParsedFilter(d, SIGNED, HERE, e, s))
<1> DEFINE f == ParsedFilter(d, SIGNED, HERE, e, s)
           nsnodes == UNION {{<<n, p>> : p \in InScope(d, n)} : n \in {k \in Nodes(d) : IsElem(d, k)}}
           map == [y \in nsnodes |-> eval_xpath_bool(d, SIGNED, HERE, e, NsNode(y[1], y[2]))]
           ids == {n \in Nodes(d) \ {1} : /\ s # <<>> => n \in s[1].nodes
                                          /\ eval_xpath_bool(d, SIGNED, HERE, e, TreeNode(n))}
<1>1. f = [nodes |-> ids, vis |-> IF expr_references_ns_nodes(e) THEN <<map>> ELSE <<>>,
           noattrs |-> Len(e) = 1 /\ e[1].op = "attributes"]
  BY DEF ParsedFilter
<1>2. \A y \in nsnodes : IsElem(d, y[1])
  OBVIOUS
<1>3. DOMAIN map = nsnodes /\ ids \subseteq Nodes(d)
  OBVIOUS
<1> HIDE DEF f, map, ids, nsnodes
<1>4. f.vis # <<>> => f.vis[1] = map
  BY <1>1
<1>5. DOMAIN f = {"nodes", "vis", "noattrs"} /\ f.nodes = ids
  BY <1>1
<1>6. f.noattrs \in BOOLEAN
  BY <1>1
<1> QED BY <1>2, <1>3, <1>4, <1>5, <1>6 DEF NodeSetOK, f

\* Values built by the transforms.
LEMMA BinOK == \A c, from : ValueOK(BinData(c, from))
BY DEF ValueOK, BinData

\* ... with a node set of the text.
LEMMA XmlOK ==
    ASSUME NEW d, d # <<>>, NEW s, NodeSetOK(d, s)
    PROVE  ValueOK(XmlData(d, <<s>>))
<1>1. XmlData(d, <<s>>).set[1] = s /\ XmlData(d, <<s>>).text = d /\ XmlData(d, <<s>>).form = "xml"
  BY DEF XmlData
<1> QED BY <1>1 DEF ValueOK

\* The node set a value has, all nodes if none.
SetOf(v) == IF v.set = <<>> THEN all(v.text) ELSE v.set[1]

\* It is a node set of the text.
LEMMA SetOfOK == ASSUME NEW v, ValueOK(v) PROVE NodeSetOK(v.text, SetOf(v))
BY NodeSetsOK DEF SetOf, ValueOK, all

\* RemoveSignature takes the Signature's subtree out and keeps text and marks.
LEMMA RemoveOK ==
    ASSUME NEW v, ValueOK(v), v.form = "xml"
    PROVE  /\ ValueOK(RemoveSignature(v)) /\ RemoveSignature(v).text = v.text /\ RemoveSignature(v).form = "xml"
           /\ RemoveSignature(v).set # <<>>
           /\ RemoveSignature(v).set[1].nodes \subseteq SetOf(v).nodes
           /\ SIG \in Nodes(v.text) =>
                 RemoveSignature(v).set[1].nodes \intersect Subtree(v.text, SIG) = {}
           /\ RemoveSignature(v).set[1].vis = SetOf(v).vis
           /\ RemoveSignature(v).set[1].noattrs <=> SetOf(v).noattrs
<1> DEFINE s == SetOf(v)
           gone == IF SIG \in Nodes(v.text) THEN Subtree(v.text, SIG) ELSE {}
           left == IF SIG \in Nodes(v.text) THEN remove_subtree(v.text, SIG, s) ELSE s
<1>1. RemoveSignature(v) = XmlData(v.text, <<left>>)
  BY DEF RemoveSignature, SetOf
<1>2. NodeSetOK(v.text, s)
  BY SetOfOK
<1> HIDE DEF s
<1>3. /\ DOMAIN left = {"nodes", "vis", "noattrs"} /\ left.nodes = s.nodes \ gone /\ left.vis = s.vis
      /\ left.noattrs = s.noattrs
  BY <1>2 DEF NodeSetOK, remove_subtree
<1> HIDE DEF left
<1>4. NodeSetOK(v.text, left)
  BY <1>2, <1>3 DEF NodeSetOK
<1>5. ValueOK(XmlData(v.text, <<left>>))
  BY <1>4, XmlOK DEF ValueOK
<1>6. LET w == XmlData(v.text, <<left>>) IN w.text = v.text /\ w.form = "xml" /\ w.set # <<>> /\ w.set[1] = left
  BY DEF XmlData
<1> QED BY <1>1, <1>3, <1>5, <1>6 DEF s

\* The node sets that XPointer and XPath Filter 2.0 hand on.
LEMMA XPointerOK ==
    ASSUME ValueOK(data), NEW n \in Nodes(data.text)
    PROVE  LET s == tree_with_comments(data.text, n)
           IN  NodeSetOK(data.text, IF data.set = <<>> THEN s ELSE intersection(data.set[1], s))
<1> DEFINE s == tree_with_comments(data.text, n)
<1>1. NodeSetOK(data.text, s) /\ s.vis = <<>> /\ s.noattrs \in BOOLEAN
  <2>1. Subtree(data.text, n) \in SUBSET Nodes(data.text)
    BY DEF Subtree
  <2>2. NodeSetOK(data.text, s)
    BY <2>1, NodeSetsOK DEF tree_with_comments
  <2>3. s.vis = <<>> /\ s.noattrs = FALSE
    BY DEF tree_with_comments, NodeSet
  <2> QED BY <2>2, <2>3
<1> HIDE DEF s
<1>2. data.set # <<>> => NodeSetOK(data.text, intersection(data.set[1], s))
  BY <1>1, IntersectionOK DEF ValueOK
<1> QED BY <1>1, <1>2 DEF s

\* XPath Filter 2.0 hands on a node set of the text.
LEMMA Filter2OK ==
    ASSUME ValueOK(data), NEW t \in TRANSFORMS, t.alg = "xpath2", Filter2Supported(t)
    PROVE  /\ NodeSetOK(data.text, intersection(SetOf(data), FilterNodes(data.text, SIGNED, HERE, t.filters)))
           /\ FoldOK(data.text, SIGNED, HERE, t.filters, Len(t.filters),
                     FilterNodes(data.text, SIGNED, HERE, t.filters))
<1>1. Len(t.filters) \in Nat /\ DOMAIN t.filters = 1 .. Len(t.filters)
  BY ChildrenAssumption
<1>2. \A i \in DOMAIN t.filters : t.filters[i].filter \in {"intersect", "subtract", "union"}
  BY DEF Filter2Supported
<1> DEFINE fs == t.filters
           f == FilterNodes(data.text, SIGNED, HERE, fs)
<1> HIDE DEF fs
<1>3. FoldOK(data.text, SIGNED, HERE, fs, Len(fs), f)
  BY <1>1, <1>2, FilterNodesSelects DEF fs
<1> HIDE DEF f
<1>4. f.vis = <<>> /\ f.noattrs \in BOOLEAN
  BY <1>3 DEF FoldOK
<1>5. NodeSetOK(data.text, intersection(SetOf(data), f))
  BY <1>4, SetOfOK, IntersectionOK
<1> QED BY <1>3, <1>5 DEF f, fs

\* Every transform makes a well-formed value of one.
LEMMA OutcomeOK ==
    ASSUME ValueOK(data), NEW t \in TRANSFORMS, NEW v, Outcome(t, v)
    PROVE  ValueOK(v)
<1>1. CASE IsEnvelope(t) /\ data.form = "xml" /\ v = RemoveSignature(data)
  BY <1>1, RemoveOK
<1>2. CASE v = Octets(data, t.mode)
  BY <1>2, BinOK DEF Octets, Serialized
<1>3. CASE v = BinData(<<>>, DecodedFrom(data))
  BY <1>3, BinOK
<1>4. CASE /\ data.text # <<>>
           /\ v = XmlData(data.text, <<ParsedFilter(data.text, SIGNED, HERE, t.expr, data.set)>>)
  BY <1>4, XmlOK, ParsedFilterOK
<1>5. CASE /\ data.text # <<>>
           /\ v = XmlData(data.text, <<CompoundFilter(data.text, SIGNED, HERE, t.expr, data.set)>>)
  <2>1. NodeSetOK(data.text, CompoundFilter(data.text, SIGNED, HERE, t.expr, data.set))
    BY NodeSetsOK DEF CompoundFilter
  <2> QED BY <1>5, <2>1, XmlOK
<1>6. CASE /\ data.form = "xml"
           /\ \E n \in Nodes(data.text) :
                LET s == tree_with_comments(data.text, n)
                IN  v = XmlData(data.text, <<IF data.set = <<>> THEN s ELSE intersection(data.set[1], s)>>)
  <2>1. PICK n \in Nodes(data.text) :
                LET s == tree_with_comments(data.text, n)
                IN  v = XmlData(data.text, <<IF data.set = <<>> THEN s ELSE intersection(data.set[1], s)>>)
    BY <1>6
  <2> DEFINE s == tree_with_comments(data.text, n)
             z == IF data.set = <<>> THEN s ELSE intersection(data.set[1], s)
  <2>2. NodeSetOK(data.text, z) /\ v = XmlData(data.text, <<z>>)
    BY <2>1, XPointerOK
  <2> HIDE DEF z
  <2> QED BY <1>6, <2>2, XmlOK DEF ValueOK
<1>7. CASE /\ t.alg = "xpath2" /\ data.form = "xml" /\ Filter2Supported(t)
           /\ LET i == IF data.set = <<>> THEN all(data.text) ELSE data.set[1]
              IN  v = XmlData(data.text, <<intersection(i, FilterNodes(data.text, SIGNED, HERE, t.filters))>>)
  <2>1. v = XmlData(data.text, <<intersection(SetOf(data), FilterNodes(data.text, SIGNED, HERE, t.filters))>>)
    BY <1>7 DEF SetOf
  <2> QED BY <1>7, <2>1, Filter2OK, XmlOK DEF ValueOK
<1>8. CASE v = BinData(apply_relationship_transform(data.text, t), {})
  BY <1>8, BinOK
<1>9. CASE v = Serialized(apply_minimal_xslt(data.text, t.sheet))
  BY <1>9, BinOK DEF Serialized
<1> QED BY <1>1, <1>2, <1>3, <1>4, <1>5, <1>6, <1>7, <1>8, <1>9 DEF Outcome

-----------------------------------------------------------------------------
(* The type invariant.                                                     *)

TInv == TTypeOK /\ ValueOK(data)

\* The type of everything but the value, which ValueOK is about.
LEMMA TypeFromValue ==
    (/\ uri \in URIS /\ chain \in Seq(TRANSFORMS) /\ Len(chain) <= MAXCHAIN
     /\ status \in {"run", "digested", "failed"} /\ ValueOK(data)) => TInv
BY DEF TInv, TTypeOK, ValueOK, NodeSetOK

\* resolve_reference_uri gives well-formed values.
LEMMA ResolvedOK ==
    ASSUME NEW u \in URIS, NEW v \in resolve_reference_uri(u)
    PROVE  /\ ValueOK(v) /\ ParsedOK(v.text)
           /\ u.op # "external" => v.form = "xml" /\ v.text = SIGNED
           /\ u.op \in {"document", "id"} =>
                 v.set # <<>> /\ v.set[1].nodes \subseteq {n \in Nodes(SIGNED) : SIGNED[n].k # "comment"}
<1>0. SIGNED # <<>> /\ ParsedOK(SIGNED)
  BY TransformsAssumption, DocumentsAssumption DEF Nodes
<1> DEFINE plain == {n \in Nodes(SIGNED) : SIGNED[n].k # "comment"}
<1>x. ASSUME NEW ids \in SUBSET Nodes(SIGNED)
      PROVE  LET w == XmlData(SIGNED, <<NodeSet(ids)>>)
             IN  ValueOK(w) /\ w.text = SIGNED /\ w.form = "xml" /\ w.set # <<>> /\ w.set[1].nodes = ids
  <2>1. ValueOK(XmlData(SIGNED, <<NodeSet(ids)>>))
    BY <1>0, NodeSetsOK, XmlOK
  <2>2. NodeSet(ids).nodes = ids
    BY DEF NodeSet
  <2> QED BY <2>1, <2>2 DEF XmlData
<1>y. \A n : Subtree(SIGNED, n) \in SUBSET Nodes(SIGNED)
  BY DEF Subtree
<1>1. CASE u.op = "document"
  <2>1. v = XmlData(SIGNED, <<NodeSet(plain)>>)
    BY <1>1 DEF resolve_reference_uri, all_without_comments, NoComments
  <2> QED BY <1>0, <1>1, <2>1, <1>x
<1>2. CASE u.op = "all"
  <2>1. v = XmlData(SIGNED, <<>>)
    BY <1>2 DEF resolve_reference_uri
  <2> QED BY <1>0, <1>2, <2>1 DEF XmlData, ValueOK
<1>3. CASE u.op = "id"
  <2>1. PICK n \in Carriers(SIGNED, u.value) : v = XmlData(SIGNED, <<tree_without_comments(SIGNED, n)>>)
    BY <1>3 DEF resolve_reference_uri
  <2> DEFINE ids == {k \in Subtree(SIGNED, n) : SIGNED[k].k # "comment"}
  <2>2. v = XmlData(SIGNED, <<NodeSet(ids)>>)
    BY <2>1 DEF tree_without_comments, NoComments
  <2>3. ids \subseteq plain /\ ids \in SUBSET Nodes(SIGNED)
    BY <1>y
  <2> HIDE DEF ids
  <2> QED BY <1>0, <1>3, <2>2, <2>3, <1>x
<1>4. CASE u.op = "xpointer-id"
  <2>1. PICK n \in Carriers(SIGNED, u.value) : v = XmlData(SIGNED, <<NodeSet(Subtree(SIGNED, n))>>)
    BY <1>4 DEF resolve_reference_uri, tree_with_comments
  <2> QED BY <1>0, <1>4, <2>1, <1>x, <1>y
<1>5. CASE u.op = "external"
  <2>1. PICK t \in u.found : v = BinData(t, IF t = <<>> THEN {<<"octets", 1>>} ELSE {})
    BY <1>5 DEF resolve_reference_uri
  <2>2. ParsedOK(t)
    BY <1>5, DocumentsAssumption
  <2>3. v.text = t
    BY <2>1 DEF BinData
  <2> QED BY <1>5, <2>1, <2>2, <2>3, BinOK
<1> QED BY <1>1, <1>2, <1>3, <1>4, <1>5, DocumentsAssumption

\* A resolved reference is well-typed.
LEMMA TypeInit == Init => TInv
<1> SUFFICES ASSUME Init PROVE TInv
  OBVIOUS
<1>1. PICK u \in URIS : /\ uri = u /\ chain = <<>>
                        /\ LET r == resolve_reference_uri(u)
                           IN  \/ r # {} /\ status = "run" /\ data \in r
                               \/ r = {} /\ status = "failed" /\ data = BinData(<<>>, {})
  BY DEF Init
<1>2. ValueOK(data)
  BY <1>1, ResolvedOK, BinOK
<1>3. uri \in URIS /\ chain \in Seq(TRANSFORMS) /\ Len(chain) <= MAXCHAIN /\ status \in {"run", "failed"}
  BY <1>1, TransformsAssumption
<1> QED BY <1>2, <1>3, TypeFromValue

\* Every step keeps the types.
LEMMA TypeStep == TInv /\ [Next]_vars => TInv'
<1> SUFFICES ASSUME TInv, [Next]_vars PROVE TInv'
  OBVIOUS
<1>0. /\ uri \in URIS /\ chain \in Seq(TRANSFORMS) /\ Len(chain) <= MAXCHAIN
      /\ status \in {"run", "digested", "failed"} /\ ValueOK(data)
  BY DEF TInv, TTypeOK
<1> SUFFICES /\ uri' \in URIS /\ chain' \in Seq(TRANSFORMS) /\ Len(chain') <= MAXCHAIN
             /\ status' \in {"run", "digested", "failed"} /\ ValueOK(data)'
  BY TypeFromValue DEF TInv, TTypeOK, ValueOK, NodeSetOK
<1>1. ASSUME NEW t \in TRANSFORMS, Taken(t)
      PROVE  /\ uri' \in URIS /\ chain' \in Seq(TRANSFORMS) /\ Len(chain') <= MAXCHAIN
             /\ status' \in {"run", "digested", "failed"} /\ ValueOK(data)'
  <2>1. chain' = Append(chain, t) /\ Len(chain) < MAXCHAIN /\ uri' = uri
    BY <1>1 DEF Taken, Becomes, Fails
  <2>2. chain' \in Seq(TRANSFORMS) /\ Len(chain') <= MAXCHAIN
    BY <1>0, <2>1, TransformsAssumption
  <2>3. CASE \E v : Outcome(t, v) /\ Becomes(t, v)
    <3>1. PICK v : Outcome(t, v) /\ Becomes(t, v)
      BY <2>3
    <3>2. ValueOK(v) /\ data' = v /\ status' = status
      BY <1>0, <3>1, OutcomeOK DEF Becomes
    <3>3. ValueOK(data')
      BY <3>2
    <3> QED BY <1>0, <2>1, <2>2, <3>2, <3>3 DEF ValueOK
  <2>4. CASE Fails(t)
    <3>1. data' = data /\ status' = "failed"
      BY <2>4 DEF Fails
    <3> QED BY <1>0, <2>1, <2>2, <3>1 DEF ValueOK
  <2> QED BY <1>1, <2>3, <2>4 DEF Taken
<1>2. CASE Digest
  <2>1. ValueOK(data')
    BY <1>0, <1>2, BinOK DEF Digest, Octets, Serialized
  <2> QED BY <1>0, <1>2, <2>1 DEF Digest, ValueOK
<1>3. CASE UNCHANGED vars
  BY <1>0, <1>3 DEF vars, ValueOK
<1> QED BY <1>1, <1>2, <1>3, Steps

\* The type invariant of a reference: a node set belongs to the text it travels with, through
\* every chain of transforms of any length (NodeIds never outlive their parse).
THEOREM TransformTypeCorrect == Spec => []TTypeOK
<1>1. Init => TInv
  BY TypeInit
<1>2. TInv /\ [Next]_vars => TInv'
  BY TypeStep
<1>3. TInv => TTypeOK
  BY DEF TInv
<1> QED BY <1>1, <1>2, <1>3, PTL DEF Spec

-----------------------------------------------------------------------------
(* What the filters select and what they leave out.                        *)

\* A step that makes the chain longer and does not fail has taken its last transform.
LEMMA LastTaken ==
    ASSUME TInv, [Next]_vars, Len(chain') > Len(chain) \/ Len(chain') = Len(chain) + 1, status' = "run"
    PROVE  \E t \in TRANSFORMS :
              /\ Outcome(t, data') /\ chain' = Append(chain, t) /\ uri' = uri /\ status = "run"
              /\ Last(chain') = t /\ chain'[Len(chain')] = t
<1>0. chain \in Seq(TRANSFORMS) /\ Len(chain) \in Nat
  BY DEF TInv, TTypeOK
<1>1. ~Digest /\ ~UNCHANGED vars
  BY <1>0 DEF Digest, vars
<1>2. PICK t \in TRANSFORMS : Taken(t)
  BY <1>1, Steps
<1>3. ~Fails(t)
  BY DEF Fails
<1>4. Outcome(t, data') /\ chain' = Append(chain, t) /\ uri' = uri /\ status = "run"
  BY <1>2, <1>3 DEF Taken, Becomes
<1>5. chain'[Len(chain')] = t
  BY <1>0, <1>4
<1> QED BY <1>4, <1>5 DEF Last

\* An intersection with a set without marks keeps the marks.
LEMMA IntersectionMarks ==
    ASSUME NEW s, NEW t, t.vis = <<>>
    PROVE  /\ intersection(s, t).vis = s.vis
           /\ s.noattrs => intersection(s, t).noattrs
           /\ intersection(s, t).nodes = s.nodes \intersect t.nodes
BY DEF intersection, merge_ns_visible_intersection

\* The marks of a value's node set are those of the node set before.
SameMarks(s, r) == r.vis = s.vis /\ (s.noattrs => r.noattrs)

\* Every transform but an XPath expression keeps the marks.
LEMMA OutcomeMarks ==
    ASSUME ValueOK(data), NEW t \in TRANSFORMS, NEW v, Outcome(t, v), data.set # <<>>, v.set # <<>>,
           t.alg # "xpath" \/ IsEnvelope(t)
    PROVE  SameMarks(data.set[1], v.set[1])
<1>1. CASE IsEnvelope(t) /\ data.form = "xml" /\ v = RemoveSignature(data)
  BY <1>1, RemoveOK DEF SetOf, SameMarks
<1>2. CASE \E c, from : v = BinData(c, from)
  BY <1>2 DEF BinData
<1>3. CASE /\ data.form = "xml"
           /\ \E n \in Nodes(data.text) :
                LET s == tree_with_comments(data.text, n)
                IN  v = XmlData(data.text, <<IF data.set = <<>> THEN s ELSE intersection(data.set[1], s)>>)
  <2>1. PICK n \in Nodes(data.text) : v = XmlData(data.text, <<intersection(data.set[1], tree_with_comments(data.text, n))>>)
    BY <1>3
  <2>2. tree_with_comments(data.text, n).vis = <<>>
    BY DEF tree_with_comments, NodeSet
  <2>3. v.set[1] = intersection(data.set[1], tree_with_comments(data.text, n))
    BY <2>1 DEF XmlData
  <2> QED BY <2>2, <2>3, IntersectionMarks DEF SameMarks
<1>4. CASE /\ t.alg = "xpath2" /\ Filter2Supported(t)
           /\ v = XmlData(data.text, <<intersection(data.set[1], FilterNodes(data.text, SIGNED, HERE, t.filters))>>)
  <2>1. v.set[1] = intersection(data.set[1], FilterNodes(data.text, SIGNED, HERE, t.filters))
    BY <1>4 DEF XmlData
  <2>2. FilterNodes(data.text, SIGNED, HERE, t.filters).vis = <<>>
    BY <1>4, Filter2OK DEF FoldOK
  <2> QED BY <2>1, <2>2, IntersectionMarks DEF SameMarks
<1>5. CASE v = data
  BY <1>5 DEF SameMarks
<1>6. ASSUME NEW c PROVE \E k, from : Serialized(c) = BinData(k, from)
  BY DEF Serialized
<1> QED BY <1>1, <1>2, <1>3, <1>4, <1>5, <1>6 DEF Outcome, Octets

\* MarksKept for every chain: no transform but an XPath expression makes a namespace node or
\* the attribute nodes visible again (NodeSet::intersection, remove_subtree).
THEOREM MarksStayOut == Spec => MarksKept
<1> DEFINE Kept == (/\ Len(chain') > Len(chain) /\ status' = "run" /\ data.set # <<>> /\ data'.set # <<>>
                    /\ Last(chain').alg # "xpath" \/ IsEnvelope(Last(chain')))
                   => /\ excludes_attrs(data.set) => excludes_attrs(data'.set)
                      /\ \A n \in data'.set[1].nodes : IsElem(data.text, n) => \A q \in InScope(data.text, n) :
                           is_ns_visible(data'.set[1], n, q) => is_ns_visible(data.set[1], n, q)
<1>1. ASSUME TInv, [Next]_vars PROVE Kept
  <2> SUFFICES ASSUME Len(chain') > Len(chain), status' = "run", data.set # <<>>, data'.set # <<>>,
                      Last(chain').alg # "xpath" \/ IsEnvelope(Last(chain'))
               PROVE  /\ excludes_attrs(data.set) => excludes_attrs(data'.set)
                      /\ \A n \in data'.set[1].nodes : IsElem(data.text, n) => \A q \in InScope(data.text, n) :
                           is_ns_visible(data'.set[1], n, q) => is_ns_visible(data.set[1], n, q)
    OBVIOUS
  <2>1. PICK t \in TRANSFORMS : Outcome(t, data') /\ Last(chain') = t
    BY <1>1, LastTaken
  <2>2. ValueOK(data)
    BY <1>1 DEF TInv
  <2>3. SameMarks(data.set[1], data'.set[1])
    BY <2>1, <2>2, OutcomeMarks
  <2> QED BY <2>3 DEF SameMarks, excludes_attrs, is_ns_visible
<1>2. Init => TInv
  BY TypeInit
<1>3. TInv /\ [Next]_vars => TInv'
  BY TypeStep
<1>4. TInv /\ [Next]_vars => [Kept]_vars
  BY <1>1
<1> QED BY <1>2, <1>3, <1>4, PTL DEF Spec, MarksKept

\* Filter2Exact for any number of filters on any document: the fold of
\* apply_xpath_filter2_transform selects, node by node, what XPath Filter 2.0 defines.
THEOREM FiltersExact == Spec => Filter2Exact
<1> DEFINE Exact == (Stepped("xpath2") /\ data.form = "xml") =>
                       data'.set[1].nodes = {n \in Input : FilteredIn(n, chain'[Len(chain')].filters)}
<1>1. ASSUME TInv, [Next]_vars PROVE Exact
  <2> SUFFICES ASSUME Stepped("xpath2"), data.form = "xml"
               PROVE  data'.set[1].nodes = {n \in Input : FilteredIn(n, chain'[Len(chain')].filters)}
    OBVIOUS
  <2>1. PICK t \in TRANSFORMS : Outcome(t, data') /\ chain'[Len(chain')] = t
    BY <1>1, LastTaken DEF Stepped
  <2>2. t.alg = "xpath2" /\ ValueOK(data)
    BY <1>1, <2>1 DEF Stepped, TInv
  <2> DEFINE fs == t.filters
             f == FilterNodes(data.text, SIGNED, HERE, fs)
  <2>3. Filter2Supported(t) /\ data' = XmlData(data.text, <<intersection(SetOf(data), f)>>)
    BY <2>1, <2>2 DEF Outcome, IsEnvelope, SetOf
  <2>4. FoldOK(data.text, SIGNED, HERE, fs, Len(fs), f)
    BY <2>2, <2>3, Filter2OK
  <2> HIDE DEF f
  <2>5. data'.set[1].nodes = SetOf(data).nodes \intersect f.nodes
    BY <2>3 DEF XmlData, intersection
  <2>6. SetOf(data).nodes = Input /\ Input \subseteq Nodes(data.text)
    BY <2>2 DEF SetOf, Input, all, NodeSet, ValueOK, NodeSetOK
  <2>7. \A n : FilteredIn(n, fs) <=> InAfter(data.text, SIGNED, HERE, fs, Len(fs), n)
    BY DEF FilteredIn, InAfter, Selected
  <2>8. \A n \in Input : n \in f.nodes <=> FilteredIn(n, fs)
    BY <2>4, <2>6, <2>7 DEF FoldOK
  <2>9. data'.set[1].nodes = {n \in Input : FilteredIn(n, fs)}
    BY <2>5, <2>6, <2>8
  <2> QED BY <2>1, <2>9
<1>2. Init => TInv
  BY TypeInit
<1>3. TInv /\ [Next]_vars => TInv'
  BY TypeStep
<1>4. TInv /\ [Next]_vars => [Exact]_vars
  BY <1>1
<1> QED BY <1>2, <1>3, <1>4, PTL DEF Spec, Filter2Exact

-----------------------------------------------------------------------------
(* What a value stands for.                                                *)

\* Everything the text and the octets of a value stand for, in the node set or not.
Whole(v) == AllOrig(v.text) \union v.from

\* The text c as octets, parsed or not.
OctetsOf(v, c) == /\ v.form = "bin" /\ ParsedOK(v.text)
                  /\ \/ v.text = c /\ v.from = {}
                     \/ v.text = <<>> /\ v.from = AllOrig(c)

\* A node of the new document u comes from nodes of d that are no comments.
FromContent(d, u) ==
    \A k \in Nodes(u) : \A x \in u[k].orig : \E n \in Nodes(d) : x \in d[n].orig /\ d[n].k # "comment"

\* The four ways in which a transform makes a value v of w.
Filtered(w, v) == /\ v.form = "xml" /\ v.text = w.text /\ v.from = {} /\ v.set # <<>>
                  /\ v.set[1].nodes \subseteq SetOf(w).nodes
Canonical(w, v) == \E c : OctetsOf(v, c) /\ FromVisible(w.text, w.set, c)
Decoded(w, v) == v.form = "bin" /\ v.text = <<>> /\ v.from = DecodedFrom(w)
Rewritten(w, v) == \E c : OctetsOf(v, c) /\ FromContent(w.text, c)

\* The empty text is a document, that of octets that do not parse.
LEMMA EmptyOK == ParsedOK(<<>>) /\ AllOrig(<<>>) = {}
<1>1. Len(<<>>) = 0 /\ DOMAIN <<>> = {}
  OBVIOUS
<1> QED BY <1>1 DEF ParsedOK, DocumentOK, TreeOK, DeclsOK, Nodes, AllOrig

\* Text that is written is read again, when it has a document element, or kept as octets.
LEMMA SerializedOctets == ASSUME NEW c, DocumentOK(c), TreeOK(c), DeclsOK(c) PROVE OctetsOf(Serialized(c), c)
<1>1. WellFormed(c) => Rooted(c)
  <2> DEFINE S == {n \in Nodes(c) : c[n].p = 1 /\ c[n].k = "elem"}
  <2>1. Cardinality({}) = 0
    BY FS_EmptySet
  <2>2. Cardinality(S) = 1 => S # {}
    <3> HIDE DEF S
    <3> QED BY <2>1
  <2> QED BY <2>2 DEF WellFormed, Rooted, IsElem
<1> QED BY <1>1, EmptyOK DEF Serialized, OctetsOf, BinData, ParsedOK

\* Canonicalization and to_binary write text that stands for visible nodes.
LEMMA OctetsCanonical ==
    ASSUME NEW v, ParsedOK(v.text), NEW m
    PROVE  Canonical(v, Octets(v, m))
<1> DEFINE c == canonicalize(v.text, v.set, m)
<1>1. DocumentOK(c) /\ TreeOK(c) /\ DeclsOK(c) /\ FromVisible(v.text, v.set, c)
  BY CanonicalNarrows, CanonicalTree, CanonicalDecls DEF ParsedOK
<1> HIDE DEF c
<1>2. OctetsOf(Serialized(c), c)
  BY <1>1, SerializedOctets
<1> QED BY <1>1, <1>2 DEF Canonical, Octets, c

\* A filtered value from its node set.
LEMMA XmlFiltered ==
    ASSUME NEW w, NEW s, s.nodes \subseteq SetOf(w).nodes
    PROVE  Filtered(w, XmlData(w.text, <<s>>))
BY DEF Filtered, XmlData

\* Every transform works in one of these ways.
LEMMA OutcomeShape ==
    ASSUME ValueOK(data), ParsedOK(data.text), NEW t \in TRANSFORMS, NEW v, Outcome(t, v)
    PROVE  \/ t.alg = "c14n" /\ Canonical(data, v)
           \/ Rewrites(t) /\ Rewritten(data, v)
           \/ /\ t.alg # "c14n" /\ ~Rewrites(t)
              /\ \/ Filtered(data, v) /\ (IsEnvelope(t) => v = RemoveSignature(data))
                 \/ ~IsEnvelope(t) /\ Decoded(data, v) /\ t.alg = "base64"
                 \/ ~IsEnvelope(t) /\ v = data
<1> DEFINE Way == \/ t.alg = "c14n" /\ Canonical(data, v)
                  \/ Rewrites(t) /\ Rewritten(data, v)
                  \/ /\ t.alg # "c14n" /\ ~Rewrites(t)
                     /\ \/ Filtered(data, v) /\ (IsEnvelope(t) => v = RemoveSignature(data))
                        \/ ~IsEnvelope(t) /\ Decoded(data, v) /\ t.alg = "base64"
                        \/ ~IsEnvelope(t) /\ v = data
<1> SUFFICES Way
  OBVIOUS
<1>0. IsEnvelope(t) => t.alg \in {"enveloped", "xpath"}
  BY DEF IsEnvelope
<1>1. CASE IsEnvelope(t) /\ data.form = "xml" /\ v = RemoveSignature(data)
  <2>1. Filtered(data, v)
    <3>1. v.from = {}
      BY <1>1 DEF RemoveSignature, XmlData
    <3> QED BY <1>1, <3>1, RemoveOK DEF Filtered
  <2> QED BY <1>0, <1>1, <2>1 DEF Rewrites
<1>2. CASE t.alg = "c14n" /\ v = Octets(data, t.mode)
  <2>1. Canonical(data, v)
    BY <1>2, OctetsCanonical
  <2> QED BY <1>2, <2>1
<1>3. CASE t.alg = "base64" /\ v = BinData(<<>>, DecodedFrom(data))
  <2>1. Decoded(data, v)
    BY <1>3 DEF Decoded, BinData
  <2> QED BY <1>0, <1>3, <2>1 DEF Rewrites
<1>4. CASE /\ t.alg = "xpath" /\ ~IsEnvelope(t)
           /\ v = XmlData(data.text, <<ParsedFilter(data.text, SIGNED, HERE, t.expr, data.set)>>)
  <2>1. ParsedFilter(data.text, SIGNED, HERE, t.expr, data.set).nodes \subseteq SetOf(data).nodes
    BY DEF ParsedFilter, SetOf, all, NodeSet
  <2>2. Filtered(data, v)
    BY <1>4, <2>1, XmlFiltered
  <2> QED BY <1>4, <2>2 DEF Rewrites
<1>5. CASE /\ t.alg = "xpath" /\ ~IsEnvelope(t)
           /\ v = XmlData(data.text, <<CompoundFilter(data.text, SIGNED, HERE, t.expr, data.set)>>)
  <2>1. CompoundFilter(data.text, SIGNED, HERE, t.expr, data.set).nodes \subseteq SetOf(data).nodes
    BY DEF CompoundFilter, SetOf, all, NodeSet
  <2>2. Filtered(data, v)
    BY <1>5, <2>1, XmlFiltered
  <2> QED BY <1>5, <2>2 DEF Rewrites
<1>6. CASE /\ t.alg = "xpointer" /\ data.form = "xml"
           /\ \E n \in Nodes(data.text) :
                LET s == tree_with_comments(data.text, n)
                IN  v = XmlData(data.text, <<IF data.set = <<>> THEN s ELSE intersection(data.set[1], s)>>)
  <2>1. PICK n \in Nodes(data.text) :
                LET s == tree_with_comments(data.text, n)
                IN  v = XmlData(data.text, <<IF data.set = <<>> THEN s ELSE intersection(data.set[1], s)>>)
    BY <1>6
  <2> DEFINE s == tree_with_comments(data.text, n)
             z == IF data.set = <<>> THEN s ELSE intersection(data.set[1], s)
  <2>2. z.nodes \subseteq SetOf(data).nodes
    <3>1. s.nodes \subseteq Nodes(data.text)
      BY DEF tree_with_comments, NodeSet, Subtree
    <3> HIDE DEF s
    <3> QED BY <3>1 DEF SetOf, all, NodeSet, intersection
  <2>3. v = XmlData(data.text, <<z>>)
    BY <2>1
  <2> HIDE DEF z
  <2>4. Filtered(data, v)
    BY <2>2, <2>3, XmlFiltered
  <2> QED BY <1>0, <1>6, <2>4 DEF Rewrites
<1>7. CASE /\ t.alg = "xpath2"
           /\ LET i == IF data.set = <<>> THEN all(data.text) ELSE data.set[1]
              IN  v = XmlData(data.text, <<intersection(i, FilterNodes(data.text, SIGNED, HERE, t.filters))>>)
  <2> DEFINE f == FilterNodes(data.text, SIGNED, HERE, t.filters)
  <2>1. v = XmlData(data.text, <<intersection(SetOf(data), f)>>)
    BY <1>7 DEF SetOf
  <2>2. intersection(SetOf(data), f).nodes \subseteq SetOf(data).nodes
    BY DEF intersection
  <2>3. Filtered(data, v)
    BY <2>1, <2>2, XmlFiltered
  <2> QED BY <1>0, <1>7, <2>3 DEF Rewrites
<1>8. CASE t.alg = "relationship" /\ v = BinData(apply_relationship_transform(data.text, t), {})
  <2> DEFINE u == apply_relationship_transform(data.text, t)
  <2>1. /\ DOMAIN t.order \subseteq Nat
        /\ \A i, j \in DOMAIN t.order : t.order[i] = t.order[j] => i = j
    BY <1>8, ChildrenAssumption
  <2>2. ParsedOK(u) /\ FromContent(data.text, u)
    BY <2>1, RelationshipNarrows DEF FromContent, IsElem, ParsedOK
  <2> HIDE DEF u
  <2>3. OctetsOf(v, u)
    BY <1>8, <2>2 DEF OctetsOf, BinData, u
  <2> QED BY <1>8, <2>2, <2>3 DEF Rewrites, Rewritten
<1>9. CASE t.alg \in {"xpointer", "xpath2"} /\ v = data
  BY <1>0, <1>9 DEF Rewrites
<1>10. CASE t.alg = "xslt" /\ IsIdentity(t.sheet) /\ v = data
  BY <1>0, <1>10 DEF Rewrites
<1>11. CASE /\ t.alg = "xslt" /\ ~IsIdentity(t.sheet) /\ data.text # <<>>
            /\ v = Serialized(apply_minimal_xslt(data.text, t.sheet))
  <2> DEFINE u == apply_minimal_xslt(data.text, t.sheet)
  <2>1. SheetOK(t.sheet) /\ DocumentOK(data.text) /\ TreeOK(data.text) /\ DeclsOK(data.text) /\ Rooted(data.text)
    BY <1>11, ChildrenAssumption DEF ParsedOK
  <2>2. DocumentOK(u) /\ TreeOK(u) /\ DeclsOK(u) /\ FromContent(data.text, u)
    BY <2>1, StylesheetNarrows DEF FromContent
  <2> HIDE DEF u
  <2>3. OctetsOf(v, u)
    BY <1>11, <2>2, SerializedOctets DEF u
  <2> QED BY <1>11, <2>2, <2>3 DEF Rewrites, Rewritten
<1> HIDE DEF Way
<1> QED BY <1>1, <1>2, <1>3, <1>4, <1>5, <1>6, <1>7, <1>8, <1>9, <1>10, <1>11 DEF Outcome

\* The nodes in the node set of a value are what it stands for.
LEMMA VisibleOrigin ==
    ASSUME NEW v, ValueOK(v)
    PROVE  /\ Origin(v) \subseteq Whole(v)
           /\ \A n \in Nodes(v.text) : is_visible(v.set, n) => v.text[n].orig \subseteq Origin(v)
           /\ v.set = <<>> => Origin(v) = Whole(v)
BY DEF Origin, Whole, AllOrig, is_visible, ValueOK, NodeSetOK

\* Octets stand for what their text stands for.
LEMMA OctetsOrigin ==
    ASSUME NEW v, NEW c, OctetsOf(v, c)
    PROVE  Whole(v) = AllOrig(c) /\ ParsedOK(v.text)
BY EmptyOK DEF OctetsOf, Whole

\* So they leave everything else out of the whole text.
LEMMA CanonicalOrigin ==
    ASSUME NEW w, ValueOK(w), NEW v, Canonical(w, v)
    PROVE  Whole(v) \subseteq Origin(w) /\ ParsedOK(v.text)
<1>1. PICK c : OctetsOf(v, c) /\ FromVisible(w.text, w.set, c)
  BY DEF Canonical
<1>2. AllOrig(c) \subseteq Origin(w)
  BY <1>1, VisibleOrigin DEF FromVisible, AllOrig
<1> QED BY <1>1, <1>2, OctetsOrigin

\* What one transform does to what a value stands for.
LEMMA OutcomeNarrows ==
    ASSUME ValueOK(data), ParsedOK(data.text), NEW t \in TRANSFORMS, NEW v, Outcome(t, v)
    PROVE  /\ ParsedOK(v.text) /\ Origin(v) \subseteq Whole(v) /\ Whole(v) \subseteq Whole(data)
           /\ ~Rewrites(t) \/ data.set = <<>> => Origin(v) \subseteq Origin(data)
           /\ t.alg = "c14n" => Whole(v) \subseteq Origin(data)
<1>1. ValueOK(v) /\ Origin(v) \subseteq Whole(v) /\ Origin(data) \subseteq Whole(data)
  BY OutcomeOK, VisibleOrigin
<1>2. CASE t.alg = "c14n" /\ Canonical(data, v)
  BY <1>1, <1>2, CanonicalOrigin
<1>3. CASE Rewrites(t) /\ Rewritten(data, v)
  <2>1. PICK c : OctetsOf(v, c) /\ FromContent(data.text, c)
    BY <1>3 DEF Rewritten
  <2>2. AllOrig(c) \subseteq AllOrig(data.text)
    BY <2>1 DEF FromContent, AllOrig
  <2>3. Whole(v) = AllOrig(c) /\ ParsedOK(v.text) /\ Whole(v) \subseteq Whole(data)
    BY <2>1, <2>2, OctetsOrigin DEF Whole
  <2>4. t.alg # "c14n"
    BY <1>3 DEF Rewrites
  <2> QED BY <1>1, <1>3, <2>3, <2>4, VisibleOrigin
<1>4. CASE t.alg # "c14n" /\ Filtered(data, v)
  <2>1. Whole(v) \subseteq Whole(data) /\ ParsedOK(v.text)
    BY <1>4 DEF Filtered, Whole
  <2>2. Origin(v) = UNION {data.text[n].orig : n \in v.set[1].nodes}
    BY <1>4 DEF Filtered, Origin
  <2>3. SetOf(data).nodes \subseteq {n \in Nodes(data.text) : is_visible(data.set, n)}
    BY DEF SetOf, all, NodeSet, is_visible, ValueOK, NodeSetOK
  <2>4. Origin(v) \subseteq Origin(data)
    BY <1>4, <2>2, <2>3, VisibleOrigin DEF Filtered
  <2> QED BY <1>1, <1>4, <2>1, <2>4
<1>5. CASE t.alg # "c14n" /\ Decoded(data, v)
  <2>1. Whole(v) = DecodedFrom(data) /\ ParsedOK(v.text)
    BY <1>5, EmptyOK DEF Decoded, Whole
  <2>2. DecodedFrom(data) \subseteq Origin(data)
    BY VisibleOrigin DEF DecodedFrom, Origin, ValueOK
  <2> QED BY <1>1, <1>5, <2>1, <2>2
<1>6. CASE t.alg # "c14n" /\ v = data
  BY <1>1, <1>6
<1> QED BY <1>2, <1>3, <1>4, <1>5, <1>6, OutcomeShape

-----------------------------------------------------------------------------
(* What a chain digests.                                                   *)

\* The text of a value is a document.
DInv == TInv /\ ParsedOK(data.text)

\* The four kinds of steps: a transform that succeeds, one that fails, the digest of nodes and
\* steps that keep the value.
LEMMA StepKinds ==
    ASSUME DInv, [Next]_vars
    PROVE  /\ uri' = uri
           /\ \/ \E t \in TRANSFORMS : /\ Outcome(t, data') /\ chain' = Append(chain, t) /\ Last(chain') = t
                                       /\ status = "run" /\ status' = "run"
              \/ \E t \in TRANSFORMS : /\ data' = data /\ chain' = Append(chain, t)
                                       /\ status = "run" /\ status' = "failed"
              \/ Canonical(data, data') /\ chain' = chain /\ status = "run" /\ status' = "digested"
              \/ data' = data /\ chain' = chain /\ (status' = status \/ (status = "run" /\ status' = "digested"))
<1>0. chain \in Seq(TRANSFORMS) /\ ParsedOK(data.text)
  BY DEF DInv, TInv, TTypeOK
<1>1. ASSUME NEW t \in TRANSFORMS, Taken(t), ~Fails(t)
      PROVE  /\ Outcome(t, data') /\ chain' = Append(chain, t) /\ Last(chain') = t
             /\ status = "run" /\ status' = "run" /\ uri' = uri
  <2>1. Outcome(t, data') /\ chain' = Append(chain, t) /\ status = "run" /\ status' = "run" /\ uri' = uri
    BY <1>1 DEF Taken, Becomes
  <2>2. Last(chain') = t
    BY <1>0, <2>1 DEF Last
  <2> QED BY <2>1, <2>2
<1>2. ASSUME NEW t \in TRANSFORMS, Taken(t), Fails(t)
      PROVE  data' = data /\ chain' = Append(chain, t) /\ status = "run" /\ status' = "failed" /\ uri' = uri
  BY <1>2 DEF Taken, Fails
<1>3. CASE Digest
  <2>1. data.form # "bin" => Canonical(data, data')
    BY <1>0, <1>3, OctetsCanonical DEF Digest
  <2> QED BY <1>3, <2>1 DEF Digest
<1>4. ASSUME UNCHANGED vars PROVE data' = data /\ chain' = chain /\ uri' = uri /\ status' = status
  BY <1>4 DEF vars
<1>5. CASE \E t \in TRANSFORMS : Taken(t) /\ ~Fails(t)
  BY <1>1, <1>5
<1>6. CASE \E t \in TRANSFORMS : Taken(t) /\ Fails(t)
  BY <1>2, <1>6
<1>7. CASE UNCHANGED vars
  BY <1>4, <1>7
<1> QED BY <1>3, <1>5, <1>6, <1>7, Steps

\* One step: the text stays a document, and nothing is brought back.
LEMMA StepNarrows ==
    ASSUME DInv, [Next]_vars
    PROVE  /\ DInv' /\ Whole(data') \subseteq Whole(data)
           /\ (Len(chain') > Len(chain) /\ Rewrites(Last(chain')) => data.set = <<>>)
                 => Origin(data') \subseteq Origin(data)
<1>0. TInv' /\ ValueOK(data) /\ ParsedOK(data.text) /\ chain \in Seq(TRANSFORMS)
  BY TypeStep DEF DInv, TInv, TTypeOK
<1>1. ASSUME NEW t \in TRANSFORMS, Outcome(t, data'), chain' = Append(chain, t), Last(chain') = t
      PROVE  /\ ParsedOK(data'.text) /\ Whole(data') \subseteq Whole(data)
             /\ (Len(chain') > Len(chain) /\ Rewrites(Last(chain')) => data.set = <<>>)
                   => Origin(data') \subseteq Origin(data)
  <2>1. Len(chain') > Len(chain)
    BY <1>0, <1>1
  <2>2. /\ ParsedOK(data'.text) /\ Whole(data') \subseteq Whole(data)
        /\ ~Rewrites(t) \/ data.set = <<>> => Origin(data') \subseteq Origin(data)
    BY <1>0, <1>1, OutcomeNarrows
  <2> QED BY <1>1, <2>1, <2>2
<1>2. CASE Canonical(data, data')
  <2>1. ValueOK(data')
    BY <1>0 DEF TInv, ValueOK
  <2>2. Whole(data') \subseteq Origin(data) /\ ParsedOK(data'.text)
    BY <1>0, <1>2, CanonicalOrigin
  <2>3. Origin(data') \subseteq Whole(data') /\ Origin(data) \subseteq Whole(data)
    BY <1>0, <2>1, VisibleOrigin
  <2> QED BY <1>0, <2>2, <2>3 DEF DInv
<1>3. ParsedOK(data'.text) => ParsedOK(data.text)'
  OBVIOUS
<1> QED BY <1>0, <1>1, <1>2, <1>3, StepKinds DEF DInv

\* The text of a resolved reference is a document.
LEMMA DocumentInit == Init => DInv
BY TypeInit, ResolvedOK, EmptyOK DEF Init, DInv, BinData

\* Narrowing for every document, stylesheet and chain: no filter, canonicalization, second
\* parse, relationship or XSLT transform brings back what an earlier step has left out.
THEOREM ChainsNarrow == Spec => Narrowing
<1> DEFINE Narrows == (Len(chain') > Len(chain) /\ Rewrites(Last(chain')) => data.set = <<>>)
                         => Origin(data') \subseteq Origin(data)
<1>1. Init => DInv
  BY DocumentInit
<1>2. DInv /\ [Next]_vars => DInv' /\ Narrows
  BY StepNarrows
<1>3. DInv /\ [Next]_vars => [Narrows]_vars
  BY <1>2
<1> QED BY <1>1, <1>2, <1>3, PTL DEF Spec, Narrowing

\* No comment of the signed document is in the value, nor in its text but in comments.
CommentFree(v) ==
    /\ Origin(v) \intersect CommentOrig = {}
    /\ \A n \in Nodes(v.text) : v.text[n].k # "comment" => v.text[n].orig \intersect CommentOrig = {}

\* Text without the comments is free of them in either sense.
LEMMA WholeCommentFree ==
    ASSUME NEW v, Origin(v) \subseteq Whole(v), Whole(v) \intersect CommentOrig = {}
    PROVE  CommentFree(v)
BY DEF CommentFree, Whole, AllOrig

\* No transform brings a comment back.
LEMMA OutcomeCommentFree ==
    ASSUME ValueOK(data), ParsedOK(data.text), NEW t \in TRANSFORMS, NEW v, Outcome(t, v),
           CommentFree(data)
    PROVE  CommentFree(v)
<1>0. Origin(v) \subseteq Whole(v) /\ (~Rewrites(t) => Origin(v) \subseteq Origin(data))
  BY OutcomeNarrows
<1>1. CASE t.alg = "c14n" /\ Canonical(data, v)
  BY <1>0, <1>1, CanonicalOrigin, WholeCommentFree DEF CommentFree
<1>2. CASE Rewrites(t) /\ Rewritten(data, v)
  <2>1. PICK c : OctetsOf(v, c) /\ FromContent(data.text, c)
    BY <1>2 DEF Rewritten
  <2>2. AllOrig(c) \intersect CommentOrig = {}
    BY <2>1 DEF FromContent, AllOrig, CommentFree
  <2> QED BY <1>0, <2>1, <2>2, OctetsOrigin, WholeCommentFree
<1>3. CASE ~Rewrites(t) /\ Filtered(data, v)
  BY <1>0, <1>3 DEF Filtered, CommentFree
<1>4. CASE ~Rewrites(t) /\ Decoded(data, v)
  <2>1. Nodes(v.text) = {}
    BY <1>4 DEF Decoded, Nodes
  <2> QED BY <1>0, <1>4, <2>1 DEF CommentFree
<1>5. CASE v = data
  BY <1>5
<1> QED BY <1>1, <1>2, <1>3, <1>4, <1>5, OutcomeShape

\* The inductive invariant: text joins text and new documents are made of content, so comments
\* that were left out of the node set can only come back as comments, which the set leaves out.
CommentInv == DInv /\ (uri.op \in {"document", "id"} => CommentFree(data))

\* URI="" and URI="#v" start without comments.
LEMMA CommentInit == Init => CommentInv
<1> SUFFICES ASSUME Init, uri.op \in {"document", "id"} PROVE CommentFree(data)
  BY DocumentInit DEF CommentInv
<1>1. PICK u \in URIS : /\ uri = u
                        /\ LET r == resolve_reference_uri(u)
                           IN  data \in r \/ data = BinData(<<>>, {})
  BY DEF Init
<1>2. CASE data \in resolve_reference_uri(u)
  <2>1. /\ data.text = SIGNED /\ data.form = "xml" /\ data.set # <<>>
        /\ data.set[1].nodes \subseteq {n \in Nodes(SIGNED) : SIGNED[n].k # "comment"}
    BY <1>1, <1>2, ResolvedOK
  <2>2. \A n \in Nodes(SIGNED) : SIGNED[n].k # "comment" => SIGNED[n].orig \intersect CommentOrig = {}
    BY DocumentsAssumption DEF CommentOrig
  <2> QED BY <2>1, <2>2 DEF CommentFree, Origin
<1>3. CASE data = BinData(<<>>, {})
  <2>1. Whole(data) = {} /\ Origin(data) = {}
    BY <1>3, EmptyOK DEF BinData, Whole, Origin
  <2> QED BY <2>1, WholeCommentFree
<1> QED BY <1>1, <1>2, <1>3

\* Every step keeps them out.
LEMMA CommentStep == CommentInv /\ [Next]_vars => CommentInv'
<1> SUFFICES ASSUME CommentInv, [Next]_vars PROVE CommentInv'
  OBVIOUS
<1>0. DInv /\ DInv' /\ ValueOK(data) /\ ValueOK(data') /\ ParsedOK(data.text) /\ uri' = uri
  BY StepNarrows, StepKinds DEF CommentInv, DInv, TInv, ValueOK
<1> SUFFICES ASSUME uri.op \in {"document", "id"} PROVE CommentFree(data')
  BY <1>0 DEF CommentInv, CommentFree, Origin
<1>1. CommentFree(data)
  BY DEF CommentInv
<1>2. CASE Canonical(data, data')
  BY <1>0, <1>1, <1>2, CanonicalOrigin, VisibleOrigin, WholeCommentFree DEF CommentFree
<1> QED BY <1>0, <1>1, <1>2, StepKinds, OutcomeCommentFree

\* CommentsExcluded for every document, stylesheet and chain: the comments that URI="" and
\* URI="#v" leave out are never digested (resolve_reference_uri).
THEOREM CommentsStayOut == Spec => []CommentsExcluded
<1>1. Init => CommentInv
  BY CommentInit
<1>2. CommentInv /\ [Next]_vars => CommentInv'
  BY CommentStep
<1>3. CommentInv => CommentsExcluded
  BY DEF CommentInv, CommentFree, CommentsExcluded
<1> QED BY <1>1, <1>2, <1>3, PTL DEF Spec

\* The i-th transform takes the Signature out of the signed text itself ...
Removes(i) ==
    /\ IsEnvelope(chain[i]) /\ uri.op # "external"
    /\ \A j \in 1..(i - 1) : chain[j].alg \notin {"c14n", "base64"} /\ ~Rewrites(chain[j])

\* ... no later one has written a new document of the whole text ...
NotLost(i) ==
    \A j \in (i + 1)..Len(chain) : Rewrites(chain[j]) => \E k \in (i + 1)..(j - 1) : chain[k].alg = "c14n"

\* ... and the text has been written without it.
WrittenSince(i) == \E k \in (i + 1)..Len(chain) : chain[k].alg = "c14n"

\* Until the first canonicalization the text is the signed one, so that the NodeId of the
\* Signature is its own.
Fresh == (/\ status = "run" /\ uri.op # "external"
          /\ \A j \in 1..Len(chain) : chain[j].alg \notin {"c14n", "base64"} /\ ~Rewrites(chain[j]))
         => data.form = "xml" /\ data.text = SIGNED

\* The inductive invariant: the Signature stays out of the node set, and of the whole text
\* from the next canonicalization on.
SignatureInv ==
    /\ DInv /\ Fresh
    /\ \A i \in 1..Len(chain) :
         (status # "failed" /\ Removes(i) /\ NotLost(i)) =>
            /\ Origin(data) \intersect SignatureOrig = {}
            /\ WrittenSince(i) => Whole(data) \intersect SignatureOrig = {}

\* The enveloped-signature transform on the signed text takes the whole Signature out.
LEMMA SignatureLeaves ==
    ASSUME ValueOK(data), data.form = "xml", data.text = SIGNED
    PROVE  Origin(RemoveSignature(data)) \intersect SignatureOrig = {}
<1> DEFINE v == RemoveSignature(data)
<1>1. /\ v.text = SIGNED /\ v.form = "xml" /\ v.set # <<>> /\ ValueOK(v)
      /\ v.set[1].nodes \intersect Subtree(SIGNED, SIG) = {}
  BY RemoveOK, TransformsAssumption
<1> HIDE DEF v
<1>2. v.set[1].nodes \subseteq Nodes(SIGNED) /\ Subtree(SIGNED, SIG) \subseteq Nodes(SIGNED)
  BY <1>1 DEF ValueOK, NodeSetOK, Subtree
<1>3. \A n \in v.set[1].nodes, m \in Subtree(SIGNED, SIG) : SIGNED[n].orig \intersect SIGNED[m].orig = {}
  BY <1>1, <1>2, DocumentsAssumption
<1>4. Origin(v) = UNION {SIGNED[n].orig : n \in v.set[1].nodes}
  BY <1>1 DEF Origin
<1> QED BY <1>3, <1>4 DEF SignatureOrig, v

\* A transform that succeeds keeps what is known of the transforms before it.
LEMMA SignatureTransform ==
    ASSUME SignatureInv, NEW t \in TRANSFORMS, Outcome(t, data'), chain' = Append(chain, t),
           uri' = uri, status = "run", status' = "run", DInv'
    PROVE  SignatureInv'
<1>0. ValueOK(data) /\ ParsedOK(data.text) /\ chain \in Seq(TRANSFORMS)
  BY DEF SignatureInv, DInv, TInv, TTypeOK
<1>n. PICK n \in Nat : n = Len(chain)
  BY <1>0
<1>1. /\ n \in Nat /\ Len(chain') = n + 1 /\ chain'[n + 1] = t
      /\ \A j \in 1 .. n : chain'[j] = chain[j]
  BY <1>0, <1>n
<1>2. /\ Whole(data') \subseteq Whole(data) /\ Origin(data') \subseteq Whole(data')
      /\ ~Rewrites(t) => Origin(data') \subseteq Origin(data)
      /\ t.alg = "c14n" => Whole(data') \subseteq Origin(data)
  BY <1>0, OutcomeNarrows
<1>3. t.alg # "c14n" /\ t.alg # "base64" /\ ~Rewrites(t) =>
         \/ Filtered(data, data') /\ (IsEnvelope(t) => data' = RemoveSignature(data))
         \/ ~IsEnvelope(t) /\ data' = data
  BY <1>0, OutcomeShape
<1>4. Fresh'
  <2> SUFFICES ASSUME uri.op # "external",
                      \A j \in 1 .. n + 1 : chain'[j].alg \notin {"c14n", "base64"} /\ ~Rewrites(chain'[j])
               PROVE  data'.form = "xml" /\ data'.text = SIGNED
    BY <1>1 DEF Fresh
  <2>1. t.alg \notin {"c14n", "base64"} /\ ~Rewrites(t)
    BY <1>1
  <2>2. \A j \in 1 .. n : chain[j].alg \notin {"c14n", "base64"} /\ ~Rewrites(chain[j])
    BY <1>1
  <2>3. data.form = "xml" /\ data.text = SIGNED
    BY <1>n, <2>2 DEF SignatureInv, Fresh
  <2> QED BY <1>3, <2>1, <2>3 DEF Filtered
<1>5. ASSUME NEW i \in 1 .. n, Removes(i)', NotLost(i)'
      PROVE  /\ Origin(data') \intersect SignatureOrig = {}
             /\ WrittenSince(i)' => Whole(data') \intersect SignatureOrig = {}
  <2>1. Removes(i)
    BY <1>1, <1>5 DEF Removes
  <2>2. NotLost(i) /\ (Rewrites(t) => WrittenSince(i))
    <3>1. \A j \in (i + 1) .. n + 1 : Rewrites(chain'[j]) => \E k \in (i + 1) .. (j - 1) : chain'[k].alg = "c14n"
      BY <1>1, <1>5 DEF NotLost
    <3>2. NotLost(i)
      BY <1>1, <1>n, <3>1 DEF NotLost
    <3>3. Rewrites(t) => \E k \in (i + 1) .. n : chain'[k].alg = "c14n"
      BY <1>1, <3>1
    <3> QED BY <1>1, <1>n, <3>2, <3>3 DEF WrittenSince
  <2>3. WrittenSince(i)' => WrittenSince(i) \/ t.alg = "c14n"
    BY <1>1, <1>n DEF WrittenSince
  <2>4. /\ Origin(data) \intersect SignatureOrig = {}
        /\ WrittenSince(i) => Whole(data) \intersect SignatureOrig = {}
    BY <1>n, <2>1, <2>2 DEF SignatureInv
  <2> QED BY <1>2, <2>2, <2>3, <2>4
<1>6. ASSUME Removes(n + 1)'
      PROVE  /\ Origin(data') \intersect SignatureOrig = {}
             /\ ~WrittenSince(n + 1)'
  <2>1. /\ IsEnvelope(t) /\ uri.op # "external"
        /\ \A j \in 1 .. n : chain[j].alg \notin {"c14n", "base64"} /\ ~Rewrites(chain[j])
    BY <1>1, <1>6 DEF Removes, IsEnvelope
  <2>2. data.form = "xml" /\ data.text = SIGNED
    BY <1>n, <2>1 DEF SignatureInv, Fresh
  <2>3. t.alg \in {"enveloped", "xpath"}
    BY <2>1 DEF IsEnvelope
  <2>4. data' = RemoveSignature(data)
    BY <1>3, <2>1, <2>3 DEF Rewrites
  <2> QED BY <1>0, <1>1, <2>2, <2>4, SignatureLeaves DEF WrittenSince
<1>7. ASSUME NEW i \in 1 .. Len(chain'), Removes(i)', NotLost(i)'
      PROVE  /\ Origin(data') \intersect SignatureOrig = {}
             /\ WrittenSince(i)' => Whole(data') \intersect SignatureOrig = {}
  <2>1. CASE i \in 1 .. n
    BY <1>5, <1>7, <2>1
  <2>2. CASE i = n + 1
    BY <1>6, <1>7, <2>2
  <2> QED BY <1>1, <2>1, <2>2
<1> QED BY <1>4, <1>7 DEF SignatureInv, Origin, Whole, AllOrig

\* At first no transform has been applied.
LEMMA SignatureInit == Init => SignatureInv
<1> SUFFICES ASSUME Init PROVE SignatureInv
  OBVIOUS
<1>1. DInv /\ chain = <<>>
  BY DocumentInit DEF Init
<1>2. Fresh
  BY ResolvedOK DEF Init, Fresh
<1> QED BY <1>1, <1>2 DEF SignatureInv

\* Every step keeps the Signature out once it is out.
LEMMA SignatureStep == SignatureInv /\ [Next]_vars => SignatureInv'
<1> SUFFICES ASSUME SignatureInv, [Next]_vars PROVE SignatureInv'
  OBVIOUS
<1>0. DInv /\ DInv' /\ ValueOK(data) /\ ValueOK(data') /\ uri' = uri
  BY StepNarrows, StepKinds DEF SignatureInv, DInv, TInv, ValueOK
<1>1. CASE \E t \in TRANSFORMS : /\ Outcome(t, data') /\ chain' = Append(chain, t)
                                 /\ status = "run" /\ status' = "run"
  BY <1>0, <1>1, SignatureTransform
<1>2. CASE status' = "failed"
  BY <1>0, <1>2 DEF SignatureInv, Fresh
<1>3. ASSUME chain' = chain, status # "failed" \/ status' = status,
             Origin(data') \subseteq Origin(data), Whole(data') \subseteq Whole(data),
             status' = "run" => data' = data /\ status = "run"
      PROVE  SignatureInv'
  <2>1. Fresh'
    BY <1>0, <1>3 DEF SignatureInv, Fresh
  <2>2. ASSUME NEW i \in 1 .. Len(chain), status' # "failed", Removes(i)', NotLost(i)'
        PROVE  /\ Origin(data') \intersect SignatureOrig = {}
               /\ WrittenSince(i)' => Whole(data') \intersect SignatureOrig = {}
    <3>1. Removes(i) /\ NotLost(i) /\ (WrittenSince(i)' => WrittenSince(i))
      BY <1>0, <1>3, <2>2 DEF Removes, NotLost, WrittenSince
    <3> QED BY <1>3, <2>2, <3>1 DEF SignatureInv
  <2> QED BY <1>0, <1>3, <2>1, <2>2 DEF SignatureInv, Origin, Whole, AllOrig
<1>4. CASE Canonical(data, data') /\ chain' = chain /\ status = "run" /\ status' = "digested"
  BY <1>0, <1>3, <1>4, CanonicalOrigin, VisibleOrigin
<1>5. CASE data' = data /\ chain' = chain /\ (status' = status \/ (status = "run" /\ status' = "digested"))
  BY <1>3, <1>5
<1> QED BY <1>0, <1>1, <1>2, <1>4, <1>5, StepKinds

\* SignatureExcluded for every document, place of the Signature and chain: after an
\* enveloped-signature transform on the signed text nothing of the Signature is digested
\* (EnvelopedSignatureTransform::execute), whatever stands before and after it.
THEOREM SignatureStaysOut == Spec => []SignatureExcluded
<1>1. Init => SignatureInv
  BY SignatureInit
<1>2. SignatureInv /\ [Next]_vars => SignatureInv'
  BY SignatureStep
<1>3. SignatureInv => SignatureExcluded
  <2> SUFFICES ASSUME SignatureInv PROVE SignatureExcluded
    OBVIOUS
  <2>1. chain \in Seq(TRANSFORMS)
    BY DEF SignatureInv, DInv, TInv, TTypeOK
  <2>2. DOMAIN chain = 1 .. Len(chain)
    BY <2>1
  <2> QED BY <2>2 DEF SignatureInv, SignatureExcluded, Removes, NotLost
<1> QED BY <1>1, <1>2, <1>3, PTL DEF Spec

-----------------------------------------------------------------------------
(* What a canonical text says.                                             *)

\* The canonical text of a value, and where its elements are written.
LEMMA CanonicalText ==
    ASSUME DInv, NEW m
    PROVE  LET c == canonicalize(data.text, data.set, m)
           IN  /\ DocumentOK(data.text) /\ TreeOK(data.text) /\ DeclsOK(data.text)
               /\ DocumentOK(c) /\ TreeOK(c)
               /\ \E f : WrittenAs(data.text, data.set, m, c, f)
<1>1. DocumentOK(data.text) /\ TreeOK(data.text) /\ DeclsOK(data.text)
  BY DEF DInv, ParsedOK
<1> QED BY <1>1, CanonicalTags, CanonicalNarrows, CanonicalTree

\* An element of the canonical text and the element it is written for.
LEMMA PairWritten ==
    ASSUME NEW m, NEW c, NEW f, NEW q \in WrittenPairs(c),
           DocumentOK(data.text), TreeOK(data.text), DocumentOK(c), TreeOK(c),
           WrittenAs(data.text, data.set, m, c, f)
    PROVE  q[2] \in Tags(data.text, data.set) /\ q[2] # 1 /\ q[1] = f[q[2]]
<1> DEFINE new == {k \in Nodes(c) : IsElem(c, k)}
           old == {n \in Nodes(data.text) : IsElem(data.text, n) /\ is_visible(data.set, n)}
<1>1. q[1] \in new /\ q[2] \in old /\ Rank(new, q[1]) = Rank(old, q[2])
  BY DEF WrittenPairs
<1>2. \A k \in new : \A n \in old : Rank(new, k) = Rank(old, n) =>
         n \in Tags(data.text, data.set) /\ n # 1 /\ k = f[n]
  BY PairsWritten
<1> HIDE DEF new, old
<1> QED BY <1>1, <1>2

\* NamespacesKept for every document, node set and mode: an element that is written has its
\* in-scope (inclusive.rs, process_element) or utilized (exclusive.rs) namespaces in the
\* canonical text, whichever of its ancestors are left out.
THEOREM NamespacesStay == Spec => []NamespacesKept
<1>1. Init => DInv
  BY DocumentInit
<1>2. DInv /\ [Next]_vars => DInv'
  BY StepNarrows
<1>3. DInv => NamespacesKept
  <2> SUFFICES ASSUME DInv, ~has_ns_visible(data.set), NEW m \in MODES,
                      NEW q \in WrittenPairs(canonicalize(data.text, data.set, m)),
                      NEW p \in AnsweredFor(q[2], m)
               PROVE  Binding(canonicalize(data.text, data.set, m), q[1], p) = Binding(data.text, q[2], p)
    BY DEF NamespacesKept, NsUnfiltered
  <2> DEFINE c == canonicalize(data.text, data.set, m)
  <2>1. /\ DocumentOK(data.text) /\ TreeOK(data.text) /\ DeclsOK(data.text)
        /\ DocumentOK(c) /\ TreeOK(c)
    BY CanonicalText
  <2>2. PICK f : WrittenAs(data.text, data.set, m, c, f)
    BY CanonicalText
  <2>3. q \in WrittenPairs(c)
    OBVIOUS
  <2> HIDE DEF c
  <2>4. PICK n \in Tags(data.text, data.set) : n = q[2] /\ n # 1 /\ q[1] = f[n]
    BY <2>1, <2>2, <2>3, PairWritten
  <2>5. p \in Answered(data.text, n, m) /\ p # Xml
    BY <2>4 DEF AnsweredFor, Answered
  <2>6. Binding(c, f[n], p) = Binding(data.text, n, p)
    BY <2>1, <2>2, <2>4, <2>5, NamesKept
  <2> QED BY <2>4, <2>6 DEF c
<1> QED BY <1>1, <1>2, <1>3, PTL DEF Spec

\* NoRedundantDeclaration for every document, node set and mode: neither canonicalizer writes a
\* declaration that is already in force in the text written so far (inclusive.rs and
\* exclusive.rs, process_element), so one document has one canonical text.
THEOREM NothingRepeated == Spec => []NoRedundantDeclaration
<1>1. Init => DInv
  BY DocumentInit
<1>2. DInv /\ [Next]_vars => DInv'
  BY StepNarrows
<1>3. DInv => NoRedundantDeclaration
  <2> SUFFICES ASSUME DInv, ~has_ns_visible(data.set), NEW m \in MODES,
                      NEW c, c = canonicalize(data.text, data.set, m),
                      NEW k \in Nodes(c), NEW p \in DOMAIN c[k].decls
               PROVE  c[k].decls[p] # Binding(c, c[k].p, p)
    BY DEF NoRedundantDeclaration, NsUnfiltered
  <2>1. /\ DocumentOK(data.text) /\ TreeOK(data.text) /\ DeclsOK(data.text)
        /\ DocumentOK(c) /\ TreeOK(c)
    BY CanonicalText
  <2>2. PICK f : WrittenAs(data.text, data.set, m, c, f)
    BY CanonicalText
  <2> QED BY <2>1, <2>2, NothingTwice
<1> QED BY <1>1, <1>2, <1>3, PTL DEF Spec

\* XmlAttributesKept for every document, node set and inclusive mode: what an element inherits
\* from ancestors that are left out is written on it (collect_inherited_xml_attrs).
THEOREM XmlAttributesStay == Spec => []XmlAttributesKept
<1>1. Init => DInv
  BY DocumentInit
<1>2. DInv /\ [Next]_vars => DInv'
  BY StepNarrows
<1>3. DInv => XmlAttributesKept
  <2> SUFFICES ASSUME DInv, ~excludes_attrs(data.set), NEW m \in MODES, ~m.exclusive,
                      NEW q \in WrittenPairs(canonicalize(data.text, data.set, m))
               PROVE  InEffect(canonicalize(data.text, data.set, m), q[1], "lang")
                         = InEffect(data.text, q[2], "lang")
    BY DEF XmlAttributesKept
  <2> DEFINE c == canonicalize(data.text, data.set, m)
  <2>1. /\ DocumentOK(data.text) /\ TreeOK(data.text)
        /\ DocumentOK(c) /\ TreeOK(c)
    BY CanonicalText
  <2>2. PICK f : WrittenAs(data.text, data.set, m, c, f)
    BY CanonicalText
  <2>3. q \in WrittenPairs(c)
    OBVIOUS
  <2> HIDE DEF c
  <2>4. PICK n \in Tags(data.text, data.set) : n = q[2] /\ q[1] = f[n]
    BY <2>1, <2>2, <2>3, PairWritten
  <2>5. n \in Nodes(data.text)
    BY <2>4 DEF Tags
  <2>6. "lang" # "base"
    OBVIOUS
  <2>7. InEffect(c, f[n], "lang") = InEffect(data.text, n, "lang")
    BY <2>1, <2>2, <2>4, <2>5, <2>6, EffectWritten
  <2> QED BY <2>4, <2>7 DEF c
<1> QED BY <1>1, <1>2, <1>3, PTL DEF Spec

-----------------------------------------------------------------------------
(* Base URIs.                                                              *)

\* What paths are made of (the provers do not know that these are strings).
Names == STRING \union {"doc", "p", "q", ""}

TurnAt(q, i, way) == IF i = 0 THEN <<>> ELSE Turn(way[i - 1], q[i])
Ways(q, way) == way = [i \in 0 .. Len(q) |-> TurnAt(q, i, way)]
Undotted(u) == \A i \in 1 .. Len(u) : u[i] \notin {".", ".."}

\* A path that is not empty is its front and its last segment.
LEMMA FrontLast ==
    ASSUME NEW q \in Seq(Names), q # <<>>
    PROVE  /\ Len(q) \in Nat \ {0} /\ q[Len(q)] \in Names
           /\ Front(q) \in Seq(Names) /\ Len(Front(q)) = Len(q) - 1
           /\ q = Append(Front(q), q[Len(q)])
<1>1. Len(q) \in Nat \ {0} /\ q[Len(q)] \in Names
  OBVIOUS
<1> DEFINE l == Len(q) - 1
           v == SubSeq(q, 1, l)
<1>2. /\ v \in Seq(Names) /\ Len(v) = IF 1 <= l THEN l - 1 + 1 ELSE 0
      /\ \A i \in 1 .. l - 1 + 1 : v[i] = q[1 + i - 1]
  <2>1. 1 \in Int /\ l \in Int /\ \A i \in 1 .. l : q[i] \in Names
    BY <1>1
  <2> HIDE DEF l
  <2> QED BY <2>1, SubSeqProperties
<1>3. Front(q) = v
  BY DEF Front
<1> HIDE DEF v
<1> HIDE DEF l
<1>0. l \in Nat /\ l = Len(q) - 1
  BY <1>1 DEF l
<1>4. Len(v) = l /\ \A i \in 1 .. l : v[i] = q[i]
  <2>1. Len(v) = l
    BY <1>0, <1>2
  <2>2. \A i \in 1 .. l : i \in 1 .. l - 1 + 1 /\ 1 + i - 1 = i
    BY <1>0
  <2> QED BY <1>2, <2>1, <2>2, Zenon
<1>5. q = Append(v, q[Len(q)])
  BY <1>0, <1>1, <1>2, <1>4
<1> QED BY <1>0, <1>1, <1>2, <1>3, <1>4, <1>5

\* A way up or on is a path; without "." and ".." it goes on as it is.
LEMMA Turning ==
    ASSUME NEW u \in Seq(Names), NEW x \in Names
    PROVE  /\ Turn(u, x) \in Seq(Names)
           /\ Undotted(u) => Undotted(Turn(u, x))
           /\ x \notin {".", ".."} => Turn(u, x) = Append(u, x)
<1>1. CASE x = "."
  BY <1>1 DEF Turn
<1>2. CASE x = ".."
  <2>1. Turn(u, x) = Front(u)
    BY <1>2 DEF Turn
  <2>2. CASE u = <<>>
    <3>1. Front(u) = u
      BY <2>2, SubSeqEmpty DEF Front
    <3> QED BY <1>2, <2>1, <3>1
  <2>3. CASE u # <<>>
    <3>1. Front(u) \in Seq(Names) /\ Len(Front(u)) = Len(u) - 1 /\ Len(u) \in Nat \ {0}
          /\ u = Append(Front(u), u[Len(u)]) /\ u[Len(u)] \in Names
      BY <2>3, FrontLast
    <3>2. \A i \in 1 .. Len(Front(u)) : i \in 1 .. Len(u) /\ Front(u)[i] = u[i]
      BY <3>1
    <3>3. Undotted(u) => Undotted(Front(u))
      BY <3>2 DEF Undotted
    <3> QED BY <1>2, <2>1, <3>1, <3>3
  <2> QED BY <2>2, <2>3
<1>3. CASE x \notin {".", ".."}
  <2>1. Turn(u, x) = Append(u, x)
    BY <1>3 DEF Turn
  <2> QED BY <1>3, <2>1 DEF Undotted
<1> QED BY <1>1, <1>2, <1>3

\* The recursion of Climb has a solution.
LEMMA WaysExist ==
    ASSUME NEW q, Len(q) \in Nat
    PROVE  \E way : Ways(q, way)
<1> DEFINE S(i, a) == TurnAt(q, i, a)
           Bad == {n \in Nat : n <= Len(q) /\ ~\E a : a = [i \in 0 .. n |-> S(i, a)]}
<1>s. \A i, a, b : i = 0 \/ a[i - 1] = b[i - 1] => S(i, a) = S(i, b)
  BY DEF TurnAt
<1> HIDE DEF S
<1>0. ASSUME Bad # {} PROVE FALSE
  <2>1. PICK n \in Bad : \A j \in Bad : n <= j
    BY <1>0, LeastExists
  <2>2. CASE n = 0
    <3> DEFINE a == [i \in 0 .. 0 |-> S(0, <<>>)]
    <3>1. a = [i \in 0 .. 0 |-> S(i, a)]
      <4>1. \A i \in 0 .. 0 : S(0, <<>>) = S(i, a)
        BY <1>s
      <4> QED BY <4>1
    <3> QED BY <2>1, <2>2, <3>1
  <2>3. CASE n # 0
    <3>1. n \in Nat /\ n - 1 \in Nat /\ n - 1 \notin Bad /\ n <= Len(q) /\ n - 1 <= Len(q)
      BY <2>1, <2>3
    <3>2. PICK b : b = [i \in 0 .. n - 1 |-> S(i, b)]
      BY <3>1
    <3> DEFINE a == [i \in 0 .. n |-> IF i = n THEN S(n, b) ELSE b[i]]
    <3>3. \A i \in 0 .. n - 1 : a[i] = b[i] /\ b[i] = S(i, b)
      <4>1. \A i \in 0 .. n - 1 : b[i] = S(i, b)
        BY <3>2, Zenon
      <4>2. \A i \in 0 .. n - 1 : i \in 0 .. n /\ i # n
        BY <3>1
      <4>3. \A i \in 0 .. n - 1 : a[i] = b[i]
        BY <4>2, Zenon
      <4> QED BY <4>1, <4>3
    <3>4. a[n] = S(n, b) /\ a = [i \in 0 .. n |-> a[i]]
      BY <3>1, <2>3
    <3> HIDE DEF a
    <3>5. \A i \in 0 .. n : a[i] = S(i, a)
      <4> SUFFICES ASSUME NEW i \in 0 .. n PROVE a[i] = S(i, a)
        OBVIOUS
      <4>1. i = 0 \/ i - 1 \in 0 .. n - 1
        BY <3>1
      <4>2. S(i, a) = S(i, b)
        BY <1>s, <3>3, <4>1
      <4>3. i = n \/ i \in 0 .. n - 1
        BY <3>1
      <4> QED BY <3>3, <3>4, <4>2, <4>3
    <3>6. a = [i \in 0 .. n |-> S(i, a)]
      BY <3>4, <3>5
    <3> QED BY <2>1, <3>6
  <2> QED BY <2>2, <2>3
<1>1. \E a : a = [i \in 0 .. Len(q) |-> S(i, a)]
  BY <1>0
<1> QED BY <1>1 DEF Ways, S

\* Any way that takes each turn ends where Climb does.
LEMMA ClimbBy ==
    ASSUME NEW q, Len(q) \in Nat, NEW a, a[0] = <<>>,
           \A i \in 1 .. Len(q) : a[i] = Turn(a[i - 1], q[i])
    PROVE  a[Len(q)] = Climb(q)
<1> DEFINE way == CHOOSE w : w = [i \in 0 .. Len(q) |-> IF i = 0 THEN <<>> ELSE Turn(w[i - 1], q[i])]
           Bad == {n \in Nat : n <= Len(q) /\ a[n] # way[n]}
<1>1. Climb(q) = way[Len(q)]
  BY DEF Climb
<1>2. way = [i \in 0 .. Len(q) |-> IF i = 0 THEN <<>> ELSE Turn(way[i - 1], q[i])]
  BY WaysExist DEF Ways, TurnAt
<1> HIDE DEF way
<1>3. way[0] = <<>> /\ \A i \in 1 .. Len(q) : way[i] = Turn(way[i - 1], q[i])
  <2>1. \A i \in 0 .. Len(q) : way[i] = IF i = 0 THEN <<>> ELSE Turn(way[i - 1], q[i])
    BY <1>2, Zenon
  <2>2. 0 \in 0 .. Len(q) /\ \A i \in 1 .. Len(q) : i \in 0 .. Len(q) /\ i # 0
    OBVIOUS
  <2> QED BY <2>1, <2>2, Zenon
<1>4. ASSUME Bad # {} PROVE FALSE
  <2>1. PICK n \in Bad : \A j \in Bad : n <= j
    BY <1>4, LeastExists
  <2>2. n # 0
    BY <1>3, <2>1
  <2>3. n \in 1 .. Len(q) /\ n - 1 \in Nat /\ n - 1 \notin Bad /\ n - 1 <= Len(q)
    BY <2>1, <2>2
  <2>4. a[n - 1] = way[n - 1]
    BY <2>3
  <2>5. a[n] = way[n]
    BY <1>3, <2>3, <2>4, Zenon
  <2> QED BY <2>1, <2>5
<1> QED BY <1>1, <1>4

\* One more segment is one more turn.
LEMMA ClimbOn ==
    ASSUME NEW q \in Seq(Names), NEW x \in Names
    PROVE  Climb(Append(q, x)) = Turn(Climb(q), x)
<1> DEFINE r == Append(q, x)
<1>1. /\ Len(q) \in Nat /\ Len(r) = Len(q) + 1 /\ r[Len(q) + 1] = x
      /\ \A i \in 1 .. Len(q) : r[i] = q[i]
  OBVIOUS
<1> HIDE DEF r
<1>2. Len(r) \in Nat
  BY <1>1
<1>3. PICK way : Ways(r, way)
  BY <1>2, WaysExist
<1>4. \A i \in 0 .. Len(r) : way[i] = TurnAt(r, i, way)
  BY <1>3, Zenon DEF Ways
<1>5. way[0] = <<>> /\ \A i \in 1 .. Len(r) : way[i] = Turn(way[i - 1], r[i])
  <2>1. 0 \in 0 .. Len(r) /\ \A i \in 1 .. Len(r) : i \in 0 .. Len(r) /\ i # 0
    BY <1>2
  <2> QED BY <1>4, <2>1, Zenon DEF TurnAt
<1>6. way[Len(r)] = Climb(r)
  BY <1>2, <1>5, ClimbBy
<1>7. \A i \in 1 .. Len(q) : way[i] = Turn(way[i - 1], q[i])
  <2>1. \A i \in 1 .. Len(q) : i \in 1 .. Len(r)
    BY <1>1
  <2> QED BY <1>1, <1>5, <2>1, Zenon
<1>8. way[Len(q)] = Climb(q)
  BY <1>1, <1>5, <1>7, ClimbBy
<1>9. Len(r) \in 1 .. Len(r) /\ Len(r) - 1 = Len(q)
  BY <1>1
<1>10. way[Len(r)] = Turn(way[Len(q)], r[Len(r)])
  BY <1>5, <1>9, Zenon
<1> QED BY <1>1, <1>6, <1>8, <1>10, Zenon DEF r

\* What Climb gives is a path without "." and "..".
LEMMA ClimbType ==
    ASSUME NEW q \in Seq(Names)
    PROVE  Climb(q) \in Seq(Names) /\ Undotted(Climb(q)) /\ (q = <<>> => Climb(q) = <<>>)
<1> DEFINE Fine(u) == u \in Seq(Names) /\ Undotted(u)
           Bad == {n \in Nat : \E r \in Seq(Names) : Len(r) = n /\ ~Fine(Climb(r))}
<1>1. Climb(<<>>) = <<>>
  <2> DEFINE a == [i \in {0} |-> <<>>]
  <2>1. a[0] = <<>> /\ Len(<<>>) = 0 /\ 1 .. 0 = {}
    OBVIOUS
  <2> HIDE DEF a
  <2>2. a[Len(<<>>)] = Climb(<<>>)
    BY <2>1, ClimbBy
  <2> QED BY <2>1, <2>2
<1>2. Fine(<<>>)
  BY DEF Undotted
<1>3. ASSUME Bad # {} PROVE FALSE
  <2>1. PICK n \in Bad : \A j \in Bad : n <= j
    BY <1>3, LeastExists
  <2>2. PICK r \in Seq(Names) : Len(r) = n /\ ~Fine(Climb(r))
    BY <2>1
  <2>3. r # <<>>
    BY <1>1, <1>2, <2>2
  <2> DEFINE g == Front(r)
             x == r[Len(r)]
  <2>4. g \in Seq(Names) /\ Len(g) = n - 1 /\ x \in Names /\ r = Append(g, x) /\ n - 1 \in Nat
    BY <2>1, <2>2, <2>3, FrontLast
  <2> HIDE DEF g, x, Fine
  <2>5. Fine(Climb(g))
    BY <2>1, <2>4
  <2>6. Climb(r) = Turn(Climb(g), x)
    BY <2>4, ClimbOn
  <2>7. Fine(Turn(Climb(g), x))
    BY <2>4, <2>5, Turning DEF Fine
  <2> QED BY <2>2, <2>6, <2>7
<1>4. Fine(Climb(q))
  <2>1. Len(q) \in Nat
    OBVIOUS
  <2> HIDE DEF Fine
  <2> QED BY <1>3, <2>1
<1> QED BY <1>1, <1>4

\* Where there is no "." or "..", there is nothing to climb.
LEMMA ClimbStraight ==
    ASSUME NEW u \in Seq(Names), Undotted(u)
    PROVE  Climb(u) = u
<1> DEFINE Bad == {n \in Nat : \E r \in Seq(Names) : Len(r) = n /\ Undotted(r) /\ Climb(r) # r}
<1>1. ASSUME Bad # {} PROVE FALSE
  <2>1. PICK n \in Bad : \A j \in Bad : n <= j
    BY <1>1, LeastExists
  <2>2. PICK r \in Seq(Names) : Len(r) = n /\ Undotted(r) /\ Climb(r) # r
    BY <2>1
  <2>3. r # <<>>
    BY <2>2, ClimbType
  <2> DEFINE g == Front(r)
             x == r[Len(r)]
  <2>4. g \in Seq(Names) /\ Len(g) = n - 1 /\ x \in Names /\ r = Append(g, x) /\ n - 1 \in Nat
    BY <2>1, <2>2, <2>3, FrontLast
  <2>5. x \notin {".", ".."}
    BY <2>2, <2>3, FrontLast DEF Undotted
  <2> HIDE DEF g, x
  <2>6. Undotted(g)
    <3>1. \A i \in 1 .. Len(g) : i \in 1 .. Len(r) /\ r[i] = g[i]
      BY <2>4
    <3> QED BY <2>2, <3>1 DEF Undotted
  <2>7. Climb(g) = g
    BY <2>1, <2>4, <2>6
  <2>8. Climb(r) = Turn(Climb(g), x)
    BY <2>4, ClimbOn
  <2> QED BY <2>2, <2>4, <2>5, <2>7, <2>8, Turning
<1>2. Len(u) \in Nat
  OBVIOUS
<1> QED BY <1>1, <1>2

\* Where a path goes on from does not matter, only the way to there.
LEMMA ClimbFrom ==
    ASSUME NEW u \in Seq(Names), NEW v \in Seq(Names), NEW r \in Seq(Names), Climb(u) = Climb(v)
    PROVE  Climb(u \o r) = Climb(v \o r)
<1> DEFINE Bad == {n \in Nat : \E s \in Seq(Names) : Len(s) = n /\ Climb(u \o s) # Climb(v \o s)}
<1>1. ASSUME Bad # {} PROVE FALSE
  <2>1. PICK n \in Bad : \A j \in Bad : n <= j
    BY <1>1, LeastExists
  <2>2. PICK s \in Seq(Names) : Len(s) = n /\ Climb(u \o s) # Climb(v \o s)
    BY <2>1
  <2>3. s # <<>>
    <3>1. u \o <<>> = u /\ v \o <<>> = v
      OBVIOUS
    <3> QED BY <2>2, <3>1
  <2> DEFINE g == Front(s)
             x == s[Len(s)]
  <2>4. g \in Seq(Names) /\ Len(g) = n - 1 /\ x \in Names /\ s = Append(g, x) /\ n - 1 \in Nat
    BY <2>1, <2>2, <2>3, FrontLast
  <2> HIDE DEF g, x
  <2>5. Climb(u \o g) = Climb(v \o g)
    BY <2>1, <2>4
  <2>6. \A w \in Seq(Names) : w \o g \in Seq(Names) /\ w \o s = Append(w \o g, x)
    BY <2>4
  <2>7. \A w \in Seq(Names) : Climb(w \o s) = Turn(Climb(w \o g), x)
    BY <2>4, <2>6, ClimbOn
  <2> QED BY <2>2, <2>5, <2>7
<1>2. Len(r) \in Nat
  OBVIOUS
<1> QED BY <1>1, <1>2

\* ... which also holds of the end that remove_dot_segments adds.
LEMMA DotsFrom ==
    ASSUME NEW u \in Seq(Names), NEW v \in Seq(Names), NEW r \in Seq(Names), r # <<>>,
           Climb(u) = Climb(v)
    PROVE  remove_dot_segments(u \o r) = remove_dot_segments(v \o r)
<1>1. \A w \in Seq(Names) : w \o r # <<>> /\ (w \o r)[Len(w \o r)] = r[Len(r)]
  <2> SUFFICES ASSUME NEW w \in Seq(Names)
               PROVE  w \o r # <<>> /\ (w \o r)[Len(w \o r)] = r[Len(r)]
    OBVIOUS
  <2>1. Len(r) \in Nat \ {0} /\ Len(w) \in Nat /\ Len(w \o r) = Len(w) + Len(r)
    OBVIOUS
  <2> QED BY <2>1
<1>2. Climb(u \o r) = Climb(v \o r)
  BY ClimbFrom
<1> QED BY <1>1, <1>2 DEF remove_dot_segments

\* The folder of a path without its dots is the one of the path, when it does not end in "..".
LEMMA DotsFolder ==
    ASSUME NEW q \in Seq(Names), q # <<>>, q[Len(q)] # ".."
    PROVE  /\ remove_dot_segments(q) \in Seq(Names) /\ remove_dot_segments(q) # <<>>
           /\ Front(remove_dot_segments(q)) \in Seq(Names)
           /\ Climb(Front(remove_dot_segments(q))) = Climb(Front(q))
<1> DEFINE g == Front(q)
           x == q[Len(q)]
           u == Climb(g)
           z == IF x = "." THEN "" ELSE x
<1>1. g \in Seq(Names) /\ x \in Names /\ q = Append(g, x)
  BY FrontLast
<1>2. u \in Seq(Names) /\ Undotted(u)
  BY <1>1, ClimbType
<1>3. Climb(q) = Turn(u, x)
  BY <1>1, ClimbOn
<1>4. remove_dot_segments(q) = Append(u, z)
  BY <1>1, <1>2, <1>3, Turning DEF remove_dot_segments, Turn
<1>5. z \in Names
  BY <1>1 DEF Names
<1> HIDE DEF u, z
<1>6. /\ Append(u, z) \in Seq(Names) /\ Append(u, z) # <<>>
      /\ SubSeq(Append(u, z), 1, Len(Append(u, z)) - 1) = u
  BY <1>2, <1>5
<1>7. Climb(u) = u
  BY <1>2, ClimbStraight
<1> QED BY <1>2, <1>4, <1>6, <1>7 DEF Front, u

\* What goes before a last segment.
LEMMA FrontAppend ==
    ASSUME NEW u \in Seq(Names), NEW x \in Names
    PROVE  Front(Append(u, x)) = u
  BY DEF Front

\* The last segment of two paths together.
LEMMA LastOfBoth ==
    ASSUME NEW u \in Seq(Names), NEW v \in Seq(Names), v # <<>>
    PROVE  /\ u \o v \in Seq(Names) /\ Len(u \o v) = Len(u) + Len(v) /\ u \o v # <<>>
           /\ (u \o v)[Len(u \o v)] = v[Len(v)]
<1> DEFINE w == u \o v
<1>1. /\ Len(u) \in Nat /\ Len(v) \in Nat \ {0} /\ w \in Seq(Names) /\ Len(w) = Len(u) + Len(v)
      /\ w[Len(u) + Len(v)] = v[Len(v)]
  OBVIOUS
<1> HIDE DEF w
<1>2. w # <<>>
  BY <1>1
<1> QED BY <1>1, <1>2 DEF w

\* Where a reference leads from the document: to an authority and a path, without its dots.
Relative(v) == ~HasScheme(v) /\ Head(v) # "/"
Root(v) == IF HasScheme(v) THEN Head(v) ELSE "doc"
Way(v) == IF Relative(v) THEN <<"p">> \o v ELSE Tail(v)

LEMMA FromDocument ==
    ASSUME NEW v \in Seq(Names), v # <<>>, Resolvable(v)
    PROVE  /\ ResolveByRfc(DocumentUri, v) = <<Root(v)>> \o remove_dot_segments(Way(v))
           /\ Root(v) \in Names
           /\ Way(v) \in Seq(Names) /\ Way(v) # <<>> /\ Way(v)[Len(Way(v))] # ".."
           /\ Front(Way(v)) = IF Relative(v) THEN <<"p">> \o Front(v) ELSE Tail(Front(v))
<1>0. /\ Len(v) \in Nat \ {0} /\ Head(v) \in Names /\ v[Len(v)] # ".." /\ Head(v) # "net"
      /\ ~Relative(v) => Len(v) > 1
  BY DEF Resolvable, Relative
<1>2. <<"p">> \in Seq(Names) /\ Len(<<"p">>) = 1 /\ "doc" \in Names /\ "q" \in Names
  <2>1. "p" \in Names /\ "doc" \in Names /\ "q" \in Names
    BY DEF Names
  <2> QED BY <2>1
<1>1. Head(DocumentUri) = "doc" /\ Folder(DocumentUri) = <<"p">>
  <2>1. /\ DocumentUri # <<>> /\ Head(DocumentUri) = "doc" /\ Len(DocumentUri) # 1
        /\ Tail(DocumentUri) = Append(<<"p">>, "q")
    BY DEF DocumentUri
  <2>2. Front(Append(<<"p">>, "q")) = <<"p">>
    BY <1>2, FrontAppend
  <2> QED BY <2>1, <2>2, Zenon DEF Folder
<1>3. ResolveByRfc(DocumentUri, v) = <<Root(v)>> \o remove_dot_segments(Way(v))
  <2>1. CASE HasScheme(v)
    BY <2>1 DEF ResolveByRfc, Root, Way, Relative
  <2>2. CASE ~HasScheme(v)
    BY <1>0, <1>1, <2>2 DEF ResolveByRfc, Root, Way, Relative
  <2> QED BY <2>1, <2>2
<1>4. CASE Relative(v)
  <2> DEFINE w == <<"p">> \o v
  <2>1. w \in Seq(Names) /\ w[Len(w)] = v[Len(v)] /\ w # <<>>
    BY <1>2, LastOfBoth
  <2>2. /\ Front(v) \in Seq(Names) /\ Len(Front(v)) = Len(v) - 1
        /\ v = Append(Front(v), v[Len(v)]) /\ v[Len(v)] \in Names
    BY FrontLast
  <2>3. w = Append(<<"p">> \o Front(v), v[Len(v)])
    BY <1>2, <2>2
  <2>4. <<"p">> \o Front(v) \in Seq(Names)
    BY <1>2, <2>2
  <2>5. Front(w) = <<"p">> \o Front(v)
    BY <2>2, <2>3, <2>4, FrontAppend, Zenon
  <2> HIDE DEF w
  <2>6. Way(v) = w
    BY <1>4 DEF Way, w
  <2> QED BY <1>0, <1>2, <1>3, <1>4, <2>1, <2>5, <2>6 DEF Root
<1>5. CASE ~Relative(v)
  <2> DEFINE w == Tail(v)
  <2>1. w \in Seq(Names) /\ w[Len(w)] = v[Len(v)] /\ w # <<>>
    <3>1. Len(v) > 1 /\ Len(v) \in Nat
      BY <1>0, <1>5
    <3>2. w \in Seq(Names) /\ Len(w) = Len(v) - 1 /\ w[Len(v) - 1] = v[Len(v)]
      BY <3>1
    <3> HIDE DEF w
    <3>3. w # <<>>
      BY <3>1, <3>2
    <3> QED BY <3>2, <3>3
  <2>2. /\ Front(v) \in Seq(Names) /\ Len(Front(v)) = Len(v) - 1
        /\ v = Append(Front(v), v[Len(v)]) /\ v[Len(v)] \in Names
    BY FrontLast
  <2> DEFINE u == Front(v)
             x == v[Len(v)]
  <2> HIDE DEF u, x
  <2>3. u # <<>> /\ u \in Seq(Names) /\ x \in Names
    BY <1>0, <1>5, <2>2 DEF u, x
  <2>4. Tail(Append(u, x)) = Append(Tail(u), x) /\ Tail(u) \in Seq(Names)
    BY <2>3
  <2>5. w = Append(Tail(u), x)
    BY <2>2, <2>4 DEF u, x
  <2>7. Front(w) = Tail(u)
    BY <2>3, <2>4, <2>5, FrontAppend, Zenon
  <2> HIDE DEF w
  <2>8. Way(v) = w
    BY <1>5 DEF Way, w
  <2> QED BY <1>0, <1>2, <1>3, <1>5, <2>1, <2>7, <2>8 DEF Root, u
<1> QED BY <1>4, <1>5

\* The authority and the folder of a base.
LEMMA AboutBase ==
    ASSUME NEW h \in Names, NEW w \in Seq(Names), w # <<>>
    PROVE  Head(<<h>> \o w) = h /\ Folder(<<h>> \o w) = Front(w)
<1> DEFINE b == <<h>> \o w
<1>1. Len(w) \in Nat \ {0} /\ Len(b) = 1 + Len(w) /\ Head(b) = h /\ Tail(b) = w
  OBVIOUS
<1> HIDE DEF b
<1>2. Len(b) # 1
  BY <1>1
<1>3. Head(b) = h /\ Folder(b) = Front(w)
  BY <1>1, <1>2, Zenon DEF Folder
<1> QED BY <1>3 DEF b

\* A reference resolved against a base as the code does, and then against the document as
\* RFC 3986 does, leads where each of them resolved as RFC 3986 does leads.
LEMMA ResolvedTwice ==
    ASSUME NEW b \in Seq(Names), NEW r \in Seq(Names), b # <<>>, Resolvable(b), Resolvable(r),
           NEW c, c = resolve_uri_reference(b, r)
    PROVE  /\ c \in Seq(Names) /\ c # <<>> /\ Resolvable(c)
           /\ HasScheme(b) \/ HasScheme(r) => HasScheme(c)
           /\ ResolveByRfc(ResolveByRfc(DocumentUri, b), r) = ResolveByRfc(DocumentUri, c)
<1> DEFINE B == ResolveByRfc(DocumentUri, b)
<1>0. /\ Len(b) \in Nat \ {0} /\ Head(b) \in Names /\ b[Len(b)] # ".." /\ Head(b) # "net"
      /\ ~Relative(b) => Len(b) > 1
  BY DEF Resolvable, Relative
<1>1. /\ B = <<Root(b)>> \o remove_dot_segments(Way(b)) /\ Root(b) \in Names
      /\ Way(b) \in Seq(Names) /\ Way(b) # <<>> /\ Way(b)[Len(Way(b))] # ".."
      /\ Front(Way(b)) = IF Relative(b) THEN <<"p">> \o Front(b) ELSE Tail(Front(b))
  BY FromDocument
<1>2. /\ remove_dot_segments(Way(b)) \in Seq(Names) /\ remove_dot_segments(Way(b)) # <<>>
      /\ Front(remove_dot_segments(Way(b))) \in Seq(Names)
      /\ Climb(Front(remove_dot_segments(Way(b)))) = Climb(Front(Way(b)))
  BY <1>1, DotsFolder
<1>3. Head(B) = Root(b) /\ Folder(B) = Front(remove_dot_segments(Way(b)))
  BY <1>1, <1>2, AboutBase, Zenon
<1> HIDE DEF B
<1>4. CASE HasScheme(r) \/ r = <<>>
  <2>1. CASE HasScheme(r)
    <3>1. r # <<>> /\ c = r
      BY <2>1 DEF HasScheme, resolve_uri_reference
    <3>2. \A x : ResolveByRfc(x, r) = <<Head(r)>> \o remove_dot_segments(Tail(r))
      BY <2>1, <3>1 DEF ResolveByRfc
    <3> QED BY <2>1, <3>1, <3>2 DEF B
  <2>2. CASE r = <<>>
    <3>1. ~HasScheme(r)
      BY <2>2 DEF HasScheme
    <3>2. c = b
      BY <2>2, <3>1 DEF resolve_uri_reference
    <3>3. ResolveByRfc(B, r) = B
      BY <2>2 DEF ResolveByRfc
    <3> QED BY <3>1, <3>2, <3>3 DEF B
  <2> QED BY <1>4, <2>1, <2>2
<1>5. CASE ~HasScheme(r) /\ r # <<>> /\ Head(r) = "/"
  <2>0. /\ Len(r) \in Nat \ {0} /\ Len(r) > 1 /\ r[Len(r)] # ".." /\ Tail(r) \in Seq(Names)
        /\ Head(r) # "net"
    BY <1>5 DEF Resolvable
  <2>1. ResolveByRfc(B, r) = <<Root(b)>> \o remove_dot_segments(Tail(r))
    BY <1>3, <1>5, <2>0 DEF ResolveByRfc
  <2>2. CASE HasScheme(b)
    <3>1. HasAuthority(b)
      BY <2>2 DEF HasAuthority
    <3>2. c = <<Head(b)>> \o Tail(r)
      BY <1>5, <3>1, <2>0 DEF resolve_uri_reference
    <3>3. /\ c \in Seq(Names) /\ Len(c) = Len(r) /\ Head(c) = Head(b) /\ Tail(c) = Tail(r) /\ c # <<>>
          /\ c[Len(c)] = r[Len(r)]
      <4>1. <<Head(b)>> \in Seq(Names) /\ Len(<<Head(b)>>) = 1
        BY <1>0
      <4>2. Len(Tail(r)) = Len(r) - 1 /\ Tail(r)[Len(r) - 1] = r[Len(r)]
        BY <2>0
      <4> QED BY <1>0, <2>0, <3>2, <4>1, <4>2
    <3>4. HasScheme(c)
      BY <2>2, <3>3 DEF HasScheme
    <3>5. Resolvable(c)
      BY <1>0, <2>0, <3>3 DEF Resolvable
    <3>6. ResolveByRfc(DocumentUri, c) = <<Head(b)>> \o remove_dot_segments(Tail(r))
      BY <3>3, <3>4 DEF ResolveByRfc
    <3>7. Root(b) = Head(b)
      BY <2>2 DEF Root
    <3> QED BY <2>1, <3>3, <3>4, <3>5, <3>6, <3>7 DEF B
  <2>3. CASE ~HasScheme(b)
    <3>1. ~HasAuthority(b)
      BY <1>0, <2>3 DEF HasAuthority
    <3>2. c = r
      BY <1>5, <3>1 DEF resolve_uri_reference
    <3>3. Head(DocumentUri) = "doc"
      BY DEF DocumentUri
    <3>4. ResolveByRfc(DocumentUri, r) = <<"doc">> \o remove_dot_segments(Tail(r))
      BY <1>5, <2>0, <3>3 DEF ResolveByRfc
    <3>5. Root(b) = "doc"
      BY <2>3 DEF Root
    <3> QED BY <1>5, <2>1, <2>3, <3>2, <3>4, <3>5 DEF B
  <2> QED BY <2>2, <2>3
<1>6. CASE ~HasScheme(r) /\ r # <<>> /\ Head(r) # "/"
  <2> DEFINE u == Front(remove_dot_segments(Way(b)))
             v == Front(Way(b))
             g == Front(b)
  <2>0. Len(r) \in Nat \ {0} /\ r[Len(r)] # ".." /\ Head(r) # "net"
    BY <1>6 DEF Resolvable
  <2>1. ResolveByRfc(B, r) = <<Root(b)>> \o remove_dot_segments(u \o r)
    BY <1>3, <1>6, <2>0 DEF ResolveByRfc
  <2>2. g \in Seq(Names) /\ Len(g) = Len(b) - 1 /\ b = Append(g, b[Len(b)]) /\ b[Len(b)] \in Names
    BY FrontLast
  <2>3. v \in Seq(Names) /\ u \in Seq(Names) /\ Climb(u) = Climb(v)
    BY <1>1, <1>2, FrontLast
  <2>4. remove_dot_segments(u \o r) = remove_dot_segments(v \o r)
    BY <1>6, <2>3, DotsFrom
  <2>5. c = g \o r
    <3>1. ~(HasAuthority(b) /\ Len(b) = 1)
      BY <1>0 DEF HasAuthority, Relative
    <3>2. Head(r) \notin {"/", "net"}
      BY <1>6, <2>0
    <3> QED BY <1>6, <3>1, <3>2 DEF resolve_uri_reference, Front
  <2> HIDE DEF g, u, v
  <2>6. c \in Seq(Names) /\ Len(c) = Len(g) + Len(r) /\ c # <<>> /\ c[Len(c)] = r[Len(r)]
    <3>1. /\ g \o r \in Seq(Names) /\ Len(g \o r) = Len(g) + Len(r) /\ g \o r # <<>>
          /\ (g \o r)[Len(g \o r)] = r[Len(r)]
      BY <1>6, <2>2, LastOfBoth, Zenon
    <3> QED BY <2>5, <3>1, Zenon
  <2>7. Head(c) = IF g = <<>> THEN Head(r) ELSE Head(b)
    <3>1. CASE g = <<>>
      BY <2>5, <3>1
    <3>2. CASE g # <<>>
      <4>1. Head(g) = Head(b) /\ Head(g \o r) = Head(g)
        BY <2>2, <3>2
      <4> QED BY <2>5, <3>2, <4>1
    <3> QED BY <3>1, <3>2
  <2>8. ~Relative(b) => g # <<>>
    BY <1>0, <2>2
  <2>9. Relative(r)
    BY <1>6 DEF Relative
  <2>10. /\ HasScheme(c) <=> HasScheme(b)
         /\ Relative(c) <=> Relative(b)
         /\ Root(c) = Root(b)
    <3>1. CASE g = <<>>
      <4>1. c = r /\ Relative(b)
        BY <2>5, <2>8, <3>1
      <4> QED BY <2>9, <4>1 DEF Relative, Root
    <3>2. CASE g # <<>>
      BY <2>6, <2>7, <3>2 DEF Relative, HasScheme, Root
    <3> QED BY <3>1, <3>2
  <2>11. Resolvable(c)
    <3>1. Head(c) # "net"
      BY <1>0, <2>0, <2>7
    <3>2. ~Relative(c) => Len(c) > 1
      <4>1. ~Relative(c) => g # <<>> /\ Len(g) \in Nat
        BY <2>2, <2>8, <2>10
      <4>2. g # <<>> => Len(g) # 0
        BY <2>2
      <4> QED BY <2>0, <2>6, <4>1, <4>2
    <3> QED BY <2>0, <2>6, <3>1, <3>2 DEF Resolvable, Relative
  <2>12. Way(c) = v \o r
    <3>1. CASE Relative(b)
      <4>1. v = <<"p">> \o g
        BY <1>1, <3>1 DEF v, g
      <4>2. Way(c) = <<"p">> \o (g \o r)
        BY <2>5, <2>10, <3>1 DEF Way
      <4>3. <<"p">> \in Seq(Names)
        <5>1. "p" \in Names
          BY DEF Names
        <5> QED BY <5>1
      <4>4. \A x, y, z \in Seq(Names) : x \o (y \o z) = (x \o y) \o z
        OBVIOUS
      <4> QED BY <2>2, <4>1, <4>2, <4>3, <4>4
    <3>2. CASE ~Relative(b)
      <4>1. v = Tail(g)
        BY <1>1, <3>2 DEF v, g
      <4>2. Way(c) = Tail(g \o r)
        BY <2>5, <2>10, <3>2 DEF Way
      <4>3. g # <<>>
        BY <2>8, <3>2
      <4>4. Tail(g \o r) = Tail(g) \o r
        BY <2>2, <4>3
      <4> QED BY <4>1, <4>2, <4>4
    <3> QED BY <3>1, <3>2
  <2>13. ResolveByRfc(DocumentUri, c) = <<Root(c)>> \o remove_dot_segments(Way(c))
    BY <2>6, <2>11, FromDocument
  <2>14. ResolveByRfc(B, r) = ResolveByRfc(DocumentUri, c)
    BY <2>1, <2>4, <2>10, <2>12, <2>13
  <2> QED BY <1>6, <2>6, <2>10, <2>11, <2>14 DEF B
<1> QED BY <1>4, <1>5, <1>6

\* The base of an element, from the one above: as RFC 3986 has it, from the one of the
\* document on, and as the code has it, from none.
Resolve(how, b, r) == IF how = "rfc" THEN ResolveByRfc(b, r)
                      ELSE IF b = <<>> THEN r ELSE resolve_uri_reference(b, r)
NextBase(how, d, k, above) == IF HasBase(d, k) THEN Resolve(how, above, OwnBase(d, k)) ELSE above
Start(how) == IF how = "rfc" THEN DocumentUri ELSE <<>>
BaseStep(how, d, k, a) == NextBase(how, d, k, IF d[k].p = 0 THEN Start(how) ELSE a[d[k].p])

Bases(how, d, a) == a = [k \in Nodes(d) |-> BaseStep(how, d, k, a)]

\* The recursion has a solution, as parents come first.
LEMMA BasesExist ==
    ASSUME NEW d, Len(d) \in Nat, Nodes(d) = 1 .. Len(d), TreeOK(d), NEW how
    PROVE  \E a : Bases(how, d, a)
<1> DEFINE S(k, a) == BaseStep(how, d, k, a)
           Bad == {n \in Nat : n <= Len(d) /\ ~\E a : a = [k \in 1 .. n |-> S(k, a)]}
<1>s. \A k, a, b : d[k].p = 0 \/ a[d[k].p] = b[d[k].p] => S(k, a) = S(k, b)
  BY DEF BaseStep
<1> HIDE DEF S
<1>0. ASSUME Bad # {} PROVE FALSE
  <2>1. PICK n \in Bad : \A j \in Bad : n <= j
    BY <1>0, LeastExists
  <2>2. CASE n = 0
    <3>1. [k \in 1 .. 0 |-> {}] = [k \in 1 .. 0 |-> S(k, [j \in 1 .. 0 |-> {}])]
      OBVIOUS
    <3> QED BY <2>2, <3>1
  <2>3. CASE n # 0
    <3>1. n \in Nat /\ n - 1 \in Nat /\ n - 1 \notin Bad /\ n <= Len(d) /\ n - 1 <= Len(d)
      BY <2>1, <2>3
    <3>2. PICK b : b = [k \in 1 .. n - 1 |-> S(k, b)]
      BY <3>1
    <3> DEFINE a == [k \in 1 .. n |-> IF k = n THEN S(n, b) ELSE b[k]]
    <3>3. \A k \in 1 .. n - 1 : a[k] = b[k] /\ b[k] = S(k, b)
      BY <3>1, <3>2
    <3>4. a[n] = S(n, b) /\ a = [k \in 1 .. n |-> a[k]]
      BY <3>1, <2>3
    <3> HIDE DEF a
    <3>5. \A k \in 1 .. n : a[k] = S(k, a)
      <4> SUFFICES ASSUME NEW k \in 1 .. n PROVE a[k] = S(k, a)
        OBVIOUS
      <4>1. d[k].p = 0 \/ d[k].p \in 1 .. k - 1
        BY <3>1 DEF TreeOK
      <4>2. d[k].p = 0 \/ d[k].p \in 1 .. n - 1
        BY <3>1, <4>1
      <4>3. S(k, a) = S(k, b)
        BY <1>s, <3>3, <4>2
      <4>4. k = n \/ k \in 1 .. n - 1
        BY <3>1
      <4> QED BY <3>3, <3>4, <4>3, <4>4
    <3>6. a = [k \in 1 .. n |-> S(k, a)]
      BY <3>4, <3>5
    <3> QED BY <2>1, <3>6
  <2> QED BY <2>2, <2>3
<1>1. \E a : a = [k \in 1 .. Len(d) |-> S(k, a)]
  BY <1>0
<1> QED BY <1>1 DEF Bases, S

\* The base at a node, from the one at its parent: in the document ...
LEMMA RfcBaseStep ==
    ASSUME NEW d, DocumentOK(d), TreeOK(d), NEW n \in Nodes(d)
    PROVE  /\ n = 1 => BaseByRfc(d, n) = NextBase("rfc", d, n, DocumentUri)
           /\ n # 1 => BaseByRfc(d, n) = NextBase("rfc", d, n, BaseByRfc(d, d[n].p))
<1> DEFINE next(k, base) == LET above == IF d[k].p = 0 THEN DocumentUri ELSE base[d[k].p]
                            IN  IF HasBase(d, k) THEN ResolveByRfc(above, OwnBase(d, k)) ELSE above
           a == CHOOSE base : base = [k \in Nodes(d) |-> next(k, base)]
<1>0. Len(d) \in Nat /\ Nodes(d) = 1 .. Len(d)
  BY DEF DocumentOK
<1>1. \A m : BaseByRfc(d, m) = a[m]
  BY DEF BaseByRfc
<1>2. \A k, b : next(k, b) = BaseStep("rfc", d, k, b)
  BY DEF BaseStep, NextBase, Resolve, Start
<1> HIDE DEF next
<1>3. \E b : b = [k \in Nodes(d) |-> next(k, b)]
  <2>1. PICK b : Bases("rfc", d, b)
    BY <1>0, BasesExist
  <2>2. [k \in Nodes(d) |-> BaseStep("rfc", d, k, b)] = [k \in Nodes(d) |-> next(k, b)]
    BY <1>2
  <2>3. b = [k \in Nodes(d) |-> next(k, b)]
    BY <2>1, <2>2 DEF Bases
  <2> QED BY <2>3
<1>4. a = [k \in Nodes(d) |-> next(k, a)]
  BY <1>3
<1> HIDE DEF a
<1>5. a[n] = BaseStep("rfc", d, n, a)
  BY <1>2, <1>4
<1>6. (n = 1 => d[n].p = 0) /\ (n # 1 => d[n].p # 0)
  BY ParentOK DEF TreeOK
<1> QED BY <1>1, <1>5, <1>6 DEF BaseStep, Start

\* ... and as compute_absolute_base_uri makes it.
LEMMA CodeBaseStep ==
    ASSUME NEW d, DocumentOK(d), TreeOK(d), NEW n \in Nodes(d)
    PROVE  /\ n = 1 => compute_absolute_base_uri(d, n) = NextBase("code", d, n, <<>>)
           /\ n # 1 => compute_absolute_base_uri(d, n)
                          = NextBase("code", d, n, compute_absolute_base_uri(d, d[n].p))
<1> DEFINE next(k, base) == LET above == IF d[k].p = 0 THEN <<>> ELSE base[d[k].p]
                                own == XmlAttr(d, k, "base")
                            IN  IF own = {} THEN above
                                ELSE LET ref == (CHOOSE x \in own : TRUE).value
                                     IN  IF above = <<>> THEN ref ELSE resolve_uri_reference(above, ref)
           a == CHOOSE base : base = [k \in Nodes(d) |-> next(k, base)]
<1>0. Len(d) \in Nat /\ Nodes(d) = 1 .. Len(d)
  BY DEF DocumentOK
<1>1. \A m : compute_absolute_base_uri(d, m) = a[m]
  BY DEF compute_absolute_base_uri
<1>2. \A k, b : next(k, b) = BaseStep("code", d, k, b)
  BY DEF BaseStep, NextBase, Resolve, Start, HasBase, OwnBase
<1> HIDE DEF next
<1>3. \E b : b = [k \in Nodes(d) |-> next(k, b)]
  <2>1. PICK b : Bases("code", d, b)
    BY <1>0, BasesExist
  <2>2. [k \in Nodes(d) |-> BaseStep("code", d, k, b)] = [k \in Nodes(d) |-> next(k, b)]
    BY <1>2
  <2>3. b = [k \in Nodes(d) |-> next(k, b)]
    BY <2>1, <2>2 DEF Bases
  <2> QED BY <2>3
<1>4. a = [k \in Nodes(d) |-> next(k, a)]
  BY <1>3
<1> HIDE DEF a
<1>5. a[n] = BaseStep("code", d, n, a)
  BY <1>2, <1>4
<1>6. (n = 1 => d[n].p = 0) /\ (n # 1 => d[n].p # 0)
  BY ParentOK DEF TreeOK
<1> QED BY <1>1, <1>5, <1>6 DEF BaseStep, Start

\* The base the code computes at a node, and the one of RFC 3986, which is the first resolved
\* against the document.
Computed(d, n, c) ==
    /\ c \in Seq(Names) /\ Resolvable(c)
    /\ BaseByRfc(d, n) = ResolveByRfc(DocumentUri, c)
    /\ Unset(d, n) => c = <<>>
    /\ Anchored(d, n) => HasScheme(c)

\* One step of both.
LEMMA NextBases ==
    ASSUME NEW d, NEW n \in Nodes(d), ValuesResolvable(d),
           NEW a \in Seq(Names), Resolvable(a),
           NEW c, c = NextBase("code", d, n, a)
    PROVE  /\ c \in Seq(Names) /\ Resolvable(c)
           /\ NextBase("rfc", d, n, ResolveByRfc(DocumentUri, a)) = ResolveByRfc(DocumentUri, c)
           /\ a # <<>> => c # <<>>
           /\ a = <<>> /\ (HasBase(d, n) => OwnBase(d, n) = <<>>) => c = <<>>
           /\ HasScheme(a) \/ (HasBase(d, n) /\ HasScheme(OwnBase(d, n))) => HasScheme(c)
<1>1. CASE ~HasBase(d, n)
  <2>1. c = a /\ NextBase("rfc", d, n, ResolveByRfc(DocumentUri, a)) = ResolveByRfc(DocumentUri, a)
    BY <1>1 DEF NextBase
  <2> QED BY <1>1, <2>1
<1>2. CASE HasBase(d, n)
  <2> DEFINE r == OwnBase(d, n)
  <2>1. r \in Seq(Names) /\ Resolvable(r)
    <3>1. \A x \in XmlAttr(d, n, "base") : x.value \in Seq(STRING) /\ Resolvable(x.value)
      BY DEF ValuesResolvable
    <3>2. (CHOOSE x \in XmlAttr(d, n, "base") : TRUE) \in XmlAttr(d, n, "base")
      BY <1>2 DEF HasBase
    <3>3. Seq(STRING) \subseteq Seq(Names)
      <4>1. STRING \subseteq Names
        BY Zenon DEF Names
      <4> QED BY <4>1, SeqMonotonic
    <3> QED BY <3>1, <3>2, <3>3 DEF OwnBase
  <2>2. /\ c = IF a = <<>> THEN r ELSE resolve_uri_reference(a, r)
        /\ NextBase("rfc", d, n, ResolveByRfc(DocumentUri, a)) = ResolveByRfc(ResolveByRfc(DocumentUri, a), r)
    BY <1>2 DEF NextBase, Resolve
  <2> HIDE DEF r
  <2>3. CASE a = <<>>
    <3>1. ResolveByRfc(DocumentUri, a) = DocumentUri /\ ~HasScheme(a)
      BY <2>3 DEF ResolveByRfc, HasScheme
    <3> QED BY <1>2, <2>1, <2>2, <2>3, <3>1 DEF r
  <2>4. CASE a # <<>>
    <3>1. c = resolve_uri_reference(a, r)
      BY <2>2, <2>4
    <3>2. /\ c \in Seq(Names) /\ c # <<>> /\ Resolvable(c)
          /\ HasScheme(a) \/ HasScheme(r) => HasScheme(c)
          /\ ResolveByRfc(ResolveByRfc(DocumentUri, a), r) = ResolveByRfc(DocumentUri, c)
      BY <2>1, <2>4, <3>1, ResolvedTwice
    <3> QED BY <2>2, <2>4, <3>2 DEF r
  <2> QED BY <2>3, <2>4
<1> QED BY <1>1, <1>2

\* The values on the way up to a node are its own and those on the way up to its parent.
LEMMA BasesStep ==
    ASSUME NEW d, DocumentOK(d), TreeOK(d), NEW n \in Nodes(d)
    PROVE  BasesAbove(d, n) = (IF HasBase(d, n) THEN {OwnBase(d, n)} ELSE {})
                                 \union (IF n = 1 THEN {} ELSE BasesAbove(d, d[n].p))
<1>1. AncestorsOrSelf(d, n) = {n} \union (IF n = 1 THEN {} ELSE AncestorsOrSelf(d, d[n].p))
  <2>1. AncestorsOrSelf(d, n) = {n} \union (IF d[n].p = 0 THEN {} ELSE AncestorsOrSelf(d, d[n].p))
    BY AncestorsStep DEF DocumentOK
  <2>2. n = 1 <=> d[n].p = 0
    BY ParentOK DEF TreeOK
  <2> QED BY <2>1, <2>2
<1> QED BY <1>1 DEF BasesAbove

\* At every node.
LEMMA BothBases ==
    ASSUME NEW d, NEW n \in Nodes(d), DocumentOK(d), TreeOK(d), ValuesResolvable(d)
    PROVE  /\ Computed(d, n, compute_absolute_base_uri(d, n))
           /\ n # 1 /\ compute_absolute_base_uri(d, n) = <<>> => compute_absolute_base_uri(d, d[n].p) = <<>>
<1> DEFINE C(k) == compute_absolute_base_uri(d, k)
           Good(k) == Computed(d, k, C(k))
           Bad == {k \in Nodes(d) : ~Good(k)}
<1>1. ASSUME NEW k \in Nodes(d), k # 1 => Good(d[k].p)
      PROVE  Good(k) /\ (k # 1 /\ C(k) = <<>> => C(d[k].p) = <<>>)
  <2> DEFINE a == IF k = 1 THEN <<>> ELSE C(d[k].p)
             b == IF k = 1 THEN DocumentUri ELSE BaseByRfc(d, d[k].p)
             own == HasBase(d, k)
  <2>1. C(k) = NextBase("code", d, k, a)
    BY CodeBaseStep
  <2>2. BaseByRfc(d, k) = NextBase("rfc", d, k, b)
    BY RfcBaseStep
  <2>3. a \in Seq(Names) /\ Resolvable(a) /\ b = ResolveByRfc(DocumentUri, a)
    <3>1. CASE k = 1
      BY <3>1 DEF ResolveByRfc, Resolvable
    <3>2. CASE k # 1
      BY <1>1, <3>2 DEF Computed
    <3> QED BY <3>1, <3>2
  <2>4. k # 1 => (Unset(d, d[k].p) => a = <<>>) /\ (Anchored(d, d[k].p) => HasScheme(a))
    BY <1>1 DEF Computed
  <2>5. BasesAbove(d, k) = (IF own THEN {OwnBase(d, k)} ELSE {})
                              \union (IF k = 1 THEN {} ELSE BasesAbove(d, d[k].p))
    BY BasesStep
  <2>6. k = 1 => a = <<>>
    OBVIOUS
  <2>7. k # 1 => a = C(d[k].p)
    OBVIOUS
  <2> HIDE DEF a, b, C
  <2>8. /\ C(k) \in Seq(Names) /\ Resolvable(C(k))
        /\ NextBase("rfc", d, k, ResolveByRfc(DocumentUri, a)) = ResolveByRfc(DocumentUri, C(k))
        /\ a # <<>> => C(k) # <<>>
        /\ a = <<>> /\ (own => OwnBase(d, k) = <<>>) => C(k) = <<>>
        /\ HasScheme(a) \/ (own /\ HasScheme(OwnBase(d, k))) => HasScheme(C(k))
    BY <2>1, <2>3, NextBases
  <2>9. Unset(d, k) => a = <<>> /\ (own => OwnBase(d, k) = <<>>)
    BY <2>4, <2>5, <2>6 DEF Unset
  <2>10. Anchored(d, k) => HasScheme(a) \/ (own /\ HasScheme(OwnBase(d, k)))
    BY <2>4, <2>5 DEF Anchored
  <2> QED BY <2>2, <2>3, <2>7, <2>8, <2>9, <2>10 DEF Computed
<1>2. ASSUME Bad # {} PROVE FALSE
  <2>0. Bad \in SUBSET Nat
    BY DEF DocumentOK
  <2> HIDE DEF Good
  <2>1. PICK k \in Bad : \A j \in Bad : k <= j
    BY <1>2, <2>0, LeastExists
  <2>2. k \in Nodes(d) /\ ~Good(k)
    BY <2>1
  <2>3. k # 1 => d[k].p \in Nodes(d) /\ d[k].p < k /\ k \in Nat /\ d[k].p \in Nat
    BY <2>2, ParentOK DEF DocumentOK
  <2>4. k # 1 => Good(d[k].p)
    BY <2>1, <2>3
  <2> QED BY <1>1, <2>2, <2>4
<1>3. \A k \in Nodes(d) : Good(k)
  BY <1>2
<1>4. n # 1 => d[n].p \in Nodes(d)
  BY ParentOK
<1> QED BY <1>1, <1>3, <1>4

\* Where there is no base, the xml:base in effect, if any, is empty.
LEMMA EmptyEffect ==
    ASSUME NEW d, NEW n \in Nodes(d), DocumentOK(d), TreeOK(d), ValuesResolvable(d),
           compute_absolute_base_uri(d, n) = <<>>
    PROVE  InEffect(d, n, "base") = {} \/ (CHOOSE a \in InEffect(d, n, "base") : TRUE).value = <<>>
<1> DEFINE C(k) == compute_absolute_base_uri(d, k)
           E(k) == InEffect(d, k, "base")
           Good(k) == C(k) = <<>> => E(k) = {} \/ (CHOOSE a \in E(k) : TRUE).value = <<>>
           Bad == {k \in Nodes(d) : ~Good(k)}
<1>1. ASSUME Bad # {} PROVE FALSE
  <2>0. Bad \in SUBSET Nat
    BY DEF DocumentOK
  <2> HIDE DEF Good
  <2>1. PICK k \in Bad : \A j \in Bad : k <= j
    BY <1>1, <2>0, LeastExists
  <2>2. k \in Nodes(d) /\ ~Good(k)
    BY <2>1
  <2>3. k # 1 => d[k].p \in Nodes(d) /\ d[k].p < k /\ k \in Nat /\ d[k].p \in Nat
    BY <2>2, ParentOK DEF DocumentOK
  <2>4. k # 1 => Good(d[k].p)
    BY <2>1, <2>3
  <2> HIDE DEF Bad
  <2>5. /\ HasBase(d, k) => E(k) = XmlAttr(d, k, "base")
        /\ ~HasBase(d, k) /\ k = 1 => E(k) = {}
        /\ ~HasBase(d, k) /\ k # 1 => E(k) = E(d[k].p)
    BY <2>2, EffectStep DEF HasBase
  <2>6. /\ k = 1 => C(k) = NextBase("code", d, k, <<>>)
        /\ k # 1 => C(k) = NextBase("code", d, k, C(d[k].p))
    BY <2>2, CodeBaseStep
  <2>7. k # 1 /\ C(k) = <<>> => C(d[k].p) = <<>>
    BY <2>2, BothBases
  <2>8. NextBase("code", d, k, <<>>) = IF HasBase(d, k) THEN OwnBase(d, k) ELSE <<>>
    BY DEF NextBase, Resolve
  <2>9. HasBase(d, k) => OwnBase(d, k) = (CHOOSE a \in E(k) : TRUE).value
    BY <2>5 DEF OwnBase
  <2> HIDE DEF C, E
  <2>10. CASE HasBase(d, k)
    BY <2>2, <2>6, <2>7, <2>8, <2>9, <2>10 DEF Good
  <2>11. CASE ~HasBase(d, k)
    BY <2>2, <2>4, <2>5, <2>7, <2>11 DEF Good
  <2> QED BY <2>10, <2>11
<1>2. Good(n)
  BY <1>1
<1> QED BY <1>2

\* What C14N 1.1 writes as the xml:base of an element.
LEMMA BaseAttrsWritten ==
    ASSUME NEW d, NEW s, NEW m, NEW c, NEW n \in Nodes(d), NEW k,
           DocumentOK(d), TreeOK(d), n # 1, ~m.exclusive, m.base, ~excludes_attrs(s),
           c[k].attrs = Attrs(d, s, n, m)
    PROVE  /\ ~(s # <<>> /\ ParentHidden(d, s, n)) => XmlAttr(c, k, "base") = XmlAttr(d, n, "base")
           /\ s # <<>> /\ ParentHidden(d, s, n) =>
                IF compute_absolute_base_uri(d, n) # <<>>
                THEN XmlAttr(c, k, "base") = {[prefix |-> Xml, local |-> "base",
                                               value |-> compute_absolute_base_uri(d, n)]}
                ELSE XmlAttr(c, k, "base") = InEffect(d, n, "base")
<1> DEFINE inh == collect_inherited_xml_attrs(d, n)
           all_xml == d[n].attrs \union inh
           base == compute_absolute_base_uri(d, n)
           rest == {a \in all_xml : ~(a.prefix = Xml /\ a.local = "base")}
           extra == [prefix |-> Xml, local |-> "base", value |-> base]
           pick(A) == {a \in A : a.prefix = Xml /\ a.local = "base"}
<1>1. c[k].attrs = IF s = <<>> \/ ~ParentHidden(d, s, n) THEN d[n].attrs
                   ELSE IF base # <<>> THEN rest \union {extra}
                   ELSE all_xml
  BY DEF Attrs, InclusiveAttrs
<1>2. XmlAttr(c, k, "base") = pick(c[k].attrs) /\ XmlAttr(d, n, "base") = pick(d[n].attrs)
  BY DEF XmlAttr
<1>3. pick(inh) = IF XmlAttr(d, n, "base") = {} THEN InEffect(d, d[n].p, "base") ELSE {}
  BY InheritedEffect
<1>4. InEffect(d, n, "base") = IF XmlAttr(d, n, "base") = {} THEN InEffect(d, d[n].p, "base")
                               ELSE XmlAttr(d, n, "base")
  BY EffectStep
<1> HIDE DEF inh, base
<1>5. pick(all_xml) = pick(d[n].attrs) \union pick(inh)
  OBVIOUS
<1>6. pick(rest) = {}
  OBVIOUS
<1>7. extra.local = "base" /\ extra.prefix = Xml
  OBVIOUS
<1> HIDE DEF extra, rest, all_xml
<1>8. pick(rest \union {extra}) = {extra}
  BY <1>6, <1>7
<1> HIDE DEF pick
<1>9. pick(all_xml) = InEffect(d, n, "base")
  BY <1>2, <1>3, <1>4, <1>5
<1>10. ~(s # <<>> /\ ParentHidden(d, s, n)) => XmlAttr(c, k, "base") = XmlAttr(d, n, "base")
  BY <1>1, <1>2
<1>11. s # <<>> /\ ParentHidden(d, s, n) => IF base # <<>> THEN XmlAttr(c, k, "base") = {extra}
                                            ELSE XmlAttr(c, k, "base") = InEffect(d, n, "base")
  BY <1>1, <1>2, <1>8, <1>9
<1> QED BY <1>10, <1>11 DEF base, extra

\* The base is the same in the text: at the tags, and where there is none.
LEMMA BaseWritten ==
    ASSUME NEW d, NEW s, NEW m, NEW c, NEW f, NEW n \in Nodes(d),
           DocumentOK(d), TreeOK(d), DocumentOK(c), TreeOK(c), WrittenAs(d, s, m, c, f),
           ~m.exclusive, m.base, ~excludes_attrs(s), OnceResolved(d, s), ValuesResolvable(d)
    PROVE  n \in Tags(d, s) => BaseByRfc(c, f[n]) = BaseByRfc(d, n)
<1> DEFINE B(k) == BaseByRfc(d, k)
           C(k) == compute_absolute_base_uri(d, k)
           D == DocumentUri
           W(k) == BaseByRfc(c, PlaceOf(d, s, f, k))
           Good(k) == (k \in Tags(d, s) => W(k) = B(k)) /\ (C(k) = <<>> => W(k) = D)
           Bad == {k \in Nodes(d) : ~Good(k)}
<1>1. ASSUME Bad # {} PROVE FALSE
  <2>0. Bad \in SUBSET Nat
    BY DEF DocumentOK
  <2> HIDE DEF Good
  <2>1. PICK k \in Bad : \A j \in Bad : k <= j
    BY <1>1, <2>0, LeastExists
  <2>2. k \in Nodes(d) /\ ~Good(k)
    BY <2>1
  <2> DEFINE up == d[k].p
  <2>3. k # 1 => up \in Nodes(d) /\ up < k /\ k \in Nat /\ up \in Nat
    <3>1. \A j \in Nodes(d) : j \in Nat
      BY DEF DocumentOK
    <3>2. k # 1 => up \in Nodes(d) /\ up < k
      BY <2>2, ParentOK
    <3> QED BY <2>2, <3>1, <3>2
  <2>4. \A j \in Nodes(d) : j < k => Good(j)
    <3> SUFFICES ASSUME NEW j \in Nodes(d), j < k, ~Good(j) PROVE FALSE
      OBVIOUS
    <3>1. j \in Bad /\ j \in Nat /\ k \in Nat
      BY <2>2 DEF DocumentOK
    <3> QED BY <2>1, <3>1
  <2> HIDE DEF Bad
  <2>5. /\ k \in Tags(d, s) => TagAbove(d, s, k) = k
        /\ k \notin Tags(d, s) => k # 1 /\ TagAbove(d, s, k) = TagAbove(d, s, up)
    BY <2>2, TagStep
  <2>6. /\ B(k) = ResolveByRfc(D, C(k)) /\ (C(k) = <<>> => B(k) = D)
        /\ k # 1 /\ C(k) = <<>> => C(up) = <<>>
    <3>1. ResolveByRfc(D, <<>>) = D
      BY DEF ResolveByRfc
    <3>2. Computed(d, k, C(k)) /\ (k # 1 /\ C(k) = <<>> => C(up) = <<>>)
      BY <2>2, BothBases
    <3> HIDE DEF B, C, D, up
    <3> QED BY <3>1, <3>2 DEF Computed, B, D
  <2>7. CASE k \notin Tags(d, s)
    <3>1. k # 1 /\ W(k) = W(up)
      BY <2>5, <2>7 DEF PlaceOf
    <3>2. Good(up)
      BY <2>3, <2>4, <3>1
    <3> HIDE DEF W, B, C, D, up
    <3> QED BY <2>2, <2>6, <2>7, <3>1, <3>2 DEF Good
  <2>8. CASE k \in Tags(d, s)
    <3>1. f[k] \in Nodes(c) /\ W(k) = BaseByRfc(c, f[k])
      BY <2>5, <2>8 DEF PlaceOf, WrittenAs
    <3>2. /\ f[k] = 1 => W(k) = NextBase("rfc", c, f[k], D)
          /\ f[k] # 1 => W(k) = NextBase("rfc", c, f[k], BaseByRfc(c, c[f[k]].p))
      BY <3>1, RfcBaseStep
    <3>3. /\ k = 1 => B(k) = NextBase("rfc", d, k, D)
          /\ k # 1 => B(k) = NextBase("rfc", d, k, B(up))
      BY <2>2, RfcBaseStep
    <3>4. \A b : XmlAttr(c, f[k], "base") = XmlAttr(d, k, "base") =>
                    NextBase("rfc", c, f[k], b) = NextBase("rfc", d, k, b)
      <4>1. XmlAttr(c, f[k], "base") = XmlAttr(d, k, "base") =>
               OwnBase(c, f[k]) = OwnBase(d, k) /\ (HasBase(c, f[k]) <=> HasBase(d, k))
        BY DEF OwnBase, HasBase
      <4> QED BY <4>1 DEF NextBase, Resolve
    <3>5. W(k) # B(k)
      <4> HIDE DEF W, B, C, D
      <4> QED BY <2>2, <2>6, <2>8 DEF Good
    <3>6. CASE k = 1
      <4>1. f[k] = 1 /\ c[f[k]].attrs = d[k].attrs
        BY <2>8, <3>6 DEF WrittenAs
      <4>2. XmlAttr(c, f[k], "base") = XmlAttr(d, k, "base")
        BY <4>1 DEF XmlAttr
      <4> HIDE DEF W, B, C, D
      <4> QED BY <3>2, <3>3, <3>4, <3>5, <3>6, <4>1, <4>2
    <3>7. CASE k # 1
      <4>1. f[k] # 1
        BY <2>8, <3>7, ElementWritten
      <4>2. c[f[k]].p = PlaceAbove(d, s, f, k)
        BY <2>8, <3>7, PlaceWritten
      <4>3. c[f[k]].attrs = Attrs(d, s, k, m)
        BY <2>8, <3>7, ElementWritten, SMTT(30)
      <4>4. BaseByRfc(c, c[f[k]].p) = W(up)
        BY <4>2 DEF PlaceAbove, PlaceOf
      <4>5. W(k) = NextBase("rfc", c, f[k], W(up))
        BY <3>2, <4>1, <4>4
      <4>7. ~(s # <<>> /\ ParentHidden(d, s, k)) => XmlAttr(c, f[k], "base") = XmlAttr(d, k, "base")
        BY <2>2, <3>7, <4>3, BaseAttrsWritten
      <4>8. s # <<>> /\ ParentHidden(d, s, k) /\ C(k) # <<>> =>
               XmlAttr(c, f[k], "base") = {[prefix |-> Xml, local |-> "base", value |-> C(k)]}
        BY <2>2, <3>7, <4>3, BaseAttrsWritten
      <4>9. s # <<>> /\ ParentHidden(d, s, k) /\ C(k) = <<>> =>
               XmlAttr(c, f[k], "base") = InEffect(d, k, "base")
        BY <2>2, <3>7, <4>3, BaseAttrsWritten
      <4>10. Good(up)
        BY <2>3, <2>4, <3>7
      \* its parent is written ...
      <4>11. CASE ~(s # <<>> /\ ParentHidden(d, s, k))
        <5>1. up \in Nodes(d) /\ d[up].k \in {"doc", "elem"}
          BY <2>2, <3>7, ParentOK
        <5>2. up \in Tags(d, s)
          BY <4>11, <5>1 DEF Tags, ParentHidden, is_visible, IsElem
        <5> HIDE DEF W, B, C, D, up
        <5>3. W(up) = B(up)
          BY <4>10, <5>2 DEF Good
        <5> QED BY <3>3, <3>4, <3>5, <3>7, <4>5, <4>7, <4>11, <5>3
      \* ... or its base is made explicit: one with a scheme, which is that base wherever it is
      \* written, or one below no other ...
      <4>12. CASE s # <<>> /\ ParentHidden(d, s, k) /\ C(k) # <<>>
        <5>1. HasBase(c, f[k]) /\ OwnBase(c, f[k]) = C(k)
          <6> DEFINE x == [prefix |-> Xml, local |-> "base", value |-> C(k)]
          <6>1. XmlAttr(c, f[k], "base") = {x} /\ x.value = C(k)
            BY <4>8, <4>12
          <6> HIDE DEF x, C
          <6>2. (CHOOSE a \in XmlAttr(c, f[k], "base") : TRUE) = x
            BY <6>1
          <6> QED BY <6>1, <6>2 DEF OwnBase, HasBase
        <5>2. W(k) = ResolveByRfc(W(up), C(k))
          <6> HIDE DEF W, B, C, D, up
          <6> QED BY <4>5, <5>1 DEF NextBase, Resolve
        <5>3. CASE HasScheme(C(k))
          <6> DEFINE v == C(k)
          <6> HIDE DEF v
          <6>1. HasScheme(v) => v # <<>>
            BY DEF HasScheme
          <6>2. \A a, b : HasScheme(v) => ResolveByRfc(a, v) = ResolveByRfc(b, v)
            BY <6>1 DEF ResolveByRfc
          <6> HIDE DEF W, B, C, D, up
          <6> QED BY <2>6, <3>5, <5>2, <5>3, <6>2 DEF v
        <5>4. CASE ~HasScheme(C(k))
          <6> DEFINE t == TagAbove(d, s, up)
          <6>1. up \in Nodes(d) /\ Len(d) \in Nat /\ Nodes(d) = 1 .. Len(d) /\ up # 0
            BY <2>2, <3>7, ParentOK DEF DocumentOK
          <6>2. t \in Tags(d, s) /\ t \in AncestorsOrSelf(d, up)
            BY <6>1, TagStep
          <6>3. AncestorsOrSelf(d, k) = {k} \union AncestorsOrSelf(d, up)
            BY <2>2, <6>1, AncestorsStep
          <6>4. AncestorsOrSelf(d, up) \subseteq 1 .. up
            BY <6>1, AncestorsOK
          <6>5. t < k /\ t # k /\ t \in Nodes(d)
            BY <2>3, <3>7, <6>1, <6>2, <6>4
          <6>6. IsElem(d, t) => is_visible(s, t)
            BY <6>2 DEF Tags, IsElem
          <6>7. IsElem(d, k) /\ is_visible(s, k)
            BY <2>8, <3>7, ElementWritten
          <6>8. ~Unset(d, k) /\ ~Anchored(d, k)
            BY <2>2, <4>12, <5>4, BothBases DEF Computed
          <6>9. C(t) = <<>>
            <7>1. t \in AncestorsOrSelf(d, k) \ {k}
              BY <6>2, <6>3, <6>5
            <7> HIDE DEF t, up
            <7>2. Unset(d, t)
              BY <2>2, <4>12, <6>6, <6>7, <6>8, <7>1 DEF OnceResolved
            <7> QED BY <6>5, <7>2, BothBases DEF Computed
          <6>10. W(up) = W(t)
            BY <6>2, <6>5, TagStep DEF PlaceOf
          <6> HIDE DEF W, B, C, D, up, t
          <6>11. W(up) = D
            BY <2>4, <6>5, <6>9, <6>10 DEF Good
          <6> QED BY <2>6, <3>5, <5>2, <6>11
        <5> QED BY <5>3, <5>4
      \* ... or it has none.
      <4>13. CASE s # <<>> /\ ParentHidden(d, s, k) /\ C(k) = <<>>
        <5>1. InEffect(d, k, "base") = {} \/ (CHOOSE a \in InEffect(d, k, "base") : TRUE).value = <<>>
          BY <2>2, <4>13, EmptyEffect
        <5>2. ~HasBase(c, f[k]) \/ OwnBase(c, f[k]) = <<>>
          BY <4>9, <4>13, <5>1 DEF OwnBase, HasBase
        <5>3. \A b : ResolveByRfc(b, <<>>) = b
          BY DEF ResolveByRfc
        <5> HIDE DEF W, B, C, D, up
        <5>4. W(up) = D
          BY <2>6, <3>7, <4>10, <4>13 DEF Good
        <5> QED BY <2>6, <3>5, <4>5, <4>13, <5>2, <5>3, <5>4 DEF NextBase, Resolve
      <4> QED BY <4>11, <4>12, <4>13
    <3> QED BY <3>6, <3>7
  <2> QED BY <2>7, <2>8
<1>2. ASSUME n \in Tags(d, s) PROVE PlaceOf(d, s, f, n) = f[n]
  BY <1>2, TagStep DEF PlaceOf
<1>3. Good(n)
  BY <1>1
<1> QED BY <1>2, <1>3

\* The base URI at an element is the same in a C14N 1.1 text: what the least node at which it
\* differs would have above it, in the text and in the document, gives the same base there.
THEOREM BasesStay == Spec => []BaseKept
<1>1. Init => DInv
  BY DocumentInit
<1>2. DInv /\ [Next]_vars => DInv'
  BY StepNarrows
<1>3. DInv => BaseKept
  <2> SUFFICES ASSUME DInv, ~excludes_attrs(data.set), OnceResolved(data.text, data.set),
                      ValuesResolvable(data.text), NEW m \in MODES, m.base, ~m.exclusive,
                      NEW q \in WrittenPairs(canonicalize(data.text, data.set, m))
               PROVE  BaseByRfc(canonicalize(data.text, data.set, m), q[1])
                         = BaseByRfc(data.text, q[2])
    BY DEF BaseKept, SameBases
  <2> DEFINE c == canonicalize(data.text, data.set, m)
  <2>1. /\ DocumentOK(data.text) /\ TreeOK(data.text)
        /\ DocumentOK(c) /\ TreeOK(c)
    BY CanonicalText
  <2>2. PICK f : WrittenAs(data.text, data.set, m, c, f)
    BY CanonicalText
  <2>3. q \in WrittenPairs(c)
    OBVIOUS
  <2> HIDE DEF c
  <2>4. PICK n \in Tags(data.text, data.set) : n = q[2] /\ q[1] = f[n]
    BY <2>1, <2>2, <2>3, PairWritten
  <2>5. n \in Nodes(data.text)
    BY <2>4 DEF Tags
  <2>6. BaseByRfc(c, f[n]) = BaseByRfc(data.text, n)
    BY <2>1, <2>2, <2>4, <2>5, BaseWritten
  <2> QED BY <2>4, <2>6 DEF c
<1> QED BY <1>1, <1>2, <1>3, PTL DEF Spec

-----------------------------------------------------------------------------
(* The order of relationships.                                             *)

\* The relationships up to one of them.
RelsUpTo(d, t, n) == {m \in SelectedRels(d, t) : m = n \/ Before(d, t, m, n)}

\* What is selected can be counted, and no two have the same number.
LEMMA RelRanks ==
    ASSUME NEW d, DocumentOK(d), NEW t,
           DOMAIN t.order \subseteq Nat,
           \A i, j \in DOMAIN t.order : t.order[i] = t.order[j] => i = j
    PROVE  /\ IsFiniteSet(SelectedRels(d, t)) /\ SelectedRels(d, t) \in SUBSET Nat
           /\ \A n, m \in SelectedRels(d, t) :
                 Cardinality(RelsUpTo(d, t, n)) = Cardinality(RelsUpTo(d, t, m)) => n = m
           /\ \A i \in 1 .. Cardinality(SelectedRels(d, t)) :
                 \E n \in SelectedRels(d, t) : Cardinality(RelsUpTo(d, t, n)) = i
<1> DEFINE S == SelectedRels(d, t)
           R == {q \in S \X S : Before(d, t, q[1], q[2])}
           U(n) == RelsUpTo(d, t, n)
<1>1. S \in SUBSET Nat /\ IsFiniteSet(S)
  <2>1. IsFiniteSet(1 .. Len(d))
    BY FS_Interval DEF DocumentOK
  <2> QED BY <2>1, FS_Subset DEF SelectedRels, DocumentOK
<1>2. \A n : U(n) = {m \in S : m = n \/ Before(d, t, m, n)}
  BY DEF RelsUpTo
<1> HIDE DEF S, U
<1>3. /\ \A n \in S : ~Before(d, t, n, n)
      /\ \A l, n, m \in S : Before(d, t, l, n) /\ Before(d, t, n, m) => Before(d, t, l, m)
      /\ \A n, m \in S : n # m => Before(d, t, n, m) \/ Before(d, t, m, n)
  BY <1>1, BeforeOrders
<1>4. \A n, m \in S : <<n, m>> \in R <=> Before(d, t, n, m)
  OBVIOUS
<1> HIDE DEF R
<1>5. /\ \A n \in S : <<n, n>> \notin R
      /\ \A l, n, m \in S : <<l, n>> \in R /\ <<n, m>> \in R => <<l, m>> \in R
      /\ \A n, m \in S : n # m => <<n, m>> \in R \/ <<m, n>> \in R
  BY <1>3, <1>4
<1>6. \A i \in 1 .. Cardinality(S) : \E n \in S : Cardinality(UpTo(S, R, n)) = i
  BY <1>1, <1>5, RankOnto
<1>7. ASSUME NEW n \in S PROVE UpTo(S, R, n) = U(n)
  BY <1>2, <1>4 DEF UpTo
<1>8. \A i \in 1 .. Cardinality(S) : \E n \in S : Cardinality(U(n)) = i
  BY <1>6, <1>7
<1>9. ASSUME NEW n \in S, NEW m \in S, Before(d, t, n, m) PROVE Cardinality(U(n)) # Cardinality(U(m))
  <2>1. U(n) \in SUBSET U(m) /\ m \in U(m) /\ m \notin U(n) /\ U(m) \in SUBSET S
    BY <1>2, <1>3, <1>9
  <2>2. IsFiniteSet(U(m)) /\ U(n) # U(m)
    BY <1>1, <2>1, FS_Subset
  <2> QED BY <2>1, <2>2, FS_Subset
<1>10. \A n, m \in S : Cardinality(U(n)) = Cardinality(U(m)) => n = m
  BY <1>3, <1>9
<1> QED BY <1>1, <1>8, <1>10 DEF S, U

\* The i-th relationship is the one of that number.
LEMMA SortedRelsRank ==
    ASSUME NEW d, NEW t, NEW i, NEW n \in SelectedRels(d, t),
           i \in 1 .. Cardinality(SelectedRels(d, t)),
           Cardinality(RelsUpTo(d, t, n)) = i,
           \A l, m \in SelectedRels(d, t) :
              Cardinality(RelsUpTo(d, t, l)) = Cardinality(RelsUpTo(d, t, m)) => l = m
    PROVE  SortedRels(d, t)[i] = n
<1> DEFINE S == SelectedRels(d, t)
           U(m) == RelsUpTo(d, t, m)
           u == CHOOSE l \in S : Cardinality(U(l)) = i
<1>1. SortedRels(d, t) = [j \in 1 .. Cardinality(S) |-> CHOOSE l \in S : Cardinality(U(l)) = j]
  BY DEF SortedRels, RelsUpTo
<1> HIDE DEF S, U
<1>2. SortedRels(d, t)[i] = u
  BY <1>1 DEF S
<1>3. u \in S /\ Cardinality(U(u)) = i
  BY DEF S, U
<1> HIDE DEF u
<1>4. u = n
  BY <1>3 DEF S, U
<1> QED BY <1>2, <1>4

\* How deep nodes are.
LEMMA DepthStep ==
    ASSUME NEW d, DocumentOK(d), TreeOK(d), NEW n \in Nodes(d)
    PROVE  /\ Depth(d, n) \in Nat \ {0}
           /\ n = 1 => Depth(d, n) = 1
           /\ n # 1 => Depth(d, n) = Depth(d, d[n].p) + 1
<1>1. Len(d) \in Nat /\ Nodes(d) = 1 .. Len(d)
  BY DEF DocumentOK
<1>2. \A m \in Nodes(d) : AncestorsOrSelf(d, m) \subseteq 1 .. m /\ IsFiniteSet(AncestorsOrSelf(d, m))
  <2> TAKE m \in Nodes(d)
  <2>1. AncestorsOrSelf(d, m) \subseteq 1 .. m /\ m \in Nat
    BY <1>1, AncestorsOK
  <2>2. IsFiniteSet(1 .. m)
    BY <2>1, FS_Interval
  <2> QED BY <2>1, <2>2, FS_Subset
<1>3. n = 1 => d[n].p = 0
  BY DEF TreeOK
<1>4. n # 1 => d[n].p \in Nodes(d) /\ d[n].p < n /\ d[n].p # 0 /\ n \in Nat
  BY ParentOK
<1>5. AncestorsOrSelf(d, n) = {n} \union (IF d[n].p = 0 THEN {} ELSE AncestorsOrSelf(d, d[n].p))
  BY <1>1, AncestorsStep
<1>6. CASE n = 1
  <2>1. AncestorsOrSelf(d, n) = {n}
    BY <1>3, <1>5, <1>6
  <2>2. Cardinality({n}) = 1
    BY FS_Singleton
  <2> QED BY <1>6, <2>1, <2>2 DEF Depth
<1>7. CASE n # 1
  <2> DEFINE A == AncestorsOrSelf(d, d[n].p)
  <2>1. AncestorsOrSelf(d, n) = A \union {n} /\ IsFiniteSet(A) /\ A \subseteq 1 .. d[n].p
    BY <1>2, <1>4, <1>5, <1>7
  <2>2. n \notin A
    BY <1>1, <1>4, <1>7, <2>1
  <2> HIDE DEF A
  <2>3. Cardinality(A \union {n}) = Cardinality(A) + 1
    BY <2>1, <2>2, FS_AddElement
  <2>4. Cardinality(A) \in Nat
    BY <2>1, FS_CardinalityType
  <2> QED BY <1>7, <2>1, <2>3, <2>4 DEF Depth, A
<1> QED BY <1>6, <1>7

\* Relationships are among the children of the root; reordering these leaves their parents.
LEMMA ListedNodes ==
    ASSUME NEW d, DocumentOK(d), TreeOK(d), NEW n \in Nodes(d)
    PROVE  /\ n \in Listed(d) => n # 1 /\ d[n].p \in Nodes(d) /\ d[n].p \notin Listed(d)
           /\ (IsElem(d, n) /\ IsElem(d, d[n].p) /\ d[d[n].p].p = 1) => n \in Listed(d)
           /\ n \notin Listed(d) /\ Depth(d, n) <= 3 => ~(IsElem(d, n) /\ IsElem(d, d[n].p))
<1>0. 1 \in Nodes(d) /\ Depth(d, 1) = 1 /\ d[1].k = "doc"
  <2>1. 1 \in Nodes(d)
    BY DEF DocumentOK
  <2> QED BY <2>1, DepthStep DEF TreeOK
<1>1. Depth(d, n) \in Nat \ {0} /\ (n # 1 => Depth(d, n) = Depth(d, d[n].p) + 1 /\ d[n].p \in Nodes(d))
  BY DepthStep, ParentOK
<1>2. n # 1 => /\ Depth(d, d[n].p) \in Nat \ {0}
               /\ d[n].p # 1 => Depth(d, d[n].p) = Depth(d, d[d[n].p].p) + 1 /\ d[d[n].p].p \in Nodes(d)
  BY <1>1, DepthStep, ParentOK
<1>3. n # 1 /\ d[n].p # 1 => Depth(d, d[d[n].p].p) \in Nat \ {0}
  BY <1>2, DepthStep
<1>4. n \in Listed(d) => n # 1 /\ d[n].p \in Nodes(d) /\ d[n].p \notin Listed(d)
  BY <1>0, <1>1, <1>2 DEF Listed
<1>5. IsElem(d, n) => n # 1
  BY <1>0 DEF IsElem
<1>6. IsElem(d, d[n].p) => d[n].p # 1
  BY <1>0 DEF IsElem
<1>7. (IsElem(d, n) /\ IsElem(d, d[n].p) /\ d[d[n].p].p = 1) => n \in Listed(d)
  BY <1>0, <1>1, <1>2, <1>5, <1>6 DEF Listed
<1>8. n \notin Listed(d) /\ Depth(d, n) <= 3 => ~(IsElem(d, n) /\ IsElem(d, d[n].p))
  BY <1>1, <1>2, <1>3, <1>5, <1>6 DEF Listed
<1> QED BY <1>4, <1>7, <1>8

\* What the reordered part has in the place of a child of the root.
LEMMA ReorderedNode ==
    ASSUME NEW d, NEW f, NEW r, NEW n \in Listed(d), NEW l,
           f \in Bijection(Listed(d), Listed(d)), r = Reordered(d, f)
    PROVE  r[n] = d[f[n]] /\ f[n] \in Listed(d) /\ RelAttr(r, n, l) = RelAttr(d, f[n], l)
<1>1. f \in [Listed(d) -> Listed(d)] /\ n \in Nodes(d)
  BY DEF Bijection, Injection, Listed
<1>2. r[n] = d[f[n]]
  BY <1>1 DEF Reordered
<1>3. r[n].attrs = d[f[n]].attrs
  BY <1>2
<1>4. RelAttr(r, n, l) = RelAttr(d, f[n], l)
  BY <1>3 DEF RelAttr
<1> QED BY <1>1, <1>2, <1>4

\* The relationships selected are the same.
LEMMA ReorderedSelects ==
    ASSUME NEW d, NEW t, NEW f, NEW r, f \in Bijection(Listed(d), Listed(d)),
           DocumentOK(d), TreeOK(d), IsList(d, t), r = Reordered(d, f)
    PROVE  /\ SelectedRels(r, t) = {n \in Listed(d) : f[n] \in SelectedRels(d, t)}
           /\ SelectedRels(d, t) \subseteq Listed(d)
<1> DEFINE L == Listed(d)
<1>0. /\ f \in [L -> L] /\ L \subseteq Nodes(d)
  BY DEF Bijection, Injection, Listed
<1>1. Nodes(r) = Nodes(d) /\ \A n \in Nodes(d) : r[n] = IF n \in L THEN d[f[n]] ELSE d[n]
  BY DEF Reordered, Nodes
<1> HIDE DEF L
<1>2. \A n \in L : r[n] = d[f[n]] /\ f[n] \in L
  BY <1>0, <1>1
<1>3. \A n \in L : /\ RelAttr(r, n, "Id") = RelAttr(d, f[n], "Id")
                   /\ RelAttr(r, n, "Type") = RelAttr(d, f[n], "Type")
  BY ReorderedNode DEF L
<1>4. \A n \in Nodes(d) : /\ n \in L => d[n].p \in Nodes(d) /\ d[n].p \notin L
                          /\ (IsElem(d, n) /\ IsElem(d, d[n].p) /\ d[d[n].p].p = 1) => n \in L
                          /\ n \notin L => ~(IsElem(d, n) /\ IsElem(d, d[n].p))
  <2> TAKE n \in Nodes(d)
  <2>1. Depth(d, n) <= 3
    BY DEF IsList
  <2> QED BY <2>1, ListedNodes DEF L
<1>5. \A n \in L : r[n].p = d[f[n]].p /\ r[r[n].p] = d[d[f[n]].p]
  <2> TAKE n \in L
  <2>1. f[n] \in L /\ f[n] \in Nodes(d) /\ r[n] = d[f[n]]
    BY <1>0, <1>2
  <2>2. d[f[n]].p \in Nodes(d) /\ d[f[n]].p \notin L
    BY <1>4, <2>1
  <2> QED BY <1>1, <2>1, <2>2
<1>6. SelectedRels(d, t) \subseteq L
  BY <1>4 DEF SelectedRels
<1>7. ASSUME NEW n \in L PROVE n \in SelectedRels(r, t) <=> f[n] \in SelectedRels(d, t)
  <2>1. n \in Nodes(r) /\ f[n] \in Nodes(d)
    BY <1>0, <1>1, <1>2
  <2>2. r[n] = d[f[n]] /\ r[r[n].p] = d[d[f[n]].p]
    BY <1>2, <1>5
  <2>3. RelAttr(r, n, "Id") = RelAttr(d, f[n], "Id") /\ RelAttr(r, n, "Type") = RelAttr(d, f[n], "Type")
    BY <1>3
  <2> QED BY <2>1, <2>2, <2>3 DEF SelectedRels, IsElem
<1>8. ASSUME NEW n \in SelectedRels(r, t) PROVE n \in L
  <2> SUFFICES ASSUME n \notin L PROVE FALSE
    OBVIOUS
  <2>1. n \in Nodes(d) /\ r[n] = d[n] /\ IsElem(r, n) /\ IsElem(r, r[n].p)
    BY <1>1 DEF SelectedRels
  <2>2. IsElem(d, n) /\ d[n].p \in Nodes(d)
    <3>1. IsElem(d, n)
      BY <2>1 DEF IsElem
    <3>2. n # 1
      BY <2>1, <3>1 DEF IsElem, TreeOK
    <3> QED BY <2>1, <3>1, <3>2, ParentOK
  <2>3. ~IsElem(d, d[n].p)
    BY <1>4, <2>1, <2>2
  <2>4. d[n].p \in L
    BY <1>1, <2>1, <2>2, <2>3 DEF IsElem
  <2>5. d[d[n].p].k \in {"doc", "elem"} /\ d[n].p # 1
    <3>1. n # 1
      BY <2>1, <2>2 DEF IsElem, TreeOK
    <3> QED BY <2>1, <2>2, <2>4, <3>1, ParentOK, ListedNodes DEF L
  <2> QED BY <2>2, <2>3, <2>5 DEF TreeOK, IsElem
<1>9. SelectedRels(r, t) = {n \in L : f[n] \in SelectedRels(d, t)}
  BY <1>7, <1>8
<1> QED BY <1>6, <1>9 DEF L

\* Two relationships are in the same order in both.
LEMMA ReorderedBefore ==
    ASSUME NEW d, NEW t, NEW f, NEW r, NEW n \in Listed(d), NEW m \in Listed(d),
           f \in Bijection(Listed(d), Listed(d)),
           DocumentOK(d), TreeOK(d), IsList(d, t), r = Reordered(d, f), n # m
    PROVE  Before(r, t, n, m) <=> Before(d, t, f[n], f[m])
<1> DEFINE at(x) == {i \in DOMAIN t.order : t.order[i] = x}
           a == RelAttr(d, f[n], "Id")
           b == RelAttr(d, f[m], "Id")
<1>1. f[n] \in Listed(d) /\ f[m] \in Listed(d) /\ f[n] # f[m]
  BY DEF Bijection, Injection, IsInjective
<1>2. RelAttr(r, n, "Id") = a /\ RelAttr(r, m, "Id") = b
  BY ReorderedNode
<1>3. a # b /\ (a = <<>> \/ at(a) # {}) /\ (b = <<>> \/ at(b) # {})
  BY <1>1 DEF IsList
<1>4. /\ Before(r, t, n, m) <=> \/ \E i \in at(a), j \in at(b) : i < j
                                \/ at(a) = {} /\ at(b) # {}
                                \/ at(a) = at(b) /\ n < m
      /\ Before(d, t, f[n], f[m]) <=> \/ \E i \in at(a), j \in at(b) : i < j
                                      \/ at(a) = {} /\ at(b) # {}
                                      \/ at(a) = at(b) /\ f[n] < f[m]
  BY <1>2 DEF Before
<1> HIDE DEF a, b
<1>5. at(a) # at(b)
  <2>1. at(a) # {} \/ at(b) # {}
    BY <1>3
  <2>2. \A x, y : \A i \in at(x) : i \in at(y) => x = y
    OBVIOUS
  <2> HIDE DEF at
  <2> QED BY <1>3, <2>1, <2>2
<1> HIDE DEF at
<1> QED BY <1>4, <1>5

\* So the sorted list of the reordered part has the same relationships at the same places.
LEMMA ReorderedSorts ==
    ASSUME NEW d, NEW t, NEW f, NEW r, f \in Bijection(Listed(d), Listed(d)),
           DocumentOK(d), TreeOK(d), IsList(d, t), r = Reordered(d, f),
           DOMAIN t.order \subseteq Nat,
           \A i, j \in DOMAIN t.order : t.order[i] = t.order[j] => i = j
    PROVE  /\ DOMAIN SortedRels(r, t) = DOMAIN SortedRels(d, t)
           /\ \A i \in DOMAIN SortedRels(d, t) : /\ SortedRels(r, t)[i] \in Listed(d)
                                                 /\ SortedRels(d, t)[i] = f[SortedRels(r, t)[i]]
<1> DEFINE L == Listed(d)
           S == SelectedRels(d, t)
           T == SelectedRels(r, t)
           U(n) == RelsUpTo(d, t, n)
           V(n) == RelsUpTo(r, t, n)
<1>0. IsFiniteSet(L)
  <2>1. IsFiniteSet(1 .. Len(d)) /\ L \subseteq 1 .. Len(d)
    BY FS_Interval DEF DocumentOK, Listed
  <2> QED BY <2>1, FS_Subset
<1>1. T = {n \in L : f[n] \in S} /\ S \subseteq L
  BY ReorderedSelects
<1>2. /\ f \in [L -> L] /\ \A n, m \in L : f[n] = f[m] => n = m
      /\ \A n \in L : \E m \in L : f[m] = n
  BY DEF Bijection, Injection, Surjection, IsInjective
<1>3. IsFiniteSet(S) /\ S \in SUBSET Nat
  BY RelRanks
<1>4. \A n, m \in S : Cardinality(U(n)) = Cardinality(U(m)) => n = m
  BY RelRanks
<1>5. \A i \in 1 .. Cardinality(S) : \E n \in S : Cardinality(U(n)) = i
  BY RelRanks
<1>6. \A n, m \in L : n # m => (Before(r, t, n, m) <=> Before(d, t, f[n], f[m]))
  BY ReorderedBefore
<1>7. /\ \A n : U(n) = {m \in S : m = n \/ Before(d, t, m, n)}
      /\ \A n : V(n) = {m \in T : m = n \/ Before(r, t, m, n)}
  BY DEF RelsUpTo
<1>8. /\ DOMAIN SortedRels(d, t) = 1 .. Cardinality(S)
      /\ DOMAIN SortedRels(r, t) = 1 .. Cardinality(T)
  BY DEF SortedRels
<1> HIDE DEF S, T, U, V, L
\* f is one-to-one from any set of selected relationships to its image.
<1>9. ASSUME NEW A, NEW B, A \subseteq T, B \subseteq S, \A n \in T : n \in A <=> f[n] \in B
      PROVE  Cardinality(A) = Cardinality(B)
  <2> DEFINE g == [n \in A |-> f[n]]
  <2>1. g \in [A -> B]
    BY <1>9
  <2>2. \A n, m \in A : g[n] = g[m] => n = m
    BY <1>1, <1>2, <1>9
  <2>3. \A k \in B : \E n \in A : g[n] = k
    <3> TAKE k \in B
    <3>1. PICK n \in L : f[n] = k
      BY <1>1, <1>2, <1>9
    <3>2. n \in T /\ n \in A
      BY <1>1, <1>9, <3>1
    <3> QED BY <3>1, <3>2
  <2> HIDE DEF g
  <2>4. g \in Bijection(A, B)
    BY <2>1, <2>2, <2>3 DEF Bijection, Injection, Surjection, IsInjective
  <2>5. ExistsBijection(A, B)
    BY <2>4 DEF ExistsBijection
  <2>6. IsFiniteSet(A)
    BY <1>0, <1>1, <1>9, FS_Subset
  <2> QED BY <2>5, <2>6, FS_Bijection
<1>10. Cardinality(T) = Cardinality(S)
  BY <1>1, <1>9
<1>11. ASSUME NEW n \in T PROVE Cardinality(V(n)) = Cardinality(U(f[n]))
  <2>1. V(n) \subseteq T /\ U(f[n]) \subseteq S
    BY <1>7
  <2>2. ASSUME NEW m \in T PROVE m \in V(n) <=> f[m] \in U(f[n])
    <3>1. m \in L /\ n \in L /\ f[m] \in S
      BY <1>1
    <3>2. CASE m = n
      BY <1>7, <3>1, <3>2
    <3>3. CASE m # n
      <4>1. f[m] # f[n]
        BY <1>2, <3>1, <3>3
      <4> QED BY <1>6, <1>7, <3>1, <3>3, <4>1
    <3> QED BY <3>2, <3>3
  <2> QED BY <1>9, <2>1, <2>2
<1>12. \A n, m \in T : Cardinality(V(n)) = Cardinality(V(m)) => n = m
  <2> SUFFICES ASSUME NEW n \in T, NEW m \in T, Cardinality(V(n)) = Cardinality(V(m)) PROVE n = m
    OBVIOUS
  <2>1. f[n] \in S /\ f[m] \in S /\ n \in L /\ m \in L
    BY <1>1
  <2>2. f[n] = f[m]
    BY <1>4, <1>11, <2>1
  <2> QED BY <1>2, <2>1, <2>2
<1>13. ASSUME NEW i \in 1 .. Cardinality(S)
       PROVE  SortedRels(r, t)[i] \in L /\ SortedRels(d, t)[i] = f[SortedRels(r, t)[i]]
  <2>1. PICK k \in S : Cardinality(U(k)) = i
    BY <1>5
  <2>2. PICK n \in L : f[n] = k
    BY <1>1, <1>2, <2>1
  <2>3. n \in T /\ Cardinality(V(n)) = i
    BY <1>1, <1>11, <2>1, <2>2
  <2>4. SortedRels(d, t)[i] = k
    BY <1>4, <2>1, SortedRelsRank DEF S, U
  <2>5. i \in 1 .. Cardinality(T)
    BY <1>10
  <2>6. SortedRels(r, t)[i] = n
    BY <1>12, <2>3, <2>5, SortedRelsRank DEF T, V
  <2> QED BY <2>2, <2>4, <2>6
<1> QED BY <1>8, <1>10, <1>13 DEF L

\* And the transform writes the same.
LEMMA ReorderedWrites ==
    ASSUME NEW d, NEW t, NEW f \in Bijection(Listed(d), Listed(d)),
           DocumentOK(d), TreeOK(d), IsList(d, t),
           DOMAIN t.order \subseteq Nat,
           \A i, j \in DOMAIN t.order : t.order[i] = t.order[j] => i = j
    PROVE  apply_relationship_transform(Reordered(d, f), t) = apply_relationship_transform(d, t)
<1> DEFINE r == Reordered(d, f)
           part(e, i) == <<StartTag("Relationship", NoNs, RelAttrs(e, SortedRels(e, t)[i]),
                                    e[SortedRels(e, t)[i]].orig), EndTag>>
           parts(e) == [i \in DOMAIN SortedRels(e, t) |-> part(e, i)]
           events(e) == <<StartTag("Relationships", [p \in {Default} |-> REL], {}, {})>>
                          \o FlattenSeq(parts(e)) \o <<EndTag>>
<1>1. \A e : apply_relationship_transform(e, t) = ParseEvents(events(e))
  BY DEF apply_relationship_transform
<1>2. r = Reordered(d, f)
  OBVIOUS
<1> HIDE DEF r
<1>3. /\ DOMAIN SortedRels(r, t) = DOMAIN SortedRels(d, t)
      /\ \A i \in DOMAIN SortedRels(d, t) : /\ SortedRels(r, t)[i] \in Listed(d)
                                            /\ SortedRels(d, t)[i] = f[SortedRels(r, t)[i]]
  BY <1>2, ReorderedSorts
<1>4. \A n \in Listed(d) : r[n] = d[f[n]]
  BY <1>2, ReorderedNode
<1>5. \A n \in Listed(d) : RelAttrs(r, n) = RelAttrs(d, f[n])
  <2> SUFFICES ASSUME NEW n \in Listed(d) PROVE RelAttrs(r, n) = RelAttrs(d, f[n])
    OBVIOUS
  <2>1. ASSUME NEW l PROVE RelAttr(r, n, l) = RelAttr(d, f[n], l)
    BY <1>2, ReorderedNode
  <2> QED BY <2>1 DEF RelAttrs
<1>6. \A i \in DOMAIN SortedRels(d, t) : part(r, i) = part(d, i)
  BY <1>3, <1>4, <1>5
<1> HIDE DEF part
<1>7. parts(r) = parts(d)
  BY <1>3, <1>6
<1> HIDE DEF parts
<1>8. events(r) = events(d)
  BY <1>7
<1> HIDE DEF events
<1> QED BY <1>1, <1>2, <1>8

\* What a relationship transform gives does not depend on the order of the list: sorting
\* numbers the relationships by the Ids before them, which a bijection of the list keeps.
THEOREM ListOrderIrrelevant == Spec => RelationshipOrder
<1> DEFINE t == Last(chain')
           Kept == (Stepped("relationship") /\ IsList(data.text, t)) =>
                      \A f \in Bijection(Listed(data.text), Listed(data.text)) :
                         data'.text = apply_relationship_transform(Reordered(data.text, f), t)
<1>1. Init => DInv
  BY DocumentInit
<1>2. DInv /\ [Next]_vars => DInv'
  BY StepNarrows
<1>3. DInv /\ [Next]_vars => [Kept]_vars
  <2> SUFFICES ASSUME DInv, Next, Stepped("relationship"), IsList(data.text, t),
                      NEW f \in Bijection(Listed(data.text), Listed(data.text))
               PROVE  data'.text = apply_relationship_transform(Reordered(data.text, f), t)
    OBVIOUS
  <2>1. DocumentOK(data.text) /\ TreeOK(data.text)
    BY DEF DInv, ParsedOK
  <2>2. /\ t \in TRANSFORMS /\ t.alg = "relationship"
        /\ data'.text = apply_relationship_transform(data.text, t)
    <3>1. PICK x \in TRANSFORMS : Outcome(x, data') /\ chain'[Len(chain')] = x
      BY LastTaken DEF Stepped, DInv
    <3>2. t = x /\ x.alg = "relationship"
      BY <3>1 DEF Stepped, Last
    <3>3. data' = BinData(apply_relationship_transform(data.text, x), {})
      BY <3>1, <3>2 DEF Outcome, IsEnvelope
    <3> QED BY <3>1, <3>2, <3>3 DEF BinData
  <2>3. /\ DOMAIN t.order \subseteq Nat
        /\ \A i, j \in DOMAIN t.order : t.order[i] = t.order[j] => i = j
    BY <2>2, ChildrenAssumption
  <2> HIDE DEF t
  <2> QED BY <2>1, <2>2, <2>3, ReorderedWrites
<1> QED BY <1>1, <1>2, <1>3, PTL DEF Spec, RelationshipOrder

\* A stylesheet that copies every element keeps every element and every text of such a document
\* where it is, and what it writes parses again: what the templates write at each node, from
\* the last node to the first, is a balanced text that says what stands below the node.
THEOREM CopiesKeep == Spec => XsltCopies
<1> DEFINE s == Last(chain').sheet
           Keeps == (/\ Stepped("xslt") /\ ~IsIdentity(s)
                     /\ Copies(s, data.text) /\ Copyable(s, data.text)) =>
                       data'.text # <<>> /\ Shape(data'.text) = Shape(data.text)
<1>1. Init => DInv
  BY DocumentInit
<1>2. DInv /\ [Next]_vars => DInv'
  BY StepNarrows
<1>3. DInv /\ [Next]_vars => [Keeps]_vars
  <2> SUFFICES ASSUME DInv, Next, Stepped("xslt"), ~IsIdentity(s), Copies(s, data.text), Copyable(s, data.text)
               PROVE  data'.text # <<>> /\ Shape(data'.text) = Shape(data.text)
    OBVIOUS
  <2> DEFINE c == apply_minimal_xslt(data.text, s)
  <2>1. DocumentOK(data.text) /\ TreeOK(data.text) /\ (data.text # <<>> => Rooted(data.text))
    BY DEF DInv, ParsedOK
  <2>2. data.text # <<>> /\ SheetOK(s) /\ data' = Serialized(c)
    <3>1. PICK x \in TRANSFORMS : Outcome(x, data') /\ chain'[Len(chain')] = x
      BY LastTaken DEF Stepped, DInv
    <3>2. s = x.sheet /\ x.alg = "xslt"
      BY <3>1 DEF Stepped, Last
    <3>3. data.text # <<>> /\ data' = Serialized(apply_minimal_xslt(data.text, x.sheet))
      BY <3>1, <3>2 DEF Outcome, IsEnvelope
    <3>4. SheetOK(x.sheet)
      BY <3>2, ChildrenAssumption
    <3> QED BY <3>2, <3>3, <3>4
  <2> HIDE DEF s
  <2>3. WellFormed(c) /\ Shape(c) = Shape(data.text)
    BY <2>1, <2>2, CopyKeeps
  <2> HIDE DEF c
  <2>4. data'.text = c
    BY <2>2, <2>3 DEF Serialized, BinData
  <2>5. c # <<>>
    <3> SUFFICES ASSUME c = <<>> PROVE FALSE
      OBVIOUS
    <3> DEFINE roots == {n \in Nodes(c) : c[n].p = 1 /\ c[n].k = "elem"}
    <3>1. roots = {}
      BY DEF Nodes
    <3>2. Cardinality(roots) = 1
      BY <2>3 DEF WellFormed
    <3>3. Cardinality({}) = 0
      BY FS_EmptySet
    <3> HIDE DEF roots
    <3> QED BY <3>1, <3>2, <3>3
  <2> QED BY <2>3, <2>4, <2>5
<1> QED BY <1>1, <1>2, <1>3, PTL DEF Spec, XsltCopies
=============================================================================
