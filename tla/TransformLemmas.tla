--------------------------- MODULE TransformLemmas ---------------------------
(***************************************************************************)
(* Lemmas about the operators Transforms is built from, for every document:*)
(* canonicalization (C14n), the relationship and XSLT transforms           *)
(* (Stylesheets) and XPath Filter 2.0 (XPathFilter).                       *)
(***************************************************************************)
EXTENDS Stylesheets, XPathFilter, LookupLemmas, FiniteSetTheorems

(* Sequences of positions, and documents written from documents.           *)

\* The elements of S up to n, in the order R.
UpTo(S, R, n) == {m \in S : m = n \/ <<m, n>> \in R}

\* The number of elements up to an element, in a strict order of a finite set, is a numbering.
LEMMA RankOnto ==
    ASSUME NEW S, IsFiniteSet(S), NEW R,
           \A n \in S : <<n, n>> \notin R,
           \A l, n, m \in S : <<l, n>> \in R /\ <<n, m>> \in R => <<l, m>> \in R,
           \A n, m \in S : n # m => <<n, m>> \in R \/ <<m, n>> \in R
    PROVE  \A i \in 1 .. Cardinality(S) :
              \E n \in S : Cardinality(UpTo(S, R, n)) = i
<1> DEFINE Down(n) == {m \in S : m = n \/ <<m, n>> \in R}
           N == Cardinality(S)
           f == [n \in S |-> Cardinality(Down(n))]
<1>1. N \in Nat
  BY FS_CardinalityType
<1>2. \A n \in S : Down(n) \in SUBSET S /\ n \in Down(n)
  OBVIOUS
<1>3. \A n \in S : IsFiniteSet(Down(n)) /\ Cardinality(Down(n)) \in Nat /\ Cardinality(Down(n)) <= N
  BY <1>2, FS_Subset, FS_CardinalityType
<1>4. \A n \in S : Cardinality(Down(n)) # 0
  BY <1>2, <1>3, FS_EmptySet
<1>5. \A n \in S : Cardinality(Down(n)) \in 1 .. N
  BY <1>1, <1>3, <1>4
<1>6. ASSUME NEW n \in S, NEW m \in S, <<n, m>> \in R PROVE Cardinality(Down(n)) # Cardinality(Down(m))
  <2>1. Down(n) \in SUBSET Down(m)
    BY <1>6
  <2>2. m \in Down(m) /\ m \notin Down(n)
    BY <1>6
  <2>3. Down(n) # Down(m)
    BY <2>2
  <2> HIDE DEF Down
  <2> QED BY <1>3, <2>1, <2>3, FS_Subset
<1>7. f \in [S -> 1 .. N]
  BY <1>5
<1>8. \A n, m \in S : f[n] = f[m] => n = m
  <2> HIDE DEF Down
  <2> QED BY <1>6
<1>9. f \in Injection(S, 1 .. N)
  <2> HIDE DEF f
  <2> QED BY <1>7, <1>8 DEF Injection, IsInjective
<1>10. IsFiniteSet(1 .. N) /\ Cardinality(1 .. N) = N
  BY <1>1, FS_Interval
<1>11. f \in Surjection(S, 1 .. N)
  BY <1>9, <1>10, FS_Injection
<1>12. \A i \in 1 .. N : \E n \in S : f[n] = i
  <2> HIDE DEF f
  <2> QED BY <1>11 DEF Surjection
<1> HIDE DEF Down
<1>13. \A i \in 1 .. N : \E n \in S : Cardinality(Down(n)) = i
  BY <1>12
<1> QED BY <1>13 DEF Down, UpTo

\* A function on 1 .. n is a sequence of length n.
LEMMA SeqLen ==
    ASSUME NEW n \in Nat, NEW f, f = [i \in 1 .. n |-> f[i]]
    PROVE  Len(f) = n /\ DOMAIN f = 1 .. n
<1> DEFINE T == {f[i] : i \in 1 .. n}
<1>1. f \in [1 .. n -> T]
  OBVIOUS
<1> HIDE DEF T
<1>2. f \in Seq(T)
  BY <1>1
<1> QED BY <1>1, <1>2

\* InOrder lists the elements of a set of positions.
LEMMA InOrderElements ==
    ASSUME NEW S \in SUBSET Nat, IsFiniteSet(S)
    PROVE  /\ Cardinality(S) \in Nat /\ DOMAIN InOrder(S) = 1 .. Cardinality(S)
           /\ \A i \in DOMAIN InOrder(S) : InOrder(S)[i] \in S /\ Rank(S, InOrder(S)[i]) = i
<1> DEFINE R == {q \in S \X S : q[1] < q[2]}
<1>1. Cardinality(S) \in Nat
  BY FS_CardinalityType
<1>2. \A n, m \in S : <<n, m>> \in R <=> n < m
  OBVIOUS
<1>3. \A i \in 1 .. Cardinality(S) : \E n \in S : Cardinality(UpTo(S, R, n)) = i
  <2>1. \A n \in S : <<n, n>> \notin R
    BY <1>2
  <2>2. \A l, n, m \in S : <<l, n>> \in R /\ <<n, m>> \in R => <<l, m>> \in R
    BY <1>2
  <2>3. \A n, m \in S : n # m => <<n, m>> \in R \/ <<m, n>> \in R
    BY <1>2
  <2> HIDE DEF R
  <2> QED BY <2>1, <2>2, <2>3, RankOnto
<1> HIDE DEF R
<1>4. ASSUME NEW n \in S PROVE UpTo(S, R, n) = {m \in S : m <= n}
  <2>1. \A m \in S : (m = n \/ <<m, n>> \in R) <=> m <= n
    BY <1>2
  <2> QED BY <2>1 DEF UpTo
<1>5. \A i \in 1 .. Cardinality(S) : \E n \in S : Rank(S, n) = i
  BY <1>3, <1>4 DEF Rank
<1> QED BY <1>1, <1>5 DEF InOrder

\* A node of the text u comes from nodes of r, and a comment only from a comment.
From(r, u) ==
    \A k \in Nodes(u) : \A x \in u[k].orig :
        \E j \in Nodes(r) : x \in r[j].orig /\ (r[j].k = "comment" => u[k].k = "comment")

\* The greatest of some positions is one of them.
LEMMA GreatestIn ==
    ASSUME NEW N \in Nat, NEW S \in SUBSET (1 .. N), S # {}
    PROVE  Greatest(S) \in S /\ \A m \in S : m <= Greatest(S)
<1> DEFINE R == {N - n : n \in S}
<1>1. R \in SUBSET Nat /\ R # {}
  <2>1. \A n \in S : n \in 1 .. N /\ N - n \in Nat
    OBVIOUS
  <2> QED BY <2>1
<1>2. PICK i \in R : \A j \in R : i <= j
  BY <1>1, LeastExists
<1>3. PICK n \in S : i = N - n
  BY <1>2
<1>4. \A m \in S : m <= n
  <2> SUFFICES ASSUME NEW m \in S PROVE m <= n
    OBVIOUS
  <2>1. N - n <= N - m /\ m \in 1 .. N /\ n \in 1 .. N
    BY <1>2, <1>3
  <2> QED BY <2>1
<1> QED BY <1>4 DEF Greatest

\* InOrder and Rank are inverses, and both keep the order.
LEMMA InOrderRank ==
    ASSUME NEW S \in SUBSET Nat, IsFiniteSet(S)
    PROVE  /\ DOMAIN InOrder(S) = 1 .. Cardinality(S) /\ Cardinality(S) \in Nat
           /\ \A i \in DOMAIN InOrder(S) : InOrder(S)[i] \in S /\ Rank(S, InOrder(S)[i]) = i
           /\ \A n \in S : Rank(S, n) \in DOMAIN InOrder(S) /\ InOrder(S)[Rank(S, n)] = n
           /\ \A i, j \in DOMAIN InOrder(S) : InOrder(S)[i] < InOrder(S)[j] => i < j
<1> DEFINE w == InOrder(S)
           C == Cardinality(S)
<1>0. C \in Nat /\ DOMAIN w = 1 .. C
  BY InOrderElements
<1>1. \A i \in DOMAIN w : w[i] \in S
  BY InOrderElements
<1>2. ASSUME NEW n \in S PROVE Rank(S, n) \in 1 .. C
  <2> DEFINE D == {m \in S : m <= n}
  <2>1. D \in SUBSET S /\ n \in D
    OBVIOUS
  <2> HIDE DEF D
  <2>2. IsFiniteSet(D) /\ Cardinality(D) \in Nat /\ Cardinality(D) <= C
    BY <2>1, FS_Subset, FS_CardinalityType
  <2>3. Cardinality(D) # 0
    BY <2>1, <2>2, FS_EmptySet
  <2> QED BY <1>0, <2>2, <2>3 DEF Rank, D
<1>3. ASSUME NEW n \in S, NEW m \in S, n < m PROVE Rank(S, n) < Rank(S, m)
  <2> DEFINE D == {k \in S : k <= n}
             E == {k \in S : k <= m}
  <2>0. n \in Nat /\ m \in Nat /\ S \subseteq Nat
    OBVIOUS
  <2>1. D \in SUBSET E /\ E \in SUBSET S /\ m \in E /\ m \notin D
    <3>1. \A k \in S : k <= n => k <= m
      BY <1>3, <2>0
    <3>2. ~(m <= n) /\ m <= m
      BY <1>3, <2>0
    <3> QED BY <3>1, <3>2
  <2>2. Rank(S, n) = Cardinality(D) /\ Rank(S, m) = Cardinality(E)
    BY DEF Rank
  <2> HIDE DEF D, E
  <2>3. IsFiniteSet(E)
    BY <2>1, FS_Subset
  <2>4. IsFiniteSet(D) /\ D # E
    BY <2>1, <2>3, FS_Subset
  <2>5. Cardinality(D) <= Cardinality(E) /\ Cardinality(D) # Cardinality(E)
    BY <2>1, <2>3, <2>4, FS_Subset
  <2>6. Cardinality(D) \in Nat /\ Cardinality(E) \in Nat
    BY <2>3, <2>4, FS_CardinalityType
  <2> QED BY <2>2, <2>5, <2>6
<1>4. \A i \in DOMAIN w : Rank(S, w[i]) = i
  BY InOrderElements
<1>5. \A n \in S : w[Rank(S, n)] = n
  <2> SUFFICES ASSUME NEW n \in S PROVE w[Rank(S, n)] = n
    OBVIOUS
  <2> DEFINE i == Rank(S, n)
             m == w[i]
  <2>1. i \in 1 .. C
    BY <1>2
  <2>2. m \in S /\ Rank(S, m) = i /\ m \in Nat /\ n \in Nat
    BY <1>0, <1>1, <1>4, <2>1
  <2> HIDE DEF m
  <2>3. Rank(S, m) = Rank(S, n) /\ Rank(S, n) \in Nat
    BY <1>0, <2>1, <2>2
  <2>4. m = n
    BY <1>3, <2>2, <2>3
  <2> QED BY <2>4 DEF m
<1>6. ASSUME NEW i \in DOMAIN w, NEW j \in DOMAIN w, w[i] < w[j] PROVE i < j
  <2> HIDE DEF w
  <2> QED BY <1>1, <1>3, <1>4, <1>6
<1> HIDE DEF w
<1>7. \A n \in S : Rank(S, n) \in DOMAIN w
  BY <1>0, <1>2
<1> QED BY <1>0, <1>1, <1>4, <1>5, <1>6, <1>7 DEF w

\* A set of positions with the first one in it starts with it.
LEMMA InOrderFirst ==
    ASSUME NEW S \in SUBSET (Nat \ {0}), IsFiniteSet(S), 1 \in S
    PROVE  1 \in DOMAIN InOrder(S) /\ InOrder(S)[1] = 1
<1>1. {m \in S : m <= 1} = {1}
  <2>1. \A m \in S : m \in Nat /\ m # 0
    OBVIOUS
  <2>2. \A m \in S : m <= 1 <=> m = 1
    BY <2>1
  <2> QED BY <2>2
<1>2. Rank(S, 1) = 1
  BY <1>1, FS_Singleton DEF Rank
<1>3. S \in SUBSET Nat
  OBVIOUS
<1> QED BY <1>2, <1>3, InOrderRank

\* Joining text that follows text keeps the content, and comments apart.
LEMMA JoinKeeps ==
    ASSUME NEW r, DocumentOK(r)
    PROVE  DocumentOK(JoinText(r)) /\ From(r, JoinText(r))
<1> DEFINE S == {i \in DOMAIN r : ~Joined(r, i)}
           heads == InOrder(S)
           run(i) == {j \in DOMAIN r : j >= i /\ \A k \in (i + 1)..j : Joined(r, k)}
           up(h) == IF r[heads[h]].p = 0 THEN 0 ELSE CHOOSE g \in DOMAIN heads : heads[g] = r[heads[h]].p
           node(h) == [r[heads[h]] EXCEPT !.p = up(h), !.orig = UNION {r[j].orig : j \in run(heads[h])}]
           u == JoinText(r)
<1>1. u = [h \in DOMAIN heads |-> node(h)]
  BY DEF JoinText
<1>2. S \in SUBSET Nat /\ IsFiniteSet(S)
  <2>1. IsFiniteSet(1 .. Len(r))
    BY FS_Interval DEF DocumentOK
  <2> QED BY <2>1, FS_Subset DEF DocumentOK, Nodes
<1>3. /\ Cardinality(S) \in Nat /\ DOMAIN heads = 1 .. Cardinality(S)
      /\ \A h \in DOMAIN heads : heads[h] \in S
  BY <1>2, InOrderElements
<1>4. Len(u) \in Nat /\ Nodes(u) = 1 .. Len(u) /\ Nodes(u) = DOMAIN heads
  <2> HIDE DEF u, heads, node
  <2>1. u = [h \in 1 .. Cardinality(S) |-> node(h)]
    BY <1>1, <1>3
  <2>2. u = [h \in 1 .. Cardinality(S) |-> u[h]]
    BY <2>1
  <2> QED BY <1>3, <2>2, SeqLen DEF Nodes
<1>5. ASSUME NEW h \in Nodes(u)
      PROVE  /\ heads[h] \in Nodes(r) /\ u[h] = node(h)
             /\ DOMAIN u[h] = DOMAIN r[heads[h]] /\ u[h].k = r[heads[h]].k
             /\ u[h].orig = UNION {r[j].orig : j \in run(heads[h])}
  <2> HIDE DEF heads, u
  <2>1. heads[h] \in Nodes(r)
    BY <1>3, <1>4 DEF Nodes
  <2>2. {"p", "orig", "k"} \subseteq DOMAIN r[heads[h]]
    BY <2>1 DEF DocumentOK
  <2>3. u[h] = node(h)
    BY <1>1, <1>4
  <2> QED BY <2>1, <2>2, <2>3
<1>6. ASSUME NEW h \in Nodes(u), NEW j \in run(heads[h])
      PROVE  j \in Nodes(r) /\ (j = heads[h] \/ (r[j].k = "text" /\ u[h].k = "text"))
  <2> HIDE DEF heads, u
  <2>a. heads[h] \in Nodes(r)
    BY <1>5
  <2>b. j \in Nodes(r)
    BY DEF Nodes
  <2>1. heads[h] \in Nat /\ j \in Nat /\ j \in Nodes(r)
    BY <2>a, <2>b DEF DocumentOK
  <2>2. CASE j # heads[h]
    <3>1. j \in (heads[h] + 1) .. j /\ heads[h] + 1 \in (heads[h] + 1) .. j
      BY <2>1, <2>2
    <3>2. Joined(r, j) /\ Joined(r, heads[h] + 1)
      BY <3>1
    <3>3. r[j].k = "text" /\ r[heads[h]].k = "text"
      BY <3>2, <2>1 DEF Joined
    <3> QED BY <3>3, <2>1, <1>5
  <2> QED BY <2>1, <2>2
<1> HIDE DEF u, heads, run, node
<1>7. DocumentOK(u)
  <2> SUFFICES ASSUME NEW h \in Nodes(u)
               PROVE  /\ DOMAIN u[h] = {"k", "p", "ns", "prefix", "local", "decls", "attrs", "orig"}
                      /\ u[h].k \in {"doc", "elem", "text", "comment"}
                      /\ u[h].k = "doc" => u[h].orig = {}
    BY <1>4 DEF DocumentOK
  <2>1. heads[h] \in Nodes(r) /\ DOMAIN u[h] = DOMAIN r[heads[h]] /\ u[h].k = r[heads[h]].k
    BY <1>5
  <2>2. ASSUME u[h].k = "doc" PROVE u[h].orig = {}
    <3>1. \A j \in run(heads[h]) : j = heads[h]
      BY <1>6, <2>2
    <3>2. \A j \in run(heads[h]) : r[j].orig = {}
      BY <3>1, <2>1, <2>2 DEF DocumentOK
    <3> QED BY <3>2, <1>5
  <2> QED BY <2>1, <2>2 DEF DocumentOK
<1>8. From(r, u)
  <2> SUFFICES ASSUME NEW h \in Nodes(u), NEW x \in u[h].orig
               PROVE  \E j \in Nodes(r) : x \in r[j].orig /\ (r[j].k = "comment" => u[h].k = "comment")
    BY DEF From
  <2>1. PICK j \in run(heads[h]) : x \in r[j].orig
    BY <1>5
  <2>2. j \in Nodes(r) /\ (r[j].k = "comment" => u[h].k = "comment")
    BY <1>5, <1>6
  <2> QED BY <2>1, <2>2
<1> QED BY <1>7, <1>8 DEF u

\* So does giving the names their namespaces.
LEMMA BindKeeps ==
    ASSUME NEW r, DocumentOK(r)
    PROVE  DocumentOK(BindNames(r)) /\ From(r, BindNames(r))
<1> DEFINE u == BindNames(r)
           v(n) == Binding(r, n, r[n].prefix)
<1>1. u = [n \in Nodes(r) |-> IF IsElem(r, n) THEN [r[n] EXCEPT !.ns = v(n)] ELSE r[n]]
  BY DEF BindNames, Nodes
<1> HIDE DEF u, v
<1>2. Nodes(u) = Nodes(r) /\ Len(u) = Len(r)
  <2>1. u = [n \in 1 .. Len(r) |-> u[n]] /\ Nodes(u) = Nodes(r)
    BY <1>1 DEF DocumentOK, Nodes
  <2>2. Len(r) \in Nat
    BY DEF DocumentOK
  <2> QED BY <2>1, <2>2, SeqLen
<1>3. \A n \in Nodes(u) : DOMAIN u[n] = DOMAIN r[n] /\ u[n].k = r[n].k /\ u[n].orig = r[n].orig
  <2> SUFFICES ASSUME NEW n \in Nodes(r)
               PROVE DOMAIN u[n] = DOMAIN r[n] /\ u[n].k = r[n].k /\ u[n].orig = r[n].orig
    BY <1>2
  <2>1. {"ns", "orig", "k"} \subseteq DOMAIN r[n]
    BY DEF DocumentOK
  <2>2. u[n] = r[n] \/ u[n] = [r[n] EXCEPT !.ns = v(n)]
    BY <1>1
  <2> QED BY <2>1, <2>2
<1>4. DocumentOK(u)
  BY <1>2, <1>3 DEF DocumentOK
<1>5. From(r, u)
  BY <1>2, <1>3 DEF From
<1> QED BY <1>4, <1>5 DEF u

\* The same, from nodes of d that are in the node set s.
FromVisible(d, s, u) ==
    \A k \in Nodes(u) : \A x \in u[k].orig :
        \E n \in Nodes(d) : /\ x \in d[n].orig /\ is_visible(s, n)
                            /\ d[n].k = "comment" => u[k].k = "comment"

\* Only nodes of the node set are written with their content.
LEMMA WriteKeeps ==
    ASSUME NEW d, DocumentOK(d), NEW s, NEW m
    PROVE  DocumentOK(RawNodes(d, s, m)) /\ FromVisible(d, s, RawNodes(d, s, m))
<1> DEFINE ctx == Context(d, s, m)
           S == Written(d, s, m)
           w == InOrder(S)
           tag(n) == d[n].k # "elem" \/ is_visible(s, n)
           above(n) == {k \in DOMAIN w : /\ w[k] # n /\ w[k] \in AncestorsOrSelf(d, n) /\ tag(w[k])}
           up(n) == IF n = 1 THEN 0 ELSE Greatest(above(n))
           dcl(n) == IF IsElem(d, n) THEN Decls(d, s, n, m, ctx[d[n].p]) ELSE d[n].decls
           att(n) == IF IsElem(d, n) THEN Attrs(d, s, n, m) ELSE d[n].attrs
           node(n) == [d[n] EXCEPT !.p = up(n), !.decls = dcl(n), !.attrs = att(n)]
           bare(n) == [node(n) EXCEPT !.k = "text", !.decls = NoNs, !.attrs = {}, !.orig = {}]
           u == RawNodes(d, s, m)
<1>1. u = [i \in DOMAIN w |-> IF tag(w[i]) THEN node(w[i]) ELSE bare(w[i])]
  BY DEF RawNodes, WriteNodes
<1> HIDE DEF ctx, w, above, up, dcl, att, u
<1>2. S \in SUBSET Nodes(d) /\ S \in SUBSET Nat /\ IsFiniteSet(S)
  <2>1. IsFiniteSet(1 .. Len(d))
    BY FS_Interval DEF DocumentOK
  <2>2. S \in SUBSET Nodes(d)
    BY DEF Written
  <2> QED BY <2>1, <2>2, FS_Subset DEF DocumentOK
<1>3. /\ Cardinality(S) \in Nat /\ DOMAIN w = 1 .. Cardinality(S)
      /\ \A i \in DOMAIN w : w[i] \in S
  BY <1>2, InOrderElements DEF w
<1>4. Len(u) \in Nat /\ Nodes(u) = 1 .. Len(u) /\ Nodes(u) = DOMAIN w
  <2> HIDE DEF tag, node, bare, S
  <2>1. u = [h \in 1 .. Cardinality(S) |-> u[h]]
    BY <1>1, <1>3
  <2> QED BY <1>3, <2>1, SeqLen DEF Nodes
<1>5. ASSUME NEW n \in Nodes(d)
      PROVE  /\ DOMAIN node(n) = DOMAIN d[n] /\ node(n).k = d[n].k /\ node(n).orig = d[n].orig
             /\ DOMAIN bare(n) = DOMAIN d[n] /\ bare(n).k = "text" /\ bare(n).orig = {}
  <2>1. DOMAIN d[n] = {"k", "p", "ns", "prefix", "local", "decls", "attrs", "orig"}
    BY DEF DocumentOK
  <2>2. DOMAIN node(n) = DOMAIN d[n] /\ node(n).k = d[n].k /\ node(n).orig = d[n].orig
    BY <2>1
  <2> HIDE DEF node
  <2>3. DOMAIN bare(n) = DOMAIN d[n] /\ bare(n).k = "text" /\ bare(n).orig = {}
    BY <2>1, <2>2
  <2> QED BY <2>2, <2>3
<1>6. \A n \in S : tag(n) /\ d[n].k # "doc" => is_visible(s, n)
  BY DEF Written, DocumentOK
<1> HIDE DEF node, bare
<1>7. ASSUME NEW i \in Nodes(u)
      PROVE  /\ w[i] \in Nodes(d) /\ DOMAIN u[i] = DOMAIN d[w[i]]
             /\ \/ u[i].k = "text" /\ u[i].orig = {}
                \/ u[i].k = d[w[i]].k /\ u[i].orig = d[w[i]].orig /\ (d[w[i]].k # "doc" => is_visible(s, w[i]))
  <2>1. i \in DOMAIN w /\ w[i] \in S /\ w[i] \in Nodes(d)
    BY <1>2, <1>3, <1>4
  <2>2. CASE tag(w[i])
    <3>1. u[i] = node(w[i])
      BY <1>1, <2>1, <2>2
    <3> QED BY <1>5, <1>6, <2>1, <2>2, <3>1
  <2>3. CASE ~tag(w[i])
    <3>1. u[i] = bare(w[i])
      BY <1>1, <2>1, <2>3
    <3> QED BY <1>5, <2>1, <3>1
  <2> QED BY <2>2, <2>3
<1>8. DocumentOK(u)
  <2> SUFFICES ASSUME NEW i \in Nodes(u)
               PROVE  /\ DOMAIN u[i] = {"k", "p", "ns", "prefix", "local", "decls", "attrs", "orig"}
                      /\ u[i].k \in {"doc", "elem", "text", "comment"}
                      /\ u[i].k = "doc" => u[i].orig = {}
    BY <1>4 DEF DocumentOK
  <2> QED BY <1>7 DEF DocumentOK
<1>9. FromVisible(d, s, u)
  <2> SUFFICES ASSUME NEW i \in Nodes(u), NEW x \in u[i].orig
               PROVE  \E n \in Nodes(d) : /\ x \in d[n].orig /\ is_visible(s, n)
                                          /\ d[n].k = "comment" => u[i].k = "comment"
    BY DEF FromVisible
  <2>1. w[i] \in Nodes(d) /\ u[i].k = d[w[i]].k /\ x \in d[w[i]].orig /\ is_visible(s, w[i])
    BY <1>7 DEF DocumentOK
  <2> QED BY <2>1
<1> QED BY <1>8, <1>9 DEF u

\* The text of a node set, parsed again, is a document that stands for nodes of the set only.
LEMMA CanonicalNarrows ==
    ASSUME NEW d, DocumentOK(d), NEW s, NEW m
    PROVE  DocumentOK(canonicalize(d, s, m)) /\ FromVisible(d, s, canonicalize(d, s, m))
<1> DEFINE r == RawNodes(d, s, m)
           j == JoinText(r)
           u == BindNames(j)
<1>1. DocumentOK(r) /\ FromVisible(d, s, r)
  BY WriteKeeps
<1> HIDE DEF r
<1>2. DocumentOK(j) /\ From(r, j)
  BY <1>1, JoinKeeps
<1> HIDE DEF j
<1>3. DocumentOK(u) /\ From(j, u)
  BY <1>2, BindKeeps
<1> HIDE DEF u
<1>4. FromVisible(d, s, u)
  <2> SUFFICES ASSUME NEW k \in Nodes(u), NEW x \in u[k].orig
               PROVE  \E n \in Nodes(d) : /\ x \in d[n].orig /\ is_visible(s, n)
                                          /\ d[n].k = "comment" => u[k].k = "comment"
    BY DEF FromVisible
  <2>1. PICK a \in Nodes(j) : x \in j[a].orig /\ (j[a].k = "comment" => u[k].k = "comment")
    BY <1>3 DEF From
  <2>2. PICK b \in Nodes(r) : x \in r[b].orig /\ (r[b].k = "comment" => j[a].k = "comment")
    BY <1>2, <2>1 DEF From
  <2> QED BY <1>1, <2>1, <2>2 DEF FromVisible
<1> QED BY <1>3, <1>4 DEF canonicalize, u, j, r

\* The walks to the document node from the nodes up to n.
Walks(d, n, a) == a = [m \in 1 .. n |-> {m} \union (IF d[m].p = 0 THEN {} ELSE a[d[m].p])]

\* The recursion of AncestorsOrSelf has a solution, as parents come first.
LEMMA WalksExist ==
    ASSUME NEW d, Len(d) \in Nat, Nodes(d) = 1 .. Len(d), TreeOK(d)
    PROVE  \E a : Walks(d, Len(d), a)
<1> DEFINE Bad == {n \in Nat : n <= Len(d) /\ ~\E a : Walks(d, n, a)}
<1> SUFFICES ASSUME Bad # {} PROVE FALSE
  OBVIOUS
<1>1. PICK n \in Bad : \A j \in Bad : n <= j
  BY LeastExists
<1>2. CASE n = 0
  <2> DEFINE a == [m \in 1 .. 0 |-> {}]
  <2>1. Walks(d, 0, a)
    BY DEF Walks
  <2> QED BY <1>2, <2>1
<1>3. CASE n # 0
  <2>1. n \in Nat /\ n - 1 \in Nat /\ n - 1 \notin Bad /\ n <= Len(d) /\ n - 1 <= Len(d)
    BY <1>1, <1>3
  <2>2. PICK b : Walks(d, n - 1, b)
    BY <2>1
  <2> DEFINE next == {n} \union (IF d[n].p = 0 THEN {} ELSE b[d[n].p])
             a == [m \in 1 .. n |-> IF m = n THEN next ELSE b[m]]
  <2>3. \A m \in 1 .. n - 1 : b[m] = {m} \union (IF d[m].p = 0 THEN {} ELSE b[d[m].p])
    BY <2>2 DEF Walks
  <2>4. \A m \in 1 .. n - 1 : a[m] = b[m]
    BY <2>1
  <2>5. \A m \in 1 .. n : d[m].p = 0 \/ d[m].p \in 1 .. m - 1
    <3> HIDE DEF Bad, a, next
    <3> SUFFICES ASSUME NEW m \in 1 .. n PROVE d[m].p = 0 \/ d[m].p \in 1 .. m - 1
      OBVIOUS
    <3>1. m \in Nodes(d)
      BY <2>1
    <3> QED BY <3>1 DEF TreeOK
  <2>6. a[n] = next
    BY <2>1, <1>3
  <2>7. a = [m \in 1 .. n |-> a[m]]
    OBVIOUS
  <2> HIDE DEF a
  <2>8. \A m \in 1 .. n : a[m] = {m} \union (IF d[m].p = 0 THEN {} ELSE a[d[m].p])
    <3> SUFFICES ASSUME NEW m \in 1 .. n
                 PROVE  a[m] = {m} \union (IF d[m].p = 0 THEN {} ELSE a[d[m].p])
      OBVIOUS
    <3>1. d[m].p = 0 \/ (d[m].p \in 1 .. n - 1 /\ a[d[m].p] = b[d[m].p])
      <4>1. d[m].p = 0 \/ d[m].p \in 1 .. n - 1
        BY <2>1, <2>5
      <4> QED BY <2>4, <4>1
    <3>2. CASE m = n
      BY <2>6, <3>1, <3>2
    <3>3. CASE m # n
      <4>1. m \in 1 .. n - 1
        BY <2>1, <3>3
      <4> QED BY <2>3, <2>4, <3>1, <4>1
    <3> QED BY <3>2, <3>3
  <2>9. Walks(d, n, a)
    BY <2>7, <2>8 DEF Walks
  <2> QED BY <1>1, <2>9
<1> QED BY <1>2, <1>3

\* The walk up from a node: itself, then that of its parent.
LEMMA AncestorsStep ==
    ASSUME NEW d, Len(d) \in Nat, Nodes(d) = 1 .. Len(d), TreeOK(d), NEW n \in Nodes(d)
    PROVE  AncestorsOrSelf(d, n) = {n} \union (IF d[n].p = 0 THEN {} ELSE AncestorsOrSelf(d, d[n].p))
<1> DEFINE a == CHOOSE b : Walks(d, Len(d), b)
<1>1. Walks(d, Len(d), a)
  BY WalksExist
<1>2. \A m : AncestorsOrSelf(d, m) = a[m]
  BY DEF AncestorsOrSelf, Walks
<1> HIDE DEF a
<1>3. a[n] = {n} \union (IF d[n].p = 0 THEN {} ELSE a[d[n].p])
  BY <1>1 DEF Walks
<1> QED BY <1>2, <1>3

\* It goes through elements to the document node, and no further than the node.
LEMMA AncestorsOK ==
    ASSUME NEW d, Len(d) \in Nat, Nodes(d) = 1 .. Len(d), TreeOK(d), NEW n \in Nodes(d)
    PROVE  /\ AncestorsOrSelf(d, n) \subseteq 1 .. n /\ 1 \in AncestorsOrSelf(d, n)
           /\ \A m \in AncestorsOrSelf(d, n) : m # n => d[m].k \in {"doc", "elem"}
<1> DEFINE Good(m) == /\ AncestorsOrSelf(d, m) \subseteq 1 .. m /\ 1 \in AncestorsOrSelf(d, m)
                      /\ \A l \in AncestorsOrSelf(d, m) : l # m => d[l].k \in {"doc", "elem"}
           Bad == {m \in Nodes(d) : ~Good(m)}
<1>1. ASSUME Bad # {} PROVE FALSE
  <2>0. Bad \in SUBSET Nat
    OBVIOUS
  <2>1. PICK m \in Bad : \A j \in Bad : m <= j
    BY <1>1, <2>0, LeastExists
  <2>2. m \in 1 .. Len(d) /\ ~Good(m)
    BY <2>1
  <2>3. AncestorsOrSelf(d, m) = {m} \union (IF d[m].p = 0 THEN {} ELSE AncestorsOrSelf(d, d[m].p))
    BY <2>2, AncestorsStep
  <2>4. CASE m = 1
    <3>1. AncestorsOrSelf(d, m) = {1}
      BY <2>2, <2>3, <2>4 DEF TreeOK
    <3> QED BY <2>2, <2>4, <3>1
  <2>5. CASE m # 1
    <3> DEFINE q == d[m].p
    <3>1. q \in 1 .. m - 1 /\ d[q].k \in {"doc", "elem"}
      BY <2>2, <2>5 DEF TreeOK
    <3> HIDE DEF q
    <3>2. q \in Nodes(d) /\ q # 0 /\ q < m
      BY <2>2, <3>1
    <3>3. Good(q)
      BY <2>1, <3>2
    <3>4. AncestorsOrSelf(d, m) = {m} \union AncestorsOrSelf(d, q)
      BY <2>3, <3>2 DEF q
    <3>5. AncestorsOrSelf(d, q) \subseteq 1 .. m
      BY <2>2, <3>2, <3>3
    <3> QED BY <2>2, <3>1, <3>3, <3>4, <3>5
  <2> QED BY <2>4, <2>5
<1> QED BY <1>1

\* The text of a node set is a tree again: the nodes written stand below the nearest tags.
LEMMA WriteTree ==
    ASSUME NEW d, DocumentOK(d), TreeOK(d), NEW s, NEW m
    PROVE  TreeOK(RawNodes(d, s, m))
<1> DEFINE ctx == Context(d, s, m)
           S == Written(d, s, m)
           w == InOrder(S)
           tag(n) == d[n].k # "elem" \/ is_visible(s, n)
           above(n) == {k \in DOMAIN w : /\ w[k] # n /\ w[k] \in AncestorsOrSelf(d, n) /\ tag(w[k])}
           up(n) == IF n = 1 THEN 0 ELSE Greatest(above(n))
           dcl(n) == IF IsElem(d, n) THEN Decls(d, s, n, m, ctx[d[n].p]) ELSE d[n].decls
           att(n) == IF IsElem(d, n) THEN Attrs(d, s, n, m) ELSE d[n].attrs
           node(n) == [d[n] EXCEPT !.p = up(n), !.decls = dcl(n), !.attrs = att(n)]
           bare(n) == [node(n) EXCEPT !.k = "text", !.decls = NoNs, !.attrs = {}, !.orig = {}]
           u == RawNodes(d, s, m)
           C == Cardinality(S)
<1>1. u = [i \in DOMAIN w |-> IF tag(w[i]) THEN node(w[i]) ELSE bare(w[i])]
  BY DEF RawNodes, WriteNodes
<1> HIDE DEF ctx, w, above, up, dcl, att, u
<1>0. Len(d) \in Nat /\ Nodes(d) = 1 .. Len(d)
  BY DEF DocumentOK
<1>2. S \in SUBSET Nodes(d) /\ S \in SUBSET (Nat \ {0}) /\ S \in SUBSET Nat /\ IsFiniteSet(S)
  <2>1. IsFiniteSet(1 .. Len(d))
    BY <1>0, FS_Interval
  <2>2. S \in SUBSET Nodes(d)
    BY DEF Written
  <2> QED BY <1>0, <2>1, <2>2, FS_Subset
<1>3. ASSUME NEW n \in Nodes(d)
      PROVE  /\ node(n).p = up(n) /\ node(n).k = d[n].k /\ bare(n).p = up(n) /\ bare(n).k = "text"
  <2>1. DOMAIN d[n] = {"k", "p", "ns", "prefix", "local", "decls", "attrs", "orig"}
    BY DEF DocumentOK
  <2>2. DOMAIN node(n) = DOMAIN d[n] /\ node(n).p = up(n) /\ node(n).k = d[n].k
    BY <2>1
  <2> HIDE DEF node
  <2>3. bare(n).p = up(n) /\ bare(n).k = "text"
    BY <2>1, <2>2
  <2> QED BY <2>2, <2>3
<1>4. 1 \in Nodes(d) => 1 \in S /\ tag(1)
  BY DEF Written, TreeOK
<1> HIDE DEF node, bare, S, C
<1>5. /\ DOMAIN w = 1 .. C /\ C \in Nat
      /\ \A i \in DOMAIN w : w[i] \in S
      /\ \A i, j \in DOMAIN w : w[i] < w[j] => i < j
  BY <1>2, InOrderRank DEF w, C
<1>6. ASSUME NEW i \in DOMAIN w
      PROVE  w[i] \in Nodes(d) /\ u[i].p = up(w[i]) /\ u[i].k = (IF tag(w[i]) THEN d[w[i]].k ELSE "text")
  <2>1. w[i] \in Nodes(d)
    BY <1>2, <1>5
  <2>2. u[i] = IF tag(w[i]) THEN node(w[i]) ELSE bare(w[i])
    BY <1>1
  <2> QED BY <1>3, <2>1, <2>2
<1>7. Nodes(u) = DOMAIN w
  <2> HIDE DEF tag
  <2> QED BY <1>1 DEF Nodes
<1> HIDE DEF u
<1>8. ASSUME NEW i \in DOMAIN w PROVE 1 \in DOMAIN w /\ w[1] = 1 /\ 1 \in S /\ tag(1)
  <2>1. 1 \in Nodes(d)
    BY <1>0, <1>6
  <2> QED BY <1>2, <1>4, <2>1, InOrderFirst DEF w
<1>9. ASSUME NEW i \in Nodes(u), i = 1 PROVE u[i].p = 0 /\ u[i].k = "doc"
  <2>1. w[1] = 1 /\ tag(1) /\ 1 \in DOMAIN w
    BY <1>7, <1>8
  <2> QED BY <1>6, <1>9, <2>1 DEF up, TreeOK
<1>10. ASSUME NEW i \in Nodes(u), i # 1
       PROVE  u[i].k # "doc" /\ u[i].p \in 1 .. (i - 1) /\ u[u[i].p].k \in {"doc", "elem"}
  <2> DEFINE n == w[i]
             g == Greatest(above(n))
  <2>1. i \in DOMAIN w /\ 1 \in DOMAIN w /\ w[1] = 1 /\ tag(1) /\ n \in Nodes(d) /\ u[i].p = up(n)
    BY <1>6, <1>7, <1>8
  <2>2. n # 1
    <3>1. Rank(S, w[i]) = i /\ Rank(S, w[1]) = 1
      BY <1>2, <2>1, InOrderRank DEF w
    <3> QED BY <1>10, <2>1, <3>1
  <2>3. /\ AncestorsOrSelf(d, n) \subseteq 1 .. n /\ 1 \in AncestorsOrSelf(d, n)
        /\ \A l \in AncestorsOrSelf(d, n) : l # n => d[l].k \in {"doc", "elem"}
    BY <1>0, <2>1, AncestorsOK
  <2> HIDE DEF n
  <2>4. 1 \in above(n)
    BY <2>1, <2>2, <2>3 DEF above
  <2>5. g \in above(n)
    <3>1. above(n) \in SUBSET (1 .. C)
      BY <1>5 DEF above
    <3> QED BY <1>5, <2>4, <3>1, GreatestIn
  <2> HIDE DEF g
  <2>6. g \in DOMAIN w /\ w[g] \in 1 .. n /\ w[g] # n /\ tag(w[g]) /\ d[w[g]].k \in {"doc", "elem"}
    BY <2>3, <2>5 DEF above
  <2>7. g < i /\ g \in 1 .. C /\ i \in 1 .. C
    <3>1. w[g] < w[i]
      BY <1>0, <2>1, <2>6 DEF n
    <3> QED BY <1>5, <2>1, <2>6, <3>1
  <2>8. u[i].p = g
    BY <2>1, <2>2 DEF up, g
  <2>9. u[g].k = d[w[g]].k
    BY <1>6, <2>6
  <2>10. u[i].k # "doc"
    BY <1>6, <2>1, <2>2 DEF n, TreeOK
  <2> QED BY <1>5, <2>6, <2>7, <2>8, <2>9, <2>10
<1> QED BY <1>9, <1>10 DEF TreeOK, u

\* Joining text keeps the tree, as the parents are no text, and the document element.
LEMMA JoinTree ==
    ASSUME NEW r, DocumentOK(r), TreeOK(r)
    PROVE  TreeOK(JoinText(r)) /\ (Rooted(r) => Rooted(JoinText(r)))
<1> DEFINE S == {i \in DOMAIN r : ~Joined(r, i)}
           heads == InOrder(S)
           run(i) == {j \in DOMAIN r : j >= i /\ \A k \in (i + 1)..j : Joined(r, k)}
           up(h) == IF r[heads[h]].p = 0 THEN 0 ELSE CHOOSE g \in DOMAIN heads : heads[g] = r[heads[h]].p
           node(h) == [r[heads[h]] EXCEPT !.p = up(h), !.orig = UNION {r[j].orig : j \in run(heads[h])}]
           u == JoinText(r)
<1>0. Len(r) \in Nat /\ Nodes(r) = 1 .. Len(r) /\ DOMAIN r = 1 .. Len(r)
  BY DEF DocumentOK, Nodes
<1>1. u = [h \in DOMAIN heads |-> node(h)]
  BY DEF JoinText
<1>2. S \in SUBSET (Nat \ {0}) /\ S \in SUBSET Nat /\ IsFiniteSet(S) /\ S \subseteq Nodes(r)
  <2>1. IsFiniteSet(1 .. Len(r))
    BY <1>0, FS_Interval
  <2>2. S \subseteq 1 .. Len(r)
    BY <1>0
  <2> QED BY <1>0, <2>1, <2>2, FS_Subset
<1>3. \A n \in Nodes(r) : n = 1 \/ r[n].k # "text" => n \in S
  BY <1>0 DEF Joined
<1> HIDE DEF S, run
<1>4. /\ \A i \in DOMAIN heads : heads[i] \in S /\ Rank(S, heads[i]) = i
      /\ \A n \in S : Rank(S, n) \in DOMAIN heads /\ heads[Rank(S, n)] = n
      /\ \A i, j \in DOMAIN heads : heads[i] < heads[j] => i < j
      /\ DOMAIN heads \subseteq Nat \ {0}
  BY <1>2, InOrderRank
<1> HIDE DEF heads
<1>5. ASSUME NEW h \in DOMAIN heads
      PROVE  heads[h] \in Nodes(r) /\ u[h].p = up(h) /\ u[h].k = r[heads[h]].k
  <2>1. heads[h] \in Nodes(r)
    BY <1>2, <1>4
  <2>2. {"p", "orig", "k"} \subseteq DOMAIN r[heads[h]]
    BY <2>1 DEF DocumentOK
  <2>3. u[h] = node(h)
    BY <1>1
  <2> HIDE DEF u
  <2> QED BY <2>1, <2>2, <2>3
<1>6. Nodes(u) = DOMAIN heads
  <2> HIDE DEF node
  <2> QED BY <1>1 DEF Nodes
<1> HIDE DEF u
<1>7. \A h \in DOMAIN heads : 1 \in S /\ 1 \in DOMAIN heads /\ heads[1] = 1 /\ (heads[h] = 1 => h = 1)
  <2> SUFFICES ASSUME NEW h \in DOMAIN heads
               PROVE  1 \in S /\ 1 \in DOMAIN heads /\ heads[1] = 1 /\ (heads[h] = 1 => h = 1)
    OBVIOUS
  <2>1. 1 \in Nodes(r)
    BY <1>0, <1>5
  <2>2. 1 \in DOMAIN heads /\ heads[1] = 1
    BY <1>2, <1>3, <2>1, InOrderFirst DEF heads
  <2>3. Rank(S, heads[1]) = 1 /\ Rank(S, heads[h]) = h
    BY <1>4, <2>2
  <2> QED BY <1>3, <2>1, <2>2, <2>3
<1>8. ASSUME NEW h \in DOMAIN heads, NEW p \in S, r[heads[h]].p = p
      PROVE  u[h].p \in DOMAIN heads /\ heads[u[h].p] = p
  <2>1. \E g \in DOMAIN heads : heads[g] = p
    BY <1>4
  <2>2. p # 0
    BY <1>2
  <2>3. u[h].p = CHOOSE g \in DOMAIN heads : heads[g] = p
    BY <1>5, <1>8, <2>2 DEF up
  <2> QED BY <2>1, <2>3
<1>9. ASSUME NEW h \in Nodes(u), h = 1 PROVE u[h].p = 0 /\ u[h].k = "doc"
  <2>1. heads[h] = 1 /\ h \in DOMAIN heads /\ 1 \in Nodes(r)
    BY <1>5, <1>6, <1>7, <1>9
  <2>2. r[1].p = 0 /\ r[1].k = "doc"
    BY <2>1 DEF TreeOK
  <2> QED BY <1>5, <2>1, <2>2 DEF up
<1>10. ASSUME NEW h \in Nodes(u), h # 1
       PROVE  u[h].k # "doc" /\ u[h].p \in 1 .. (h - 1) /\ u[u[h].p].k \in {"doc", "elem"}
  <2> DEFINE p == r[heads[h]].p
             g == u[h].p
  <2>1. h \in DOMAIN heads /\ heads[h] \in Nodes(r) /\ heads[h] # 1
    BY <1>5, <1>6, <1>7, <1>10
  <2>2. p \in 1 .. (heads[h] - 1) /\ r[p].k \in {"doc", "elem"}
    BY <2>1 DEF TreeOK
  <2>3. p \in Nodes(r) /\ p < heads[h]
    BY <1>0, <2>1, <2>2
  <2>4. p \in S
    BY <1>3, <2>2, <2>3
  <2> HIDE DEF p
  <2>5. g \in DOMAIN heads /\ heads[g] = p
    BY <1>8, <2>1, <2>4 DEF p
  <2> HIDE DEF g
  <2>6. g < h
    BY <1>4, <2>1, <2>3, <2>5
  <2>7. u[g].k = r[p].k
    BY <1>5, <2>5
  <2>8. g \in Nat \ {0} /\ h \in Nat \ {0}
    BY <1>4, <2>1, <2>5
  <2>9. u[h].k # "doc"
    BY <1>5, <2>1 DEF TreeOK
  <2> QED BY <2>2, <2>6, <2>7, <2>8, <2>9 DEF g
<1>11. ASSUME Rooted(r) PROVE Rooted(u)
  <2>1. PICK n \in Nodes(r) : r[n].p = 1 /\ r[n].k = "elem"
    BY <1>11 DEF Rooted, IsElem
  <2>2. n \in S
    BY <1>3, <2>1
  <2> DEFINE h == Rank(S, n)
  <2>3. h \in DOMAIN heads /\ heads[h] = n
    BY <1>4, <2>2
  <2> HIDE DEF h
  <2>4. 1 \in S
    BY <1>7, <2>3
  <2>5. u[h].p \in DOMAIN heads /\ heads[u[h].p] = 1
    BY <1>8, <2>1, <2>3, <2>4
  <2>6. u[h].p = 1
    BY <1>7, <2>5
  <2>7. u[h].k = "elem" /\ h \in Nodes(u)
    BY <1>5, <1>6, <2>1, <2>3
  <2> QED BY <2>6, <2>7 DEF Rooted, IsElem
<1> QED BY <1>9, <1>10, <1>11 DEF TreeOK, u

\* Giving names their namespaces keeps the tree.
LEMMA BindTree ==
    ASSUME NEW r, DocumentOK(r), TreeOK(r)
    PROVE  TreeOK(BindNames(r)) /\ (Rooted(r) => Rooted(BindNames(r)))
<1> DEFINE u == BindNames(r)
           v(n) == Binding(r, n, r[n].prefix)
<1>1. u = [n \in Nodes(r) |-> IF IsElem(r, n) THEN [r[n] EXCEPT !.ns = v(n)] ELSE r[n]]
  BY DEF BindNames, Nodes
<1> HIDE DEF u, v
<1>2. Nodes(u) = Nodes(r)
  BY <1>1 DEF Nodes
<1>3. \A n \in Nodes(u) : u[n].k = r[n].k /\ u[n].p = r[n].p
  <2> SUFFICES ASSUME NEW n \in Nodes(r) PROVE u[n].k = r[n].k /\ u[n].p = r[n].p
    BY <1>2
  <2>1. {"ns", "p", "k"} \subseteq DOMAIN r[n]
    BY DEF DocumentOK
  <2>2. u[n] = r[n] \/ u[n] = [r[n] EXCEPT !.ns = v(n)]
    BY <1>1
  <2> QED BY <2>1, <2>2
<1>4. Rooted(r) => Rooted(u)
  BY <1>2, <1>3 DEF Rooted, IsElem
<1>5. TreeOK(u)
  <2> SUFFICES ASSUME NEW n \in Nodes(u)
               PROVE  /\ n = 1 => u[n].p = 0 /\ u[n].k = "doc"
                      /\ n # 1 => u[n].k # "doc" /\ u[n].p \in 1 .. (n - 1) /\ u[u[n].p].k \in {"doc", "elem"}
    BY DEF TreeOK
  <2>1. n # 1 => r[n].p \in Nodes(r)
    BY <1>2 DEF TreeOK, DocumentOK
  <2> QED BY <1>2, <1>3, <2>1 DEF TreeOK
<1> QED BY <1>4, <1>5 DEF u

\* Both keep the declarations.
LEMMA ParseDecls ==
    ASSUME NEW r, DocumentOK(r), DeclsOK(r)
    PROVE  DeclsOK(JoinText(r)) /\ DeclsOK(BindNames(r))
<1> DEFINE S == {i \in DOMAIN r : ~Joined(r, i)}
           heads == InOrder(S)
           run(i) == {j \in DOMAIN r : j >= i /\ \A k \in (i + 1)..j : Joined(r, k)}
           up(h) == IF r[heads[h]].p = 0 THEN 0 ELSE CHOOSE g \in DOMAIN heads : heads[g] = r[heads[h]].p
           node(h) == [r[heads[h]] EXCEPT !.p = up(h), !.orig = UNION {r[j].orig : j \in run(heads[h])}]
           c == JoinText(r)
           b == BindNames(r)
<1>0. Len(r) \in Nat /\ Nodes(r) = 1 .. Len(r) /\ DOMAIN r = 1 .. Len(r)
  BY DEF DocumentOK, Nodes
<1>1. c = [h \in DOMAIN heads |-> node(h)]
  BY DEF JoinText
<1>2. b = [n \in DOMAIN r |-> IF IsElem(r, n) THEN [r[n] EXCEPT !.ns = Binding(r, n, r[n].prefix)] ELSE r[n]]
  BY DEF BindNames
<1>3. S \in SUBSET Nat /\ IsFiniteSet(S) /\ S \subseteq Nodes(r)
  <2>1. IsFiniteSet(1 .. Len(r))
    BY <1>0, FS_Interval
  <2>2. S \subseteq 1 .. Len(r)
    BY <1>0
  <2> QED BY <1>0, <2>1, <2>2, FS_Subset
<1> HIDE DEF S, run, up, b
<1>4. \A h \in DOMAIN heads : heads[h] \in Nodes(r)
  BY <1>3, InOrderElements
<1> HIDE DEF heads, c
<1>5. ASSUME NEW h \in Nodes(c) PROVE heads[h] \in Nodes(r) /\ c[h].k = r[heads[h]].k /\ c[h].decls = r[heads[h]].decls
  <2>1. h \in DOMAIN heads /\ c[h] = node(h)
    <3> HIDE DEF node
    <3> QED BY <1>1 DEF Nodes
  <2>2. heads[h] \in Nodes(r) /\ {"p", "orig", "k", "decls"} \subseteq DOMAIN r[heads[h]]
    BY <1>4, <2>1 DEF DocumentOK
  <2> QED BY <2>1, <2>2
<1>6. ASSUME NEW n \in Nodes(b) PROVE n \in Nodes(r) /\ b[n].k = r[n].k /\ b[n].decls = r[n].decls
  <2>1. n \in Nodes(r)
    BY <1>2 DEF Nodes
  <2>2. {"ns", "k", "decls"} \subseteq DOMAIN r[n]
    BY <2>1 DEF DocumentOK
  <2> QED BY <1>2, <2>1, <2>2 DEF Nodes
<1>7. DeclsOK(c)
  BY <1>5 DEF DeclsOK, IsElem
<1>8. DeclsOK(b)
  BY <1>6 DEF DeclsOK, IsElem
<1> QED BY <1>7, <1>8 DEF c, b

\* The text of a node set, parsed again, is a tree.
LEMMA CanonicalTree ==
    ASSUME NEW d, DocumentOK(d), TreeOK(d), NEW s, NEW m
    PROVE  TreeOK(canonicalize(d, s, m))
<1> DEFINE r == RawNodes(d, s, m)
           j == JoinText(r)
<1>1. DocumentOK(r) /\ TreeOK(r)
  BY WriteKeeps, WriteTree
<1> HIDE DEF r
<1>2. DocumentOK(j) /\ TreeOK(j)
  BY <1>1, JoinKeeps, JoinTree
<1> HIDE DEF j
<1>3. TreeOK(BindNames(j))
  BY <1>2, BindTree
<1> QED BY <1>3 DEF canonicalize, j, r

-----------------------------------------------------------------------------
(* What a canonical text says: namespaces and xml:* attributes.            *)

\* The greatest of some positions is the one that is not below another.
LEMMA GreatestIs ==
    ASSUME NEW N \in Nat, NEW S \in SUBSET (1 .. N), NEW g \in S, \A m \in S : m <= g
    PROVE  Greatest(S) = g
<1>1. Greatest(S) \in S /\ g <= Greatest(S) /\ Greatest(S) <= g
  BY GreatestIn
<1>2. \A m \in S : m \in 1 .. N /\ m \in Nat
  OBVIOUS
<1>3. \A a, b \in Nat : a <= b /\ b <= a => a = b
  OBVIOUS
<1> QED BY <1>1, <1>2, <1>3

\* What the nearest ancestor-or-self with a property is, step by step.
LEMMA NearestStep ==
    ASSUME NEW d, DocumentOK(d), TreeOK(d), NEW n \in Nodes(d), NEW P
    PROVE  LET near(k) == AncestorsOrSelf(d, k) \intersect P
           IN  /\ n \in P => near(n) # {} /\ Greatest(near(n)) = n
               /\ n \notin P /\ n = 1 => near(n) = {}
               /\ n \notin P /\ n # 1 => near(n) = near(d[n].p)
               /\ near(n) # {} => Greatest(near(n)) \in near(n) /\ Greatest(near(n)) \in 1 .. n
<1> DEFINE near(k) == AncestorsOrSelf(d, k) \intersect P
<1>1. Len(d) \in Nat /\ Nodes(d) = 1 .. Len(d)
  BY DEF DocumentOK
<1>2. AncestorsOrSelf(d, n) = {n} \union (IF d[n].p = 0 THEN {} ELSE AncestorsOrSelf(d, d[n].p))
  BY <1>1, AncestorsStep
<1>3. AncestorsOrSelf(d, n) \subseteq 1 .. n
  BY <1>1, AncestorsOK
<1>4. near(n) \in SUBSET (1 .. n) /\ n \in Nat
  BY <1>1, <1>3
<1>5. n \in P => near(n) # {} /\ Greatest(near(n)) = n
  <2> SUFFICES ASSUME n \in P PROVE near(n) # {} /\ Greatest(near(n)) = n
    OBVIOUS
  <2>1. n \in near(n)
    BY <1>2
  <2>2. \A m \in near(n) : m <= n
    BY <1>4
  <2> HIDE DEF near
  <2> QED BY <1>4, <2>1, <2>2, GreatestIs
<1>6. n = 1 => d[n].p = 0
  BY DEF TreeOK
<1>7. n # 1 => d[n].p # 0
  <2>1. n # 1 => d[n].p \in 1 .. (n - 1)
    BY DEF TreeOK
  <2> QED BY <1>1, <2>1
<1>8. near(n) # {} => Greatest(near(n)) \in near(n)
  <2> HIDE DEF near
  <2> QED BY <1>4, GreatestIn
<1> QED BY <1>2, <1>4, <1>5, <1>6, <1>7, <1>8

\* The parent of a node other than the document node.
LEMMA ParentOK ==
    ASSUME NEW d, DocumentOK(d), TreeOK(d), NEW n \in Nodes(d), n # 1
    PROVE  d[n].p \in Nodes(d) /\ d[n].p < n /\ d[n].p # 0 /\ n \in Nat /\ d[d[n].p].k \in {"doc", "elem"}
<1>1. Len(d) \in Nat /\ Nodes(d) = 1 .. Len(d)
  BY DEF DocumentOK
<1>2. d[n].p \in 1 .. (n - 1) /\ d[d[n].p].k \in {"doc", "elem"}
  BY DEF TreeOK
<1> QED BY <1>1, <1>2

\* A prefix means what the element itself declares, or what it means at its parent.
LEMMA BindingStep ==
    ASSUME NEW d, DocumentOK(d), TreeOK(d), NEW n \in Nodes(d), NEW p
    PROVE  /\ p \in DOMAIN d[n].decls => Declaring(d, n, p) # {} /\ Binding(d, n, p) = d[n].decls[p]
           /\ p \notin DOMAIN d[n].decls /\ n = 1 => Declaring(d, n, p) = {} /\ Binding(d, n, p) = NoUri
           /\ p \notin DOMAIN d[n].decls /\ n # 1 =>
                /\ Declaring(d, n, p) = Declaring(d, d[n].p, p)
                /\ Binding(d, n, p) = Binding(d, d[n].p, p)
<1> DEFINE P == {a \in Nodes(d) : p \in DOMAIN d[a].decls}
<1>1. Len(d) \in Nat /\ Nodes(d) = 1 .. Len(d)
  BY DEF DocumentOK
<1>2. \A k \in Nodes(d) : Declaring(d, k, p) = AncestorsOrSelf(d, k) \intersect P
  <2> TAKE k \in Nodes(d)
  <2>1. AncestorsOrSelf(d, k) \subseteq 1 .. k
    BY <1>1, AncestorsOK
  <2>2. AncestorsOrSelf(d, k) \subseteq Nodes(d)
    BY <1>1, <2>1
  <2> QED BY <2>2 DEF Declaring
<1>3. n \in P <=> p \in DOMAIN d[n].decls
  OBVIOUS
<1> HIDE DEF P
<1>4. n # 1 => d[n].p \in Nodes(d)
  BY ParentOK
<1>5. /\ n \in P => Declaring(d, n, p) # {} /\ Greatest(Declaring(d, n, p)) = n
      /\ n \notin P /\ n = 1 => Declaring(d, n, p) = {}
      /\ n \notin P /\ n # 1 => Declaring(d, n, p) = Declaring(d, d[n].p, p)
  <2> DEFINE near(k) == AncestorsOrSelf(d, k) \intersect P
  <2>1. /\ n \in P => near(n) # {} /\ Greatest(near(n)) = n
        /\ n \notin P /\ n = 1 => near(n) = {}
        /\ n \notin P /\ n # 1 => near(n) = near(d[n].p)
    BY NearestStep
  <2>2. Declaring(d, n, p) = near(n) /\ (n # 1 => Declaring(d, d[n].p, p) = near(d[n].p))
    BY <1>2, <1>4
  <2> HIDE DEF near
  <2> QED BY <2>1, <2>2
<1> QED BY <1>3, <1>5 DEF Binding

\* A prefix is in scope where it is bound.
LEMMA InScopeBinding ==
    ASSUME NEW d, NEW n, NEW p
    PROVE  p \in InScope(d, n) <=> Binding(d, n, p) # NoUri
<1>1. Binding(d, n, p) # NoUri => \E a \in AncestorsOrSelf(d, n) : p \in DOMAIN d[a].decls
  BY DEF Binding, Declaring
<1> QED BY <1>1 DEF InScope

\* A prefix other than the default one is in scope where it is declared.
LEMMA DeclaredBound ==
    ASSUME NEW d, DocumentOK(d), TreeOK(d), DeclsOK(d), NEW n \in Nodes(d), NEW p, p # Default
    PROVE  Declaring(d, n, p) = {} <=> Binding(d, n, p) = NoUri
<1> DEFINE Bad == {k \in Nodes(d) : ~(Declaring(d, k, p) = {} <=> Binding(d, k, p) = NoUri)}
<1>1. ASSUME Bad # {} PROVE FALSE
  <2>0. Bad \in SUBSET Nat
    BY DEF DocumentOK
  <2>1. PICK k \in Bad : \A j \in Bad : k <= j
    BY <1>1, <2>0, LeastExists
  <2>2. k \in Nodes(d)
    OBVIOUS
  <2>3. CASE p \in DOMAIN d[k].decls
    BY <2>1, <2>3, BindingStep DEF DeclsOK
  <2>4. CASE p \notin DOMAIN d[k].decls /\ k = 1
    BY <2>1, <2>4, BindingStep
  <2>5. CASE p \notin DOMAIN d[k].decls /\ k # 1
    <3>1. d[k].p \in Nodes(d) /\ d[k].p < k /\ k \in Nat
      BY <2>2, <2>5, ParentOK
    <3>2. d[k].p \in Nat
      BY <3>1 DEF DocumentOK
    <3>3. d[k].p \notin Bad
      BY <2>1, <3>1, <3>2
    <3>4. Declaring(d, k, p) = Declaring(d, d[k].p, p) /\ Binding(d, k, p) = Binding(d, d[k].p, p)
      BY <2>2, <2>5, BindingStep
    <3> QED BY <2>1, <3>1, <3>3, <3>4
  <2> QED BY <2>3, <2>4, <2>5
<1> QED BY <1>1

\* The contexts of the nodes up to n.
Contexts(d, s, m, n, a) ==
    a = [k \in 1 .. n |-> IF d[k].p = 0 THEN NoNs
                          ELSE IF IsElem(d, k) /\ is_visible(s, k) THEN ChildNs(d, s, k, m, a[d[k].p])
                          ELSE a[d[k].p]]

\* The recursion of Context has a solution, as parents come first.
LEMMA ContextsExist ==
    ASSUME NEW d, Len(d) \in Nat, Nodes(d) = 1 .. Len(d), TreeOK(d), NEW s, NEW m
    PROVE  \E a : Contexts(d, s, m, Len(d), a)
<1> DEFINE Step(k, a) == IF d[k].p = 0 THEN NoNs
                         ELSE IF IsElem(d, k) /\ is_visible(s, k) THEN ChildNs(d, s, k, m, a[d[k].p])
                         ELSE a[d[k].p]
           Bad == {n \in Nat : n <= Len(d) /\ ~\E a : a = [k \in 1 .. n |-> Step(k, a)]}
<1>s. \A k, a, b : d[k].p = 0 \/ a[d[k].p] = b[d[k].p] => Step(k, a) = Step(k, b)
  OBVIOUS
<1>c. \A a : Contexts(d, s, m, Len(d), a) <=> a = [k \in 1 .. Len(d) |-> Step(k, a)]
  BY DEF Contexts
<1> HIDE DEF Step
<1>0. ASSUME Bad # {} PROVE FALSE
  <2>1. PICK n \in Bad : \A j \in Bad : n <= j
    BY <1>0, LeastExists
  <2>2. CASE n = 0
    <3>1. [k \in 1 .. 0 |-> NoNs] = [k \in 1 .. 0 |-> Step(k, [j \in 1 .. 0 |-> NoNs])]
      OBVIOUS
    <3> QED BY <2>2, <3>1
  <2>3. CASE n # 0
    <3>1. n \in Nat /\ n - 1 \in Nat /\ n - 1 \notin Bad /\ n <= Len(d) /\ n - 1 <= Len(d)
      BY <2>1, <2>3
    <3>2. PICK b : b = [k \in 1 .. n - 1 |-> Step(k, b)]
      BY <3>1
    <3> DEFINE a == [k \in 1 .. n |-> IF k = n THEN Step(n, b) ELSE b[k]]
    <3>3. \A k \in 1 .. n - 1 : a[k] = b[k] /\ b[k] = Step(k, b)
      BY <3>1, <3>2
    <3>4. a[n] = Step(n, b) /\ a = [k \in 1 .. n |-> a[k]]
      BY <3>1, <2>3
    <3> HIDE DEF a
    <3>5. \A k \in 1 .. n : a[k] = Step(k, a)
      <4> SUFFICES ASSUME NEW k \in 1 .. n PROVE a[k] = Step(k, a)
        OBVIOUS
      <4>1. d[k].p = 0 \/ d[k].p \in 1 .. k - 1
        BY <3>1 DEF TreeOK
      <4>2. d[k].p = 0 \/ d[k].p \in 1 .. n - 1
        BY <3>1, <4>1
      <4>3. Step(k, a) = Step(k, b)
        BY <1>s, <3>3, <4>2
      <4>4. k = n \/ k \in 1 .. n - 1
        BY <3>1
      <4> QED BY <3>3, <3>4, <4>3, <4>4
    <3>6. a = [k \in 1 .. n |-> Step(k, a)]
      BY <3>4, <3>5
    <3> QED BY <2>1, <3>6
  <2> QED BY <2>2, <2>3
<1> QED BY <1>0, <1>c

\* The context below a node, from the one below its parent.
LEMMA ContextStep ==
    ASSUME NEW d, DocumentOK(d), TreeOK(d), NEW s, NEW m, NEW n \in Nodes(d)
    PROVE  LET ctx == Context(d, s, m)
           IN  /\ n = 1 => ctx[n] = NoNs
               /\ n # 1 /\ IsElem(d, n) /\ is_visible(s, n) => ctx[n] = ChildNs(d, s, n, m, ctx[d[n].p])
               /\ n # 1 /\ ~(IsElem(d, n) /\ is_visible(s, n)) => ctx[n] = ctx[d[n].p]
<1> DEFINE a == CHOOSE b : Contexts(d, s, m, Len(d), b)
<1>0. Len(d) \in Nat /\ Nodes(d) = 1 .. Len(d)
  BY DEF DocumentOK
<1>1. Contexts(d, s, m, Len(d), a)
  BY <1>0, ContextsExist
<1>2. Context(d, s, m) = a
  BY <1>0 DEF Context, Contexts
<1> HIDE DEF a
<1>3. a[n] = IF d[n].p = 0 THEN NoNs
             ELSE IF IsElem(d, n) /\ is_visible(s, n) THEN ChildNs(d, s, n, m, a[d[n].p])
             ELSE a[d[n].p]
  BY <1>0, <1>1 DEF Contexts
<1>4. (n = 1 => d[n].p = 0) /\ (n # 1 => d[n].p # 0)
  BY ParentOK DEF TreeOK
<1> QED BY <1>2, <1>3, <1>4

\* What a context gives for a prefix.
InForce(ctx, p) == IF p \in DOMAIN ctx THEN ctx[p] ELSE NoUri

\* The visible bindings at an element, when the node set does not filter namespace nodes.
LEMMA VisibleBindings ==
    ASSUME NEW d, NEW s, ~has_ns_visible(s), NEW n, NEW m
    PROVE  LET v == VisibleNs(d, s, n, m)
           IN  /\ DOMAIN v = InScope(d, n) \union
                                (IF ~m.exclusive /\ Declaring(d, n, Default) # {} THEN {Default} ELSE {})
               /\ \A p \in DOMAIN v : v[p] = Binding(d, n, p)
BY DEF VisibleNs

\* inclusive.rs: the declarations written change the context to the element's, say nothing
\* twice, and undeclare the default prefix only.
LEMMA InclusiveStep ==
    ASSUME NEW s, ~has_ns_visible(s), NEW v, \A p \in DOMAIN v : p # Default => v[p] # NoUri,
           NEW ctx, NEW p, p # Xml
    PROVE  LET ds == InclusiveDecls(s, v, ctx)
               next == InclusiveChildNs(s, v, ctx)
           IN  /\ InForce(next, p) = IF p \in DOMAIN ds THEN ds[p] ELSE InForce(ctx, p)
               /\ p \in DOMAIN v => InForce(next, p) = v[p]
               /\ p \notin DOMAIN v => InForce(next, p) = InForce(ctx, p)
               /\ p \in DOMAIN ds => ds[p] # InForce(ctx, p) /\ (p # Default => ds[p] # NoUri)
               /\ DOMAIN next \subseteq DOMAIN v \union DOMAIN ctx
<1> DEFINE shown == {q \in DOMAIN v \ {Xml} : ~Rendered(q, v, ctx) /\ (v[q] = NoUri => q \in DOMAIN ctx)}
           ds == InclusiveDecls(s, v, ctx)
           own == [q \in DOMAIN v \ {Xml} |-> v[q]]
           next == InclusiveChildNs(s, v, ctx)
<1>1. DOMAIN ds = shown /\ \A q \in shown : ds[q] = v[q]
  BY DEF InclusiveDecls
<1>2. next = Over(own, ctx)
  BY DEF InclusiveChildNs
<1>3. /\ DOMAIN next = (DOMAIN v \ {Xml}) \union DOMAIN ctx
      /\ \A q \in DOMAIN next : next[q] = IF q \in DOMAIN v \ {Xml} THEN v[q] ELSE ctx[q]
  BY <1>2 DEF Over
<1> HIDE DEF ds, next
<1> QED BY <1>1, <1>3 DEF InForce, Rendered, ds, next

\* exclusive.rs: the same for the utilized prefixes.
LEMMA ExclusiveStep ==
    ASSUME NEW s, NEW used, NEW v, NEW ctx, NEW p,
           ~has_ns_visible(s), \A q \in DOMAIN v : v[q] # NoUri, p # Xml
    PROVE  LET ds == ExclusiveDecls(used, v, ctx)
               next == ExclusiveChildNs(s, used, v, Over(ds, ctx))
           IN  /\ InForce(next, p) = IF p \in DOMAIN ds THEN ds[p] ELSE InForce(ctx, p)
               /\ p \in used /\ p \in DOMAIN v => InForce(next, p) = v[p]
               /\ Default \in used /\ Default \notin DOMAIN v => InForce(next, Default) = NoUri
               /\ p \in DOMAIN ds => ds[p] # InForce(ctx, p) /\ (p # Default => ds[p] # NoUri)
               /\ p \in DOMAIN next => p \in DOMAIN v \/ p \in DOMAIN ctx
<1> DEFINE ds == ExclusiveDecls(used, v, ctx)
           next == ExclusiveChildNs(s, used, v, Over(ds, ctx))
           shown == {q \in used \ {Xml} : q \in DOMAIN v /\ ~Rendered(q, v, ctx)}
           undone == {q \in used \intersect {Default} \intersect DOMAIN ctx : q \notin DOMAIN v /\ ctx[q] # NoUri}
           told == Over(ds, ctx)
<1>1. /\ DOMAIN ds = shown \union undone
      /\ \A q \in DOMAIN ds : ds[q] = IF q \in shown THEN v[q] ELSE NoUri
  BY DEF ExclusiveDecls
<1>2. DOMAIN told = DOMAIN ds \union DOMAIN ctx /\ \A q \in DOMAIN told : told[q] = IF q \in DOMAIN ds THEN ds[q] ELSE ctx[q]
  BY DEF Over
<1>n. next = ExclusiveChildNs(s, used, v, told)
  OBVIOUS
<1> HIDE DEF told, ds, next
<1>3. DOMAIN next = DOMAIN told /\ \A q \in DOMAIN told : next[q] = told[q]
  BY <1>n DEF ExclusiveChildNs
<1>4. \A q : InForce(next, q) = IF q \in DOMAIN ds THEN ds[q] ELSE InForce(ctx, q)
  BY <1>2, <1>3 DEF InForce
<1>5. p \in used /\ p \in DOMAIN v => InForce(next, p) = v[p]
  BY <1>1, <1>4 DEF InForce, Rendered
<1>d. Default # Xml
  BY DEF Default, Xml
<1>6. Default \in used /\ Default \notin DOMAIN v => InForce(next, Default) = NoUri
  BY <1>1, <1>4, <1>d DEF InForce
<1>7. p \in DOMAIN ds => ds[p] # InForce(ctx, p) /\ (p # Default => ds[p] # NoUri)
  BY <1>1 DEF InForce, Rendered
<1>8. p \in DOMAIN next => p \in DOMAIN v \/ p \in DOMAIN ctx
  BY <1>1, <1>2, <1>3
<1> QED BY <1>4, <1>5, <1>6, <1>7, <1>8 DEF ds, next

\* The nodes that are written with a tag, and the document node.
Tags(d, s) == {n \in Nodes(d) : d[n].k = "doc" \/ (IsElem(d, n) /\ is_visible(s, n))}

\* The nearest of them at or above a node.
TagAbove(d, s, n) == Greatest(AncestorsOrSelf(d, n) \intersect Tags(d, s))

\* The walk up to it.
LEMMA TagStep ==
    ASSUME NEW d, DocumentOK(d), TreeOK(d), NEW s, NEW n \in Nodes(d)
    PROVE  /\ n \in Tags(d, s) => TagAbove(d, s, n) = n
           /\ n \notin Tags(d, s) => n # 1 /\ TagAbove(d, s, n) = TagAbove(d, s, d[n].p)
           /\ TagAbove(d, s, n) \in Tags(d, s) \intersect AncestorsOrSelf(d, n)
<1> DEFINE near(k) == AncestorsOrSelf(d, k) \intersect Tags(d, s)
<1>1. /\ n \in Tags(d, s) => near(n) # {} /\ Greatest(near(n)) = n
      /\ n \notin Tags(d, s) /\ n # 1 => near(n) = near(d[n].p)
      /\ near(n) # {} => Greatest(near(n)) \in near(n)
  BY NearestStep
<1>2. Len(d) \in Nat /\ Nodes(d) = 1 .. Len(d)
  BY DEF DocumentOK
<1>3. 1 \in Nodes(d)
  BY <1>2
<1>4. 1 \in Tags(d, s)
  BY <1>3 DEF Tags, TreeOK
<1>5. near(n) # {}
  BY <1>2, <1>4, AncestorsOK
<1> HIDE DEF near
<1>6. \A k : TagAbove(d, s, k) = Greatest(near(k))
  BY DEF TagAbove, near
<1>7. Greatest(near(n)) \in Tags(d, s) \intersect AncestorsOrSelf(d, n)
  BY <1>1, <1>5 DEF near
<1> QED BY <1>1, <1>4, <1>6, <1>7

\* c is the text written for the tags of d: f gives the place of each.
WrittenAs(d, s, m, c, f) ==
    /\ \A n \in Tags(d, s) :
         /\ f[n] \in Nodes(c) /\ c[f[n]].k = d[n].k
         /\ n = 1 => f[n] = 1 /\ c[f[n]].attrs = d[n].attrs
         /\ n # 1 => /\ c[f[n]].p = f[TagAbove(d, s, d[n].p)]
                     /\ c[f[n]].decls = Decls(d, s, n, m, Context(d, s, m)[d[n].p])
                     /\ c[f[n]].attrs = Attrs(d, s, n, m)
    /\ \A n, l \in Tags(d, s) : n < l => f[n] < f[l]
    /\ \A k \in Nodes(c) : IF IsElem(c, k) THEN \E n \in Tags(d, s) : IsElem(d, n) /\ f[n] = k
                           ELSE DOMAIN c[k].decls = {}

\* What an element that is canonicalized is answered for: the namespaces in scope (inclusive),
\* the prefixes it uses (exclusive).
Answered(d, n, m) == IF m.exclusive THEN Utilized(d, n, m) ELSE InScope(d, n) \union {Default}

\* The declarations of an element, whichever canonicalizer writes them.
LEMMA ElementStep ==
    ASSUME NEW d, DocumentOK(d), TreeOK(d), DeclsOK(d), NEW s, ~has_ns_visible(s), NEW n \in Nodes(d),
           NEW m, NEW ctx, NEW p, p # Xml
    PROVE  LET ds == Decls(d, s, n, m, ctx)
               next == ChildNs(d, s, n, m, ctx)
           IN  /\ InForce(next, p) = IF p \in DOMAIN ds THEN ds[p] ELSE InForce(ctx, p)
               /\ p \in DOMAIN ds => ds[p] # InForce(ctx, p)
               /\ p \in DOMAIN next => p \in DOMAIN ctx \/ Declaring(d, n, p) # {}
               /\ p \in Answered(d, n, m) /\ (p \in DOMAIN ctx => Declaring(d, n, p) # {}) =>
                    InForce(next, p) = Binding(d, n, p)
<1> DEFINE v == VisibleNs(d, s, n, m)
           used == Utilized(d, n, m)
           ds == Decls(d, s, n, m, ctx)
           next == ChildNs(d, s, n, m, ctx)
<1>1. /\ DOMAIN v = InScope(d, n) \union (IF ~m.exclusive /\ Declaring(d, n, Default) # {} THEN {Default} ELSE {})
      /\ \A q \in DOMAIN v : v[q] = Binding(d, n, q)
  BY VisibleBindings
<1> HIDE DEF v
<1>2. \A q : (q \in InScope(d, n) <=> Binding(d, n, q) # NoUri)
  BY InScopeBinding
<1>3. \A q : Declaring(d, n, q) = {} => Binding(d, n, q) = NoUri
  BY DEF Binding
<1>4. \A q \in DOMAIN v : Declaring(d, n, q) # {}
  BY <1>1, <1>2, <1>3
<1>5. p # Default => (Declaring(d, n, p) = {} <=> Binding(d, n, p) = NoUri)
  BY DeclaredBound
<1>6. CASE ~m.exclusive
  <2>1. ds = InclusiveDecls(s, v, ctx) /\ next = InclusiveChildNs(s, v, ctx)
    BY <1>6 DEF Decls, ChildNs, v
  <2>2. \A q \in DOMAIN v : q # Default => v[q] # NoUri
    BY <1>1, <1>2
  <2> HIDE DEF ds, next
  <2>3. /\ InForce(next, p) = IF p \in DOMAIN ds THEN ds[p] ELSE InForce(ctx, p)
        /\ p \in DOMAIN v => InForce(next, p) = v[p]
        /\ p \notin DOMAIN v => InForce(next, p) = InForce(ctx, p)
        /\ p \in DOMAIN ds => ds[p] # InForce(ctx, p)
        /\ DOMAIN next \subseteq DOMAIN v \union DOMAIN ctx
    BY <2>1, <2>2, InclusiveStep
  <2>4. ASSUME p \in InScope(d, n) \union {Default}, p \in DOMAIN ctx => Declaring(d, n, p) # {}
        PROVE  InForce(next, p) = Binding(d, n, p)
    <3>1. CASE p \in DOMAIN v
      BY <1>1, <2>3, <3>1
    <3>2. CASE p \notin DOMAIN v
      <4>1. p = Default /\ Declaring(d, n, p) = {}
        BY <1>1, <1>6, <2>4, <3>2
      <4> QED BY <1>3, <2>3, <2>4, <3>2, <4>1 DEF InForce
    <3> QED BY <3>1, <3>2
  <2> QED BY <1>4, <1>6, <2>3, <2>4 DEF Answered, ds, next
<1>7. CASE m.exclusive
  <2>1. ds = ExclusiveDecls(used, v, ctx) /\ next = ExclusiveChildNs(s, used, v, Over(ds, ctx))
    BY <1>7 DEF Decls, ChildNs, v
  <2>2. \A q \in DOMAIN v : v[q] # NoUri
    BY <1>1, <1>2, <1>7
  <2> HIDE DEF ds, next, used
  <2>3. /\ InForce(next, p) = IF p \in DOMAIN ds THEN ds[p] ELSE InForce(ctx, p)
        /\ p \in used /\ p \in DOMAIN v => InForce(next, p) = v[p]
        /\ Default \in used /\ Default \notin DOMAIN v => InForce(next, Default) = NoUri
        /\ p \in DOMAIN ds => ds[p] # InForce(ctx, p)
        /\ p \in DOMAIN next => p \in DOMAIN v \/ p \in DOMAIN ctx
    <3> DEFINE e == ExclusiveDecls(used, v, ctx)
               f == ExclusiveChildNs(s, used, v, Over(e, ctx))
    <3>1. /\ InForce(f, p) = IF p \in DOMAIN e THEN e[p] ELSE InForce(ctx, p)
          /\ p \in used /\ p \in DOMAIN v => InForce(f, p) = v[p]
          /\ Default \in used /\ Default \notin DOMAIN v => InForce(f, Default) = NoUri
          /\ p \in DOMAIN e => e[p] # InForce(ctx, p) /\ (p # Default => e[p] # NoUri)
          /\ p \in DOMAIN f => p \in DOMAIN v \/ p \in DOMAIN ctx
      BY <2>2, ExclusiveStep
    <3>2. ds = e /\ next = f
      BY <2>1
    <3> HIDE DEF e, f
    <3> QED BY <3>1, <3>2
  <2>4. ASSUME p \in used, p \in DOMAIN ctx => Declaring(d, n, p) # {}
        PROVE  InForce(next, p) = Binding(d, n, p)
    <3>1. CASE p \in DOMAIN v
      BY <1>1, <2>3, <2>4, <3>1
    <3>2. CASE p \notin DOMAIN v
      <4>1. Binding(d, n, p) = NoUri
        BY <1>1, <1>2, <1>7, <3>2
      <4>2. CASE p = Default
        BY <2>3, <2>4, <3>2, <4>1, <4>2
      <4>3. CASE p # Default
        <5>1. p \notin DOMAIN ctx
          BY <1>5, <2>4, <4>1, <4>3
        <5>2. p \notin DOMAIN next
          BY <2>3, <3>2, <5>1
        <5> QED BY <4>1, <5>2 DEF InForce
      <4> QED BY <4>2, <4>3
    <3> QED BY <3>1, <3>2
  <2> QED BY <1>4, <1>7, <2>3, <2>4 DEF Answered, ds, next, used
<1> QED BY <1>6, <1>7

\* The context has prefixes that are declared at the node or above it only.
LEMMA ContextDeclared ==
    ASSUME NEW d, DocumentOK(d), TreeOK(d), DeclsOK(d), NEW s, ~has_ns_visible(s), NEW m,
           NEW n \in Nodes(d), NEW p, p # Xml, p \in DOMAIN Context(d, s, m)[n]
    PROVE  Declaring(d, n, p) # {}
<1> DEFINE ctx == Context(d, s, m)
           Bad == {k \in Nodes(d) : p \in DOMAIN ctx[k] /\ Declaring(d, k, p) = {}}
<1>1. ASSUME Bad # {} PROVE FALSE
  <2>0. Bad \in SUBSET Nat
    BY DEF DocumentOK
  <2>1. PICK k \in Bad : \A j \in Bad : k <= j
    BY <1>1, <2>0, LeastExists
  <2>2. k \in Nodes(d) /\ p \in DOMAIN ctx[k] /\ Declaring(d, k, p) = {}
    BY <2>1
  <2>3. k # 1
    BY <2>2, ContextStep DEF NoNs
  <2>4. d[k].p \in Nodes(d) /\ d[k].p < k /\ k \in Nat /\ d[k].p \in Nat
    BY <2>2, <2>3, ParentOK DEF DocumentOK
  <2>5. d[k].p \notin Bad
    BY <2>1, <2>4
  <2>6. Declaring(d, d[k].p, p) = {}
    BY <2>2, <2>3, BindingStep
  <2>7. p \notin DOMAIN ctx[d[k].p]
    BY <2>4, <2>5, <2>6
  <2>8. ctx[k] = ctx[d[k].p] \/ ctx[k] = ChildNs(d, s, k, m, ctx[d[k].p])
    BY <2>2, <2>3, ContextStep
  <2> HIDE DEF ctx
  <2>9. p \in DOMAIN ChildNs(d, s, k, m, ctx[d[k].p]) => p \in DOMAIN ctx[d[k].p]
    BY <2>2, ElementStep
  <2> QED BY <2>2, <2>7, <2>8, <2>9
<1> QED BY <1>1

\* Every tag is written where its rank among the nodes written says.
LEMMA WriteTags ==
    ASSUME NEW d, NEW s, NEW m, DocumentOK(d), TreeOK(d), DeclsOK(d)
    PROVE  \E f : WrittenAs(d, s, m, RawNodes(d, s, m), f)
<1> DEFINE ctx == Context(d, s, m)
           S == Written(d, s, m)
           w == InOrder(S)
           tag(n) == d[n].k # "elem" \/ is_visible(s, n)
           above(n) == {k \in DOMAIN w : /\ w[k] # n /\ w[k] \in AncestorsOrSelf(d, n) /\ tag(w[k])}
           up(n) == IF n = 1 THEN 0 ELSE Greatest(above(n))
           dcl(n) == IF IsElem(d, n) THEN Decls(d, s, n, m, ctx[d[n].p]) ELSE d[n].decls
           att(n) == IF IsElem(d, n) THEN Attrs(d, s, n, m) ELSE d[n].attrs
           node(n) == [d[n] EXCEPT !.p = up(n), !.decls = dcl(n), !.attrs = att(n)]
           bare(n) == [node(n) EXCEPT !.k = "text", !.decls = NoNs, !.attrs = {}, !.orig = {}]
           c == RawNodes(d, s, m)
           C == Cardinality(S)
           f == [n \in Tags(d, s) |-> Rank(S, n)]
<1>1. c = [i \in DOMAIN w |-> IF tag(w[i]) THEN node(w[i]) ELSE bare(w[i])]
  BY DEF RawNodes, WriteNodes
<1>c. \A n \in Nodes(d) : IsElem(d, n) => dcl(n) = Decls(d, s, n, m, ctx[d[n].p]) /\ att(n) = Attrs(d, s, n, m)
  OBVIOUS
<1>a. \A n \in Nodes(d) : ~IsElem(d, n) => DOMAIN dcl(n) = {} /\ att(n) = d[n].attrs
  BY DEF DeclsOK
<1> HIDE DEF w, above, up, dcl, att, c
<1>0. Len(d) \in Nat /\ Nodes(d) = 1 .. Len(d)
  BY DEF DocumentOK
<1>2. S \in SUBSET Nodes(d) /\ S \in SUBSET (Nat \ {0}) /\ S \in SUBSET Nat /\ IsFiniteSet(S)
  <2>1. IsFiniteSet(1 .. Len(d))
    BY <1>0, FS_Interval
  <2>2. S \in SUBSET Nodes(d)
    BY DEF Written
  <2> QED BY <1>0, <2>1, <2>2, FS_Subset
<1>3. ASSUME NEW n \in Nodes(d)
      PROVE  /\ node(n).p = up(n) /\ node(n).k = d[n].k /\ node(n).decls = dcl(n) /\ node(n).attrs = att(n)
             /\ bare(n).k = "text" /\ bare(n).decls = NoNs
  <2>1. DOMAIN d[n] = {"k", "p", "ns", "prefix", "local", "decls", "attrs", "orig"}
    BY DEF DocumentOK
  <2>2. /\ DOMAIN node(n) = DOMAIN d[n] /\ node(n).p = up(n) /\ node(n).k = d[n].k
        /\ node(n).decls = dcl(n) /\ node(n).attrs = att(n)
    BY <2>1
  <2> HIDE DEF node
  <2>3. bare(n).k = "text" /\ bare(n).decls = NoNs
    BY <2>1, <2>2
  <2> QED BY <2>2, <2>3
<1>4. \A n \in Tags(d, s) : n \in S /\ n \in Nodes(d) /\ tag(n)
  BY DEF Tags, Written, IsElem
<1>t. \A n \in Nodes(d) : tag(n) /\ d[n].k \in {"doc", "elem"} => n \in Tags(d, s)
  BY DEF Tags, IsElem
<1> HIDE DEF node, bare, S, C
<1>5. /\ DOMAIN w = 1 .. C /\ C \in Nat
      /\ \A i \in DOMAIN w : w[i] \in S
      /\ \A n \in S : Rank(S, n) \in DOMAIN w /\ w[Rank(S, n)] = n
      /\ \A i, j \in DOMAIN w : w[i] < w[j] => i < j
  BY <1>2, InOrderRank DEF w, C
<1>r. \A n, l \in S : n < l => Rank(S, n) < Rank(S, l)
  BY <1>5
<1>6. ASSUME NEW i \in DOMAIN w
      PROVE  /\ w[i] \in Nodes(d)
             /\ tag(w[i]) => /\ c[i].p = up(w[i]) /\ c[i].k = d[w[i]].k
                             /\ c[i].decls = dcl(w[i]) /\ c[i].attrs = att(w[i])
             /\ ~tag(w[i]) => c[i].k = "text" /\ c[i].decls = NoNs
  <2>1. w[i] \in Nodes(d)
    BY <1>2, <1>5
  <2>2. c[i] = IF tag(w[i]) THEN node(w[i]) ELSE bare(w[i])
    BY <1>1
  <2> HIDE DEF tag
  <2>3. CASE tag(w[i])
    BY <1>3, <2>1, <2>2, <2>3
  <2>4. CASE ~tag(w[i])
    BY <1>3, <2>1, <2>2, <2>4
  <2> QED BY <2>1, <2>3, <2>4
<1>7. Nodes(c) = DOMAIN w
  <2> HIDE DEF tag
  <2> QED BY <1>1 DEF Nodes
<1>8. ASSUME NEW n \in Tags(d, s), n # 1 PROVE up(n) = f[TagAbove(d, s, d[n].p)]
  <2> DEFINE t == TagAbove(d, s, d[n].p)
             near == AncestorsOrSelf(d, d[n].p) \intersect Tags(d, s)
  <2>1. n \in Nodes(d) /\ d[n].p \in Nodes(d) /\ d[n].p < n /\ d[n].p # 0
    BY <1>4, <1>8, ParentOK
  <2>2. AncestorsOrSelf(d, n) = {n} \union AncestorsOrSelf(d, d[n].p)
    BY <1>0, <2>1, AncestorsStep
  <2>3. AncestorsOrSelf(d, d[n].p) \subseteq 1 .. d[n].p
    BY <1>0, <2>1, AncestorsOK
  <2>4. n \notin AncestorsOrSelf(d, d[n].p)
    BY <1>0, <2>1, <2>3
  <2>5. \A l \in AncestorsOrSelf(d, d[n].p) : l \in Nodes(d) /\ d[l].k \in {"doc", "elem"}
    <3>1. \A l \in AncestorsOrSelf(d, n) : l # n => d[l].k \in {"doc", "elem"}
      BY <1>0, <2>1, AncestorsOK
    <3>2. AncestorsOrSelf(d, n) \subseteq 1 .. n
      BY <1>0, <2>1, AncestorsOK
    <3>3. AncestorsOrSelf(d, n) \subseteq Nodes(d)
      BY <1>0, <2>1, <3>2
    <3> QED BY <2>2, <2>4, <3>1, <3>3
  <2>6. above(n) = {k \in DOMAIN w : w[k] \in near}
    BY <1>4, <1>t, <2>2, <2>4, <2>5 DEF above
  <2>7. t \in near /\ \A l \in near : l <= t
    <3>1. near \in SUBSET (1 .. d[n].p) /\ d[n].p \in Nat
      BY <1>0, <2>1, <2>3
    <3>2. t \in near
      BY <2>1, TagStep
    <3>3. t = Greatest(near)
      BY DEF TagAbove
    <3> HIDE DEF near, t
    <3> QED BY <3>1, <3>2, <3>3, GreatestIn
  <2> HIDE DEF t
  <2>8. near \subseteq S /\ near \subseteq Nat
    BY <1>2, <1>4
  <2> HIDE DEF near
  <2>9. \A k \in above(n) : k <= Rank(S, t)
    <3> SUFFICES ASSUME NEW k \in above(n) PROVE k <= Rank(S, t)
      OBVIOUS
    <3>1. k \in DOMAIN w /\ w[k] \in near /\ w[k] <= t /\ Rank(S, t) \in DOMAIN w /\ w[Rank(S, t)] = t
      BY <1>5, <2>6, <2>7, <2>8
    <3>2. CASE w[k] < t
      BY <1>5, <3>1, <3>2
    <3>3. CASE w[k] = t
      <4>1. Rank(S, w[k]) = k
        BY <1>2, <3>1, InOrderRank DEF w
      <4> QED BY <1>5, <3>1, <3>3, <4>1
    <3>4. w[k] \in Nat /\ t \in Nat
      BY <2>7, <2>8, <3>1
    <3>5. w[k] < t \/ w[k] = t
      BY <3>1, <3>4
    <3> QED BY <3>2, <3>3, <3>5
  <2>10. Rank(S, t) \in above(n)
    BY <1>5, <2>6, <2>7, <2>8
  <2>11. above(n) \in SUBSET (1 .. C)
    BY <1>5, <2>6
  <2>12. Greatest(above(n)) = Rank(S, t)
    BY <1>5, <2>9, <2>10, <2>11, GreatestIs
  <2>13. t \in Tags(d, s)
    BY <2>7 DEF near
  <2> QED BY <1>8, <2>12, <2>13 DEF up, t
<1>9. ASSUME NEW n \in Tags(d, s)
      PROVE  /\ f[n] \in Nodes(c) /\ c[f[n]].k = d[n].k
             /\ n = 1 => f[n] = 1 /\ c[f[n]].attrs = d[n].attrs
             /\ n # 1 => /\ c[f[n]].p = f[TagAbove(d, s, d[n].p)]
                         /\ c[f[n]].decls = Decls(d, s, n, m, ctx[d[n].p])
                         /\ c[f[n]].attrs = Attrs(d, s, n, m)
  <2>1. n \in S /\ n \in Nodes(d) /\ tag(n)
    BY <1>4
  <2>2. f[n] \in DOMAIN w /\ w[f[n]] = n
    BY <1>5, <2>1
  <2>3. /\ c[f[n]].p = up(n) /\ c[f[n]].k = d[n].k
        /\ c[f[n]].decls = dcl(n) /\ c[f[n]].attrs = att(n)
    BY <1>6, <2>1, <2>2
  <2>4. n = 1 => ~IsElem(d, n) /\ f[n] = 1
    <3>1. n = 1 => ~IsElem(d, n)
      BY <2>1 DEF TreeOK, IsElem
    <3>2. n = 1 => 1 \in DOMAIN w /\ w[1] = 1 /\ Rank(S, w[1]) = 1
      BY <1>2, <2>1, InOrderFirst, InOrderRank DEF w
    <3> QED BY <3>1, <3>2
  <2>5. n # 1 => IsElem(d, n)
    BY <2>1 DEF TreeOK, IsElem, Tags
  <2> HIDE DEF f, ctx
  <2> QED BY <1>7, <1>8, <1>a, <1>c, <2>1, <2>2, <2>3, <2>4, <2>5
<1>10. \A n, l \in Tags(d, s) : n < l => f[n] < f[l]
  BY <1>4, <1>r
<1>11. ASSUME NEW k \in Nodes(c)
       PROVE  IF IsElem(c, k) THEN \E n \in Tags(d, s) : IsElem(d, n) /\ f[n] = k ELSE DOMAIN c[k].decls = {}
  <2>1. k \in DOMAIN w /\ w[k] \in Nodes(d) /\ w[k] \in S
    BY <1>5, <1>6, <1>7
  <2>2. CASE ~tag(w[k])
    BY <1>6, <2>1, <2>2 DEF IsElem, NoNs
  <2>3. CASE tag(w[k])
    <3>1. c[k].k = d[w[k]].k /\ c[k].decls = dcl(w[k])
      BY <1>6, <2>1, <2>3
    <3>2. CASE IsElem(d, w[k])
      <4>1. w[k] \in Tags(d, s)
        BY <1>t, <2>1, <2>3, <3>2 DEF IsElem
      <4>2. f[w[k]] = k
        BY <1>2, <2>1, <4>1, InOrderRank DEF w
      <4> QED BY <3>1, <3>2, <4>1, <4>2 DEF IsElem
    <3>3. CASE ~IsElem(d, w[k])
      BY <1>a, <2>1, <3>1, <3>3 DEF IsElem
    <3> QED BY <3>2, <3>3
  <2> QED BY <2>2, <2>3
<1> HIDE DEF f
<1>12. WrittenAs(d, s, m, c, f)
  BY <1>9, <1>10, <1>11 DEF WrittenAs
<1> QED BY <1>12 DEF c

\* The join of text leaves the tags, which are no text.
LEMMA JoinTags ==
    ASSUME NEW d, NEW s, NEW m, NEW r, NEW f,
           DocumentOK(d), TreeOK(d), DocumentOK(r), TreeOK(r), WrittenAs(d, s, m, r, f)
    PROVE  \E g : WrittenAs(d, s, m, JoinText(r), g)
<1> DEFINE S == {i \in DOMAIN r : ~Joined(r, i)}
           heads == InOrder(S)
           run(i) == {j \in DOMAIN r : j >= i /\ \A k \in (i + 1)..j : Joined(r, k)}
           up(h) == IF r[heads[h]].p = 0 THEN 0 ELSE CHOOSE g \in DOMAIN heads : heads[g] = r[heads[h]].p
           node(h) == [r[heads[h]] EXCEPT !.p = up(h), !.orig = UNION {r[j].orig : j \in run(heads[h])}]
           c == JoinText(r)
           g == [n \in Tags(d, s) |-> Rank(S, f[n])]
<1>0. Len(r) \in Nat /\ Nodes(r) = 1 .. Len(r) /\ DOMAIN r = 1 .. Len(r)
  BY DEF DocumentOK, Nodes
<1>1. c = [h \in DOMAIN heads |-> node(h)]
  BY DEF JoinText
<1>2. S \in SUBSET (Nat \ {0}) /\ S \in SUBSET Nat /\ IsFiniteSet(S) /\ S \subseteq Nodes(r)
  <2>1. IsFiniteSet(1 .. Len(r))
    BY <1>0, FS_Interval
  <2>2. S \subseteq 1 .. Len(r)
    BY <1>0
  <2> QED BY <1>0, <2>1, <2>2, FS_Subset
<1>3. \A n \in Nodes(r) : n = 1 \/ r[n].k # "text" => n \in S
  BY <1>0 DEF Joined
<1> HIDE DEF S, run
<1>4. /\ \A i \in DOMAIN heads : heads[i] \in S /\ Rank(S, heads[i]) = i
      /\ \A n \in S : Rank(S, n) \in DOMAIN heads /\ heads[Rank(S, n)] = n
      /\ \A i, j \in DOMAIN heads : heads[i] < heads[j] => i < j
      /\ DOMAIN heads \subseteq Nat \ {0}
  BY <1>2, InOrderRank
<1>f. 1 \in S => 1 \in DOMAIN heads /\ heads[1] = 1
  BY <1>2, InOrderFirst
<1> HIDE DEF heads
<1>5. ASSUME NEW h \in DOMAIN heads
      PROVE  /\ heads[h] \in Nodes(r) /\ c[h].p = up(h) /\ c[h].k = r[heads[h]].k
             /\ c[h].decls = r[heads[h]].decls /\ c[h].attrs = r[heads[h]].attrs
  <2>1. heads[h] \in Nodes(r)
    BY <1>2, <1>4
  <2>2. {"p", "orig", "k", "decls", "attrs"} \subseteq DOMAIN r[heads[h]]
    BY <2>1 DEF DocumentOK
  <2>3. c[h] = node(h)
    BY <1>1
  <2> HIDE DEF c
  <2> QED BY <2>1, <2>2, <2>3
<1>6. Nodes(c) = DOMAIN heads
  <2> HIDE DEF node
  <2> QED BY <1>1 DEF Nodes
<1> HIDE DEF c
<1>7. ASSUME NEW n \in Tags(d, s)
      PROVE  /\ f[n] \in Nodes(r) /\ r[f[n]].k = d[n].k
             /\ n = 1 => f[n] = 1 /\ r[f[n]].attrs = d[n].attrs
             /\ n # 1 => /\ r[f[n]].p = f[TagAbove(d, s, d[n].p)]
                         /\ r[f[n]].decls = Decls(d, s, n, m, Context(d, s, m)[d[n].p])
                         /\ r[f[n]].attrs = Attrs(d, s, n, m)
  BY DEF WrittenAs
<1>8. ASSUME NEW n \in Tags(d, s)
      PROVE  f[n] \in S /\ g[n] \in DOMAIN heads /\ heads[g[n]] = f[n] /\ f[n] \in Nat \ {0}
  <2>1. d[n].k # "text"
    BY DEF Tags, IsElem
  <2>2. f[n] \in S
    BY <1>3, <1>7, <2>1
  <2> QED BY <1>2, <1>4, <2>2
<1>9. ASSUME NEW n \in Tags(d, s), n # 1
      PROVE  TagAbove(d, s, d[n].p) \in Tags(d, s)
  <2>1. n \in Nodes(d) /\ d[n].p \in Nodes(d)
    BY <1>9, ParentOK DEF Tags
  <2> QED BY <2>1, TagStep
<1>10. ASSUME NEW n \in Tags(d, s)
       PROVE  /\ g[n] \in Nodes(c) /\ c[g[n]].k = d[n].k
              /\ n = 1 => g[n] = 1 /\ c[g[n]].attrs = d[n].attrs
              /\ n # 1 => /\ c[g[n]].p = g[TagAbove(d, s, d[n].p)]
                          /\ c[g[n]].decls = Decls(d, s, n, m, Context(d, s, m)[d[n].p])
                          /\ c[g[n]].attrs = Attrs(d, s, n, m)
  <2>1. /\ g[n] \in Nodes(c) /\ c[g[n]].k = r[f[n]].k /\ c[g[n]].decls = r[f[n]].decls
        /\ c[g[n]].attrs = r[f[n]].attrs /\ c[g[n]].p = up(g[n])
    BY <1>5, <1>6, <1>8
  <2>2. n = 1 => g[n] = 1
    <3>1. n = 1 => f[n] = 1 /\ 1 \in S
      BY <1>7, <1>8
    <3>2. n = 1 => Rank(S, 1) = 1
      BY <1>4, <1>f, <3>1
    <3> QED BY <3>1, <3>2
  <2>3. ASSUME n # 1 PROVE c[g[n]].p = g[TagAbove(d, s, d[n].p)]
    <3> DEFINE t == TagAbove(d, s, d[n].p)
    <3>1. t \in Tags(d, s)
      BY <1>9, <2>3
    <3>2. r[heads[g[n]]].p = f[t] /\ f[t] # 0
      BY <1>7, <1>8, <2>3, <3>1
    <3>3. g[t] \in DOMAIN heads /\ heads[g[t]] = f[t]
      BY <1>8, <3>1
    <3> HIDE DEF t, g
    <3>4. up(g[n]) = CHOOSE h \in DOMAIN heads : heads[h] = f[t]
      BY <3>2
    <3>5. up(g[n]) \in DOMAIN heads /\ heads[up(g[n])] = f[t]
      BY <3>3, <3>4
    <3> HIDE DEF up
    <3>6. up(g[n]) = g[t]
      BY <1>4, <3>3, <3>5
    <3> QED BY <2>1, <3>6 DEF t
  <2> HIDE DEF g, up
  <2> QED BY <1>7, <2>1, <2>2, <2>3
<1>11. ASSUME NEW n \in Tags(d, s), NEW l \in Tags(d, s), n < l PROVE g[n] < g[l]
  <2>1. f[n] < f[l]
    BY <1>11 DEF WrittenAs
  <2> QED BY <1>4, <1>8, <2>1
<1>12. ASSUME NEW k \in Nodes(c)
       PROVE  IF IsElem(c, k) THEN \E n \in Tags(d, s) : IsElem(d, n) /\ g[n] = k ELSE DOMAIN c[k].decls = {}
  <2>1. k \in DOMAIN heads /\ heads[k] \in Nodes(r) /\ c[k].k = r[heads[k]].k /\ c[k].decls = r[heads[k]].decls
    BY <1>5, <1>6
  <2>2. CASE IsElem(c, k)
    <3>1. IsElem(r, heads[k])
      BY <2>1, <2>2 DEF IsElem
    <3>2. PICK n \in Tags(d, s) : IsElem(d, n) /\ f[n] = heads[k]
      BY <2>1, <3>1 DEF WrittenAs
    <3>3. g[n] = k
      BY <1>4, <2>1, <3>2
    <3> QED BY <2>2, <3>2, <3>3
  <2>3. CASE ~IsElem(c, k)
    <3>1. ~IsElem(r, heads[k])
      BY <2>1, <2>3 DEF IsElem
    <3> QED BY <2>1, <2>3, <3>1 DEF WrittenAs
  <2> QED BY <2>2, <2>3
<1> HIDE DEF g
<1>13. WrittenAs(d, s, m, c, g)
  BY <1>10, <1>11, <1>12 DEF WrittenAs
<1> QED BY <1>13 DEF c

\* Giving names their namespaces changes nothing of this.
LEMMA BindTags ==
    ASSUME NEW d, NEW s, NEW m, NEW r, NEW f, DocumentOK(r), WrittenAs(d, s, m, r, f)
    PROVE  WrittenAs(d, s, m, BindNames(r), f)
<1> DEFINE c == BindNames(r)
           v(n) == Binding(r, n, r[n].prefix)
<1>1. c = [n \in Nodes(r) |-> IF IsElem(r, n) THEN [r[n] EXCEPT !.ns = v(n)] ELSE r[n]]
  BY DEF BindNames, Nodes
<1> HIDE DEF c, v
<1>2. Nodes(c) = Nodes(r)
  BY <1>1 DEF Nodes
<1>3. \A n \in Nodes(c) : /\ c[n].k = r[n].k /\ c[n].p = r[n].p
                          /\ c[n].decls = r[n].decls /\ c[n].attrs = r[n].attrs
  <2> SUFFICES ASSUME NEW n \in Nodes(r) PROVE /\ c[n].k = r[n].k /\ c[n].p = r[n].p
                                               /\ c[n].decls = r[n].decls /\ c[n].attrs = r[n].attrs
    BY <1>2
  <2>1. {"ns", "p", "k", "decls", "attrs"} \subseteq DOMAIN r[n]
    BY DEF DocumentOK
  <2>2. c[n] = r[n] \/ c[n] = [r[n] EXCEPT !.ns = v(n)]
    BY <1>1
  <2> QED BY <2>1, <2>2
<1>4. \A n \in Nodes(c) : IsElem(c, n) <=> IsElem(r, n)
  BY <1>3 DEF IsElem
<1>5. WrittenAs(d, s, m, c, f)
  BY <1>2, <1>3, <1>4 DEF WrittenAs
<1> QED BY <1>5 DEF c

\* The canonical text of a node set has its elements, as they are written, in order.
LEMMA CanonicalTags ==
    ASSUME NEW d, NEW s, NEW m, DocumentOK(d), TreeOK(d), DeclsOK(d)
    PROVE  \E f : WrittenAs(d, s, m, canonicalize(d, s, m), f)
<1> DEFINE r == RawNodes(d, s, m)
           j == JoinText(r)
<1>1. DocumentOK(r) /\ TreeOK(r)
  BY WriteKeeps, WriteTree
<1>2. PICK g : WrittenAs(d, s, m, r, g)
  BY WriteTags
<1> HIDE DEF r
<1>3. DocumentOK(j)
  BY <1>1, JoinKeeps
<1>4. PICK f : WrittenAs(d, s, m, j, f)
  BY <1>1, <1>2, JoinTags
<1> HIDE DEF j
<1>5. WrittenAs(d, s, m, BindNames(j), f)
  BY <1>3, <1>4, BindTags
<1> QED BY <1>5 DEF canonicalize, j, r

\* The context below a node and above it, and where the tag above it is written.
ContextAt(d, s, m, n) == Context(d, s, m)[n]
ContextAbove(d, s, m, n) == Context(d, s, m)[d[n].p]
PlaceOf(d, s, f, n) == f[TagAbove(d, s, n)]
PlaceAbove(d, s, f, n) == f[TagAbove(d, s, d[n].p)]

\* The context kept along the walk is what the text written so far says.
LEMMA ContextWritten ==
    ASSUME NEW d, NEW s, NEW m, NEW c, NEW f, NEW n \in Nodes(d), NEW p,
           DocumentOK(d), TreeOK(d), DeclsOK(d), ~has_ns_visible(s),
           DocumentOK(c), TreeOK(c), WrittenAs(d, s, m, c, f), p # Xml
    PROVE  InForce(ContextAt(d, s, m, n), p) = Binding(c, PlaceOf(d, s, f, n), p)
<1> DEFINE ctx == Context(d, s, m)
           Bad == {k \in Nodes(d) : InForce(ctx[k], p) # Binding(c, f[TagAbove(d, s, k)], p)}
<1>1. ASSUME Bad # {} PROVE FALSE
  <2>0. Bad \in SUBSET Nat
    BY DEF DocumentOK
  <2>1. PICK k \in Bad : \A j \in Bad : k <= j
    BY <1>1, <2>0, LeastExists
  <2>2. k \in Nodes(d) /\ InForce(ctx[k], p) # Binding(c, f[TagAbove(d, s, k)], p)
    BY <2>1
  <2>3. k # 1 => d[k].p \in Nodes(d) /\ d[k].p < k /\ k \in Nat /\ d[k].p \in Nat
    <3>1. k \in Nat /\ Nodes(d) \subseteq Nat
      BY <2>2 DEF DocumentOK
    <3>2. k # 1 => d[k].p \in Nodes(d) /\ d[k].p < k
      BY <2>2, ParentOK
    <3> QED BY <3>1, <3>2
  <2>4. k # 1 => d[k].p \notin Bad
    BY <2>1, <2>3
  <2>5. k # 1 => InForce(ctx[d[k].p], p) = Binding(c, f[TagAbove(d, s, d[k].p)], p)
    BY <2>3, <2>4
  <2>6. /\ k \in Tags(d, s) => TagAbove(d, s, k) = k
        /\ k \notin Tags(d, s) => k # 1 /\ TagAbove(d, s, k) = TagAbove(d, s, d[k].p)
    BY <2>2, TagStep
  <2>7. /\ k = 1 => ctx[k] = NoNs
        /\ k # 1 /\ IsElem(d, k) /\ is_visible(s, k) => ctx[k] = ChildNs(d, s, k, m, ctx[d[k].p])
        /\ k # 1 /\ ~(IsElem(d, k) /\ is_visible(s, k)) => ctx[k] = ctx[d[k].p]
    BY <2>2, ContextStep
  <2>8. k # 1 => (k \in Tags(d, s) <=> IsElem(d, k) /\ is_visible(s, k))
    BY <2>2 DEF Tags, TreeOK
  <2> HIDE DEF ctx
  <2>9. CASE k = 1
    <3>1. k \in Tags(d, s)
      BY <2>6, <2>9
    <3>2. f[k] = 1 /\ 1 \in Nodes(c)
      BY <2>9, <3>1 DEF WrittenAs
    <3>3. DOMAIN c[1].decls = {}
      BY <3>2 DEF WrittenAs, TreeOK, IsElem
    <3>4. Binding(c, 1, p) = NoUri
      BY <3>2, <3>3, BindingStep
    <3>5. InForce(ctx[k], p) = NoUri
      BY <2>7, <2>9 DEF InForce, NoNs
    <3> QED BY <2>2, <2>6, <3>1, <3>2, <3>4, <3>5
  <2>10. CASE k # 1 /\ k \notin Tags(d, s)
    BY <2>2, <2>5, <2>6, <2>7, <2>8, <2>10
  <2>11. CASE k # 1 /\ k \in Tags(d, s)
    <3> DEFINE ds == Decls(d, s, k, m, ctx[d[k].p])
    <3>1. /\ f[k] \in Nodes(c) /\ c[f[k]].p = f[TagAbove(d, s, d[k].p)]
          /\ c[f[k]].decls = ds
      BY <2>11 DEF WrittenAs, ctx
    <3>2. InForce(ctx[k], p) = IF p \in DOMAIN ds THEN ds[p] ELSE InForce(ctx[d[k].p], p)
      BY <2>2, <2>7, <2>8, <2>11, ElementStep
    <3>3. c[f[k]].k = d[k].k /\ d[k].k # "doc"
      BY <2>2, <2>11 DEF WrittenAs, TreeOK
    <3>4. f[k] # 1
      BY <3>1, <3>3 DEF TreeOK
    <3> HIDE DEF ds
    <3>5. p \in DOMAIN ds => Binding(c, f[k], p) = ds[p]
      BY <3>1, BindingStep
    <3>6. p \notin DOMAIN ds => Binding(c, f[k], p) = Binding(c, c[f[k]].p, p)
      BY <3>1, <3>4, BindingStep
    <3> QED BY <2>2, <2>5, <2>6, <2>11, <3>1, <3>2, <3>5, <3>6
  <2> QED BY <2>9, <2>10, <2>11
<1>2. InForce(ctx[n], p) = Binding(c, f[TagAbove(d, s, n)], p)
  BY <1>1
<1> QED BY <1>2 DEF ContextAt, PlaceOf

\* The parts of WrittenAs for an element.
LEMMA ElementWritten ==
    ASSUME NEW d, NEW s, NEW m, NEW c, NEW f, NEW n \in Tags(d, s),
           DocumentOK(d), TreeOK(d), DocumentOK(c), TreeOK(c), WrittenAs(d, s, m, c, f), n # 1
    PROVE  LET up == d[n].p
               new == c[f[n]]
           IN  /\ n \in Nodes(d) /\ up \in Nodes(d) /\ IsElem(d, n) /\ is_visible(s, n)
               /\ f[n] \in Nodes(c) /\ f[n] # 1 /\ IsElem(c, f[n]) /\ PlaceOf(d, s, f, n) = f[n]
               /\ new.p = PlaceAbove(d, s, f, n)
               /\ new.decls = Decls(d, s, n, m, ContextAbove(d, s, m, n))
               /\ new.attrs = Attrs(d, s, n, m)
               /\ ContextAt(d, s, m, n) = ChildNs(d, s, n, m, ContextAbove(d, s, m, n))
<1>1. n \in Nodes(d) /\ IsElem(d, n) /\ is_visible(s, n) /\ d[n].k # "doc"
  BY DEF Tags, TreeOK
<1>2. d[n].p \in Nodes(d)
  BY <1>1, ParentOK
<1>3. TagAbove(d, s, n) = n
  BY <1>1, TagStep
<1>4. /\ f[n] \in Nodes(c) /\ c[f[n]].k = d[n].k
      /\ c[f[n]].p = f[TagAbove(d, s, d[n].p)]
      /\ c[f[n]].decls = Decls(d, s, n, m, Context(d, s, m)[d[n].p])
      /\ c[f[n]].attrs = Attrs(d, s, n, m)
  BY DEF WrittenAs
<1>5. f[n] # 1 /\ IsElem(c, f[n])
  BY <1>1, <1>4 DEF TreeOK, IsElem
<1>6. Context(d, s, m)[n] = ChildNs(d, s, n, m, Context(d, s, m)[d[n].p])
  BY <1>1, ContextStep
<1>7. PlaceOf(d, s, f, n) = f[n] /\ f[TagAbove(d, s, d[n].p)] = PlaceAbove(d, s, f, n)
  BY <1>3 DEF PlaceOf, PlaceAbove
<1>8. ContextAt(d, s, m, n) = Context(d, s, m)[n] /\ ContextAbove(d, s, m, n) = Context(d, s, m)[d[n].p]
  BY DEF ContextAt, ContextAbove
<1>9. c[f[n]].p = PlaceAbove(d, s, f, n)
  BY <1>4, <1>7
<1>10. c[f[n]].decls = Decls(d, s, n, m, ContextAbove(d, s, m, n))
  BY <1>4, <1>8
<1>11. ContextAt(d, s, m, n) = ChildNs(d, s, n, m, ContextAbove(d, s, m, n))
  BY <1>6, <1>8
<1> QED BY <1>1, <1>2, <1>4, <1>5, <1>7, <1>9, <1>10, <1>11

\* A prefix an element is answered for means in the text what it means in the document.
LEMMA NamesKept ==
    ASSUME NEW d, NEW s, NEW m, NEW c, NEW f, NEW n \in Tags(d, s), NEW p,
           DocumentOK(d), TreeOK(d), DeclsOK(d), ~has_ns_visible(s), DocumentOK(c), TreeOK(c),
           WrittenAs(d, s, m, c, f), n # 1, p \in Answered(d, n, m), p # Xml
    PROVE  Binding(c, f[n], p) = Binding(d, n, p)
<1> DEFINE up == d[n].p
           above == ContextAbove(d, s, m, n)
<1>1. n \in Nodes(d) /\ up \in Nodes(d)
  BY ElementWritten
<1>2. PlaceOf(d, s, f, n) = f[n]
  BY ElementWritten
<1>3. ContextAt(d, s, m, n) = ChildNs(d, s, n, m, above)
  BY ElementWritten
<1>4. InForce(ContextAt(d, s, m, n), p) = Binding(c, PlaceOf(d, s, f, n), p)
  BY <1>1, ContextWritten
<1>5. p \in DOMAIN above => Declaring(d, up, p) # {}
  BY <1>1, ContextDeclared DEF ContextAbove
<1> HIDE DEF above
<1>6. p \in DOMAIN above => Declaring(d, n, p) # {}
  BY <1>1, <1>5, BindingStep
<1>7. InForce(ChildNs(d, s, n, m, above), p) = Binding(d, n, p)
  BY <1>1, <1>6, ElementStep
<1> QED BY <1>2, <1>3, <1>4, <1>7

\* The xml prefix is never declared, and no other than the default one undeclared.
LEMMA DeclsSound ==
    ASSUME NEW d, NEW s, NEW n, NEW m, NEW ctx
    PROVE  LET ds == Decls(d, s, n, m, ctx)
           IN  Xml \notin DOMAIN ds /\ \A p \in DOMAIN ds : p # Default => ds[p] # NoUri
<1> DEFINE v == VisibleNs(d, s, n, m)
           ds == Decls(d, s, n, m, ctx)
<1>1. \A p \in DOMAIN v : v[p] = Binding(d, n, p) /\ (p # Default => p \in InScope(d, n))
  BY DEF VisibleNs
<1>2. \A p \in DOMAIN v : p # Default => v[p] # NoUri
  BY <1>1, InScopeBinding
<1>3. ds = ExclusiveDecls(Utilized(d, n, m), v, ctx) \/ ds = InclusiveDecls(s, v, ctx)
  BY DEF Decls
<1>4. Default # Xml
  BY DEF Default, Xml
<1> HIDE DEF v, ds
<1>5. ASSUME ds = ExclusiveDecls(Utilized(d, n, m), v, ctx)
      PROVE  Xml \notin DOMAIN ds /\ \A p \in DOMAIN ds : p # Default => ds[p] # NoUri
  BY <1>2, <1>4, <1>5 DEF ExclusiveDecls
<1>6. ASSUME ds = InclusiveDecls(s, v, ctx)
      PROVE  Xml \notin DOMAIN ds /\ \A p \in DOMAIN ds : p # Default => ds[p] # NoUri
  BY <1>2, <1>4, <1>6 DEF InclusiveDecls
<1> QED BY <1>3, <1>5, <1>6 DEF ds

\* The element a declaration of the text is written for.
LEMMA DeclaringElement ==
    ASSUME NEW d, NEW s, NEW m, NEW c, NEW f, NEW k \in Nodes(c), DOMAIN c[k].decls # {},
           DocumentOK(d), TreeOK(d), DocumentOK(c), TreeOK(c), WrittenAs(d, s, m, c, f)
    PROVE  \E n \in Tags(d, s) : n # 1 /\ f[n] = k
<1>1. IsElem(c, k)
  BY DEF WrittenAs
<1>2. PICK n \in Tags(d, s) : IsElem(d, n) /\ f[n] = k
  BY <1>1 DEF WrittenAs
<1>3. n # 1
  BY <1>2 DEF Tags, TreeOK, IsElem
<1> QED BY <1>2, <1>3

\* No declaration of the text repeats what the text above it says.
LEMMA NothingTwice ==
    ASSUME NEW d, NEW s, NEW m, NEW c, NEW f, NEW k \in Nodes(c), NEW p \in DOMAIN c[k].decls,
           DocumentOK(d), TreeOK(d), DeclsOK(d), ~has_ns_visible(s),
           DocumentOK(c), TreeOK(c), WrittenAs(d, s, m, c, f)
    PROVE  c[k].decls[p] # Binding(c, c[k].p, p)
<1>1. PICK n \in Tags(d, s) : n # 1 /\ f[n] = k
  BY DeclaringElement
<1> DEFINE up == d[n].p
           above == ContextAbove(d, s, m, n)
           ds == Decls(d, s, n, m, above)
<1>n. n # 1
  BY <1>1
<1>2. n \in Nodes(d) /\ up \in Nodes(d)
  BY <1>n, ElementWritten
<1>3. c[f[n]].decls = ds
  BY <1>n, ElementWritten, SMTT(60)
<1>4. c[f[n]].p = PlaceAbove(d, s, f, n)
  BY <1>n, ElementWritten
<1>5. Xml \notin DOMAIN ds
  BY DeclsSound
<1> HIDE DEF up, above, ds
<1>6. p # Xml /\ p \in DOMAIN ds
  BY <1>1, <1>3, <1>5
<1>a. above = ContextAt(d, s, m, up) /\ PlaceAbove(d, s, f, n) = PlaceOf(d, s, f, up)
  BY DEF above, up, ContextAbove, ContextAt, PlaceAbove, PlaceOf
<1>7. InForce(above, p) = Binding(c, PlaceOf(d, s, f, up), p)
  BY <1>2, <1>6, <1>a, ContextWritten
<1>8. ds[p] # InForce(above, p)
  BY <1>2, <1>6, ElementStep DEF ds
<1> QED BY <1>1, <1>3, <1>4, <1>7, <1>8, <1>a

\* The declarations of a canonical text are those a parser accepts.
LEMMA CanonicalDecls ==
    ASSUME NEW d, NEW s, NEW m, DocumentOK(d), TreeOK(d), DeclsOK(d)
    PROVE  DeclsOK(canonicalize(d, s, m))
<1> DEFINE c == canonicalize(d, s, m)
<1>1. DocumentOK(c) /\ TreeOK(c)
  BY CanonicalNarrows, CanonicalTree
<1>2. PICK f : WrittenAs(d, s, m, c, f)
  BY CanonicalTags
<1> HIDE DEF c
<1>3. ASSUME NEW k \in Nodes(c), ~IsElem(c, k) PROVE DOMAIN c[k].decls = {}
  BY <1>2, <1>3 DEF WrittenAs
<1>4. ASSUME NEW k \in Nodes(c), NEW p \in DOMAIN c[k].decls, p # Default PROVE c[k].decls[p] # NoUri
  <2>1. PICK n \in Tags(d, s) : n # 1 /\ f[n] = k
    BY <1>1, <1>2, DeclaringElement
  <2>2. c[f[n]].decls = Decls(d, s, n, m, ContextAbove(d, s, m, n))
    BY <1>1, <1>2, <2>1, ElementWritten, SMTT(30)
  <2> QED BY <1>4, <2>1, <2>2, DeclsSound
<1> QED BY <1>3, <1>4 DEF DeclsOK, c

\* A map that keeps the order of positions keeps their ranks.
LEMMA RankKept ==
    ASSUME NEW S \in SUBSET Nat, NEW T \in SUBSET Nat, NEW f, NEW n \in S,
           IsFiniteSet(S), IsFiniteSet(T),
           \A l \in S : f[l] \in T,
           \A k, l \in S : k < l => f[k] < f[l],
           \A k \in T : \E l \in S : f[l] = k
    PROVE  Rank(T, f[n]) = Rank(S, n)
<1> DEFINE D == {l \in S : l <= n}
           E == {k \in T : k <= f[n]}
           g == [l \in D |-> f[l]]
<1>0. \A l \in S : l \in Nat /\ f[l] \in Nat
  OBVIOUS
<1>1. \A l \in S : l <= n <=> f[l] <= f[n]
  <2> SUFFICES ASSUME NEW l \in S PROVE l <= n <=> f[l] <= f[n]
    OBVIOUS
  <2>1. l \in Nat /\ n \in Nat /\ f[l] \in Nat /\ f[n] \in Nat
    BY <1>0
  <2>2. (l < n => f[l] < f[n]) /\ (n < l => f[n] < f[l]) /\ (l = n => f[l] = f[n])
    OBVIOUS
  <2> QED BY <2>1, <2>2
<1>2. g \in [D -> E]
  BY <1>1
<1>3. \A k, l \in D : g[k] = g[l] => k = l
  <2> SUFFICES ASSUME NEW k \in D, NEW l \in D, f[k] = f[l] PROVE k = l
    OBVIOUS
  <2>1. k \in S /\ l \in S /\ k \in Nat /\ l \in Nat /\ f[k] \in Nat /\ f[l] \in Nat
    BY <1>0
  <2>2. ~(k < l) /\ ~(l < k)
    BY <2>1
  <2> QED BY <2>1, <2>2
<1>4. \A k \in E : \E l \in D : g[l] = k
  <2> SUFFICES ASSUME NEW k \in E PROVE \E l \in D : g[l] = k
    OBVIOUS
  <2>1. PICK l \in S : f[l] = k
    OBVIOUS
  <2>2. l \in D
    BY <1>1, <2>1
  <2> QED BY <2>1, <2>2
<1>5. D \in SUBSET S
  OBVIOUS
<1>6. Rank(S, n) = Cardinality(D) /\ Rank(T, f[n]) = Cardinality(E)
  BY DEF Rank
<1> HIDE DEF D, E, g
<1>7. DOMAIN g = D
  BY <1>2
<1>8. g \in Bijection(D, E)
  BY <1>2, <1>3, <1>4, <1>7 DEF Bijection, Injection, Surjection, IsInjective
<1>9. ExistsBijection(D, E)
  BY <1>8 DEF ExistsBijection
<1>10. IsFiniteSet(D)
  BY <1>5, FS_Subset
<1> QED BY <1>6, <1>9, <1>10, FS_Bijection

\* The elements of a text and of the node set that have the same rank belong together.
LEMMA PairsWritten ==
    ASSUME NEW d, NEW s, NEW m, NEW c, NEW f,
           DocumentOK(d), TreeOK(d), DocumentOK(c), TreeOK(c), WrittenAs(d, s, m, c, f)
    PROVE  LET new == {k \in Nodes(c) : IsElem(c, k)}
               old == {n \in Nodes(d) : IsElem(d, n) /\ is_visible(s, n)}
           IN  \A k \in new : \A n \in old : Rank(new, k) = Rank(old, n) =>
                  n \in Tags(d, s) /\ n # 1 /\ k = f[n]
<1> DEFINE new == {k \in Nodes(c) : IsElem(c, k)}
           old == {n \in Nodes(d) : IsElem(d, n) /\ is_visible(s, n)}
<1>1. new \in SUBSET Nat /\ IsFiniteSet(new)
  <2>1. IsFiniteSet(1 .. Len(c)) /\ Nodes(c) = 1 .. Len(c) /\ Nodes(c) \subseteq Nat
    BY FS_Interval DEF DocumentOK
  <2>2. new \in SUBSET (1 .. Len(c))
    BY <2>1
  <2> QED BY <2>1, <2>2, FS_Subset
<1>2. old \in SUBSET Nat /\ IsFiniteSet(old)
  <2>1. IsFiniteSet(1 .. Len(d)) /\ Nodes(d) = 1 .. Len(d) /\ Nodes(d) \subseteq Nat
    BY FS_Interval DEF DocumentOK
  <2>2. old \in SUBSET (1 .. Len(d))
    BY <2>1
  <2> QED BY <2>1, <2>2, FS_Subset
<1>3. \A n \in old : n \in Tags(d, s) /\ n # 1
  BY DEF Tags, TreeOK, IsElem
<1>4. \A n \in old : f[n] \in new
  BY <1>3 DEF WrittenAs, IsElem
<1>5. \A n, l \in old : n < l => f[n] < f[l]
  BY <1>3 DEF WrittenAs
<1>6. \A k \in new : \E n \in old : f[n] = k
  <2> SUFFICES ASSUME NEW k \in new PROVE \E n \in old : f[n] = k
    OBVIOUS
  <2>1. PICK n \in Tags(d, s) : IsElem(d, n) /\ f[n] = k
    BY DEF WrittenAs
  <2>2. n \in old
    BY <2>1 DEF Tags, IsElem
  <2> QED BY <2>1, <2>2
<1> HIDE DEF new, old
<1>7. ASSUME NEW k \in new, NEW n \in old, Rank(new, k) = Rank(old, n) PROVE k = f[n]
  <2>1. Rank(new, f[n]) = Rank(old, n)
    BY <1>1, <1>2, <1>4, <1>5, <1>6, RankKept
  <2>2. \A l \in new : InOrder(new)[Rank(new, l)] = l
    BY <1>1, InOrderRank
  <2>3. InOrder(new)[Rank(new, k)] = k /\ InOrder(new)[Rank(new, f[n])] = f[n]
    BY <1>4, <2>2
  <2> QED BY <1>7, <2>1, <2>3
<1> QED BY <1>3, <1>7 DEF new, old

\* An xml:* attribute is in effect where an element has it, and else as at its parent.
LEMMA EffectStep ==
    ASSUME NEW d, NEW n \in Nodes(d), NEW l, DocumentOK(d), TreeOK(d)
    PROVE  /\ XmlAttr(d, n, l) # {} => InEffect(d, n, l) = XmlAttr(d, n, l)
           /\ XmlAttr(d, n, l) = {} /\ n = 1 => InEffect(d, n, l) = {}
           /\ XmlAttr(d, n, l) = {} /\ n # 1 => InEffect(d, n, l) = InEffect(d, d[n].p, l)
<1> DEFINE P == {a \in Nodes(d) : XmlAttr(d, a, l) # {}}
           near(k) == AncestorsOrSelf(d, k) \intersect P
<1>1. Len(d) \in Nat /\ Nodes(d) = 1 .. Len(d)
  BY DEF DocumentOK
<1>2. \A k \in Nodes(d) : {a \in AncestorsOrSelf(d, k) : XmlAttr(d, a, l) # {}} = near(k)
  <2> TAKE k \in Nodes(d)
  <2>1. AncestorsOrSelf(d, k) \subseteq 1 .. k
    BY <1>1, AncestorsOK
  <2>2. AncestorsOrSelf(d, k) \subseteq Nodes(d)
    BY <1>1, <2>1
  <2> QED BY <2>2
<1>3. n \in P <=> XmlAttr(d, n, l) # {}
  OBVIOUS
<1> HIDE DEF P
<1>4. n # 1 => d[n].p \in Nodes(d)
  BY ParentOK
<1>5. /\ n \in P => near(n) # {} /\ Greatest(near(n)) = n
      /\ n \notin P /\ n = 1 => near(n) = {}
      /\ n \notin P /\ n # 1 => near(n) = near(d[n].p)
  BY NearestStep
<1> HIDE DEF near
<1>6. \A k \in Nodes(d) : InEffect(d, k, l) = IF near(k) = {} THEN {} ELSE XmlAttr(d, Greatest(near(k)), l)
  BY <1>2 DEF InEffect
<1> QED BY <1>3, <1>4, <1>5, <1>6

\* The attributes an element inherits are those in effect at its parent that it has not itself.
LEMMA InheritedEffect ==
    ASSUME NEW d, NEW n \in Nodes(d), NEW l, DocumentOK(d), TreeOK(d), n # 1
    PROVE  {a \in collect_inherited_xml_attrs(d, n) : a.prefix = Xml /\ a.local = l}
              = IF XmlAttr(d, n, l) = {} THEN InEffect(d, d[n].p, l) ELSE {}
<1> DEFINE above == AncestorsOrSelf(d, n) \ {n}
           locals == {a.local : a \in UNION {{b \in d[k].attrs : b.prefix = Xml} : k \in above}}
           has(x) == {k \in above : XmlAttr(d, k, x) # {}}
           from(x) == XmlAttr(d, Greatest(has(x)), x)
           out == {x \in locals : XmlAttr(d, n, x) = {}}
<1>1. collect_inherited_xml_attrs(d, n) = UNION {from(x) : x \in out}
  BY DEF collect_inherited_xml_attrs
<1>2. above = AncestorsOrSelf(d, d[n].p)
  <2>1. Len(d) \in Nat /\ Nodes(d) = 1 .. Len(d)
    BY DEF DocumentOK
  <2>2. d[n].p \in Nodes(d) /\ d[n].p < n /\ d[n].p # 0 /\ n \in Nat
    BY ParentOK
  <2>3. AncestorsOrSelf(d, n) = {n} \union AncestorsOrSelf(d, d[n].p)
    BY <2>1, <2>2, AncestorsStep
  <2>4. AncestorsOrSelf(d, d[n].p) \subseteq 1 .. d[n].p
    BY <2>1, <2>2, AncestorsOK
  <2>5. n \notin AncestorsOrSelf(d, d[n].p)
    BY <2>1, <2>2, <2>4
  <2> QED BY <2>3, <2>5
<1>3. l \in locals <=> has(l) # {}
  BY DEF XmlAttr
<1>4. \A x : \A a \in from(x) : a.prefix = Xml /\ a.local = x
  BY DEF XmlAttr
<1>5. InEffect(d, d[n].p, l) = IF has(l) = {} THEN {} ELSE from(l)
  <2> HIDE DEF above
  <2> QED BY <1>2 DEF InEffect
<1> HIDE DEF above, locals, has, from
<1>6. l \in out => {a \in UNION {from(x) : x \in out} : a.prefix = Xml /\ a.local = l} = from(l)
  BY <1>4
<1>7. l \notin out => {a \in UNION {from(x) : x \in out} : a.prefix = Xml /\ a.local = l} = {}
  BY <1>4
<1>8. l \in out <=> has(l) # {} /\ XmlAttr(d, n, l) = {}
  BY <1>3
<1> HIDE DEF out
<1> QED BY <1>1, <1>5, <1>6, <1>7, <1>8

\* The xml:* attributes, other than xml:base, an inclusive canonicalizer writes for an element.
LEMMA AttrsWritten ==
    ASSUME NEW d, NEW s, NEW m, NEW c, NEW n \in Nodes(d), NEW k, NEW l,
           DocumentOK(d), TreeOK(d), n # 1, ~m.exclusive, ~excludes_attrs(s), l # "base",
           c[k].attrs = Attrs(d, s, n, m)
    PROVE  /\ XmlAttr(d, n, l) # {} => XmlAttr(c, k, l) = XmlAttr(d, n, l)
           /\ XmlAttr(d, n, l) = {} => XmlAttr(c, k, l) = {} \/ XmlAttr(c, k, l) = InEffect(d, d[n].p, l)
           /\ XmlAttr(d, n, l) = {} /\ s # <<>> /\ ParentHidden(d, s, n) =>
                XmlAttr(c, k, l) = InEffect(d, d[n].p, l)
<1> DEFINE inh == collect_inherited_xml_attrs(d, n)
           all_xml == d[n].attrs \union inh
           base == compute_absolute_base_uri(d, n)
           rest == {a \in all_xml : ~(a.prefix = Xml /\ a.local = "base")}
           extra == [prefix |-> Xml, local |-> "base", value |-> base]
           pick(A) == {a \in A : a.prefix = Xml /\ a.local = l}
<1>1. c[k].attrs = IF s = <<>> \/ ~ParentHidden(d, s, n) THEN d[n].attrs
                   ELSE IF m.base /\ base # <<>> THEN rest \union {extra}
                   ELSE all_xml
  BY DEF Attrs, InclusiveAttrs
<1>2. XmlAttr(c, k, l) = pick(c[k].attrs) /\ XmlAttr(d, n, l) = pick(d[n].attrs)
  BY DEF XmlAttr
<1>3. pick(inh) = IF XmlAttr(d, n, l) = {} THEN InEffect(d, d[n].p, l) ELSE {}
  BY InheritedEffect
<1> HIDE DEF inh, base
<1>4. pick(all_xml) = pick(d[n].attrs) \union pick(inh)
  OBVIOUS
<1>5. pick(rest) = pick(all_xml)
  OBVIOUS
<1>6. extra.local # l
  OBVIOUS
<1> HIDE DEF extra, rest, all_xml
<1>7. pick(rest \union {extra}) = pick(rest)
  BY <1>6
<1> HIDE DEF pick
<1>8. s # <<>> /\ ParentHidden(d, s, n) => XmlAttr(c, k, l) = pick(d[n].attrs) \union pick(inh)
  BY <1>1, <1>2, <1>4, <1>5, <1>7
<1>9. ~(s # <<>> /\ ParentHidden(d, s, n)) => XmlAttr(c, k, l) = XmlAttr(d, n, l)
  BY <1>1, <1>2
<1>10. XmlAttr(d, n, l) # {} => XmlAttr(c, k, l) = XmlAttr(d, n, l)
  BY <1>2, <1>3, <1>8, <1>9
<1>11. XmlAttr(d, n, l) = {} /\ s # <<>> /\ ParentHidden(d, s, n) => XmlAttr(c, k, l) = InEffect(d, d[n].p, l)
  BY <1>2, <1>3, <1>8
<1> QED BY <1>9, <1>10, <1>11

\* Where the parent of a tag is written.
LEMMA PlaceWritten ==
    ASSUME NEW d, NEW s, NEW m, NEW c, NEW f, NEW n \in Tags(d, s),
           DocumentOK(d), TreeOK(d), DocumentOK(c), TreeOK(c), WrittenAs(d, s, m, c, f), n # 1
    PROVE  c[f[n]].p = PlaceAbove(d, s, f, n)
BY ElementWritten

\* The attribute in effect is the same in the text: at the tags, and where there is none.
LEMMA EffectWritten ==
    ASSUME NEW d, NEW s, NEW m, NEW c, NEW f, NEW n \in Nodes(d), NEW l,
           DocumentOK(d), TreeOK(d), DocumentOK(c), TreeOK(c), WrittenAs(d, s, m, c, f),
           ~m.exclusive, ~excludes_attrs(s), l # "base"
    PROVE  n \in Tags(d, s) => InEffect(c, f[n], l) = InEffect(d, n, l)
<1> DEFINE E(k) == InEffect(d, k, l)
           W(k) == InEffect(c, PlaceOf(d, s, f, k), l)
           Good(k) == (k \in Tags(d, s) => W(k) = E(k)) /\ (E(k) = {} => W(k) = {})
           Bad == {k \in Nodes(d) : ~Good(k)}
<1>1. ASSUME Bad # {} PROVE FALSE
  <2>0. Bad \in SUBSET Nat
    BY DEF DocumentOK
  <2> HIDE DEF Good
  <2>1. PICK k \in Bad : \A j \in Bad : k <= j
    BY <1>1, <2>0, LeastExists
  <2>2. k \in Nodes(d) /\ ~Good(k)
    BY <2>1
  <2> DEFINE up == d[k].p
  <2>3. k # 1 => up \in Nodes(d) /\ up < k /\ k \in Nat /\ up \in Nat
    BY <2>2, ParentOK DEF DocumentOK
  <2>4. k # 1 => Good(up)
    BY <2>1, <2>3
  <2> HIDE DEF Bad
  <2>5. /\ k \in Tags(d, s) => TagAbove(d, s, k) = k
        /\ k \notin Tags(d, s) => k # 1 /\ TagAbove(d, s, k) = TagAbove(d, s, up)
    BY <2>2, TagStep
  <2>6. /\ XmlAttr(d, k, l) # {} => E(k) = XmlAttr(d, k, l)
        /\ XmlAttr(d, k, l) = {} /\ k = 1 => E(k) = {}
        /\ XmlAttr(d, k, l) = {} /\ k # 1 => E(k) = E(up)
    BY <2>2, EffectStep
  <2>7. CASE k \notin Tags(d, s)
    <3>1. k # 1 /\ W(k) = W(up)
      BY <2>5, <2>7 DEF PlaceOf
    <3>2. E(k) = {} => E(up) = {}
      BY <2>6, <3>1
    <3> HIDE DEF W, E, up
    <3> QED BY <2>2, <2>4, <2>7, <3>1, <3>2 DEF Good
  <2>8. CASE k \in Tags(d, s)
    <3>1. f[k] \in Nodes(c) /\ W(k) = InEffect(c, f[k], l)
      BY <2>5, <2>8 DEF PlaceOf, WrittenAs
    <3>2. /\ XmlAttr(c, f[k], l) # {} => W(k) = XmlAttr(c, f[k], l)
          /\ XmlAttr(c, f[k], l) = {} /\ f[k] = 1 => W(k) = {}
          /\ XmlAttr(c, f[k], l) = {} /\ f[k] # 1 => W(k) = InEffect(c, c[f[k]].p, l)
      BY <3>1, EffectStep
    <3>3. CASE k = 1
      <4>1. f[k] = 1 /\ c[f[k]].attrs = d[k].attrs
        BY <2>8, <3>3 DEF WrittenAs
      <4>2. XmlAttr(c, f[k], l) = XmlAttr(d, k, l)
        BY <4>1 DEF XmlAttr
      <4> HIDE DEF W, E
      <4> QED BY <2>2, <2>6, <2>8, <3>2, <3>3, <4>1, <4>2 DEF Good
    <3>4. CASE k # 1
      <4>1. f[k] # 1
        BY <2>8, <3>4, ElementWritten
      <4>2. c[f[k]].p = PlaceAbove(d, s, f, k)
        BY <2>8, <3>4, PlaceWritten
      <4>3. c[f[k]].attrs = Attrs(d, s, k, m)
        BY <2>8, <3>4, ElementWritten
      <4>4. InEffect(c, c[f[k]].p, l) = W(up)
        BY <4>2 DEF PlaceAbove, PlaceOf
      <4>5. XmlAttr(d, k, l) # {} => XmlAttr(c, f[k], l) = XmlAttr(d, k, l)
        BY <2>2, <3>4, <4>3, AttrsWritten
      <4>6. XmlAttr(d, k, l) = {} => XmlAttr(c, f[k], l) = {} \/ XmlAttr(c, f[k], l) = E(up)
        BY <2>2, <3>4, <4>3, AttrsWritten
      <4>7. XmlAttr(d, k, l) = {} /\ s # <<>> /\ ParentHidden(d, s, k) => XmlAttr(c, f[k], l) = E(up)
        BY <2>2, <3>4, <4>3, AttrsWritten
      <4>8. ~(s # <<>> /\ ParentHidden(d, s, k)) => up \in Tags(d, s)
        <5>1. up \in Nodes(d) /\ d[up].k \in {"doc", "elem"}
          BY <2>2, <3>4, ParentOK
        <5> QED BY <5>1 DEF Tags, ParentHidden, is_visible, IsElem
      <4> HIDE DEF W, E, up
      <4> QED BY <2>2, <2>4, <2>6, <2>8, <3>2, <3>4, <4>1, <4>4, <4>5, <4>6, <4>7, <4>8 DEF Good
    <3> QED BY <3>3, <3>4
  <2> QED BY <2>7, <2>8
<1>2. ASSUME n \in Tags(d, s) PROVE PlaceOf(d, s, f, n) = f[n]
  BY <1>2, TagStep DEF PlaceOf
<1>3. Good(n)
  BY <1>1
<1> QED BY <1>2, <1>3

-----------------------------------------------------------------------------
(* The relationship transform.                                             *)

\* FlattenSeq joins sequences over T to a sequence over T.
LEMMA FlattenSeqType ==
    ASSUME NEW T, NEW ss \in Seq(Seq(T))
    PROVE  FlattenSeq(ss) \in Seq(T)
<1>1. CASE Len(ss) = 0
  BY <1>1 DEF FlattenSeq
<1>2. CASE Len(ss) # 0
  <2> DEFINE n == Len(ss)
             a == CHOOSE b : Joining(ss, n, b)
  <2>1. n \in Nat /\ n # 0
    BY <1>2
  <2>2. Joining(ss, n, a)
    BY <2>1, JoiningExists
  <2>3. FlattenSeq(ss) = a[n]
    BY <1>2 DEF FlattenSeq, Joining
  <2> HIDE DEF a
  <2>4. \A i \in 1 .. n : a[i] = IF i = 1 THEN ss[i] ELSE a[i - 1] \o ss[i]
    BY <2>2 DEF Joining
  <2> DEFINE Bad == {i \in 1 .. n : a[i] \notin Seq(T)}
  <2>5. ASSUME Bad # {} PROVE FALSE
    <3>0. Bad \in SUBSET Nat
      BY <2>1
    <3>1. PICK i \in Bad : \A j \in Bad : i <= j
      BY <2>5, <3>0, LeastExists
    <3>2. ss[i] \in Seq(T)
      OBVIOUS
    <3>3. i = 1 \/ (i - 1 \in 1 .. n /\ i - 1 \notin Bad)
      BY <2>1, <3>1
    <3>4. a[i] \in Seq(T)
      <4> HIDE DEF n
      <4>1. CASE i = 1
        BY <2>4, <3>2, <4>1
      <4>2. CASE i # 1
        <5>1. a[i - 1] \in Seq(T)
          BY <3>3, <4>2
        <5>2. a[i] = a[i - 1] \o ss[i]
          BY <2>4, <4>2
        <5> QED BY <3>2, <5>1, <5>2
      <4> QED BY <4>1, <4>2
    <3> QED BY <3>4
  <2> QED BY <2>1, <2>3, <2>5
<1> QED BY <1>1, <1>2

\* A document parsed from events has the content of the events, and no comments.
LEMMA ParseNarrows ==
    ASSUME NEW T, NEW es \in Seq(T),
           \A e \in T : /\ e.ev \in {"start", "end", "text"}
                        /\ e.ev = "start" => \A p \in DOMAIN e.decls : p # Default => e.decls[p] # NoUri
    PROVE  LET u == ParseEvents(es)
           IN  /\ DocumentOK(u) /\ TreeOK(u) /\ DeclsOK(u)
               /\ (es # <<>> /\ es[1].ev = "start") => Rooted(u)
               /\ \A k \in Nodes(u) : \A x \in u[k].orig :
                     \E i \in DOMAIN es : es[i].ev # "end" /\ x \in es[i].orig
<1> DEFINE S == {i \in DOMAIN es : es[i].ev # "end"}
           at == InOrder(S)
           above(i) == {h \in DOMAIN at : at[h] < i /\ es[at[h]].ev = "start" /\ Level(es, at[h]) = Level(es, i) - 1}
           parent(i) == IF above(i) = {} THEN 1 ELSE Greatest(above(i)) + 1
           txt(i) == [DocNode EXCEPT !.k = "text", !.p = parent(i), !.orig = es[i].orig]
           elm(i) == [DocNode EXCEPT !.k = "elem", !.p = parent(i), !.local = es[i].local,
                                     !.decls = es[i].decls, !.attrs = es[i].attrs, !.orig = es[i].orig]
           node(i) == IF es[i].ev = "text" THEN txt(i) ELSE elm(i)
           body == [h \in DOMAIN at |-> node(at[h])]
           r == <<DocNode>> \o body
           u == ParseEvents(es)
<1>1. u = BindNames(JoinText(r))
  BY DEF ParseEvents
<1>2. S \in SUBSET Nat /\ IsFiniteSet(S)
  <2>1. IsFiniteSet(1 .. Len(es))
    BY FS_Interval
  <2> QED BY <2>1, FS_Subset
<1> HIDE DEF u, at, parent
<1>3. /\ Cardinality(S) \in Nat /\ DOMAIN at = 1 .. Cardinality(S)
      /\ \A h \in DOMAIN at : at[h] \in S
      /\ \A i, j \in DOMAIN at : at[i] < at[j] => i < j
  BY <1>2, InOrderRank DEF at
<1>p. 1 \in S => 1 \in DOMAIN at /\ at[1] = 1
  <2>1. S \in SUBSET (Nat \ {0})
    OBVIOUS
  <2> QED BY <1>2, <2>1, InOrderFirst DEF at
<1> DEFINE Fields == {"k", "p", "ns", "prefix", "local", "decls", "attrs", "orig"}
<1>4. DOMAIN DocNode = Fields /\ DocNode.k = "doc" /\ DocNode.orig = {} /\ DocNode.p = 0 /\ DocNode.decls = NoNs
  BY DEF DocNode
<1>5. \A i : /\ DOMAIN node(i) = Fields /\ node(i).k \in {"elem", "text"} /\ node(i).orig = es[i].orig
             /\ node(i).p = parent(i) /\ (es[i].ev = "start" => node(i).k = "elem")
             /\ node(i).k = "text" => node(i).decls = NoNs
             /\ node(i).k = "elem" => es[i].ev # "text" /\ node(i).decls = es[i].decls
  <2> TAKE i
  <2>1. /\ DOMAIN txt(i) = Fields /\ txt(i).k = "text" /\ txt(i).orig = es[i].orig /\ txt(i).p = parent(i)
        /\ txt(i).decls = NoNs
    BY <1>4
  <2>2. /\ DOMAIN elm(i) = Fields /\ elm(i).k = "elem" /\ elm(i).orig = es[i].orig /\ elm(i).p = parent(i)
        /\ elm(i).decls = es[i].decls
    BY <1>4
  <2> HIDE DEF txt, elm
  <2> QED BY <2>1, <2>2
<1> HIDE DEF node, S
<1> DEFINE N == Cardinality(S)
           B == {node(at[h]) : h \in 1 .. N} \union {DocNode}
<1>6. body \in Seq(B) /\ Len(body) = N /\ \A h \in 1 .. N : body[h] = node(at[h])
  <2>1. body \in [1 .. N -> B]
    BY <1>3
  <2>2. body \in Seq(B)
    BY <1>3, <2>1
  <2> QED BY <1>3, <2>1, <2>2
<1>7. DocNode \in B
  OBVIOUS
<1> HIDE DEF body, B, N
<1>8. /\ Len(r) = N + 1 /\ DOMAIN r = 1 .. N + 1 /\ N \in Nat
      /\ r[1] = DocNode /\ \A k \in 2 .. N + 1 : k - 1 \in 1 .. N /\ r[k] = node(at[k - 1])
  <2>1. N \in Nat
    BY <1>3 DEF N
  <2>2. <<DocNode>> \in Seq(B) /\ Len(<<DocNode>>) = 1
    BY <1>7
  <2>3. Len(r) = N + 1 /\ DOMAIN r = 1 .. N + 1 /\ r[1] = DocNode
    BY <1>6, <2>1, <2>2
  <2>4. \A k \in 2 .. N + 1 : k - 1 \in 1 .. N /\ r[k] = body[k - 1]
    BY <1>6, <2>1, <2>2
  <2> QED BY <1>6, <2>1, <2>3, <2>4
<1> HIDE DEF r
<1>9. DocumentOK(r)
  <2>1. ASSUME NEW k \in Nodes(r)
        PROVE  /\ DOMAIN r[k] = Fields /\ r[k].k \in {"doc", "elem", "text", "comment"}
               /\ r[k].k = "doc" => r[k].orig = {}
    <3>1. k = 1 \/ k \in 2 .. N + 1
      BY <1>8 DEF Nodes
    <3> QED BY <1>4, <1>5, <1>8, <3>1
  <2> QED BY <1>8, <2>1 DEF DocumentOK, Nodes
<1>10. ASSUME NEW k \in Nodes(r), NEW x \in r[k].orig
       PROVE  \E i \in DOMAIN es : es[i].ev # "end" /\ x \in es[i].orig
  <2>1. k \in 2 .. N + 1
    BY <1>4, <1>8 DEF Nodes
  <2>2. x \in es[at[k - 1]].orig /\ at[k - 1] \in S
    BY <1>3, <1>5, <1>8, <2>1 DEF N
  <2> QED BY <2>2 DEF S
<1>t. TreeOK(r)
  <2> SUFFICES ASSUME NEW k \in 2 .. N + 1
               PROVE  r[k].p \in 1 .. (k - 1) /\ r[r[k].p].k \in {"doc", "elem"}
    BY <1>4, <1>5, <1>8 DEF TreeOK, Nodes
  <2> DEFINE i == at[k - 1]
             g == Greatest(above(i))
  <2>1. k - 1 \in DOMAIN at /\ r[k].p = parent(i)
    BY <1>3, <1>5, <1>8 DEF N
  <2> HIDE DEF i
  <2>2. CASE above(i) = {}
    BY <1>4, <1>8, <2>1, <2>2 DEF parent
  <2>3. CASE above(i) # {}
    <3>1. above(i) \in SUBSET (1 .. N)
      BY <1>3 DEF N
    <3>2. g \in above(i)
      BY <1>8, <2>3, <3>1, GreatestIn
    <3> HIDE DEF g
    <3>3. g \in 1 .. N /\ at[g] < i /\ es[at[g]].ev = "start"
      BY <3>1, <3>2
    <3>4. g < k - 1
      BY <1>3, <2>1, <3>3 DEF i, N
    <3>5. r[k].p = g + 1
      BY <2>1, <2>3 DEF parent, g
    <3>6. g + 1 \in 2 .. N + 1 /\ g + 1 - 1 = g
      BY <1>8, <3>3
    <3>7. r[g + 1].k = "elem"
      BY <1>5, <1>8, <3>3, <3>6
    <3> QED BY <1>8, <3>3, <3>4, <3>5, <3>7
  <2> QED BY <2>2, <2>3
<1>r. ASSUME es # <<>>, es[1].ev = "start" PROVE Rooted(r)
  <2>1. 1 \in S
    BY <1>r DEF S
  <2>2. 1 \in DOMAIN at /\ at[1] = 1 /\ 2 \in 2 .. N + 1
    BY <1>3, <1>8, <1>p, <2>1 DEF N
  <2>3. above(1) = {}
    <3>1. \A h \in DOMAIN at : at[h] \in Nat /\ at[h] # 0
      BY <1>3 DEF S
    <3> QED BY <3>1
  <2>4. r[2] = node(1) /\ r[2].k = "elem" /\ r[2].p = 1
    <3>1. 2 - 1 = 1 /\ r[2] = node(at[2 - 1])
      BY <1>8, <2>2
    <3>2. r[2] = node(1)
      BY <2>2, <3>1
    <3>3. parent(1) = 1
      BY <2>3 DEF parent
    <3> QED BY <1>5, <1>r, <3>2, <3>3
  <2> QED BY <1>8, <2>2, <2>4 DEF Rooted, IsElem, Nodes
<1>d. DeclsOK(r)
  <2> SUFFICES ASSUME NEW k \in Nodes(r)
               PROVE  /\ ~IsElem(r, k) => DOMAIN r[k].decls = {}
                      /\ \A p \in DOMAIN r[k].decls : p # Default => r[k].decls[p] # NoUri
    BY DEF DeclsOK
  <2>1. CASE k = 1
    BY <1>4, <1>8, <2>1 DEF NoNs
  <2>2. CASE k # 1
    <3> DEFINE i == at[k - 1]
    <3>1. k \in 2 .. N + 1
      BY <1>8, <2>2 DEF Nodes
    <3>2. r[k] = node(i) /\ i \in S
      BY <1>3, <1>8, <3>1 DEF N
    <3> HIDE DEF i
    <3>3. es[i] \in T /\ es[i].ev \in {"start", "text"}
      BY <3>2 DEF S
    <3>4. CASE r[k].k = "text"
      BY <1>5, <3>2, <3>4 DEF NoNs
    <3>5. CASE r[k].k = "elem"
      BY <1>5, <3>2, <3>3, <3>5 DEF IsElem
    <3> QED BY <1>5, <3>2, <3>4, <3>5
  <2> QED BY <2>1, <2>2
<1>11. /\ DocumentOK(JoinText(r)) /\ From(r, JoinText(r)) /\ TreeOK(JoinText(r)) /\ DeclsOK(JoinText(r))
       /\ Rooted(r) => Rooted(JoinText(r))
  BY <1>9, <1>t, <1>d, JoinKeeps, JoinTree, ParseDecls
<1>12. DocumentOK(u) /\ From(JoinText(r), u) /\ TreeOK(u) /\ DeclsOK(u) /\ (Rooted(r) => Rooted(u))
  BY <1>1, <1>11, BindKeeps, BindTree, ParseDecls
<1>13. ASSUME NEW k \in Nodes(u), NEW x \in u[k].orig
       PROVE  \E i \in DOMAIN es : es[i].ev # "end" /\ x \in es[i].orig
  <2>1. \E j \in Nodes(r) : x \in r[j].orig
    BY <1>11, <1>12 DEF From
  <2> QED BY <1>10, <2>1
<1> QED BY <1>r, <1>12, <1>13 DEF u

\* The order of the relationships is a strict order.
LEMMA BeforeOrders ==
    ASSUME NEW d, NEW t, NEW S \in SUBSET Nat,
           DOMAIN t.order \subseteq Nat,
           \A i, j \in DOMAIN t.order : t.order[i] = t.order[j] => i = j
    PROVE  /\ \A n \in S : ~Before(d, t, n, n)
           /\ \A l, n, m \in S : Before(d, t, l, n) /\ Before(d, t, n, m) => Before(d, t, l, m)
           /\ \A n, m \in S : n # m => Before(d, t, n, m) \/ Before(d, t, m, n)
<1> DEFINE place(k) == {i \in DOMAIN t.order : t.order[i] = RelAttr(d, k, "Id")}
           f(k) == IF place(k) = {} THEN -1 ELSE CHOOSE i \in place(k) : TRUE
<1>1. \A k : place(k) \subseteq Nat /\ \A i, j \in place(k) : i = j
  OBVIOUS
<1>2. \A n, m : Before(d, t, n, m) <=> \/ \E i \in place(n), j \in place(m) : i < j
                                       \/ place(n) = {} /\ place(m) # {}
                                       \/ place(n) = place(m) /\ n < m
  BY DEF Before
<1> HIDE DEF place
<1>3. \A k : f(k) \in Int /\ (place(k) = {} => f(k) = -1) /\ (place(k) # {} => f(k) \in Nat /\ place(k) = {f(k)})
  <2> TAKE k
  <2>1. CASE place(k) = {}
    BY <2>1
  <2>2. CASE place(k) # {}
    BY <1>1, <2>2
  <2> QED BY <2>1, <2>2
<1> HIDE DEF f
<1>4. ASSUME NEW n \in S, NEW m \in S
      PROVE  Before(d, t, n, m) <=> f(n) < f(m) \/ (f(n) = f(m) /\ n < m)
  <2>a. CASE place(n) = {} /\ place(m) = {}
    <3>1. f(n) = -1 /\ f(m) = -1
      BY <1>3, <2>a
    <3> QED BY <1>2, <2>a, <3>1
  <2>b. CASE place(n) = {} /\ place(m) # {}
    <3>1. f(n) = -1 /\ f(m) \in Nat
      BY <1>3, <2>b
    <3>2. f(n) < f(m) /\ Before(d, t, n, m)
      BY <1>2, <2>b, <3>1
    <3> QED BY <3>2
  <2>c. CASE place(n) # {} /\ place(m) = {}
    <3>1. f(m) = -1 /\ f(n) \in Nat
      BY <1>3, <2>c
    <3>2. ~(f(n) < f(m)) /\ f(n) # f(m)
      BY <3>1
    <3>3. ~Before(d, t, n, m)
      BY <1>2, <2>c
    <3> QED BY <3>2, <3>3
  <2>2. CASE place(n) # {} /\ place(m) # {}
    <3>1. place(n) = {f(n)} /\ place(m) = {f(m)} /\ f(n) \in Nat /\ f(m) \in Nat
      BY <1>3, <2>2
    <3>2. (\E i \in place(n), j \in place(m) : i < j) <=> f(n) < f(m)
      BY <3>1
    <3>3. place(n) = place(m) <=> f(n) = f(m)
      BY <3>1
    <3> QED BY <1>2, <2>2, <3>2, <3>3
  <2> QED BY <2>a, <2>b, <2>c, <2>2
<1>5. \A n \in S : n \in Int /\ f(n) \in Int
  BY <1>3
<1>6. \A n \in S : ~Before(d, t, n, n)
  BY <1>4, <1>5
<1>7. \A n, m \in S : n # m => Before(d, t, n, m) \/ Before(d, t, m, n)
  BY <1>4, <1>5
<1>8. ASSUME NEW l \in S, NEW n \in S, NEW m \in S, Before(d, t, l, n), Before(d, t, n, m)
      PROVE  Before(d, t, l, m)
  <2>1. f(l) < f(n) \/ (f(l) = f(n) /\ l < n)
    BY <1>4, <1>8
  <2>2. f(n) < f(m) \/ (f(n) = f(m) /\ n < m)
    BY <1>4, <1>8
  <2>3. f(l) < f(m) \/ (f(l) = f(m) /\ l < m)
    BY <1>5, <2>1, <2>2
  <2> QED BY <1>4, <2>3
<1> QED BY <1>6, <1>7, <1>8

\* SortedRels lists the selected relationships.
LEMMA SortedRelsElements ==
    ASSUME NEW d, DocumentOK(d), NEW t,
           DOMAIN t.order \subseteq Nat,
           \A i, j \in DOMAIN t.order : t.order[i] = t.order[j] => i = j
    PROVE  /\ \E n \in Nat : DOMAIN SortedRels(d, t) = 1 .. n
           /\ \A i \in DOMAIN SortedRels(d, t) : SortedRels(d, t)[i] \in SelectedRels(d, t)
<1> DEFINE S == SelectedRels(d, t)
           R == {q \in S \X S : Before(d, t, q[1], q[2])}
<1>1. S \in SUBSET Nat /\ IsFiniteSet(S)
  <2>1. IsFiniteSet(1 .. Len(d))
    BY FS_Interval DEF DocumentOK
  <2> QED BY <2>1, FS_Subset DEF SelectedRels, DocumentOK
<1>2. Cardinality(S) \in Nat
  BY <1>1, FS_CardinalityType
<1> HIDE DEF S
<1>3. \A n, m \in S : <<n, m>> \in R <=> Before(d, t, n, m)
  OBVIOUS
<1> HIDE DEF R
<1>4. /\ \A n \in S : <<n, n>> \notin R
      /\ \A l, n, m \in S : <<l, n>> \in R /\ <<n, m>> \in R => <<l, m>> \in R
      /\ \A n, m \in S : n # m => <<n, m>> \in R \/ <<m, n>> \in R
  BY <1>1, <1>3, BeforeOrders
<1>5. \A i \in 1 .. Cardinality(S) : \E n \in S : Cardinality(UpTo(S, R, n)) = i
  BY <1>1, <1>4, RankOnto
<1>6. ASSUME NEW n \in S PROVE UpTo(S, R, n) = {m \in S : m = n \/ Before(d, t, m, n)}
  BY <1>3 DEF UpTo
<1>7. \A i \in 1 .. Cardinality(S) : \E n \in S : Cardinality({m \in S : m = n \/ Before(d, t, m, n)}) = i
  BY <1>5, <1>6
<1>8. SortedRels(d, t) = [i \in 1 .. Cardinality(S) |->
            CHOOSE n \in S : Cardinality({m \in S : m = n \/ Before(d, t, m, n)}) = i]
  BY DEF SortedRels, S
<1>9. DOMAIN SortedRels(d, t) = 1 .. Cardinality(S)
  BY <1>8
<1>10. \A i \in 1 .. Cardinality(S) : SortedRels(d, t)[i] \in S
  BY <1>7, <1>8
<1> QED BY <1>2, <1>9, <1>10 DEF S

\* The relationship transform writes a document of relationships, elements of its input.
LEMMA RelationshipNarrows ==
    ASSUME NEW d, DocumentOK(d), NEW t,
           DOMAIN t.order \subseteq Nat,
           \A i, j \in DOMAIN t.order : t.order[i] = t.order[j] => i = j
    PROVE  LET u == apply_relationship_transform(d, t)
           IN  /\ DocumentOK(u) /\ TreeOK(u) /\ DeclsOK(u) /\ Rooted(u)
               /\ \A k \in Nodes(u) : \A x \in u[k].orig : \E n \in Nodes(d) : IsElem(d, n) /\ x \in d[n].orig
<1> DEFINE rels == SortedRels(d, t)
           first == StartTag("Relationships", [p \in {Default} |-> REL], {}, {})
           rel(i) == StartTag("Relationship", NoNs, RelAttrs(d, rels[i]), d[rels[i]].orig)
           parts == [i \in DOMAIN rels |-> <<rel(i), EndTag>>]
           es == <<first>> \o FlattenSeq(parts) \o <<EndTag>>
           T == {first, EndTag} \union {rel(i) : i \in DOMAIN rels}
           u == apply_relationship_transform(d, t)
<1>1. u = ParseEvents(es)
  BY DEF apply_relationship_transform
<1>2. \E n \in Nat : DOMAIN rels = 1 .. n
  BY SortedRelsElements
<1>3. \A i \in DOMAIN rels : rels[i] \in Nodes(d) /\ IsElem(d, rels[i])
  BY SortedRelsElements DEF SelectedRels
<1>4. first.ev = "start" /\ first.orig = {} /\ EndTag.ev = "end" /\ DOMAIN first.decls = {Default}
  BY DEF StartTag, EndTag
<1>5. \A i : rel(i).ev = "start" /\ rel(i).orig = d[rels[i]].orig /\ DOMAIN rel(i).decls = {}
  BY DEF StartTag, NoNs
<1> HIDE DEF rels, first, rel, u
<1>6. parts \in Seq(Seq(T))
  <2>1. \A i \in DOMAIN rels : <<rel(i), EndTag>> \in Seq(T)
    OBVIOUS
  <2>2. parts \in [DOMAIN rels -> Seq(T)]
    BY <2>1
  <2> HIDE DEF T, parts
  <2> QED BY <1>2, <2>2
<1> HIDE DEF parts
<1>7. FlattenSeq(parts) \in Seq(T)
  BY <1>6, FlattenSeqType
<1>8. first \in T /\ EndTag \in T
  OBVIOUS
<1>9. \A e \in T : /\ e.ev \in {"start", "end", "text"}
                   /\ e.ev = "start" => \A p \in DOMAIN e.decls : p # Default => e.decls[p] # NoUri
  BY <1>4, <1>5
<1>10. \A e \in T : e.ev # "end" => \A x \in e.orig : \E n \in Nodes(d) : IsElem(d, n) /\ x \in d[n].orig
  <2> SUFFICES ASSUME NEW e \in T, e.ev # "end", NEW x \in e.orig
               PROVE  \E n \in Nodes(d) : IsElem(d, n) /\ x \in d[n].orig
    OBVIOUS
  <2>1. PICK i \in DOMAIN rels : e = rel(i)
    BY <1>4
  <2> QED BY <1>3, <1>5, <2>1
<1> HIDE DEF T
<1>11. es \in Seq(T)
  BY <1>7, <1>8
<1>s. es # <<>> /\ es[1].ev = "start"
  <2>1. <<first>> \in Seq(T) /\ FlattenSeq(parts) \o <<EndTag>> \in Seq(T)
    BY <1>7, <1>8
  <2>2. es = <<first>> \o (FlattenSeq(parts) \o <<EndTag>>)
    BY <1>7, <1>8
  <2> DEFINE rest == FlattenSeq(parts) \o <<EndTag>>
  <2> HIDE DEF rest, es
  <2>3. es = <<first>> \o rest /\ rest \in Seq(T) /\ <<first>> \in Seq(T)
    BY <2>1, <2>2 DEF rest
  <2>4. es[1] = first /\ Len(es) # 0
    BY <2>3
  <2>5. Len(<<>>) = 0
    OBVIOUS
  <2> QED BY <1>4, <2>4, <2>5
<1> HIDE DEF es
<1>12. /\ DocumentOK(u) /\ TreeOK(u) /\ DeclsOK(u) /\ Rooted(u)
       /\ \A k \in Nodes(u) : \A x \in u[k].orig : \E i \in DOMAIN es : es[i].ev # "end" /\ x \in es[i].orig
  BY <1>1, <1>9, <1>11, <1>s, ParseNarrows
<1>13. \A i \in DOMAIN es : es[i] \in T
  BY <1>11
<1>14. \A k \in Nodes(u) : \A x \in u[k].orig : \E n \in Nodes(d) : IsElem(d, n) /\ x \in d[n].orig
  BY <1>10, <1>12, <1>13
<1> QED BY <1>12, <1>14 DEF u

-----------------------------------------------------------------------------
(* Stylesheets.                                                            *)

\* What a stylesheet s can write for a document d: tags and text of its elements and text
\* nodes, and tags of its own.
Events(d, s) ==
    {EndTag, TextOf({})}
      \union {TextOf(d[n].orig) : n \in {k \in Nodes(d) : d[k].k = "text"}}
      \union {CopyTag(d, n) : n \in {k \in Nodes(d) : IsElem(d, k)}}
      \union {LiteralTag(s, s.code[i]) : i \in DOMAIN s.code}

\* They are events, and what they are made of is no comment.
LEMMA EventsOK ==
    ASSUME NEW d, NEW s, NEW e \in Events(d, s), DeclsOK(d)
    PROVE  /\ e.ev \in {"start", "end", "text"}
           /\ e.ev = "start" => \A p \in DOMAIN e.decls : p # Default => e.decls[p] # NoUri
           /\ e.ev # "end" => \A x \in e.orig : \E n \in Nodes(d) : d[n].k # "comment" /\ x \in d[n].orig
<1>1. CASE e \in {EndTag, TextOf({})}
  BY <1>1 DEF EndTag, TextOf
<1>2. CASE \E n \in Nodes(d) : d[n].k = "text" /\ e = TextOf(d[n].orig)
  BY <1>2 DEF TextOf
<1>3. CASE \E n \in Nodes(d) : IsElem(d, n) /\ e = CopyTag(d, n)
  <2>1. PICK n \in Nodes(d) : d[n].k = "elem" /\ e = CopyTag(d, n)
    BY <1>3 DEF IsElem
  <2>2. e.ev = "start" /\ e.orig = d[n].orig /\ e.decls = d[n].decls
    BY <2>1 DEF CopyTag, StartTag
  <2> QED BY <2>1, <2>2 DEF DeclsOK
<1>4. CASE \E i \in DOMAIN s.code : e = LiteralTag(s, s.code[i])
  <2>1. e.ev = "start" /\ e.orig = {} /\ DOMAIN e.decls \subseteq {Default}
    BY <1>4 DEF LiteralTag, StartTag, NoNs
  <2> QED BY <2>1
<1> QED BY <1>1, <1>2, <1>3, <1>4 DEF Events

\* One line of xslt_execute: what instruction i writes at node n.
Line(d, s, out, n, i) ==
    IF i = 0 THEN xslt_apply_templates_to_node(d, s, out, n)
    ELSE xslt_execute_body(d, s, out, n, s.code[i])

\* The lines it needs: later instructions at the same node, template matching at later nodes.
Uses(d, s, n, i) == {<<n, j>> : j \in (i + 1) .. Len(s.code)}
                      \union {<<m, 0>> : m \in {k \in Nodes(d) : n < k}}

\* The lines of children and of bodies are among them.
LEMMA UsesBody ==
    ASSUME NEW d, NEW s, SheetOK(s), NEW n \in Nodes(d), NEW i \in 0 .. Len(s.code)
    PROVE  /\ i = 0 /\ find_matching_template(d, n, s) # 0 =>
                LET b == s.templates[find_matching_template(d, n, s)].body
                IN  b \in Seq(1 .. Len(s.code)) /\ \A j \in DOMAIN b : <<n, b[j]>> \in Uses(d, s, n, i)
           /\ i # 0 /\ s.code[i].op \in {"copy", "element"} =>
                LET b == s.code[i].body
                IN  b \in Seq((i + 1) .. Len(s.code)) /\ \A j \in DOMAIN b : <<n, b[j]>> \in Uses(d, s, n, i)
<1>0. Len(s.code) \in Nat /\ DOMAIN s.code = 1 .. Len(s.code)
  BY DEF SheetOK
<1>1. ASSUME i = 0, find_matching_template(d, n, s) # 0
      PROVE  LET b == s.templates[find_matching_template(d, n, s)].body
             IN  b \in Seq(1 .. Len(s.code)) /\ \A j \in DOMAIN b : <<n, b[j]>> \in Uses(d, s, n, i)
  <2> DEFINE up == IF d[n].p = 0 THEN "" ELSE d[d[n].p].local
             hits == {k \in DOMAIN s.templates : /\ IsElem(d, n) /\ s.templates[k].child = d[n].local
                                                 /\ s.templates[k].parent \in {"", up}}
             t == find_matching_template(d, n, s)
  <2>1. t = IF hits = {} THEN 0 ELSE CHOOSE k \in hits : \A j \in hits : k <= j
    BY DEF find_matching_template
  <2>2. hits \in SUBSET Nat /\ hits \subseteq DOMAIN s.templates
    <3>1. DOMAIN s.templates = 1 .. Len(s.templates) /\ Len(s.templates) \in Nat
      BY DEF SheetOK
    <3>2. \A k \in DOMAIN s.templates : k \in Nat
      BY <3>1
    <3> QED BY <3>2
  <2> HIDE DEF hits, t
  <2>3. t \in hits
    BY <1>1, <2>1, <2>2, LeastExists DEF t
  <2>4. s.templates[t].body \in Seq(1 .. Len(s.code))
    BY <2>2, <2>3 DEF SheetOK
  <2> DEFINE b == s.templates[t].body
  <2>5. \A j \in DOMAIN b : b[j] \in 1 .. Len(s.code)
    BY <2>4, SMTT(30)
  <2> HIDE DEF b
  <2>6. \A j \in DOMAIN b : <<n, b[j]>> \in Uses(d, s, n, i)
    BY <1>1, <2>5 DEF Uses
  <2> QED BY <2>4, <2>6 DEF t, b
<1>2. ASSUME i # 0, s.code[i].op \in {"copy", "element"}
      PROVE  LET b == s.code[i].body
             IN  b \in Seq((i + 1) .. Len(s.code)) /\ \A j \in DOMAIN b : <<n, b[j]>> \in Uses(d, s, n, i)
  <2> DEFINE b == s.code[i].body
  <2>1. b \in Seq((i + 1) .. Len(s.code))
    BY <1>0, <1>2 DEF SheetOK
  <2>2. \A j \in DOMAIN b : b[j] \in (i + 1) .. Len(s.code)
    BY <2>1
  <2> HIDE DEF b
  <2>3. \A j \in DOMAIN b : <<n, b[j]>> \in Uses(d, s, n, i)
    BY <2>2 DEF Uses
  <2> QED BY <2>1, <2>3 DEF b
<1> QED BY <1>1, <1>2

\* Some children of a node, in order.
LEMMA UsesChildren ==
    ASSUME NEW d, Len(d) \in Nat, Nodes(d) = 1 .. Len(d), TreeOK(d), NEW s, NEW n \in Nodes(d), NEW i,
           NEW S \in SUBSET Children(d, n)
    PROVE  /\ \E k \in Nat : DOMAIN InOrder(S) = 1 .. k
           /\ \A j \in DOMAIN InOrder(S) : <<InOrder(S)[j], 0>> \in Uses(d, s, n, i)
<1>1. S \in SUBSET Nat /\ IsFiniteSet(S) /\ S \subseteq Nodes(d)
  <2>1. IsFiniteSet(1 .. Len(d))
    BY FS_Interval
  <2>2. S \subseteq 1 .. Len(d)
    BY DEF Children
  <2>3. \A k \in 1 .. Len(d) : k \in Nat
    OBVIOUS
  <2> QED BY <2>1, <2>2, <2>3, FS_Subset
<1>2. \A m \in S : n < m
  <2> SUFFICES ASSUME NEW m \in S PROVE n < m
    OBVIOUS
  <2>1. m \in 1 .. Len(d) /\ d[m].p = n
    BY <1>1 DEF Children
  <2>2. m # 1
    BY <2>1 DEF TreeOK
  <2>3. n \in 1 .. (m - 1)
    BY <2>1, <2>2 DEF TreeOK
  <2> QED BY <2>1, <2>3
<1> DEFINE w == InOrder(S)
<1>3. Cardinality(S) \in Nat /\ DOMAIN w = 1 .. Cardinality(S) /\ \A j \in DOMAIN w : w[j] \in S
  BY <1>1, InOrderElements
<1> HIDE DEF w
<1>4. \A j \in DOMAIN w : <<w[j], 0>> \in Uses(d, s, n, i)
  BY <1>1, <1>2, <1>3 DEF Uses
<1> QED BY <1>3, <1>4 DEF w

\* A line depends on the lines it uses only.
LEMMA LineDepends ==
    ASSUME NEW d, Len(d) \in Nat, Nodes(d) = 1 .. Len(d), TreeOK(d), NEW s, SheetOK(s),
           NEW n \in Nodes(d), NEW i \in 0 .. Len(s.code),
           NEW f, NEW g, \A q \in Uses(d, s, n, i) : f[q] = g[q]
    PROVE  Line(d, s, f, n, i) = Line(d, s, g, n, i)
<1>1. ASSUME NEW b, \A j \in DOMAIN b : <<n, b[j]>> \in Uses(d, s, n, i)
      PROVE  Run(f, n, b) = Run(g, n, b)
  <2>1. [j \in DOMAIN b |-> f[<<n, b[j]>>]] = [j \in DOMAIN b |-> g[<<n, b[j]>>]]
    BY <1>1
  <2> QED BY <2>1 DEF Run
<1>2. ASSUME NEW S \in SUBSET Children(d, n)
      PROVE  ApplyTo(f, InOrder(S)) = ApplyTo(g, InOrder(S))
  <2> DEFINE w == InOrder(S)
  <2>0. \A j \in DOMAIN w : <<w[j], 0>> \in Uses(d, s, n, i)
    BY UsesChildren
  <2> HIDE DEF w
  <2>1. [j \in DOMAIN w |-> f[<<w[j], 0>>]] = [j \in DOMAIN w |-> g[<<w[j], 0>>]]
    BY <2>0
  <2> QED BY <2>1 DEF ApplyTo, w
<1>3. CASE i = 0
  <2> DEFINE t == find_matching_template(d, n, s)
  <2>1. t # 0 => Run(f, n, s.templates[t].body) = Run(g, n, s.templates[t].body)
    BY <1>1, <1>3, UsesBody
  <2>2. ApplyTo(f, AllChildren(d, n)) = ApplyTo(g, AllChildren(d, n))
    BY <1>2 DEF AllChildren
  <2> QED BY <1>3, <2>1, <2>2 DEF Line, xslt_apply_templates_to_node
<1>4. CASE i # 0
  <2> DEFINE c == s.code[i]
             ms == IF c.select = "" THEN AllChildren(d, n)
                   ELSE InOrder({m \in Children(d, n) : xslt_node_matches_select(d, m, c.select)})
  <2>1. c.op \in {"copy", "element"} => Run(f, n, c.body) = Run(g, n, c.body)
    BY <1>1, <1>4, UsesBody
  <2>2. ApplyTo(f, ms) = ApplyTo(g, ms)
    <3>1. CASE c.select = ""
      BY <1>2, <3>1 DEF AllChildren
    <3>2. CASE c.select # ""
      <4>1. {m \in Children(d, n) : xslt_node_matches_select(d, m, c.select)} \in SUBSET Children(d, n)
        OBVIOUS
      <4> QED BY <1>2, <3>2, <4>1
    <3> QED BY <3>1, <3>2
  <2> HIDE DEF c, ms
  <2>3. xslt_execute_body(d, s, f, n, c) = xslt_execute_body(d, s, g, n, c)
    BY <2>1, <2>2 DEF xslt_execute_body, ms
  <2> QED BY <1>4, <2>3 DEF Line, c
<1> QED BY <1>3, <1>4

\* Each line is a sequence of such events, if the lines it uses are.
LEMMA LineType ==
    ASSUME NEW d, Len(d) \in Nat, Nodes(d) = 1 .. Len(d), TreeOK(d), NEW s, SheetOK(s),
           NEW n \in Nodes(d), NEW i \in 0 .. Len(s.code),
           NEW f, \A q \in Uses(d, s, n, i) : f[q] \in Seq(Events(d, s))
    PROVE  Line(d, s, f, n, i) \in Seq(Events(d, s))
<1> DEFINE E == Events(d, s)
<1>e. /\ EndTag \in E /\ TextOf({}) \in E
      /\ \A k \in Nodes(d) : (d[k].k = "text" => TextOf(d[k].orig) \in E) /\ (IsElem(d, k) => CopyTag(d, k) \in E)
      /\ \A k \in DOMAIN s.code : LiteralTag(s, s.code[k]) \in E
  BY DEF Events
<1> HIDE DEF E
<1>q. /\ <<>> \in Seq(E)
      /\ \A x \in E : <<x>> \in Seq(E)
      /\ \A x, y \in Seq(E) : x \o y \in Seq(E)
  OBVIOUS
<1>0. Len(s.code) \in Nat /\ DOMAIN s.code = 1 .. Len(s.code)
  BY DEF SheetOK
<1>1. ASSUME NEW T, NEW b \in Seq(T), \A j \in DOMAIN b : <<n, b[j]>> \in Uses(d, s, n, i)
      PROVE  Run(f, n, b) \in Seq(E)
  <2> DEFINE ss == [j \in DOMAIN b |-> f[<<n, b[j]>>]]
  <2>1. ss \in [1 .. Len(b) -> Seq(E)] /\ Len(b) \in Nat
    BY <1>1 DEF E
  <2>2. ss \in Seq(Seq(E))
    <3> HIDE DEF ss
    <3> QED BY <2>1
  <2> HIDE DEF ss
  <2>3. FlattenSeq(ss) \in Seq(E)
    BY <2>2, FlattenSeqType
  <2> QED BY <2>3 DEF Run, ss
<1>2. ASSUME NEW S \in SUBSET Children(d, n)
      PROVE  ApplyTo(f, InOrder(S)) \in Seq(E)
  <2> DEFINE w == InOrder(S)
             ss == [j \in DOMAIN w |-> f[<<w[j], 0>>]]
  <2>0. \A j \in DOMAIN w : <<w[j], 0>> \in Uses(d, s, n, i)
    BY UsesChildren
  <2>1. PICK k \in Nat : DOMAIN w = 1 .. k
    BY UsesChildren
  <2> HIDE DEF w
  <2>2. ss \in [1 .. k -> Seq(E)]
    BY <2>0, <2>1 DEF E
  <2>3. ss \in Seq(Seq(E))
    <3> HIDE DEF ss
    <3> QED BY <2>1, <2>2
  <2> HIDE DEF ss
  <2>4. FlattenSeq(ss) \in Seq(E)
    BY <2>3, FlattenSeqType
  <2> QED BY <2>4 DEF ApplyTo, ss, w
<1>3. CASE i = 0
  <2> DEFINE t == find_matching_template(d, n, s)
             b == s.templates[t].body
  <2>1. t # 0 => Run(f, n, b) \in Seq(E)
    <3>1. t # 0 => b \in Seq(1 .. Len(s.code)) /\ \A j \in DOMAIN b : <<n, b[j]>> \in Uses(d, s, n, i)
      BY <1>3, UsesBody
    <3> HIDE DEF b, t
    <3> QED BY <1>1, <3>1
  <2>2. ApplyTo(f, AllChildren(d, n)) \in Seq(E)
    BY <1>2 DEF AllChildren
  <2>3. d[n].k = "text" => <<TextOf(d[n].orig)>> \in Seq(E)
    BY <1>e, <1>q
  <2>4. Line(d, s, f, n, i) =
           IF t # 0 THEN Run(f, n, b)
           ELSE IF d[n].k = "text"
           THEN (IF IsBlank(d, n, s) /\ d[d[n].p].local \in s.strip THEN <<>> ELSE <<TextOf(d[n].orig)>>)
           ELSE IF IsElem(d, n) THEN ApplyTo(f, AllChildren(d, n)) ELSE <<>>
    BY <1>3 DEF Line, xslt_apply_templates_to_node
  <2> HIDE DEF t, b
  <2> QED BY <1>q, <2>1, <2>2, <2>3, <2>4 DEF E
<1>4. CASE i # 0
  <2> DEFINE c == s.code[i]
             ms == IF c.select = "" THEN AllChildren(d, n)
                   ELSE InOrder({m \in Children(d, n) : xslt_node_matches_select(d, m, c.select)})
             r == Run(f, n, c.body)
  <2>0. i \in DOMAIN s.code
    BY <1>0, <1>4
  <2>1. c.op \in {"copy", "element"} => r \in Seq(E)
    <3> DEFINE b == c.body
    <3>1. c.op \in {"copy", "element"} =>
             b \in Seq((i + 1) .. Len(s.code)) /\ \A j \in DOMAIN b : <<n, b[j]>> \in Uses(d, s, n, i)
      BY <1>4, UsesBody
    <3> HIDE DEF b, c
    <3> QED BY <1>1, <3>1 DEF b
  <2>2. ApplyTo(f, ms) \in Seq(E)
    <3>1. CASE c.select = ""
      BY <1>2, <3>1 DEF AllChildren
    <3>2. CASE c.select # ""
      <4>1. {m \in Children(d, n) : xslt_node_matches_select(d, m, c.select)} \in SUBSET Children(d, n)
        OBVIOUS
      <4> QED BY <1>2, <3>2, <4>1
    <3> QED BY <3>1, <3>2
  <2>3. LiteralTag(s, c) \in E
    BY <1>e, <2>0
  <2> HIDE DEF c, ms, r
  <2>4. xslt_eval_value_of(d, n, c.select) \in Seq(E)
    <3> DEFINE named == {m \in Children(d, n) : IsElem(d, m) /\ d[m].local = c.select}
               first == CHOOSE k \in named : \A j \in named : k <= j
               texts == {m \in Nodes(d) : named # {} /\ d[m].k = "text" /\ d[m].p = first}
               k == CHOOSE k \in texts : \A j \in texts : k <= j
    <3>1. xslt_eval_value_of(d, n, c.select) = IF texts = {} THEN <<>> ELSE <<TextOf(d[k].orig)>>
      BY DEF xslt_eval_value_of
    <3>2. texts \in SUBSET Nat /\ \A m \in texts : m \in Nodes(d) /\ d[m].k = "text"
      OBVIOUS
    <3> HIDE DEF texts
    <3>3. texts # {} => k \in texts
      BY <3>2, LeastExists
    <3> HIDE DEF k
    <3>4. texts # {} => TextOf(d[k].orig) \in E
      BY <1>e, <3>2, <3>3
    <3> QED BY <1>q, <3>1, <3>4
  <2>5. c.op = "copy" /\ IsElem(d, n) => <<CopyTag(d, n)>> \o r \o <<EndTag>> \in Seq(E)
    BY <1>e, <1>q, <2>1
  <2>6. d[n].k = "text" => <<TextOf(d[n].orig)>> \in Seq(E)
    BY <1>e, <1>q
  <2>7. c.op = "element" => <<LiteralTag(s, c)>> \o r \o <<EndTag>> \in Seq(E)
    BY <1>e, <1>q, <2>1, <2>3
  <2>8. <<TextOf({})>> \in Seq(E)
    BY <1>e, <1>q
  <2>9. Line(d, s, f, n, i) =
           CASE c.op = "text" -> <<TextOf({})>>
             [] c.op = "apply" -> ApplyTo(f, ms)
             [] c.op = "value-of" -> xslt_eval_value_of(d, n, c.select)
             [] c.op = "copy" -> (IF IsElem(d, n) THEN <<CopyTag(d, n)>> \o r \o <<EndTag>>
                                  ELSE IF d[n].k = "text" THEN <<TextOf(d[n].orig)>> ELSE <<>>)
             [] c.op = "element" -> <<LiteralTag(s, c)>> \o r \o <<EndTag>>
             [] OTHER -> <<>>
    BY <1>4 DEF Line, xslt_execute_body, c, ms, r
  <2> QED BY <1>q, <2>2, <2>4, <2>5, <2>6, <2>7, <2>8, <2>9 DEF E
<1> QED BY <1>3, <1>4

\* The lines of a run, in an order in which each comes after those it uses.
Spots(d, s) == Nodes(d) \X (0 .. Len(s.code))
XRank(d, s, q) == (Len(d) - q[1]) * (Len(s.code) + 1) + (Len(s.code) - q[2])

\* Whole rows of M between two rows.
LEMMA TimesLess == ASSUME NEW a \in Nat, NEW b \in Nat, NEW M \in Nat, a < b
                   PROVE  a * M \in Nat /\ b * M \in Nat /\ a * M + M <= b * M
<1>1. b - a - 1 \in Nat
  OBVIOUS
<1> DEFINE c == b - a - 1
<1>2. b = a + 1 + c /\ c \in Nat
  BY <1>1
<1> HIDE DEF c
<1>3. (a + 1 + c) * M = a * M + M + c * M /\ c * M \in Nat /\ a * M \in Nat
  BY <1>2
<1> QED BY <1>2, <1>3

\* Ranks are natural and bounded; a line uses lines of smaller rank only.
LEMMA XRankOK ==
    ASSUME NEW d, Len(d) \in Nat, Nodes(d) = 1 .. Len(d), NEW s, SheetOK(s), NEW q \in Spots(d, s)
    PROVE  /\ XRank(d, s, q) \in Nat /\ XRank(d, s, q) < Len(d) * (Len(s.code) + 1)
           /\ Len(d) * (Len(s.code) + 1) \in Nat
           /\ \A r \in Uses(d, s, q[1], q[2]) : r \in Spots(d, s) /\ XRank(d, s, r) < XRank(d, s, q)
<1>0. PICK L \in Nat : L = Len(s.code)
  BY DEF SheetOK
<1>1. PICK N \in Nat : N = Len(d)
  OBVIOUS
<1>2. q[1] \in 1 .. N /\ q[2] \in 0 .. L
  BY <1>0, <1>1 DEF Spots
<1> DEFINE M == L + 1
<1>3. \A x \in 1 .. N : (N - x) * M \in Nat /\ N * M \in Nat /\ (N - x) * M + M <= N * M
  <2> SUFFICES ASSUME NEW x \in 1 .. N
               PROVE  (N - x) * M \in Nat /\ N * M \in Nat /\ (N - x) * M + M <= N * M
    OBVIOUS
  <2>1. N - x \in Nat /\ N - x < N /\ M \in Nat
    OBVIOUS
  <2> QED BY <2>1, TimesLess
<1>4. \A x, y \in 1 .. N : x < y => (N - y) * M + M <= (N - x) * M
  <2> SUFFICES ASSUME NEW x \in 1 .. N, NEW y \in 1 .. N, x < y PROVE (N - y) * M + M <= (N - x) * M
    OBVIOUS
  <2>1. N - x \in Nat /\ N - y \in Nat /\ N - y < N - x /\ M \in Nat
    OBVIOUS
  <2> QED BY <2>1, TimesLess
<1> DEFINE P(x) == (N - x) * M
<1>5. \A r : XRank(d, s, r) = P(r[1]) + (L - r[2])
  BY <1>0, <1>1 DEF XRank
<1>6. /\ \A x \in 1 .. N : P(x) \in Nat /\ N * M \in Nat /\ P(x) + (L + 1) <= N * M
      /\ \A x, y \in 1 .. N : x < y => P(y) + (L + 1) <= P(x)
  BY <1>3, <1>4
<1>7. N * M = Len(d) * (Len(s.code) + 1)
  BY <1>0, <1>1
<1> HIDE DEF P, M
<1>8. XRank(d, s, q) \in Nat /\ XRank(d, s, q) < N * M /\ N * M \in Nat
  <2>1. L - q[2] \in Nat /\ L - q[2] < L + 1
    BY <1>2
  <2>2. P(q[1]) \in Nat /\ N * M \in Nat /\ P(q[1]) + (L + 1) <= N * M
    BY <1>2, <1>6
  <2> QED BY <1>5, <2>1, <2>2
<1>9. ASSUME NEW r \in Uses(d, s, q[1], q[2]) PROVE r \in Spots(d, s) /\ XRank(d, s, r) < XRank(d, s, q)
  <2>1. CASE \E j \in (q[2] + 1) .. L : r = <<q[1], j>>
    <3>1. PICK j \in (q[2] + 1) .. L : r = <<q[1], j>>
      BY <2>1
    <3>2. r[1] = q[1] /\ r[2] = j /\ L - j < L - q[2] /\ j \in 0 .. L /\ L - j \in Nat /\ L - q[2] \in Nat
      BY <1>2, <3>1
    <3>3. P(q[1]) \in Nat
      BY <1>2, <1>6
    <3>4. P(q[1]) + (L - j) < P(q[1]) + (L - q[2])
      BY <3>2, <3>3
    <3>5. r \in Spots(d, s)
      BY <1>0, <1>1, <1>2, <3>1, <3>2 DEF Spots
    <3> QED BY <1>5, <3>2, <3>4, <3>5
  <2>2. CASE \E m \in Nodes(d) : q[1] < m /\ r = <<m, 0>>
    <3>1. PICK m \in Nodes(d) : q[1] < m /\ r = <<m, 0>>
      BY <2>2
    <3>2. r[1] = m /\ r[2] = 0 /\ m \in 1 .. N /\ P(m) \in Nat /\ P(q[1]) \in Nat /\ P(m) + (L + 1) <= P(q[1])
      BY <1>1, <1>2, <1>6, <3>1
    <3>3. P(m) + (L - 0) < P(q[1]) + (L - q[2])
      BY <1>2, <3>2
    <3>4. r \in Spots(d, s)
      BY <1>0, <3>1 DEF Spots
    <3> QED BY <1>5, <3>2, <3>3, <3>4
  <2> QED BY <1>0, <2>1, <2>2 DEF Uses
<1> QED BY <1>7, <1>8, <1>9

\* The lines of rank less than k are those of the recursion.
Solves(d, s, k, f) ==
    /\ f = [q \in Spots(d, s) |-> f[q]]
    /\ \A q \in Spots(d, s) : XRank(d, s, q) < k => f[q] = Line(d, s, f, q[1], q[2])

\* The recursion of xslt_execute has a solution.
LEMMA RunsExist ==
    ASSUME NEW d, Len(d) \in Nat, Nodes(d) = 1 .. Len(d), TreeOK(d), NEW s, SheetOK(s)
    PROVE  \A k \in Nat : \E f : Solves(d, s, k, f)
<1> DEFINE Bad == {k \in Nat : ~\E f : Solves(d, s, k, f)}
<1> SUFFICES ASSUME Bad # {} PROVE FALSE
  OBVIOUS
<1>0. \A q \in Spots(d, s) : XRank(d, s, q) \in Nat
  BY XRankOK
<1>1. PICK k \in Bad : \A j \in Bad : k <= j
  BY LeastExists
<1>2. CASE k = 0
  <2> DEFINE f == [q \in Spots(d, s) |-> <<>>]
  <2>1. f = [q \in Spots(d, s) |-> f[q]]
    OBVIOUS
  <2> HIDE DEF f
  <2>2. Solves(d, s, 0, f)
    BY <1>0, <2>1 DEF Solves
  <2> QED BY <1>2, <2>2
<1>3. CASE k # 0
  <2>1. k \in Nat /\ k - 1 \in Nat /\ k - 1 \notin Bad
    BY <1>1, <1>3
  <2>2. PICK b : Solves(d, s, k - 1, b)
    BY <2>1
  <2> DEFINE a == [q \in Spots(d, s) |-> IF XRank(d, s, q) = k - 1 THEN Line(d, s, b, q[1], q[2]) ELSE b[q]]
  <2>3. /\ a = [q \in Spots(d, s) |-> a[q]]
        /\ \A q \in Spots(d, s) : a[q] = IF XRank(d, s, q) = k - 1 THEN Line(d, s, b, q[1], q[2]) ELSE b[q]
    OBVIOUS
  <2> HIDE DEF a
  <2>4. ASSUME NEW q \in Spots(d, s), XRank(d, s, q) < k
        PROVE  a[q] = Line(d, s, a, q[1], q[2])
    <3>1. XRank(d, s, q) \in Nat /\ (XRank(d, s, q) = k - 1 \/ XRank(d, s, q) < k - 1)
      BY <1>0, <2>1, <2>4
    <3>2. a[q] = Line(d, s, b, q[1], q[2])
      BY <2>2, <2>3, <3>1 DEF Solves
    <3>3. \A r \in Uses(d, s, q[1], q[2]) : r \in Spots(d, s) /\ XRank(d, s, r) < XRank(d, s, q)
      BY XRankOK
    <3>4. \A r \in Uses(d, s, q[1], q[2]) : a[r] = b[r]
      <4> SUFFICES ASSUME NEW r \in Uses(d, s, q[1], q[2]) PROVE a[r] = b[r]
        OBVIOUS
      <4>1. r \in Spots(d, s) /\ XRank(d, s, r) < XRank(d, s, q) /\ XRank(d, s, r) \in Nat
        BY <1>0, <3>3
      <4>2. XRank(d, s, r) # k - 1
        BY <2>1, <3>1, <4>1
      <4> QED BY <2>3, <4>1, <4>2
    <3>5. q[1] \in Nodes(d) /\ q[2] \in 0 .. Len(s.code)
      BY DEF Spots
    <3>6. Line(d, s, a, q[1], q[2]) = Line(d, s, b, q[1], q[2])
      <4>1. PICK n \in Nodes(d), i \in 0 .. Len(s.code) : n = q[1] /\ i = q[2]
        BY <3>5
      <4>2. \A r \in Uses(d, s, n, i) : a[r] = b[r]
        BY <3>4, <4>1
      <4>3. Line(d, s, a, n, i) = Line(d, s, b, n, i)
        BY <4>2, LineDepends
      <4> QED BY <4>1, <4>3
    <3> QED BY <3>2, <3>6
  <2>5. Solves(d, s, k, a)
    BY <2>3, <2>4 DEF Solves
  <2> QED BY <1>1, <2>5
<1> QED BY <1>2, <1>3

\* xslt_execute gives what a solution gives for the document element.
LEMMA RunSolves ==
    ASSUME NEW d, Len(d) \in Nat, Nodes(d) = 1 .. Len(d), TreeOK(d), NEW s, SheetOK(s)
    PROVE  \E f : /\ xslt_execute(d, s) = f[<<CHOOSE n \in Nodes(d) : d[n].p = 1 /\ IsElem(d, n), 0>>]
                  /\ \A q \in Spots(d, s) : f[q] = Line(d, s, f, q[1], q[2])
<1> DEFINE f == CHOOSE out : out = [q \in Nodes(d) \X (0 .. Len(s.code)) |->
                                      IF q[2] = 0 THEN xslt_apply_templates_to_node(d, s, out, q[1])
                                      ELSE xslt_execute_body(d, s, out, q[1], s.code[q[2]])]
           from == <<CHOOSE n \in Nodes(d) : d[n].p = 1 /\ IsElem(d, n), 0>>
<1>1. xslt_execute(d, s) = f[from]
  BY DEF xslt_execute
<1>2. f = [q \in Spots(d, s) |-> Line(d, s, f, q[1], q[2])]
  <2> DEFINE k == Len(d) * (Len(s.code) + 1)
             Solution(g) == g = [q \in Nodes(d) \X (0 .. Len(s.code)) |->
                                   IF q[2] = 0 THEN xslt_apply_templates_to_node(d, s, g, q[1])
                                   ELSE xslt_execute_body(d, s, g, q[1], s.code[q[2]])]
  <2>1. k \in Nat
    <3>1. Len(s.code) \in Nat
      BY DEF SheetOK
    <3>2. Len(s.code) + 1 \in Nat
      BY <3>1
    <3>3. 0 < Len(d) \/ Len(d) = 0
      OBVIOUS
    <3> QED BY <3>2, <3>3, TimesLess
  <2>2. PICK g : Solves(d, s, k, g)
    BY <2>1, RunsExist
  <2>3. \A q \in Spots(d, s) : XRank(d, s, q) < k
    BY XRankOK
  <2> HIDE DEF k
  <2>4. g = [q \in Spots(d, s) |-> Line(d, s, g, q[1], q[2])]
    <3>1. \A q \in Spots(d, s) : g[q] = Line(d, s, g, q[1], q[2])
      BY <2>2, <2>3 DEF Solves
    <3>2. g = [q \in Spots(d, s) |-> g[q]]
      BY <2>2 DEF Solves
    <3> QED BY <3>1, <3>2
  <2>5. \A h : Solution(h) <=> h = [q \in Spots(d, s) |-> Line(d, s, h, q[1], q[2])]
    BY DEF Spots, Line
  <2>6. Solution(g)
    BY <2>4, <2>5
  <2>7. f = CHOOSE h : Solution(h)
    OBVIOUS
  <2> HIDE DEF f, Solution
  <2>8. Solution(f)
    BY <2>6, <2>7
  <2> QED BY <2>5, <2>8
<1> HIDE DEF f, from
<1>3. \A q \in Spots(d, s) : f[q] = Line(d, s, f, q[1], q[2])
  BY <1>2
<1> QED BY <1>1, <1>3 DEF from

\* A stylesheet writes its own tags and what is in elements and text of the document.
LEMMA RunType ==
    ASSUME NEW d, Len(d) \in Nat, Nodes(d) = 1 .. Len(d), TreeOK(d), Rooted(d), NEW s, SheetOK(s)
    PROVE  xslt_execute(d, s) \in Seq(Events(d, s))
<1> DEFINE from == <<CHOOSE n \in Nodes(d) : d[n].p = 1 /\ IsElem(d, n), 0>>
<1>1. PICK f : xslt_execute(d, s) = f[from] /\ \A q \in Spots(d, s) : f[q] = Line(d, s, f, q[1], q[2])
  BY RunSolves
<1> DEFINE E == Events(d, s)
           Bad == {XRank(d, s, q) : q \in {r \in Spots(d, s) : f[r] \notin Seq(E)}}
<1>3. ASSUME Bad # {} PROVE FALSE
  <2>1. Bad \in SUBSET Nat
    BY XRankOK
  <2>2. PICK k \in Bad : \A j \in Bad : k <= j
    BY <1>3, <2>1, LeastExists
  <2>3. PICK q \in Spots(d, s) : f[q] \notin Seq(E) /\ k = XRank(d, s, q)
    BY <2>2
  <2>4. ASSUME NEW r \in Uses(d, s, q[1], q[2]) PROVE f[r] \in Seq(E)
    <3>1. r \in Spots(d, s) /\ XRank(d, s, r) < k /\ k \in Nat
      BY <2>3, XRankOK
    <3>2. XRank(d, s, r) \in Nat
      BY <3>1, XRankOK
    <3> QED BY <2>2, <3>1, <3>2
  <2>5. q[1] \in Nodes(d) /\ q[2] \in 0 .. Len(s.code)
    BY DEF Spots
  <2>6. Line(d, s, f, q[1], q[2]) \in Seq(E)
    BY <2>4, <2>5, LineType
  <2>7. f[q] = Line(d, s, f, q[1], q[2])
    BY <1>1
  <2> QED BY <2>3, <2>6, <2>7
<1>4. from \in Spots(d, s)
  <2>1. \E n \in Nodes(d) : d[n].p = 1 /\ IsElem(d, n)
    BY DEF Rooted
  <2>2. 0 \in 0 .. Len(s.code)
    BY DEF SheetOK
  <2> QED BY <2>1, <2>2 DEF Spots
<1> QED BY <1>1, <1>3, <1>4

\* What a stylesheet makes is a document of content, and no comment is in it.
LEMMA StylesheetNarrows ==
    ASSUME NEW d, DocumentOK(d), TreeOK(d), DeclsOK(d), Rooted(d), NEW s, SheetOK(s)
    PROVE  LET u == apply_minimal_xslt(d, s)
           IN  /\ DocumentOK(u) /\ TreeOK(u) /\ DeclsOK(u)
               /\ \A k \in Nodes(u) : \A x \in u[k].orig :
                     \E n \in Nodes(d) : d[n].k # "comment" /\ x \in d[n].orig
<1> DEFINE es == xslt_execute(d, s)
           u == ParseEvents(es)
           E == Events(d, s)
<1>1. es \in Seq(E)
  BY RunType DEF DocumentOK
<1>2. \A e \in E : /\ e.ev \in {"start", "end", "text"}
                   /\ e.ev = "start" => \A p \in DOMAIN e.decls : p # Default => e.decls[p] # NoUri
                   /\ e.ev # "end" => \A x \in e.orig : \E n \in Nodes(d) : d[n].k # "comment" /\ x \in d[n].orig
  BY EventsOK
<1> HIDE DEF es, E
<1>3. /\ DocumentOK(u) /\ TreeOK(u) /\ DeclsOK(u)
      /\ \A k \in Nodes(u) : \A x \in u[k].orig : \E i \in DOMAIN es : es[i].ev # "end" /\ x \in es[i].orig
  BY <1>1, <1>2, ParseNarrows
<1>4. \A i \in DOMAIN es : es[i] \in E
  BY <1>1
<1> HIDE DEF u
<1>5. \A k \in Nodes(u) : \A x \in u[k].orig : \E n \in Nodes(d) : d[n].k # "comment" /\ x \in d[n].orig
  BY <1>2, <1>3, <1>4
<1> QED BY <1>3, <1>5 DEF u, es, apply_minimal_xslt

-----------------------------------------------------------------------------
(* Events and the levels they stand on.                                    *)

\* The events of T are tags and text.
Eventful(T) == \A e \in T : e.ev \in {"start", "end", "text"}

\* Nothing is open before the first event.
LEMMA LevelFirst == ASSUME NEW es PROVE Level(es, 1) = 0
<1>1. {j \in 1 .. 1 - 1 : es[j].ev = "start"} = {} /\ {j \in 1 .. 1 - 1 : es[j].ev = "end"} = {}
  OBVIOUS
<1> QED BY <1>1, FS_EmptySet DEF Level

\* How many events of a kind v stand before place k.
Count(es, v, k) == Cardinality({j \in 1 .. k - 1 : es[j].ev = v})

\* One more event of the kind, or not.
LEMMA CountStep ==
    ASSUME NEW es, NEW i \in Nat \ {0}, NEW v
    PROVE  /\ Count(es, v, i) \in Nat
           /\ es[i].ev = v => Count(es, v, i + 1) = Count(es, v, i) + 1
           /\ es[i].ev # v => Count(es, v, i + 1) = Count(es, v, i)
<1> DEFINE S(k) == {j \in 1 .. k - 1 : es[j].ev = v}
<1>1. IsFiniteSet(S(i))
  <2>1. IsFiniteSet(1 .. i - 1)
    BY FS_Interval
  <2> QED BY <2>1, FS_Subset
<1>2. i \notin S(i) /\ (es[i].ev = v => S(i + 1) = S(i) \union {i}) /\ (es[i].ev # v => S(i + 1) = S(i))
  <2>1. 1 .. (i + 1) - 1 = (1 .. i - 1) \union {i}
    OBVIOUS
  <2> QED BY <2>1
<1> HIDE DEF S
<1>3. Cardinality(S(i)) \in Nat /\ Cardinality(S(i) \union {i}) = Cardinality(S(i)) + 1
  BY <1>1, <1>2, FS_CardinalityType, FS_AddElement
<1> QED BY <1>2, <1>3 DEF S, Count

\* A tag opens or closes one level; text changes none.
LEMMA LevelStep ==
    ASSUME NEW es, NEW i \in Nat \ {0}
    PROVE  /\ Level(es, i) \in Int
           /\ es[i].ev = "start" => Level(es, i + 1) = Level(es, i) + 1
           /\ es[i].ev = "end" => Level(es, i + 1) = Level(es, i) - 1
           /\ es[i].ev = "text" => Level(es, i + 1) = Level(es, i)
<1>1. /\ Count(es, "start", i) \in Nat
      /\ es[i].ev = "start" => Count(es, "start", i + 1) = Count(es, "start", i) + 1
      /\ es[i].ev # "start" => Count(es, "start", i + 1) = Count(es, "start", i)
  BY CountStep
<1>2. /\ Count(es, "end", i) \in Nat
      /\ es[i].ev = "end" => Count(es, "end", i + 1) = Count(es, "end", i) + 1
      /\ es[i].ev # "end" => Count(es, "end", i + 1) = Count(es, "end", i)
  BY CountStep
<1>3. \A k : Level(es, k) = Count(es, "start", k) - Count(es, "end", k)
  BY DEF Level, Count
<1> QED BY <1>1, <1>2, <1>3

\* The events fs stand in es after the first p events.
Block(es, p, fs) == p + Len(fs) <= Len(es) /\ \A i \in 1 .. Len(fs) : es[p + i] = fs[i]

\* Levels in a block count from the level where it starts.
LEMMA LevelBlock ==
    ASSUME NEW T, Eventful(T), NEW es \in Seq(T), NEW fs \in Seq(T), NEW p \in Nat, Block(es, p, fs)
    PROVE  \A i \in 1 .. Len(fs) + 1 : Level(es, p + i) = Level(es, p + 1) + Level(fs, i)
<1> DEFINE n == Len(fs)
           Good(i) == Level(es, p + i) = Level(es, p + 1) + Level(fs, i)
           Bad == {i \in 1 .. n + 1 : ~Good(i)}
<1>0. n \in Nat
  OBVIOUS
<1>1. Good(1)
  <2>1. Level(es, p + 1) \in Int
    BY LevelStep
  <2> QED BY <2>1, LevelFirst
<1> HIDE DEF n
<1>2. ASSUME Bad # {} PROVE FALSE
  <2>0. Bad \in SUBSET Nat
    BY <1>0
  <2>1. PICK i \in Bad : \A j \in Bad : i <= j
    BY <1>2, <2>0, LeastExists
  <2> DEFINE h == i - 1
  <2>2. h \in 1 .. n /\ i = h + 1 /\ p + i = (p + h) + 1 /\ p + h \in Nat \ {0} /\ h \in Nat \ {0}
    BY <1>0, <1>1, <2>1
  <2> HIDE DEF h
  <2>3. Good(h)
    BY <1>0, <2>1, <2>2
  <2>4. es[p + h] = fs[h] /\ fs[h] \in T
    BY <2>2 DEF Block, n
  <2>5. fs[h].ev \in {"start", "end", "text"}
    BY <2>4 DEF Eventful
  <2> DEFINE a == Level(es, p + h)
             b == Level(fs, h)
             c == Level(es, p + 1)
             a1 == Level(es, (p + h) + 1)
             b1 == Level(fs, h + 1)
             v == fs[h].ev
  <2>6. /\ a \in Int
        /\ v = "start" => a1 = a + 1
        /\ v = "end" => a1 = a - 1
        /\ v = "text" => a1 = a
    BY <2>2, <2>4, LevelStep, ZenonT(40)
  <2>7. /\ b \in Int
        /\ v = "start" => b1 = b + 1
        /\ v = "end" => b1 = b - 1
        /\ v = "text" => b1 = b
    BY <2>2, LevelStep
  <2>8. c \in Int
    BY LevelStep
  <2>9. a = c + b
    BY <2>3
  <2>10. v \in {"start", "end", "text"}
    BY <2>5
  <2> HIDE DEF a, b, c, a1, b1, v
  <2>11. a1 = c + b1
    BY <2>6, <2>7, <2>8, <2>9, <2>10
  <2>12. Good(i)
    BY <2>2, <2>11 DEF a1, b1, c
  <2> QED BY <2>1, <2>12
<1> QED BY <1>2 DEF n

\* The tags that are open one level above an event.
Up(es, i) == {h \in 1 .. i - 1 : es[h].ev = "start" /\ Level(es, h) = Level(es, i) - 1}

\* Every tag is closed, and none is closed that is not open.
Balanced(es) == /\ Level(es, Len(es) + 1) = 0
                /\ \A i \in 1 .. Len(es) + 1 : Level(es, i) >= 0

\* An event inside a tag has a tag above it.
LEMMA UpExists ==
    ASSUME NEW T, Eventful(T), NEW es \in Seq(T), Balanced(es), NEW i \in 1 .. Len(es), Level(es, i) # 0
    PROVE  Up(es, i) # {}
<1> DEFINE l == Level(es, i)
           S == {h \in 1 .. i : Level(es, h) < l}
<1>0. Len(es) \in Nat /\ i \in Nat /\ i <= Len(es) /\ i \in 1 .. Len(es) + 1 /\ i # 0
  OBVIOUS
<1>1. l \in Int /\ l > 0
  <2>1. l \in Int
    BY <1>0, LevelStep
  <2>2. l >= 0
    BY <1>0 DEF Balanced
  <2> QED BY <2>1, <2>2
<1>2. 1 \in S /\ S \in SUBSET (1 .. i)
  BY <1>0, <1>1, LevelFirst
<1> DEFINE h == Greatest(S)
<1>3. h \in S /\ \A m \in S : m <= h
  BY <1>0, <1>2, GreatestIn
<1> HIDE DEF h
<1>4. h \in 1 .. i /\ Level(es, h) < l
  BY <1>3
<1>5. h # i
  BY <1>1, <1>4
<1>6. h \in 1 .. i - 1 /\ h + 1 \in 1 .. i /\ h \in Nat \ {0} /\ h \in 1 .. Len(es)
  BY <1>0, <1>4, <1>5
<1>7. h + 1 \notin S
  BY <1>3, <1>6
<1>8. ~(Level(es, h + 1) < l)
  BY <1>6, <1>7
<1>9. es[h].ev \in {"start", "end", "text"}
  BY <1>6 DEF Eventful
<1> DEFINE a == Level(es, h)
           b == Level(es, h + 1)
<1>10. /\ a \in Int
       /\ es[h].ev = "start" => b = a + 1
       /\ es[h].ev = "end" => b = a - 1
       /\ es[h].ev = "text" => b = a
  BY <1>6, LevelStep
<1> HIDE DEF S, l
<1>11. a < l /\ ~(b < l) /\ l \in Int
  BY <1>1, <1>4, <1>8
<1> HIDE DEF a, b
<1>12. es[h].ev = "start" /\ a = l - 1
  BY <1>9, <1>10, <1>11
<1> QED BY <1>6, <1>12 DEF Up, a, l

\* The greatest of some positions, by what it is.
LEMMA GreatestOf ==
    ASSUME NEW S, NEW g, g \in S, \A m \in S : m \in Int /\ m <= g
    PROVE  Greatest(S) = g
<1>1. \A n \in S : (\A m \in S : m <= n) => n = g
  <2> SUFFICES ASSUME NEW n \in S, \A m \in S : m <= n PROVE n = g
    OBVIOUS
  <2>1. n <= g /\ g <= n /\ n \in Int /\ g \in Int
    OBVIOUS
  <2> QED BY <2>1
<1>2. \A m \in S : m <= g
  OBVIOUS
<1> QED BY <1>1, <1>2 DEF Greatest

\* In a block the tag above an event is that of the block.
LEMMA UpBlock ==
    ASSUME NEW T, Eventful(T), NEW es \in Seq(T), NEW fs \in Seq(T), NEW p \in Nat, Block(es, p, fs),
           NEW i \in 1 .. Len(fs), Up(fs, i) # {}
    PROVE  /\ Up(es, p + i) # {} /\ Greatest(Up(es, p + i)) \in DOMAIN es
           /\ Greatest(Up(fs, i)) \in DOMAIN fs
           /\ es[Greatest(Up(es, p + i))] = fs[Greatest(Up(fs, i))]
<1> DEFINE g == Greatest(Up(fs, i))
           c == Level(es, p + 1)
<1>0. Len(es) \in Nat /\ Len(fs) \in Nat /\ i \in Nat /\ i <= Len(fs) /\ p + Len(fs) <= Len(es)
  BY DEF Block
<1>1. Up(fs, i) \in SUBSET (1 .. Len(fs))
  BY <1>0 DEF Up
<1>2. g \in Up(fs, i) /\ \A m \in Up(fs, i) : m <= g
  BY <1>0, <1>1, GreatestIn
<1> HIDE DEF g
<1>3. g \in 1 .. i - 1 /\ fs[g].ev = "start" /\ Level(fs, g) = Level(fs, i) - 1
  BY <1>2 DEF Up
<1>4. ASSUME NEW j \in 1 .. Len(fs)
      PROVE  es[p + j] = fs[j] /\ Level(es, p + j) = c + Level(fs, j) /\ Level(fs, j) \in Int /\ c \in Int
  <2>1. j \in 1 .. Len(fs) + 1 /\ j \in Nat \ {0} /\ p + 1 \in Nat \ {0}
    BY <1>0
  <2>2. es[p + j] = fs[j]
    BY DEF Block
  <2>3. Level(es, p + j) = c + Level(fs, j)
    BY <2>1, LevelBlock
  <2>4. Level(fs, j) \in Int /\ c \in Int
    BY <2>1, LevelStep
  <2> QED BY <2>2, <2>3, <2>4
<1> HIDE DEF c
<1>5. g \in 1 .. Len(fs) /\ p + g \in 1 .. (p + i) - 1 /\ p + g \in DOMAIN es
  BY <1>0, <1>3
<1>6. p + g \in Up(es, p + i)
  <2>1. es[p + g].ev = "start"
    BY <1>3, <1>4, <1>5
  <2>2. Level(es, p + g) = Level(es, p + i) - 1
    <3>1. Level(es, p + g) = c + Level(fs, g) /\ Level(es, p + i) = c + Level(fs, i)
      BY <1>4, <1>5
    <3>2. Level(fs, i) \in Int /\ c \in Int
      BY <1>4
    <3> QED BY <1>3, <3>1, <3>2
  <2> QED BY <1>5, <2>1, <2>2 DEF Up
<1>7. ASSUME NEW m \in Up(es, p + i) PROVE m \in Int /\ m <= p + g
  <2>1. m \in 1 .. (p + i) - 1 /\ es[m].ev = "start" /\ Level(es, m) = Level(es, p + i) - 1
    BY DEF Up
  <2>2. CASE m <= p
    BY <1>3, <2>1, <2>2
  <2>3. CASE m > p
    <3> DEFINE j == m - p
    <3>1. j \in 1 .. i - 1 /\ m = p + j /\ j \in 1 .. Len(fs)
      BY <1>0, <2>1, <2>3
    <3> HIDE DEF j
    <3>2. fs[j].ev = "start"
      BY <1>4, <2>1, <3>1
    <3>3. Level(fs, j) = Level(fs, i) - 1
      <4>1. /\ Level(es, p + j) = c + Level(fs, j) /\ Level(es, p + i) = c + Level(fs, i)
            /\ Level(fs, j) \in Int /\ Level(fs, i) \in Int /\ c \in Int
        BY <1>4, <3>1
      <4>2. Level(es, p + j) = Level(es, p + i) - 1
        BY <2>1, <3>1
      <4> QED BY <4>1, <4>2
    <3>4. j \in Up(fs, i)
      BY <3>1, <3>2, <3>3 DEF Up
    <3>5. j <= g
      BY <1>2, <3>4
    <3> QED BY <1>3, <3>1, <3>5
  <2> QED BY <1>0, <2>1, <2>2, <2>3
<1>8. Greatest(Up(es, p + i)) = p + g
  BY <1>6, <1>7, GreatestOf
<1>9. es[p + g] = fs[g] /\ g \in DOMAIN fs
  BY <1>4, <1>5
<1> QED BY <1>5, <1>6, <1>8, <1>9 DEF g

\* What events say of elements and text: where they stand at the top, and what stands in what.
Noted(es) == {i \in 1 .. Len(es) : es[i].ev # "end"}
Tops(es) == {es[i].orig : i \in {j \in Noted(es) : Level(es, j) = 0}}
Nested(es) == {<<es[i].orig, es[Greatest(Up(es, i))].orig>> : i \in {j \in Noted(es) : Level(es, j) # 0}}

\* A balanced block at the top of a text says in it what it says alone.
LEMMA BlockSays ==
    ASSUME NEW T, Eventful(T), NEW es \in Seq(T), NEW fs \in Seq(T), NEW p \in Nat, Block(es, p, fs),
           Balanced(fs), Level(es, p + 1) = 0, NEW i \in 1 .. Len(fs)
    PROVE  /\ es[p + i] = fs[i] /\ p + i \in 1 .. Len(es) /\ Level(es, p + i) = Level(fs, i)
           /\ Level(fs, i) # 0 => es[Greatest(Up(es, p + i))] = fs[Greatest(Up(fs, i))]
<1>0. Len(es) \in Nat /\ Len(fs) \in Nat /\ i \in Nat \ {0} /\ i \in 1 .. Len(fs) + 1
  OBVIOUS
<1>1. es[p + i] = fs[i] /\ p + i \in 1 .. Len(es)
  BY <1>0 DEF Block
<1>2. Level(es, p + i) = Level(es, p + 1) + Level(fs, i)
  BY <1>0, LevelBlock
<1>3. Level(fs, i) \in Int
  BY <1>0, LevelStep
<1>4. ASSUME Level(fs, i) # 0 PROVE es[Greatest(Up(es, p + i))] = fs[Greatest(Up(fs, i))]
  <2>1. Up(fs, i) # {}
    BY <1>4, UpExists
  <2> QED BY <2>1, UpBlock
<1> QED BY <1>1, <1>2, <1>3, <1>4

\* Two balanced texts, one after the other.
LEMMA TwoBlocks ==
    ASSUME NEW T, Eventful(T), NEW A \in Seq(T), NEW B \in Seq(T), Balanced(A), Balanced(B)
    PROVE  /\ A \o B \in Seq(T) /\ Len(A \o B) = Len(A) + Len(B)
           /\ Block(A \o B, 0, A) /\ Block(A \o B, Len(A), B) /\ Level(A \o B, Len(A) + 1) = 0
           /\ Balanced(A \o B)
<1> DEFINE es == A \o B
           n == Len(A)
           k == Len(B)
<1>1. es \in Seq(T) /\ Len(es) = n + k /\ n \in Nat /\ k \in Nat
  OBVIOUS
<1>2. (\A i \in 1 .. n : es[i] = A[i]) /\ (\A i \in 1 .. k : es[n + i] = B[i])
  OBVIOUS
<1> HIDE DEF es
<1>3. Block(es, 0, A) /\ Block(es, n, B)
  <2>1. \A i \in 1 .. n : 0 + i = i
    BY <1>1
  <2> QED BY <1>1, <1>2, <2>1 DEF Block
<1>4. \A i \in 1 .. n + 1 : Level(es, i) = Level(A, i)
  <2> SUFFICES ASSUME NEW i \in 1 .. n + 1 PROVE Level(es, i) = Level(A, i)
    OBVIOUS
  <2>1. Level(es, 0 + i) = Level(es, 0 + 1) + Level(A, i)
    BY <1>1, <1>3, LevelBlock
  <2>2. 0 + i = i /\ 0 + 1 = 1 /\ i \in Nat \ {0}
    BY <1>1
  <2>3. Level(A, i) \in Int /\ Level(es, 1) = 0
    BY <2>2, LevelStep, LevelFirst
  <2> QED BY <2>1, <2>2, <2>3
<1>5. Level(es, n + 1) = 0
  BY <1>1, <1>4 DEF Balanced
<1>6. \A i \in 1 .. k + 1 : Level(es, n + i) = Level(B, i)
  <2> SUFFICES ASSUME NEW i \in 1 .. k + 1 PROVE Level(es, n + i) = Level(B, i)
    OBVIOUS
  <2>1. Level(es, n + i) = Level(es, n + 1) + Level(B, i)
    BY <1>1, <1>3, LevelBlock
  <2>2. Level(B, i) \in Int
    BY <1>1, LevelStep
  <2> QED BY <1>5, <2>1, <2>2
<1>7. Balanced(es)
  <2>1. Level(es, Len(es) + 1) = 0
    <3>1. k + 1 \in 1 .. k + 1 /\ Len(es) + 1 = n + (k + 1)
      BY <1>1
    <3> QED BY <1>6, <3>1 DEF Balanced
  <2>2. ASSUME NEW i \in 1 .. Len(es) + 1 PROVE Level(es, i) >= 0
    <3>1. CASE i <= n
      <4>1. i \in 1 .. n + 1
        BY <1>1, <3>1
      <4> QED BY <1>4, <4>1 DEF Balanced
    <3>2. CASE ~(i <= n)
      <4>1. i - n \in 1 .. k + 1 /\ i = n + (i - n)
        BY <1>1, <3>2
      <4> DEFINE j == i - n
      <4>2. j \in 1 .. k + 1 /\ i = n + j
        BY <4>1
      <4> HIDE DEF j
      <4> QED BY <1>6, <4>2 DEF Balanced
    <3> QED BY <3>1, <3>2
  <2> QED BY <2>1, <2>2 DEF Balanced
<1> QED BY <1>1, <1>3, <1>5, <1>7 DEF es

\* No text follows text.
Apart(es) == \A i \in 1 .. Len(es) - 1 : ~(es[i].ev = "text" /\ es[i + 1].ev = "text")

\* Together they say what each says.
LEMMA ConcatSays ==
    ASSUME NEW T, Eventful(T), NEW A \in Seq(T), NEW B \in Seq(T), Balanced(A), Balanced(B)
    PROVE  /\ Tops(A \o B) = Tops(A) \union Tops(B)
           /\ Nested(A \o B) = Nested(A) \union Nested(B)
<1> DEFINE es == A \o B
           n == Len(A)
           k == Len(B)
<1>1. es \in Seq(T) /\ Len(es) = n + k /\ n \in Nat /\ k \in Nat
  OBVIOUS
<1>2. Block(es, 0, A) /\ Block(es, n, B) /\ Level(es, n + 1) = 0
  BY TwoBlocks
<1> HIDE DEF es
<1>3. ASSUME NEW i \in 1 .. n
      PROVE  /\ es[i] = A[i] /\ i \in 1 .. Len(es) /\ Level(es, i) = Level(A, i)
             /\ Level(A, i) # 0 => es[Greatest(Up(es, i))] = A[Greatest(Up(A, i))]
  <2>1. Level(es, 0 + 1) = 0 /\ 0 + i = i /\ 0 \in Nat
    BY <1>1, LevelFirst
  <2>2. /\ es[0 + i] = A[i] /\ 0 + i \in 1 .. Len(es) /\ Level(es, 0 + i) = Level(A, i)
        /\ Level(A, i) # 0 => es[Greatest(Up(es, 0 + i))] = A[Greatest(Up(A, i))]
    BY <1>1, <1>2, <2>1, BlockSays
  <2> QED BY <2>1, <2>2
<1>4. ASSUME NEW i \in 1 .. k
      PROVE  /\ es[n + i] = B[i] /\ n + i \in 1 .. Len(es) /\ Level(es, n + i) = Level(B, i)
             /\ Level(B, i) # 0 => es[Greatest(Up(es, n + i))] = B[Greatest(Up(B, i))]
  BY <1>1, <1>2, BlockSays
<1>5. ASSUME NEW i \in 1 .. Len(es) PROVE i \in 1 .. n \/ \E j \in 1 .. k : i = n + j
  <2>1. CASE i <= n
    BY <1>1, <2>1
  <2>2. CASE ~(i <= n)
    <3>1. i - n \in 1 .. k /\ i = n + (i - n)
      BY <1>1, <2>2
    <3> QED BY <3>1
  <2> QED BY <2>1, <2>2
<1> DEFINE pair(s, i) == <<s[i].orig, s[Greatest(Up(s, i))].orig>>
           F(s) == {i \in Noted(s) : Level(s, i) = 0}
           G(s) == {i \in Noted(s) : Level(s, i) # 0}
<1>6. /\ \A i \in F(A) : i \in F(es) /\ es[i].orig = A[i].orig
      /\ \A i \in G(A) : i \in G(es) /\ pair(es, i) = pair(A, i)
  BY <1>3 DEF Noted
<1>7. /\ \A i \in F(B) : n + i \in F(es) /\ es[n + i].orig = B[i].orig
      /\ \A i \in G(B) : n + i \in G(es) /\ pair(es, n + i) = pair(B, i)
  BY <1>4 DEF Noted
<1>8. /\ \A i \in F(es) : i \in F(A) \/ \E j \in F(B) : i = n + j
      /\ \A i \in G(es) : i \in G(A) \/ \E j \in G(B) : i = n + j
  <2> SUFFICES ASSUME NEW i \in 1 .. Len(es)
               PROVE  /\ i \in F(es) => i \in F(A) \/ \E j \in F(B) : i = n + j
                      /\ i \in G(es) => i \in G(A) \/ \E j \in G(B) : i = n + j
    BY DEF Noted
  <2>1. CASE i \in 1 .. n
    BY <1>3, <2>1 DEF Noted
  <2>2. CASE \E j \in 1 .. k : i = n + j
    <3>1. PICK j \in 1 .. k : i = n + j
      BY <2>2
    <3> QED BY <1>4, <3>1 DEF Noted
  <2> QED BY <1>5, <2>1, <2>2
<1>9. \A s : Tops(s) = {s[i].orig : i \in F(s)} /\ Nested(s) = {pair(s, i) : i \in G(s)}
  BY DEF Tops, Nested
<1> HIDE DEF F, G, pair
<1>10. Tops(es) = Tops(A) \union Tops(B)
  <2>1. ASSUME NEW x \in Tops(es) PROVE x \in Tops(A) \union Tops(B)
    <3>1. PICK i \in F(es) : x = es[i].orig
      BY <1>9
    <3>2. CASE i \in F(A)
      BY <1>6, <1>9, <3>1, <3>2
    <3>3. CASE \E j \in F(B) : i = n + j
      BY <1>7, <1>9, <3>1, <3>3
    <3> QED BY <1>8, <3>2, <3>3
  <2>2. ASSUME NEW x \in Tops(A) PROVE x \in Tops(es)
    BY <1>6, <1>9
  <2>3. ASSUME NEW x \in Tops(B) PROVE x \in Tops(es)
    BY <1>7, <1>9
  <2> QED BY <2>1, <2>2, <2>3
<1>11. Nested(es) = Nested(A) \union Nested(B)
  <2>1. ASSUME NEW x \in Nested(es) PROVE x \in Nested(A) \union Nested(B)
    <3>1. PICK i \in G(es) : x = pair(es, i)
      BY <1>9
    <3>2. CASE i \in G(A)
      BY <1>6, <1>9, <3>1, <3>2
    <3>3. CASE \E j \in G(B) : i = n + j
      BY <1>7, <1>9, <3>1, <3>3
    <3> QED BY <1>8, <3>2, <3>3
  <2>2. ASSUME NEW x \in Nested(A) PROVE x \in Nested(es)
    BY <1>6, <1>9
  <2>3. ASSUME NEW x \in Nested(B) PROVE x \in Nested(es)
    BY <1>7, <1>9
  <2> QED BY <2>1, <2>2, <2>3
<1> QED BY <1>10, <1>11 DEF es

\* Text meets text only at the border.
LEMMA ConcatApart ==
    ASSUME NEW T, NEW A \in Seq(T), NEW B \in Seq(T), Apart(A), Apart(B),
           A # <<>> /\ B # <<>> => ~(A[Len(A)].ev = "text" /\ B[1].ev = "text")
    PROVE  Apart(A \o B)
<1> DEFINE es == A \o B
           n == Len(A)
           k == Len(B)
<1>1. es \in Seq(T) /\ Len(es) = n + k /\ n \in Nat /\ k \in Nat
  OBVIOUS
<1>2. (\A i \in 1 .. n : es[i] = A[i]) /\ (\A i \in 1 .. k : es[n + i] = B[i])
  OBVIOUS
<1>3. (n # 0 => A # <<>>) /\ (k # 0 => B # <<>>)
  OBVIOUS
<1> HIDE DEF es
<1> SUFFICES ASSUME NEW i \in 1 .. Len(es) - 1 PROVE ~(es[i].ev = "text" /\ es[i + 1].ev = "text")
  BY DEF Apart, es
<1>4. CASE i < n
  <2>1. i \in 1 .. n - 1 /\ i \in 1 .. n /\ i + 1 \in 1 .. n
    BY <1>1, <1>4
  <2> QED BY <1>2, <2>1 DEF Apart
<1>5. CASE i = n
  <2>1. n \in 1 .. n /\ 1 \in 1 .. k /\ n # 0 /\ k # 0
    BY <1>1, <1>5
  <2>2. es[i] = A[n] /\ es[i + 1] = B[1]
    BY <1>2, <1>5, <2>1
  <2> QED BY <1>3, <2>1, <2>2
<1>6. CASE i > n
  <2> DEFINE j == i - n
  <2>1. j \in 1 .. k - 1 /\ j \in 1 .. k /\ j + 1 \in 1 .. k /\ i = n + j /\ i + 1 = n + (j + 1)
    BY <1>1, <1>6
  <2> HIDE DEF j
  <2>2. es[i] = B[j] /\ es[i + 1] = B[j + 1]
    BY <1>2, <2>1
  <2> QED BY <2>1, <2>2 DEF Apart
<1> QED BY <1>1, <1>4, <1>5, <1>6

\* A tag around events.
Around(s, A, e) == <<s>> \o A \o <<e>>

\* A tag around a balanced text: what stood at the top stands in the tag.
LEMMA WrapSays ==
    ASSUME NEW T, NEW s \in T, NEW e \in T, NEW A \in Seq(T),
           Eventful(T), s.ev = "start", e.ev = "end", Balanced(A), Apart(A)
    PROVE  /\ Around(s, A, e) \in Seq(T) /\ Len(Around(s, A, e)) = Len(A) + 2
           /\ Around(s, A, e)[1] = s /\ Around(s, A, e)[Len(Around(s, A, e))] = e
           /\ Balanced(Around(s, A, e)) /\ Apart(Around(s, A, e))
           /\ \A i \in Noted(Around(s, A, e)) : Level(Around(s, A, e), i) = 0 => i = 1
           /\ Tops(Around(s, A, e)) = {s.orig}
           /\ Nested(Around(s, A, e)) = Nested(A) \union {<<o, s.orig>> : o \in Tops(A)}
<1> DEFINE es == Around(s, A, e)
           n == Len(A)
<1>1. es \in Seq(T) /\ Len(es) = n + 2 /\ n \in Nat
  BY DEF Around
<1>2. es[1] = s /\ es[n + 2] = e /\ \A i \in 1 .. n : es[1 + i] = A[i]
  BY DEF Around
<1> HIDE DEF es
<1>3. Block(es, 1, A)
  BY <1>1, <1>2 DEF Block
<1>4. Level(es, 1) = 0 /\ Level(es, 2) = 1
  <2>1. Level(es, 1) = 0
    BY LevelFirst
  <2>2. Level(es, 1 + 1) = Level(es, 1) + 1
    BY <1>2, LevelStep
  <2> QED BY <2>1, <2>2
<1>5. \A i \in 1 .. n + 1 : Level(es, 1 + i) = 1 + Level(A, i) /\ Level(A, i) \in Int /\ Level(A, i) >= 0
  <2> SUFFICES ASSUME NEW i \in 1 .. n + 1
               PROVE  Level(es, 1 + i) = 1 + Level(A, i) /\ Level(A, i) \in Int /\ Level(A, i) >= 0
    OBVIOUS
  <2>1. Level(es, 1 + i) = Level(es, 1 + 1) + Level(A, i)
    BY <1>1, <1>3, LevelBlock
  <2>2. Level(A, i) \in Int
    BY <1>1, LevelStep
  <2>3. Level(A, i) >= 0
    BY DEF Balanced
  <2>4. Level(es, 1 + 1) = 1
    BY <1>4
  <2> QED BY <2>1, <2>2, <2>3, <2>4
<1>6. Level(es, n + 2) = 1
  <2>1. n + 1 \in 1 .. n + 1 /\ n + 2 = 1 + (n + 1)
    BY <1>1
  <2>2. Level(A, n + 1) = 0
    BY DEF Balanced
  <2>3. Level(es, 1 + (n + 1)) = 1 + Level(A, n + 1)
    BY <1>5, <2>1
  <2> QED BY <2>1, <2>2, <2>3
<1>7. Level(es, n + 3) = 0
  <2>1. n + 2 \in Nat \ {0} /\ (n + 2) + 1 = n + 3
    BY <1>1
  <2>2. Level(es, (n + 2) + 1) = Level(es, n + 2) - 1
    BY <1>2, <2>1, LevelStep
  <2> QED BY <1>6, <2>1, <2>2
<1>8. ASSUME NEW i \in 1 .. Len(es) PROVE i = 1 \/ i = n + 2 \/ \E j \in 1 .. n : i = 1 + j
  <2>1. CASE i # 1 /\ i # n + 2
    <3>1. i - 1 \in 1 .. n /\ i = 1 + (i - 1)
      BY <1>1, <2>1
    <3> QED BY <3>1
  <2> QED BY <2>1
<1>9. Balanced(es)
  <2>1. ASSUME NEW i \in 1 .. Len(es) + 1 PROVE Level(es, i) >= 0
    <3>1. CASE i \in 1 .. Len(es)
      <4>1. CASE \E j \in 1 .. n : i = 1 + j
        <5>1. PICK j \in 1 .. n : i = 1 + j
          BY <4>1
        <5>2. j \in 1 .. n + 1
          BY <1>1
        <5> QED BY <1>5, <5>1, <5>2
      <4> QED BY <1>4, <1>6, <1>8, <3>1, <4>1
    <3>2. CASE i = n + 3
      BY <1>7, <3>2
    <3> QED BY <1>1, <3>1, <3>2
  <2>2. Len(es) + 1 = n + 3
    BY <1>1
  <2> QED BY <1>7, <2>1, <2>2 DEF Balanced
<1>10. Apart(es)
  <2> SUFFICES ASSUME NEW i \in 1 .. Len(es) - 1 PROVE ~(es[i].ev = "text" /\ es[i + 1].ev = "text")
    BY DEF Apart
  <2>1. CASE i = 1
    BY <1>2, <2>1
  <2>2. CASE i = n + 1
    BY <1>1, <1>2, <2>2
  <2>3. CASE i # 1 /\ i # n + 1
    <3> DEFINE j == i - 1
    <3>1. j \in 1 .. n - 1 /\ j \in 1 .. n /\ j + 1 \in 1 .. n /\ i = 1 + j /\ i + 1 = 1 + (j + 1)
      BY <1>1, <2>3
    <3> HIDE DEF j
    <3>2. es[i] = A[j] /\ es[i + 1] = A[j + 1]
      BY <1>2, <3>1
    <3> QED BY <3>1, <3>2 DEF Apart
  <2> QED BY <2>1, <2>2, <2>3
<1>11. \A i \in Noted(es) : i = 1 \/ \E j \in Noted(A) : i = 1 + j
  <2> SUFFICES ASSUME NEW i \in Noted(es) PROVE i = 1 \/ \E j \in Noted(A) : i = 1 + j
    OBVIOUS
  <2>1. i \in 1 .. Len(es) /\ es[i].ev # "end"
    BY DEF Noted
  <2>2. i # n + 2
    BY <1>2, <2>1
  <2>3. CASE \E j \in 1 .. n : i = 1 + j
    BY <1>2, <2>1, <2>3 DEF Noted
  <2> QED BY <1>8, <2>1, <2>2, <2>3
<1>12. 1 \in Noted(es) /\ \A j \in Noted(A) : 1 + j \in Noted(es)
  BY <1>1, <1>2 DEF Noted
<1>13. \A j \in Noted(A) : /\ Level(es, 1 + j) # 0 /\ es[1 + j] = A[j]
                           /\ Level(A, j) # 0 => es[Greatest(Up(es, 1 + j))] = A[Greatest(Up(A, j))]
                           /\ Level(A, j) = 0 => es[Greatest(Up(es, 1 + j))] = s
  <2> SUFFICES ASSUME NEW j \in Noted(A)
               PROVE  /\ Level(es, 1 + j) # 0 /\ es[1 + j] = A[j]
                      /\ Level(A, j) # 0 => es[Greatest(Up(es, 1 + j))] = A[Greatest(Up(A, j))]
                      /\ Level(A, j) = 0 => es[Greatest(Up(es, 1 + j))] = s
    OBVIOUS
  <2>1. j \in 1 .. n /\ j \in 1 .. n + 1 /\ j \in Nat \ {0}
    BY <1>1 DEF Noted
  <2>2. Level(es, 1 + j) = 1 + Level(A, j) /\ Level(A, j) \in Int /\ Level(A, j) >= 0
    BY <1>5, <2>1
  <2>3. ASSUME Level(A, j) # 0 PROVE es[Greatest(Up(es, 1 + j))] = A[Greatest(Up(A, j))]
    <3>1. Up(A, j) # {}
      BY <2>1, <2>3, UpExists
    <3> QED BY <1>1, <1>3, <2>1, <3>1, UpBlock
  <2>4. ASSUME Level(A, j) = 0 PROVE es[Greatest(Up(es, 1 + j))] = s
    <3>1. Level(es, 1 + j) - 1 = 0
      BY <2>2, <2>4
    <3>2. 1 \in Up(es, 1 + j)
      <4>1. 1 \in 1 .. (1 + j) - 1
        BY <2>1
      <4> QED BY <1>2, <1>4, <3>1, <4>1 DEF Up
    <3>3. ASSUME NEW h \in Up(es, 1 + j) PROVE h \in Int /\ h <= 1
      <4>1. h \in 1 .. (1 + j) - 1 /\ Level(es, h) = 0
        BY <3>1 DEF Up
      <4>2. CASE h # 1
        <5> DEFINE l == h - 1
        <5>1. l \in 1 .. n + 1 /\ h = 1 + l
          BY <1>1, <2>1, <4>1, <4>2
        <5> HIDE DEF l
        <5>2. Level(es, 1 + l) = 1 + Level(A, l) /\ Level(A, l) \in Int /\ Level(A, l) >= 0
          BY <1>5, <5>1
        <5> QED BY <4>1, <5>1, <5>2
      <4> QED BY <4>1, <4>2
    <3>4. Greatest(Up(es, 1 + j)) = 1
      BY <3>2, <3>3, GreatestOf
    <3> QED BY <1>2, <3>4
  <2>5. Level(es, 1 + j) # 0
    BY <2>2
  <2> QED BY <1>2, <2>1, <2>3, <2>4, <2>5
<1>14. \A i \in Noted(es) : Level(es, i) = 0 => i = 1
  BY <1>11, <1>13
<1>15. Tops(es) = {s.orig}
  <2>1. {j \in Noted(es) : Level(es, j) = 0} = {1}
    BY <1>4, <1>12, <1>14
  <2> QED BY <1>2, <2>1 DEF Tops
<1> DEFINE pair(t, i) == <<t[i].orig, t[Greatest(Up(t, i))].orig>>
           G(t) == {i \in Noted(t) : Level(t, i) # 0}
<1>16. \A i \in G(es) : \E j \in Noted(A) : i = 1 + j
  BY <1>4, <1>11
<1>17. \A j \in Noted(A) : /\ 1 + j \in G(es)
                           /\ Level(A, j) # 0 => j \in G(A) /\ pair(es, 1 + j) = pair(A, j)
                           /\ Level(A, j) = 0 => pair(es, 1 + j) = <<A[j].orig, s.orig>>
  BY <1>12, <1>13
<1>18. \A t : Nested(t) = {pair(t, i) : i \in G(t)}
  BY DEF Nested
<1>19. \A o : o \in Tops(A) <=> \E j \in Noted(A) : Level(A, j) = 0 /\ o = A[j].orig
  BY DEF Tops
<1>20. \A j \in G(A) : j \in Noted(A) /\ Level(A, j) # 0
  OBVIOUS
<1> HIDE DEF pair, G
<1>21. Nested(es) = Nested(A) \union {<<o, s.orig>> : o \in Tops(A)}
  <2>1. ASSUME NEW x \in Nested(es) PROVE x \in Nested(A) \union {<<o, s.orig>> : o \in Tops(A)}
    <3>1. PICK i \in G(es) : x = pair(es, i)
      BY <1>18
    <3>2. PICK j \in Noted(A) : i = 1 + j
      BY <1>16
    <3>3. CASE Level(A, j) # 0
      BY <1>17, <1>18, <3>1, <3>2, <3>3
    <3>4. CASE Level(A, j) = 0
      BY <1>17, <1>19, <3>1, <3>2, <3>4
    <3> QED BY <3>3, <3>4
  <2>2. ASSUME NEW x \in Nested(A) PROVE x \in Nested(es)
    <3>1. PICK j \in G(A) : x = pair(A, j)
      BY <1>18
    <3> QED BY <1>17, <1>18, <1>20, <3>1
  <2>3. ASSUME NEW o \in Tops(A) PROVE <<o, s.orig>> \in Nested(es)
    <3>1. PICK j \in Noted(A) : Level(A, j) = 0 /\ o = A[j].orig
      BY <1>19
    <3> QED BY <1>17, <1>18, <3>1
  <2> QED BY <2>1, <2>2, <2>3
<1>22. es[Len(es)] = e
  BY <1>1, <1>2
<1> QED BY <1>1, <1>2, <1>9, <1>10, <1>14, <1>15, <1>21, <1>22 DEF es

\* FlattenSeq, one sequence after the other.
LEMMA FlattenSteps ==
    ASSUME NEW T, NEW ss \in Seq(Seq(T))
    PROVE  \E b : /\ b[0] = <<>> /\ FlattenSeq(ss) = b[Len(ss)]
                  /\ \A k \in 0 .. Len(ss) - 1 : b[k + 1] = b[k] \o ss[k + 1]
<1> DEFINE n == Len(ss)
<1>1. CASE n = 0
  <2> DEFINE b == [k \in {0} |-> <<>>]
  <2>1. ss = <<>> /\ FlattenSeq(ss) = ss
    BY <1>1 DEF FlattenSeq
  <2>2. b[0] = <<>> /\ FlattenSeq(ss) = b[Len(ss)] /\ 0 .. Len(ss) - 1 = {}
    BY <1>1, <2>1
  <2> QED BY <2>2
<1>2. CASE n # 0
  <2> DEFINE a == CHOOSE x : Joining(ss, n, x)
             b == [k \in 0 .. n |-> IF k = 0 THEN <<>> ELSE a[k]]
  <2>1. n \in Nat /\ n # 0
    BY <1>2
  <2>2. Joining(ss, n, a)
    BY <2>1, JoiningExists
  <2>3. FlattenSeq(ss) = a[n]
    BY <1>2 DEF FlattenSeq, Joining
  <2> HIDE DEF a
  <2>4. \A i \in 1 .. n : a[i] = IF i = 1 THEN ss[i] ELSE a[i - 1] \o ss[i]
    BY <2>2 DEF Joining
  <2>5. ASSUME NEW k \in 0 .. n - 1 PROVE b[k + 1] = b[k] \o ss[k + 1]
    <3>1. k + 1 \in 1 .. n /\ k \in 0 .. n /\ k + 1 \in 0 .. n /\ k + 1 # 0 /\ (k + 1) - 1 = k
      BY <2>1
    <3>2. b[k + 1] = a[k + 1]
      BY <3>1
    <3>3. CASE k = 0
      <4>1. ss[1] \in Seq(T)
        BY <3>1, <3>3
      <4>2. a[1] = ss[1] /\ b[0] = <<>>
        BY <2>1, <2>4
      <4>3. <<>> \o ss[1] = ss[1]
        BY <4>1
      <4> QED BY <3>2, <3>3, <4>2, <4>3, SMTT(30)
    <3>4. CASE k # 0
      <4>1. b[k] = a[k]
        BY <3>1, <3>4
      <4> HIDE DEF b
      <4> DEFINE i == k + 1
      <4>2. i \in 1 .. n /\ i # 1 /\ i - 1 = k
        BY <2>1, <3>4
      <4> HIDE DEF i
      <4>3. a[i] = a[i - 1] \o ss[i]
        BY <2>4, <4>2
      <4>4. a[i] = a[k] \o ss[i]
        BY <4>2, <4>3
      <4> QED BY <3>2, <4>1, <4>4 DEF i
    <3> QED BY <3>3, <3>4
  <2>6. b[0] = <<>> /\ FlattenSeq(ss) = b[Len(ss)]
    BY <2>1, <2>3
  <2> QED BY <2>5, <2>6
<1> QED BY <1>1, <1>2

\* What stands below a node, with the node it stands in.
Below(d, n) == {<<d[m].orig, d[d[m].p].orig>> : m \in {l \in Subtree(d, n) \ {n} : d[l].k # "comment"}}

\* A node below another one is a child of it or below a child.
LEMMA ChildAbove ==
    ASSUME NEW d, DocumentOK(d), TreeOK(d), NEW n \in Nodes(d), NEW m \in Nodes(d),
           n \in AncestorsOrSelf(d, m), m # n
    PROVE  \E c \in Children(d, n) : c \in AncestorsOrSelf(d, m)
<1> DEFINE Good(l) == n \in AncestorsOrSelf(d, l) /\ l # n => \E c \in Children(d, n) : c \in AncestorsOrSelf(d, l)
           Bad == {l \in Nodes(d) : ~Good(l)}
<1>0. Len(d) \in Nat /\ Nodes(d) = 1 .. Len(d)
  BY DEF DocumentOK
<1>1. ASSUME Bad # {} PROVE FALSE
  <2>0. Bad \in SUBSET Nat
    BY <1>0
  <2>1. PICK l \in Bad : \A j \in Bad : l <= j
    BY <1>1, <2>0, LeastExists
  <2>2. l \in Nodes(d) /\ n \in AncestorsOrSelf(d, l) /\ l # n
    BY <2>1
  <2>3. AncestorsOrSelf(d, l) = {l} \union (IF d[l].p = 0 THEN {} ELSE AncestorsOrSelf(d, d[l].p))
    BY <1>0, <2>2, AncestorsStep
  <2>4. l # 1
    <3>1. CASE l = 1
      <4>1. d[l].p = 0
        BY <2>2, <3>1 DEF TreeOK
      <4> QED BY <2>2, <2>3, <4>1
    <3> QED BY <3>1
  <2>5. d[l].p \in Nodes(d) /\ d[l].p < l /\ d[l].p # 0 /\ l \in Nat /\ d[l].p \in Nat
    BY <1>0, <2>2, <2>4, ParentOK
  <2>6. n \in AncestorsOrSelf(d, d[l].p) /\ AncestorsOrSelf(d, d[l].p) \subseteq AncestorsOrSelf(d, l)
    BY <2>2, <2>3, <2>5
  <2>7. Good(d[l].p)
    BY <2>1, <2>5
  <2>8. CASE d[l].p = n
    <3>1. l \in Children(d, n) /\ l \in AncestorsOrSelf(d, l)
      BY <2>2, <2>3, <2>8 DEF Children
    <3> QED BY <2>1, <3>1
  <2>9. CASE d[l].p # n
    BY <2>1, <2>6, <2>7, <2>9
  <2> QED BY <2>8, <2>9
<1> QED BY <1>1

\* Above what is above a child is its parent.
LEMMA ParentAbove ==
    ASSUME NEW d, DocumentOK(d), TreeOK(d), NEW n \in Nodes(d), NEW c \in Children(d, n), NEW m \in Nodes(d),
           c \in AncestorsOrSelf(d, m)
    PROVE  n \in AncestorsOrSelf(d, m) /\ m # n /\ n < c
<1> DEFINE Good(l) == c \in AncestorsOrSelf(d, l) => n \in AncestorsOrSelf(d, l)
           Bad == {l \in Nodes(d) : ~Good(l)}
<1>0. Len(d) \in Nat /\ Nodes(d) = 1 .. Len(d)
  BY DEF DocumentOK
<1>c. c \in Nodes(d) /\ d[c].p = n /\ n < c /\ n # 0 /\ c \in Nat /\ n \in Nat
  <2>1. c \in Nodes(d) /\ d[c].p = n
    BY DEF Children
  <2>2. c # 1
    BY <1>0, <2>1 DEF TreeOK
  <2> QED BY <1>0, <2>1, <2>2, ParentOK
<1>n. n \in AncestorsOrSelf(d, n)
  BY <1>0, AncestorsStep
<1>1. ASSUME Bad # {} PROVE FALSE
  <2>0. Bad \in SUBSET Nat
    BY <1>0
  <2>1. PICK l \in Bad : \A j \in Bad : l <= j
    BY <1>1, <2>0, LeastExists
  <2>2. l \in Nodes(d) /\ c \in AncestorsOrSelf(d, l) /\ n \notin AncestorsOrSelf(d, l)
    BY <2>1
  <2>3. AncestorsOrSelf(d, l) = {l} \union (IF d[l].p = 0 THEN {} ELSE AncestorsOrSelf(d, d[l].p))
    BY <1>0, <2>2, AncestorsStep
  <2>4. CASE l = c
    <3>1. AncestorsOrSelf(d, l) = {l} \union AncestorsOrSelf(d, n)
      BY <1>c, <2>3, <2>4
    <3> QED BY <1>n, <2>2, <3>1
  <2>5. CASE l # c
    <3>1. l # 1
      <4>1. CASE l = 1
        <5>1. d[l].p = 0
          BY <2>2, <4>1 DEF TreeOK
        <5> QED BY <2>2, <2>3, <2>5, <5>1
      <4> QED BY <4>1
    <3>2. d[l].p \in Nodes(d) /\ d[l].p < l /\ d[l].p # 0 /\ l \in Nat /\ d[l].p \in Nat
      BY <1>0, <2>2, <3>1, ParentOK
    <3>3. c \in AncestorsOrSelf(d, d[l].p) /\ AncestorsOrSelf(d, d[l].p) \subseteq AncestorsOrSelf(d, l)
      BY <2>2, <2>3, <2>5, <3>2
    <3>4. Good(d[l].p)
      BY <2>1, <3>2
    <3> QED BY <2>2, <3>3, <3>4
  <2> QED BY <2>4, <2>5
<1>2. n \in AncestorsOrSelf(d, m)
  BY <1>1
<1>3. c \in 1 .. m
  BY <1>0, AncestorsOK
<1> QED BY <1>0, <1>c, <1>2, <1>3

\* What stands below a node: its children, and what stands below them.
LEMMA BelowStep ==
    ASSUME NEW d, DocumentOK(d), TreeOK(d), NEW n \in Nodes(d)
    PROVE  Below(d, n) = {<<d[c].orig, d[n].orig>> : c \in {k \in Children(d, n) : d[k].k # "comment"}}
                            \union UNION {Below(d, c) : c \in Children(d, n)}
<1>0. Len(d) \in Nat /\ Nodes(d) = 1 .. Len(d)
  BY DEF DocumentOK
<1>s. \A l \in Nodes(d) : l \in AncestorsOrSelf(d, l)
  BY <1>0, AncestorsStep
<1>c. \A c \in Children(d, n) : c \in Nodes(d) /\ d[c].p = n
  BY DEF Children
<1>1. ASSUME NEW m \in Subtree(d, n) \ {n}, d[m].k # "comment"
      PROVE  \/ m \in Children(d, n)
             \/ \E c \in Children(d, n) : <<d[m].orig, d[d[m].p].orig>> \in Below(d, c)
  <2>1. m \in Nodes(d) /\ n \in AncestorsOrSelf(d, m) /\ m # n
    BY DEF Subtree
  <2>2. PICK c \in Children(d, n) : c \in AncestorsOrSelf(d, m)
    BY <2>1, ChildAbove
  <2>3. CASE m # c
    <3>1. m \in Subtree(d, c) \ {c}
      BY <2>1, <2>2, <2>3 DEF Subtree
    <3> QED BY <1>1, <3>1 DEF Below
  <2> QED BY <2>2, <2>3
<1>2. ASSUME NEW c \in Children(d, n), d[c].k # "comment" PROVE <<d[c].orig, d[n].orig>> \in Below(d, n)
  <2>1. n \in AncestorsOrSelf(d, c) /\ c # n
    BY <1>s, <1>c, ParentAbove
  <2>2. c \in Subtree(d, n) \ {n}
    BY <1>c, <2>1 DEF Subtree
  <2> QED BY <1>2, <1>c, <2>2 DEF Below
<1>3. ASSUME NEW c \in Children(d, n), NEW x \in Below(d, c) PROVE x \in Below(d, n)
  <2>1. PICK m \in Subtree(d, c) \ {c} : d[m].k # "comment" /\ x = <<d[m].orig, d[d[m].p].orig>>
    BY DEF Below
  <2>2. m \in Nodes(d) /\ c \in AncestorsOrSelf(d, m)
    BY DEF Subtree
  <2>3. n \in AncestorsOrSelf(d, m) /\ m # n
    BY <2>2, ParentAbove
  <2>4. m \in Subtree(d, n) \ {n}
    BY <2>2, <2>3 DEF Subtree
  <2> QED BY <2>1, <2>4 DEF Below
<1>4. ASSUME NEW x \in Below(d, n)
      PROVE  x \in {<<d[c].orig, d[n].orig>> : c \in {k \in Children(d, n) : d[k].k # "comment"}}
                      \union UNION {Below(d, c) : c \in Children(d, n)}
  <2>1. PICK m \in Subtree(d, n) \ {n} : d[m].k # "comment" /\ x = <<d[m].orig, d[d[m].p].orig>>
    BY DEF Below
  <2>2. CASE m \in Children(d, n)
    BY <1>c, <2>1, <2>2
  <2>3. CASE \E c \in Children(d, n) : <<d[m].orig, d[d[m].p].orig>> \in Below(d, c)
    BY <2>1, <2>3
  <2> QED BY <1>1, <2>1, <2>2, <2>3
<1> HIDE DEF Below
<1>5. \A c \in {k \in Children(d, n) : d[k].k # "comment"} : <<d[c].orig, d[n].orig>> \in Below(d, n)
  BY <1>2
<1>6. \A c \in Children(d, n) : Below(d, c) \subseteq Below(d, n)
  BY <1>3
<1>7. Below(d, n) \subseteq {<<d[c].orig, d[n].orig>> : c \in {k \in Children(d, n) : d[k].k # "comment"}}
                                \union UNION {Below(d, c) : c \in Children(d, n)}
  BY <1>4
<1> QED BY <1>5, <1>6, <1>7

\* The events a copy of a document is written with.
CopyEvents(d) == {EndTag} \union {TextOf(d[n].orig) : n \in {k \in Nodes(d) : d[k].k = "text"}}
                          \union {CopyTag(d, n) : n \in {k \in Nodes(d) : IsElem(d, k)}}

\* They are events.
LEMMA CopyEventful == ASSUME NEW d PROVE Eventful(CopyEvents(d))
<1>1. EndTag.ev = "end" /\ (\A n : TextOf(d[n].orig).ev = "text") /\ (\A n : CopyTag(d, n).ev = "start")
  BY DEF EndTag, TextOf, CopyTag, StartTag
<1> QED BY <1>1 DEF Eventful, CopyEvents

\* What a body of one instruction names.
LEMMA OnlyOne == ASSUME NEW T, NEW b \in Seq(T), Len(b) = 1 PROVE b[1] \in T
OBVIOUS

\* A body of one instruction.
LEMMA RunOne ==
    ASSUME NEW f, NEW n, NEW T, NEW b \in Seq(T), Len(b) = 1
    PROVE  Run(f, n, b) = f[<<n, b[1]>>]
<1> DEFINE ss == [j \in DOMAIN b |-> f[<<n, b[j]>>]]
           a == CHOOSE x : Joining(ss, 1, x)
<1>1. DOMAIN b = 1 .. 1
  OBVIOUS
<1>2. ss = [j \in 1 .. 1 |-> ss[j]] /\ ss[1] = f[<<n, b[1]>>]
  BY <1>1
<1> HIDE DEF ss
<1>3. Len(ss) = 1
  BY <1>2, SeqLen
<1>4. Joining(ss, 1, a)
  BY JoiningExists
<1>5. FlattenSeq(ss) = a[1]
  BY <1>3 DEF FlattenSeq, Joining
<1> HIDE DEF a
<1>6. a[1] = ss[1]
  BY <1>4 DEF Joining
<1> QED BY <1>2, <1>5, <1>6 DEF Run, ss

\* What the interpreter writes, as a solution of its recursion.
Interprets(d, s, f) == \A q \in Spots(d, s) : f[q] = Line(d, s, f, q[1], q[2])

\* A copy at node n: a tag around what its children give, the text, nothing.
CopyLine(d, f, n) ==
    /\ IsElem(d, n) => f[<<n, 0>>] = <<CopyTag(d, n)>> \o ApplyTo(f, AllChildren(d, n)) \o <<EndTag>>
    /\ d[n].k = "text" => f[<<n, 0>>] = <<TextOf(d[n].orig)>>
    /\ d[n].k = "comment" => f[<<n, 0>>] = <<>>

\* What a stylesheet that copies writes at each node.
LEMMA CopyLines ==
    ASSUME NEW d, NEW s, NEW f, NEW n \in Nodes(d), SheetOK(s), Copies(s, d), Copyable(s, d),
           Interprets(d, s, f)
    PROVE  CopyLine(d, f, n)
<1> DEFINE t == find_matching_template(d, n, s)
           b == s.templates[t].body
<1>0. Len(s.code) \in Nat /\ DOMAIN s.code = 1 .. Len(s.code)
  BY DEF SheetOK
<1>1. ASSUME NEW i \in 0 .. Len(s.code) PROVE f[<<n, i>>] = Line(d, s, f, n, i)
  <2>1. <<n, i>> \in Spots(d, s)
    BY DEF Spots
  <2> QED BY <2>1 DEF Interprets
<1>2. f[<<n, 0>>] = IF t # 0 THEN Run(f, n, b)
                    ELSE IF d[n].k = "text"
                    THEN (IF IsBlank(d, n, s) /\ d[d[n].p].local \in s.strip THEN <<>> ELSE <<TextOf(d[n].orig)>>)
                    ELSE IF IsElem(d, n) THEN ApplyTo(f, AllChildren(d, n)) ELSE <<>>
  <2>0. 0 \in 0 .. Len(s.code)
    BY <1>0
  <2>1. f[<<n, 0>>] = Line(d, s, f, n, 0)
    BY <1>1, <2>0
  <2> QED BY <2>1 DEF Line, xslt_apply_templates_to_node
<1>3. ASSUME IsElem(d, n)
      PROVE  f[<<n, 0>>] = <<CopyTag(d, n)>> \o ApplyTo(f, AllChildren(d, n)) \o <<EndTag>>
  <2> DEFINE i == b[1]
             c == s.code[i]
             j == c.body[1]
  <2>1. t # 0 /\ Len(b) = 1 /\ c.op = "copy" /\ Len(c.body) = 1 /\ s.code[j] = [op |-> "apply", select |-> ""]
    BY <1>3, Zenon DEF Copies
  <2>2. b \in Seq(1 .. Len(s.code))
    <3>1. 0 \in 0 .. Len(s.code)
      BY <1>0
    <3> QED BY <2>1, <3>1, UsesBody, Zenon
  <2>3. i \in 1 .. Len(s.code)
    BY <2>1, <2>2, OnlyOne, Zenon
  <2>4. c.body \in Seq((i + 1) .. Len(s.code))
    BY <2>1, <2>3, Zenon DEF SheetOK
  <2>5. j \in 1 .. Len(s.code)
    <3>1. j \in (i + 1) .. Len(s.code)
      BY <2>1, <2>4, OnlyOne, Zenon
    <3> HIDE DEF i, j
    <3> QED BY <1>0, <2>3, <3>1
  <2>6. f[<<n, 0>>] = f[<<n, i>>]
    <3>1. b \in Seq(1 .. Len(s.code)) /\ Len(b) = 1
      BY <2>1, <2>2
    <3> HIDE DEF b, i, c, j
    <3>2. Run(f, n, b) = f[<<n, b[1]>>]
      BY <3>1, RunOne
    <3>3. f[<<n, 0>>] = Run(f, n, b)
      <4>1. t # 0
        BY <2>1
      <4> HIDE DEF t
      <4> QED BY <1>2, <4>1
    <3> QED BY <3>2, <3>3 DEF i
  <2>7. f[<<n, i>>] = <<CopyTag(d, n)>> \o Run(f, n, c.body) \o <<EndTag>>
    <3>1. f[<<n, i>>] = Line(d, s, f, n, i)
      BY <1>0, <1>1, <2>3
    <3>2. Line(d, s, f, n, i) = xslt_execute_body(d, s, f, n, c)
      BY <1>0, <2>3 DEF Line
    <3> HIDE DEF c
    <3>3. xslt_execute_body(d, s, f, n, c) = <<CopyTag(d, n)>> \o Run(f, n, c.body) \o <<EndTag>>
      BY <1>3, <2>1 DEF xslt_execute_body
    <3> QED BY <3>1, <3>2, <3>3
  <2>8. Run(f, n, c.body) = f[<<n, j>>]
    <3> DEFINE e == c.body
    <3>1. e \in Seq((i + 1) .. Len(s.code)) /\ Len(e) = 1
      BY <2>1, <2>4, Zenon
    <3> HIDE DEF e, i
    <3>2. Run(f, n, e) = f[<<n, e[1]>>]
      BY <3>1, RunOne
    <3> QED BY <3>2 DEF e
  <2>9. f[<<n, j>>] = ApplyTo(f, AllChildren(d, n))
    <3> DEFINE e == s.code[j]
    <3>0. e = [op |-> "apply", select |-> ""]
      BY <2>1, Zenon
    <3> HIDE DEF e
    <3>3. e.op = "apply" /\ e.select = ""
      BY <3>0
    <3> USE DEF e
    <3> HIDE DEF j
    <3>1. f[<<n, j>>] = Line(d, s, f, n, j)
      BY <1>0, <1>1, <2>5
    <3>2. Line(d, s, f, n, j) = xslt_execute_body(d, s, f, n, e)
      BY <1>0, <2>5 DEF Line
    <3> HIDE DEF e
    <3>4. xslt_execute_body(d, s, f, n, e) = ApplyTo(f, AllChildren(d, n))
      BY <3>3 DEF xslt_execute_body
    <3> QED BY <3>1, <3>2, <3>4
  <2> QED BY <2>6, <2>7, <2>8, <2>9
<1>4. ~IsElem(d, n) => t = 0
  BY Zenon DEF find_matching_template
<1>5. d[n].k = "text" => ~(IsBlank(d, n, s) /\ d[d[n].p].local \in s.strip)
  BY DEF Copyable
<1>6. (d[n].k = "text" => ~IsElem(d, n)) /\ (d[n].k = "comment" => ~IsElem(d, n) /\ d[n].k # "text")
  BY DEF IsElem
<1> HIDE DEF t
<1>7. d[n].k = "text" => f[<<n, 0>>] = <<TextOf(d[n].orig)>>
  BY <1>2, <1>4, <1>5, <1>6
<1>8. d[n].k = "comment" => f[<<n, 0>>] = <<>>
  BY <1>2, <1>4, <1>6
<1> QED BY <1>3, <1>7, <1>8 DEF CopyLine

\* Nothing, and one text.
LEMMA NothingSays == Balanced(<<>>) /\ Apart(<<>>) /\ Tops(<<>>) = {} /\ Nested(<<>>) = {}
<1>1. Len(<<>>) = 0 /\ Noted(<<>>) = {}
  BY DEF Noted
<1>2. Level(<<>>, 1) = 0
  BY LevelFirst
<1>3. Balanced(<<>>)
  <2>1. \A i \in 1 .. Len(<<>>) + 1 : i = 1
    BY <1>1
  <2>2. Len(<<>>) + 1 = 1
    BY <1>1
  <2> QED BY <1>2, <2>1, <2>2 DEF Balanced
<1>4. Apart(<<>>)
  BY <1>1 DEF Apart
<1>5. Tops(<<>>) = {} /\ Nested(<<>>) = {}
  BY <1>1 DEF Tops, Nested
<1> QED BY <1>3, <1>4, <1>5

\* A text stands at the top, in nothing.
LEMMA TextSays ==
    ASSUME NEW x, x.ev = "text"
    PROVE  Balanced(<<x>>) /\ Apart(<<x>>) /\ Tops(<<x>>) = {x.orig} /\ Nested(<<x>>) = {}
<1> DEFINE es == <<x>>
<1>1. Len(es) = 1 /\ es[1] = x
  OBVIOUS
<1> HIDE DEF es
<1>2. Level(es, 1) = 0
  BY LevelFirst
<1>3. Level(es, 2) = 0
  <2>1. Level(es, 1 + 1) = Level(es, 1)
    BY <1>1, LevelStep
  <2> QED BY <1>2, <2>1
<1>4. Balanced(es)
  <2>1. \A i \in 1 .. Len(es) + 1 : i = 1 \/ i = 2
    BY <1>1
  <2>2. Len(es) + 1 = 2
    BY <1>1
  <2> QED BY <1>2, <1>3, <2>1, <2>2 DEF Balanced
<1>5. Apart(es)
  BY <1>1 DEF Apart
<1>6. Noted(es) = {1}
  BY <1>1 DEF Noted
<1>7. {j \in Noted(es) : Level(es, j) = 0} = {1} /\ {j \in Noted(es) : Level(es, j) # 0} = {}
  BY <1>2, <1>6
<1>8. Tops(es) = {x.orig} /\ Nested(es) = {}
  BY <1>1, <1>7 DEF Tops, Nested
<1> QED BY <1>4, <1>5, <1>8 DEF es

\* The nodes a copy keeps, of those in S.
Copied(d, S) == {d[c].orig : c \in {k \in S : d[k].k # "comment"}}

\* What the events es written for node n have to say.
Says(d, n, es) ==
    /\ es \in Seq(CopyEvents(d)) /\ Balanced(es) /\ Apart(es)
    /\ Tops(es) = Copied(d, {n}) /\ Nested(es) = Below(d, n)
    /\ IsElem(d, n) => /\ es # <<>> /\ es[1] = CopyTag(d, n) /\ es[Len(es)] = EndTag
                       /\ \A i \in Noted(es) : Level(es, i) = 0 => i = 1
    /\ d[n].k = "text" => es = <<TextOf(d[n].orig)>>
    /\ d[n].k = "comment" => es = <<>>

\* The last event is text.
EndsInText(es) == es # <<>> /\ es[Len(es)].ev = "text"

\* One more child.
LEMMA ChildStep ==
    ASSUME NEW d, NEW c, NEW E, NEW A \in Seq(CopyEvents(d)), Says(d, c, E), Balanced(A), Apart(A),
           d[c].k \in {"elem", "text", "comment"}, EndsInText(A) => d[c].k # "text"
    PROVE  /\ A \o E \in Seq(CopyEvents(d)) /\ Balanced(A \o E) /\ Apart(A \o E)
           /\ Tops(A \o E) = Tops(A) \union Copied(d, {c})
           /\ Nested(A \o E) = Nested(A) \union Below(d, c)
           /\ EndsInText(A \o E) => d[c].k = "text" \/ (d[c].k = "comment" /\ EndsInText(A))
<1> DEFINE T == CopyEvents(d)
<1>0. Eventful(T) /\ E \in Seq(T) /\ Balanced(E) /\ Apart(E)
  BY CopyEventful DEF Says
<1>1. A \o E \in Seq(T) /\ Balanced(A \o E)
  BY <1>0, TwoBlocks
<1>2. Tops(A \o E) = Tops(A) \union Tops(E) /\ Nested(A \o E) = Nested(A) \union Nested(E)
  BY <1>0, ConcatSays
<1>3. Tops(E) = Copied(d, {c}) /\ Nested(E) = Below(d, c)
  BY DEF Says
<1>4. CopyTag(d, c).ev = "start" /\ EndTag.ev = "end"
  BY DEF CopyTag, StartTag, EndTag
<1>5. ~(A # <<>> /\ E # <<>> /\ A[Len(A)].ev = "text" /\ E[1].ev = "text")
  <2>1. CASE d[c].k = "elem"
    <3>1. E[1] = CopyTag(d, c)
      BY <2>1 DEF Says, IsElem
    <3> QED BY <1>4, <3>1
  <2>2. CASE d[c].k = "text"
    BY <2>2 DEF EndsInText
  <2>3. CASE d[c].k = "comment"
    BY <2>3 DEF Says
  <2> QED BY <2>1, <2>2, <2>3
<1>6. Apart(A \o E)
  <2> HIDE DEF T
  <2> QED BY <1>0, <1>5, ConcatApart DEF T
<1>7. ASSUME EndsInText(A \o E), d[c].k # "text" PROVE d[c].k = "comment" /\ EndsInText(A)
  <2>1. CASE d[c].k = "elem"
    <3>1. E # <<>> /\ E[Len(E)] = EndTag
      BY <2>1 DEF Says, IsElem
    <3>2. Len(E) # 0 /\ Len(E) \in Nat /\ Len(A) \in Nat /\ Len(A \o E) = Len(A) + Len(E)
      BY <1>0, <3>1
    <3>3. (A \o E)[Len(A) + Len(E)] = E[Len(E)]
      BY <1>0, <3>2
    <3>4. (A \o E)[Len(A \o E)].ev = "end"
      BY <1>4, <3>1, <3>2, <3>3
    <3> QED BY <1>7, <3>4 DEF EndsInText
  <2>2. CASE d[c].k = "comment"
    <3>1. E = <<>>
      BY <2>2 DEF Says
    <3>2. A \o E = A
      BY <3>1
    <3> QED BY <1>7, <2>2, <3>2
  <2> QED BY <1>7, <2>1, <2>2
<1> QED BY <1>1, <1>2, <1>3, <1>6, <1>7

\* The children of a node, one after the other.
LEMMA ChildrenSay ==
    ASSUME NEW d, NEW s, NEW n \in Nodes(d), NEW f, DocumentOK(d), TreeOK(d), Copyable(s, d),
           \A c \in Children(d, n) : Says(d, c, f[<<c, 0>>])
    PROVE  LET A == ApplyTo(f, AllChildren(d, n))
           IN  /\ A \in Seq(CopyEvents(d)) /\ Balanced(A) /\ Apart(A)
               /\ Tops(A) = Copied(d, Children(d, n))
               /\ Nested(A) = UNION {Below(d, c) : c \in Children(d, n)}
<1> DEFINE C == Children(d, n)
           T == CopyEvents(d)
           w == InOrder(C)
           K == Cardinality(C)
           ss == [j \in DOMAIN w |-> f[<<w[j], 0>>]]
<1>0. Len(d) \in Nat /\ Nodes(d) = 1 .. Len(d)
  BY DEF DocumentOK
<1>1. C \in SUBSET Nat /\ IsFiniteSet(C)
  <2>1. IsFiniteSet(1 .. Len(d))
    BY <1>0, FS_Interval
  <2>2. C \subseteq 1 .. Len(d)
    BY <1>0 DEF Children
  <2> QED BY <1>0, <2>1, <2>2, FS_Subset
<1> HIDE DEF C
<1>2. /\ DOMAIN w = 1 .. K /\ K \in Nat
      /\ \A i \in DOMAIN w : w[i] \in C
      /\ \A c \in C : Rank(C, c) \in DOMAIN w /\ w[Rank(C, c)] = c
      /\ \A i, j \in DOMAIN w : w[i] < w[j] => i < j
  BY <1>1, InOrderRank
<1> HIDE DEF w, K
<1>c. \A c \in C : /\ c \in Nodes(d) /\ d[c].p = n /\ d[c].k \in {"elem", "text", "comment"} /\ c \in Nat
                   /\ Says(d, c, f[<<c, 0>>])
  <2> SUFFICES ASSUME NEW c \in C
               PROVE  /\ c \in Nodes(d) /\ d[c].p = n /\ d[c].k \in {"elem", "text", "comment"} /\ c \in Nat
                      /\ Says(d, c, f[<<c, 0>>])
    OBVIOUS
  <2>1. c \in Nodes(d) /\ d[c].p = n
    BY DEF C, Children
  <2>2. c # 1
    BY <1>0, <2>1 DEF TreeOK
  <2>3. d[c].k \in {"elem", "text", "comment"}
    BY <2>1, <2>2 DEF TreeOK, DocumentOK
  <2> QED BY <1>0, <2>1, <2>3 DEF C
<1>3. ss \in Seq(Seq(T)) /\ Len(ss) = K /\ \A j \in 1 .. K : ss[j] = f[<<w[j], 0>>]
  <2>1. \A j \in 1 .. K : f[<<w[j], 0>>] \in Seq(T)
    BY <1>2, <1>c DEF Says
  <2>2. ss \in [1 .. K -> Seq(T)]
    BY <1>2, <2>1
  <2>3. \A j \in 1 .. K : ss[j] = f[<<w[j], 0>>]
    BY <1>2
  <2> HIDE DEF ss
  <2> QED BY <1>2, <2>2, <2>3
<1>4. ApplyTo(f, AllChildren(d, n)) = FlattenSeq(ss)
  BY DEF ApplyTo, AllChildren, w, C
<1> HIDE DEF ss, T
<1>5. PICK b : /\ b[0] = <<>> /\ FlattenSeq(ss) = b[Len(ss)]
               /\ \A k \in 0 .. Len(ss) - 1 : b[k + 1] = b[k] \o ss[k + 1]
  BY <1>3, FlattenSteps
<1> DEFINE S(k) == {w[j] : j \in 1 .. k}
           U(k) == UNION {Below(d, c) : c \in S(k)}
           Ends(k) == \E j \in 1 .. k : d[w[j]].k = "text" /\ \A i \in (j + 1) .. k : d[w[i]].k = "comment"
           Good(k) == /\ b[k] \in Seq(T) /\ Balanced(b[k]) /\ Apart(b[k])
                      /\ Tops(b[k]) = Copied(d, S(k))
                      /\ Nested(b[k]) = U(k)
                      /\ EndsInText(b[k]) => Ends(k)
           Bad == {k \in 0 .. K : ~Good(k)}
<1>6. Good(0)
  <2>1. S(0) = {}
    OBVIOUS
  <2>2. Copied(d, {}) = {} /\ UNION {Below(d, c) : c \in {}} = {}
    BY DEF Copied
  <2>3. <<>> \in Seq(T) /\ ~EndsInText(<<>>)
    BY DEF EndsInText
  <2> HIDE DEF S, Ends
  <2> QED BY <1>5, <2>1, <2>2, <2>3, NothingSays
<1>7. ASSUME NEW h \in 0 .. K - 1, Good(h) PROVE Good(h + 1)
  <2> DEFINE c == w[h + 1]
             E == f[<<c, 0>>]
             A == b[h]
  <2>0. h + 1 \in 1 .. K /\ h \in Nat
    BY <1>2
  <2>1. c \in C /\ Says(d, c, E) /\ d[c].k \in {"elem", "text", "comment"}
    BY <1>2, <1>c, <2>0
  <2>2. b[h + 1] = A \o E
    BY <1>3, <1>5, <2>0
  <2>3. ASSUME EndsInText(A), d[c].k = "text" PROVE FALSE
    <3>1. PICK j \in 1 .. h : d[w[j]].k = "text" /\ \A i \in (j + 1) .. h : d[w[i]].k = "comment"
      BY <1>7, <2>3
    <3> DEFINE m == w[j]
    <3>2. j \in DOMAIN w /\ h + 1 \in DOMAIN w /\ j \in Nat /\ j < h + 1
      BY <1>2, <2>0
    <3>3. m \in C /\ m \in Nodes(d) /\ d[m].p = n /\ m \in Nat
      BY <1>2, <1>c, <3>2
    <3>4. c \in Nodes(d) /\ d[c].p = n /\ c \in Nat
      BY <1>c, <2>1
    <3>5. m < c
      <4>1. CASE m = c
        <5>1. d[c].k = "text" /\ m = c
          BY <2>3, <4>1
        <5>2. Rank(C, m) = j /\ Rank(C, c) = h + 1
          BY <1>1, <3>2, InOrderRank DEF w
        <5> QED BY <3>2, <4>1, <5>2
      <4>2. CASE c < m
        <5>1. h + 1 < j
          BY <1>2, <3>2, <4>2
        <5> QED BY <2>0, <3>2, <5>1
      <4> QED BY <3>3, <3>4, <4>1, <4>2
    <3>6. PICK e \in (m + 1) .. (c - 1) : IsElem(d, e) /\ d[e].p = n
      <4> HIDE DEF m, c
      <4>1. d[m].k = "text" /\ d[c].k = "text"
        BY <2>3, <3>1 DEF m
      <4> QED BY <3>3, <3>4, <3>5, <4>1 DEF Copyable
    <3>7. e \in Nat /\ m < e /\ e < c
      BY <3>3, <3>4
    <3>8. e \in Nodes(d)
      BY <1>0, <3>3, <3>4, <3>7
    <3>9. e \in C
      BY <3>6, <3>8 DEF C, Children
    <3> DEFINE i == Rank(C, e)
    <3>10. i \in DOMAIN w /\ w[i] = e
      BY <1>2, <3>9
    <3> HIDE DEF i
    <3>11. j < i /\ i < h + 1
      BY <1>2, <3>2, <3>7, <3>10
    <3>12. i \in (j + 1) .. h
      BY <1>2, <2>0, <3>2, <3>10, <3>11
    <3>13. d[e].k = "comment"
      BY <3>1, <3>10, <3>12
    <3> QED BY <3>6, <3>13 DEF IsElem
  <2>4. S(h + 1) = S(h) \union {c}
    <3>1. 1 .. h + 1 = (1 .. h) \union {h + 1}
      BY <2>0
    <3> QED BY <3>1
  <2>5. A \in Seq(T) /\ Balanced(A) /\ Apart(A) /\ Tops(A) = Copied(d, S(h))
        /\ Nested(A) = U(h) /\ (EndsInText(A) => Ends(h))
    BY <1>7
  <2> HIDE DEF A, E, c
  <2>6. /\ A \o E \in Seq(T) /\ Balanced(A \o E) /\ Apart(A \o E)
        /\ Tops(A \o E) = Tops(A) \union Copied(d, {c})
        /\ Nested(A \o E) = Nested(A) \union Below(d, c)
        /\ EndsInText(A \o E) => d[c].k = "text" \/ (d[c].k = "comment" /\ EndsInText(A))
    <3>1. A \in Seq(CopyEvents(d)) /\ Balanced(A) /\ Apart(A) /\ (EndsInText(A) => d[c].k # "text")
      BY <2>3, <2>5 DEF T
    <3>2. Says(d, c, E) /\ d[c].k \in {"elem", "text", "comment"}
      BY <2>1
    <3> QED BY <3>1, <3>2, ChildStep DEF T
  <2>7. Copied(d, S(h + 1)) = Copied(d, S(h)) \union Copied(d, {c})
    <3> HIDE DEF S
    <3> QED BY <2>4 DEF Copied
  <2>8. U(h + 1) = U(h) \union Below(d, c)
    <3> HIDE DEF S
    <3>1. \A x : x \in U(h + 1) <=> \E k \in S(h + 1) : x \in Below(d, k)
      OBVIOUS
    <3>2. \A x : x \in U(h) <=> \E k \in S(h) : x \in Below(d, k)
      OBVIOUS
    <3> HIDE DEF U
    <3> QED BY <2>4, <3>1, <3>2
  <2>9. ASSUME EndsInText(A \o E) PROVE Ends(h + 1)
    <3>1. CASE d[c].k = "text"
      <4>1. h + 1 \in 1 .. h + 1 /\ (h + 1) + 1 .. h + 1 = {}
        BY <2>0
      <4> QED BY <3>1, <4>1 DEF c
    <3>2. CASE d[c].k = "comment" /\ EndsInText(A)
      <4>1. PICK j \in 1 .. h : d[w[j]].k = "text" /\ \A i \in (j + 1) .. h : d[w[i]].k = "comment"
        BY <2>5, <3>2
      <4>2. j \in 1 .. h + 1 /\ \A i \in (j + 1) .. h + 1 : i \in (j + 1) .. h \/ i = h + 1
        BY <2>0
      <4>3. d[w[h + 1]].k = "comment"
        BY <3>2 DEF c
      <4> QED BY <4>1, <4>2, <4>3
    <3> QED BY <2>6, <2>9, <3>1, <3>2
  <2> HIDE DEF S, Ends, U
  <2> QED BY <2>2, <2>5, <2>6, <2>7, <2>8, <2>9
<1>8. Good(K)
  <2>1. ASSUME Bad # {} PROVE FALSE
    <3> HIDE DEF Good
    <3>0. Bad \in SUBSET Nat
      BY <1>2
    <3>1. PICK k \in Bad : \A j \in Bad : k <= j
      BY <2>1, <3>0, LeastExists
    <3> DEFINE h == k - 1
    <3>2. k # 0
      BY <1>6, <3>1
    <3>3. h \in 0 .. K - 1 /\ k = h + 1 /\ h < k /\ h \in 0 .. K
      BY <1>2, <3>1, <3>2
    <3> HIDE DEF h
    <3>4. Good(h)
      BY <3>1, <3>3
    <3> QED BY <1>7, <3>1, <3>3, <3>4
  <2>2. K \in 0 .. K
    BY <1>2
  <2> HIDE DEF Good
  <2> QED BY <2>1, <2>2
<1>9. S(K) = C
  <2>1. \A c \in C : \E j \in 1 .. K : c = w[j]
    BY <1>2
  <2>2. \A j \in 1 .. K : w[j] \in C
    BY <1>2
  <2> QED BY <2>1, <2>2
<1>10. ApplyTo(f, AllChildren(d, n)) = b[K]
  BY <1>3, <1>4, <1>5
<1> HIDE DEF S, Ends
<1> QED BY <1>8, <1>9, <1>10 DEF C, T, U

\* Nothing stands in text or in a comment.
LEMMA LeafBelow ==
    ASSUME NEW d, NEW n \in Nodes(d), DocumentOK(d), TreeOK(d), d[n].k \in {"text", "comment"}
    PROVE  Below(d, n) = {}
<1>1. Children(d, n) = {}
  <2> SUFFICES ASSUME NEW c \in Children(d, n) PROVE FALSE
    OBVIOUS
  <2>1. c \in Nodes(d) /\ d[c].p = n
    BY DEF Children
  <2>2. c # 1
    BY <2>1 DEF TreeOK, DocumentOK
  <2>3. d[n].k \in {"doc", "elem"}
    BY <2>1, <2>2, ParentOK
  <2> QED BY <2>3
<1>2. Below(d, n) = {<<d[c].orig, d[n].orig>> : c \in {k \in Children(d, n) : d[k].k # "comment"}}
                       \union UNION {Below(d, c) : c \in Children(d, n)}
  BY BelowStep
<1> QED BY <1>1, <1>2

\* An element around what its children say.
LEMMA ElementSays ==
    ASSUME NEW d, NEW n \in Nodes(d), NEW A \in Seq(CopyEvents(d)), DocumentOK(d), TreeOK(d), IsElem(d, n),
           Balanced(A), Apart(A), Tops(A) = Copied(d, Children(d, n)),
           Nested(A) = UNION {Below(d, c) : c \in Children(d, n)}
    PROVE  Says(d, n, <<CopyTag(d, n)>> \o A \o <<EndTag>>)
<1> DEFINE T == CopyEvents(d)
           t == CopyTag(d, n)
           es == Around(t, A, EndTag)
<1>1. Eventful(T) /\ t \in T /\ EndTag \in T
  BY CopyEventful DEF CopyEvents
<1>2. t.ev = "start" /\ EndTag.ev = "end" /\ t.orig = d[n].orig
  BY DEF CopyTag, StartTag, EndTag
<1> HIDE DEF T, t
<1>3. /\ es \in Seq(T) /\ Len(es) = Len(A) + 2 /\ es[1] = t /\ es[Len(es)] = EndTag
      /\ Balanced(es) /\ Apart(es)
      /\ \A i \in Noted(es) : Level(es, i) = 0 => i = 1
      /\ Tops(es) = {t.orig}
      /\ Nested(es) = Nested(A) \union {<<o, t.orig>> : o \in Tops(A)}
  <2>1. A \in Seq(T)
    BY DEF T
  <2> QED BY <1>1, <1>2, <2>1, WrapSays
<1>4. Copied(d, {n}) = {d[n].orig} /\ d[n].k # "text" /\ d[n].k # "comment"
  BY DEF Copied, IsElem
<1>5. Nested(es) = Below(d, n)
  <2> DEFINE X == UNION {Below(d, c) : c \in Children(d, n)}
             Y == {<<d[c].orig, d[n].orig>> : c \in {k \in Children(d, n) : d[k].k # "comment"}}
             Z == {<<o, t.orig>> : o \in Tops(A)}
  <2>1. Z = Y
    BY <1>2 DEF Copied
  <2>2. Below(d, n) = Y \union X
    BY BelowStep
  <2>3. Nested(A) = X
    OBVIOUS
  <2> HIDE DEF es, X, Y
  <2>4. Nested(es) = Nested(A) \union Z
    BY <1>3
  <2> HIDE DEF Z
  <2> QED BY <2>1, <2>2, <2>3, <2>4
<1>6. es # <<>>
  <2>1. Len(A) \in Nat
    OBVIOUS
  <2>2. Len(es) # 0
    BY <1>3, <2>1
  <2> QED BY <2>2
<1> HIDE DEF es
<1>7. Says(d, n, es)
  BY <1>2, <1>3, <1>4, <1>5, <1>6 DEF Says, T, t
<1> QED BY <1>7 DEF es, t, Around

\* What a stylesheet that copies writes at each node says what the document says.
LEMMA NodeSays ==
    ASSUME NEW d, NEW s, NEW f, DocumentOK(d), TreeOK(d), SheetOK(s), Copies(s, d), Copyable(s, d),
           Interprets(d, s, f)
    PROVE  \A n \in Nodes(d) : n # 1 => Says(d, n, f[<<n, 0>>])
<1> DEFINE Bad == {n \in Nodes(d) : ~(n # 1 => Says(d, n, f[<<n, 0>>]))}
<1>0. Len(d) \in Nat /\ Nodes(d) = 1 .. Len(d)
  BY DEF DocumentOK
<1>1. ASSUME Bad # {} PROVE FALSE
  <2>0. Bad \in SUBSET (1 .. Len(d))
    BY <1>0
  <2> DEFINE n == Greatest(Bad)
  <2>1. n \in Bad /\ \A m \in Bad : m <= n
    BY <1>0, <1>1, <2>0, GreatestIn
  <2> HIDE DEF n
  <2>2. n \in Nodes(d) /\ n # 1 /\ n \in Nat /\ ~Says(d, n, f[<<n, 0>>])
    BY <1>0, <2>1
  <2>3. \A c \in Children(d, n) : Says(d, c, f[<<c, 0>>])
    <3> SUFFICES ASSUME NEW c \in Children(d, n) PROVE Says(d, c, f[<<c, 0>>])
      OBVIOUS
    <3>1. c \in Nodes(d) /\ d[c].p = n
      BY DEF Children
    <3>2. c # 1
      BY <1>0, <2>2, <3>1 DEF TreeOK
    <3>3. n < c
      BY <3>1, <3>2, ParentOK
    <3>4. c \notin Bad
      BY <1>0, <2>1, <2>2, <3>1, <3>3
    <3> QED BY <3>1, <3>2, <3>4
  <2> HIDE DEF Bad
  <2>4. d[n].k \in {"elem", "text", "comment"}
    BY <2>2 DEF TreeOK, DocumentOK
  <2>4a. CopyLine(d, f, n)
    BY <2>2, CopyLines
  <2>5. CASE d[n].k = "elem"
    <3> DEFINE A == ApplyTo(f, AllChildren(d, n))
    <3>1. IsElem(d, n)
      BY <2>5 DEF IsElem
    <3>2. f[<<n, 0>>] = <<CopyTag(d, n)>> \o A \o <<EndTag>>
      BY <2>4a, <3>1 DEF CopyLine
    <3>3. /\ A \in Seq(CopyEvents(d)) /\ Balanced(A) /\ Apart(A)
          /\ Tops(A) = Copied(d, Children(d, n))
          /\ Nested(A) = UNION {Below(d, c) : c \in Children(d, n)}
      BY <2>2, <2>3, ChildrenSay
    <3> HIDE DEF A
    <3>4. Says(d, n, <<CopyTag(d, n)>> \o A \o <<EndTag>>)
      BY <2>2, <3>1, <3>3, ElementSays
    <3> QED BY <2>2, <3>2, <3>4
  <2>6. CASE d[n].k = "text"
    <3> DEFINE x == TextOf(d[n].orig)
    <3>1. f[<<n, 0>>] = <<x>>
      BY <2>4a, <2>6 DEF CopyLine
    <3>2. x.ev = "text" /\ x.orig = d[n].orig
      BY DEF TextOf
    <3>3. x \in CopyEvents(d)
      BY <2>2, <2>6 DEF CopyEvents
    <3> HIDE DEF x
    <3>4. Balanced(<<x>>) /\ Apart(<<x>>) /\ Tops(<<x>>) = {x.orig} /\ Nested(<<x>>) = {}
      BY <3>2, TextSays
    <3>5. Below(d, n) = {}
      BY <2>2, <2>6, LeafBelow
    <3>6. Copied(d, {n}) = {d[n].orig} /\ ~IsElem(d, n) /\ d[n].k # "comment"
      BY <2>6 DEF Copied, IsElem
    <3>7. <<x>> \in Seq(CopyEvents(d))
      BY <3>3
    <3>8. Says(d, n, <<x>>)
      BY <3>2, <3>4, <3>5, <3>6, <3>7 DEF Says, x
    <3> QED BY <2>2, <3>1, <3>8
  <2>7. CASE d[n].k = "comment"
    <3>1. f[<<n, 0>>] = <<>>
      BY <2>4a, <2>7 DEF CopyLine
    <3>2. Below(d, n) = {}
      BY <2>2, <2>7, LeafBelow
    <3>3. Copied(d, {n}) = {} /\ ~IsElem(d, n) /\ d[n].k # "text"
      BY <2>7 DEF Copied, IsElem
    <3> DEFINE E == <<>>
    <3>4. E \in Seq(CopyEvents(d)) /\ E = <<>>
      OBVIOUS
    <3>5. Balanced(E) /\ Apart(E) /\ Tops(E) = {} /\ Nested(E) = {}
      BY NothingSays
    <3> HIDE DEF E
    <3>6. Says(d, n, E)
      BY <3>2, <3>3, <3>4, <3>5 DEF Says
    <3> QED BY <2>2, <3>1, <3>4, <3>6
  <2> QED BY <2>4, <2>5, <2>6, <2>7
<1> QED BY <1>1

\* The events that become nodes, in order, and the place of the tag above one of them.
ShownAt(es) == InOrder(Noted(es))
AboveShown(es, i) == {h \in DOMAIN ShownAt(es) : /\ ShownAt(es)[h] < i /\ es[ShownAt(es)[h]].ev = "start"
                                                 /\ Level(es, ShownAt(es)[h]) = Level(es, i) - 1}
PlaceOver(es, i) == IF AboveShown(es, i) = {} THEN 1 ELSE Greatest(AboveShown(es, i)) + 1

\* The document r has a node for each of them, after the document node.
IsRaw(es, r) ==
    /\ DocumentOK(r) /\ TreeOK(r) /\ Nodes(r) = 1 .. Cardinality(Noted(es)) + 1 /\ r[1] = DocNode
    /\ \A h \in 1 .. Cardinality(Noted(es)) :
          /\ r[h + 1].orig = es[ShownAt(es)[h]].orig /\ r[h + 1].p = PlaceOver(es, ShownAt(es)[h])
          /\ r[h + 1].prefix = Default
          /\ IF es[ShownAt(es)[h]].ev = "text"
             THEN r[h + 1].k = "text" /\ r[h + 1].decls = NoNs /\ r[h + 1].attrs = {}
             ELSE /\ r[h + 1].k = "elem" /\ r[h + 1].decls = es[ShownAt(es)[h]].decls
                  /\ r[h + 1].attrs = es[ShownAt(es)[h]].attrs

\* Their places are listed in order, each of them.
LEMMA ShownInOrder ==
    ASSUME NEW T, NEW es \in Seq(T)
    PROVE  /\ Noted(es) \in SUBSET (1 .. Len(es)) /\ Cardinality(Noted(es)) \in Nat
           /\ DOMAIN ShownAt(es) = 1 .. Cardinality(Noted(es))
           /\ \A h \in DOMAIN ShownAt(es) : ShownAt(es)[h] \in Noted(es) /\ Rank(Noted(es), ShownAt(es)[h]) = h
           /\ \A i \in Noted(es) : Rank(Noted(es), i) \in DOMAIN ShownAt(es) /\ ShownAt(es)[Rank(Noted(es), i)] = i
           /\ \A i, j \in DOMAIN ShownAt(es) : ShownAt(es)[i] < ShownAt(es)[j] => i < j
<1>1. Noted(es) \in SUBSET (1 .. Len(es)) /\ Noted(es) \in SUBSET Nat
  BY DEF Noted
<1>2. IsFiniteSet(Noted(es))
  <2>1. IsFiniteSet(1 .. Len(es))
    BY FS_Interval
  <2> QED BY <1>1, <2>1, FS_Subset
<1> QED BY <1>1, <1>2, InOrderRank DEF ShownAt

\* Parsing events makes such a document first.
LEMMA RawParse ==
    ASSUME NEW T, NEW es \in Seq(T)
    PROVE  \E r : ParseEvents(es) = BindNames(JoinText(r)) /\ IsRaw(es, r)
<1> DEFINE S == {i \in DOMAIN es : es[i].ev # "end"}
           at == InOrder(S)
           above(i) == {h \in DOMAIN at : at[h] < i /\ es[at[h]].ev = "start" /\ Level(es, at[h]) = Level(es, i) - 1}
           parent(i) == IF above(i) = {} THEN 1 ELSE Greatest(above(i)) + 1
           txt(i) == [DocNode EXCEPT !.k = "text", !.p = parent(i), !.orig = es[i].orig]
           elm(i) == [DocNode EXCEPT !.k = "elem", !.p = parent(i), !.local = es[i].local,
                                     !.decls = es[i].decls, !.attrs = es[i].attrs, !.orig = es[i].orig]
           node(i) == IF es[i].ev = "text" THEN txt(i) ELSE elm(i)
           body == [h \in DOMAIN at |-> node(at[h])]
           r == <<DocNode>> \o body
<1>1. ParseEvents(es) = BindNames(JoinText(r))
  BY DEF ParseEvents
<1>2. S = Noted(es) /\ at = ShownAt(es)
  <2>1. S = Noted(es)
    BY DEF Noted
  <2> HIDE DEF S
  <2> QED BY <2>1 DEF ShownAt
<1> HIDE DEF S, at
<1>a. \A i : parent(i) = PlaceOver(es, i)
  BY <1>2 DEF PlaceOver, AboveShown
<1> HIDE DEF parent
<1>3. /\ Cardinality(S) \in Nat /\ DOMAIN at = 1 .. Cardinality(S)
      /\ \A h \in DOMAIN at : at[h] \in S
      /\ \A i, j \in DOMAIN at : at[i] < at[j] => i < j
  BY <1>2, ShownInOrder
<1> DEFINE Fields == {"k", "p", "ns", "prefix", "local", "decls", "attrs", "orig"}
<1>4. /\ DOMAIN DocNode = Fields /\ DocNode.k = "doc" /\ DocNode.orig = {} /\ DocNode.p = 0 /\ DocNode.decls = NoNs
      /\ DocNode.prefix = Default /\ DocNode.attrs = {}
  BY DEF DocNode
<1>5. \A i : /\ DOMAIN node(i) = Fields /\ node(i).orig = es[i].orig /\ node(i).p = parent(i)
             /\ node(i).prefix = Default
             /\ es[i].ev = "text" => node(i).k = "text" /\ node(i).decls = NoNs /\ node(i).attrs = {}
             /\ es[i].ev # "text" => node(i).k = "elem" /\ node(i).decls = es[i].decls /\ node(i).attrs = es[i].attrs
  <2> TAKE i
  <2>1. /\ DOMAIN txt(i) = Fields /\ txt(i).k = "text" /\ txt(i).orig = es[i].orig /\ txt(i).p = parent(i)
        /\ txt(i).decls = NoNs /\ txt(i).prefix = Default /\ txt(i).attrs = {}
    BY <1>4
  <2>2. /\ DOMAIN elm(i) = Fields /\ elm(i).k = "elem" /\ elm(i).orig = es[i].orig /\ elm(i).p = parent(i)
        /\ elm(i).decls = es[i].decls /\ elm(i).prefix = Default /\ elm(i).attrs = es[i].attrs
    BY <1>4
  <2> HIDE DEF txt, elm
  <2> QED BY <2>1, <2>2
<1> HIDE DEF node
<1> DEFINE N == Cardinality(S)
           B == {node(at[h]) : h \in 1 .. N} \union {DocNode}
<1>6. body \in Seq(B) /\ Len(body) = N /\ \A h \in 1 .. N : body[h] = node(at[h])
  <2>1. body \in [1 .. N -> B]
    BY <1>3
  <2>2. body \in Seq(B)
    BY <1>3, <2>1
  <2> QED BY <1>3, <2>1, <2>2
<1>7. DocNode \in B
  OBVIOUS
<1> HIDE DEF body, B, N
<1>8. /\ Len(r) = N + 1 /\ DOMAIN r = 1 .. N + 1 /\ N \in Nat
      /\ r[1] = DocNode /\ \A h \in 1 .. N : r[h + 1] = node(at[h])
  <2>1. N \in Nat
    BY <1>3 DEF N
  <2>2. <<DocNode>> \in Seq(B) /\ Len(<<DocNode>>) = 1
    BY <1>7
  <2>3. Len(r) = N + 1 /\ DOMAIN r = 1 .. N + 1 /\ r[1] = DocNode
    BY <1>6, <2>1, <2>2
  <2>4. \A h \in 1 .. N : r[h + 1] = body[h]
    BY <1>6, <2>1, <2>2
  <2> QED BY <1>6, <2>1, <2>3, <2>4
<1> HIDE DEF r
<1>k. ASSUME NEW k \in Nodes(r), k # 1 PROVE \E h \in 1 .. N : k = h + 1
  <2>1. k - 1 \in 1 .. N /\ k = (k - 1) + 1
    BY <1>8, <1>k DEF Nodes
  <2> QED BY <2>1
<1>9. DocumentOK(r)
  <2>1. ASSUME NEW k \in Nodes(r)
        PROVE  /\ DOMAIN r[k] = Fields /\ r[k].k \in {"doc", "elem", "text", "comment"}
               /\ r[k].k = "doc" => r[k].orig = {}
    <3>1. CASE k = 1
      BY <1>4, <1>8, <3>1
    <3>2. CASE k # 1
      <4>1. PICK h \in 1 .. N : k = h + 1
        BY <1>k, <3>2
      <4>2. r[k] = node(at[h])
        BY <1>8, <4>1
      <4> QED BY <1>5, <4>2
    <3> QED BY <3>1, <3>2
  <2> QED BY <1>8, <2>1 DEF DocumentOK, Nodes
<1>t. TreeOK(r)
  <2>1. ASSUME NEW k \in Nodes(r), k # 1
        PROVE  r[k].k # "doc" /\ r[k].p \in 1 .. (k - 1) /\ r[r[k].p].k \in {"doc", "elem"}
    <3>0. PICK f \in 1 .. N : k = f + 1
      BY <1>k, <2>1
    <3> DEFINE i == at[f]
               g == Greatest(above(i))
    <3>1. f \in DOMAIN at /\ r[k] = node(i) /\ k \in Nat /\ k - 1 = f
      BY <1>3, <1>8, <3>0 DEF N
    <3> HIDE DEF i
    <3>2. r[k].p = parent(i) /\ r[k].k # "doc"
      BY <1>5, <3>1
    <3>3. CASE above(i) = {}
      <4>1. parent(i) = 1
        BY <3>3 DEF parent
      <4> QED BY <1>4, <1>8, <3>0, <3>1, <3>2, <4>1
    <3>4. CASE above(i) # {}
      <4>1. above(i) \in SUBSET (1 .. N)
        BY <1>3 DEF N
      <4>2. g \in above(i)
        BY <1>8, <3>4, <4>1, GreatestIn
      <4> HIDE DEF g
      <4>3. g \in 1 .. N /\ at[g] < i /\ es[at[g]].ev = "start" /\ g \in DOMAIN at
        BY <4>1, <4>2
      <4>4. g < f
        BY <1>3, <3>1, <4>3 DEF i
      <4>5. r[k].p = g + 1
        BY <3>2, <3>4 DEF parent, g
      <4>6. r[g + 1].k = "elem"
        BY <1>5, <1>8, <4>3
      <4>7. g + 1 \in 1 .. k - 1
        BY <1>8, <3>0, <4>3, <4>4
      <4> QED BY <3>2, <4>5, <4>6, <4>7
    <3> QED BY <3>3, <3>4
  <2> QED BY <1>4, <1>8, <2>1 DEF TreeOK, Nodes
<1>10. ASSUME NEW h \in 1 .. N
       PROVE  /\ r[h + 1].orig = es[at[h]].orig /\ r[h + 1].p = PlaceOver(es, at[h])
              /\ r[h + 1].prefix = Default
              /\ IF es[at[h]].ev = "text" THEN r[h + 1].k = "text" /\ r[h + 1].decls = NoNs /\ r[h + 1].attrs = {}
                 ELSE r[h + 1].k = "elem" /\ r[h + 1].decls = es[at[h]].decls /\ r[h + 1].attrs = es[at[h]].attrs
  BY <1>5, <1>8, <1>a, ZenonT(40)
<1>11. IsRaw(es, r)
  BY <1>2, <1>8, <1>9, <1>t, <1>10 DEF IsRaw, N, Nodes
<1> QED BY <1>1, <1>11 DEF r

\* What a node is, beside the namespace of its name.
SameNode(a, b) == a.k = b.k /\ a.p = b.p /\ a.orig = b.orig /\ a.attrs = b.attrs /\ a.prefix = b.prefix

\* Where no text follows text, joining changes nothing.
LEMMA JoinNothing ==
    ASSUME NEW r, DocumentOK(r), TreeOK(r), \A i \in Nodes(r) : ~Joined(r, i)
    PROVE  Nodes(JoinText(r)) = Nodes(r) /\ \A n \in Nodes(r) : SameNode(JoinText(r)[n], r[n])
<1> DEFINE S == {i \in DOMAIN r : ~Joined(r, i)}
           heads == InOrder(S)
           run(i) == {j \in DOMAIN r : j >= i /\ \A k \in (i + 1)..j : Joined(r, k)}
           up(h) == IF r[heads[h]].p = 0 THEN 0 ELSE CHOOSE g \in DOMAIN heads : heads[g] = r[heads[h]].p
           node(h) == [r[heads[h]] EXCEPT !.p = up(h), !.orig = UNION {r[j].orig : j \in run(heads[h])}]
           u == JoinText(r)
           N == Len(r)
<1>0. N \in Nat /\ Nodes(r) = 1 .. N /\ DOMAIN r = 1 .. N
  BY DEF DocumentOK, Nodes
<1>1. u = [h \in DOMAIN heads |-> node(h)]
  BY DEF JoinText
<1>2. S = 1 .. N
  BY <1>0
<1> HIDE DEF S, N, u
<1>3. S \in SUBSET Nat /\ IsFiniteSet(S) /\ Cardinality(S) = N
  BY <1>0, <1>2, FS_Interval
<1>4. \A i \in 1 .. N : Rank(S, i) = i
  <2> SUFFICES ASSUME NEW i \in 1 .. N PROVE Rank(S, i) = i
    OBVIOUS
  <2>1. {m \in S : m <= i} = 1 .. i
    BY <1>0, <1>2
  <2>2. Cardinality(1 .. i) = i
    BY <1>0, FS_Interval
  <2> QED BY <2>1, <2>2 DEF Rank
<1>5. DOMAIN heads = 1 .. N /\ \A i \in 1 .. N : heads[i] = i
  <2>1. DOMAIN heads = 1 .. N /\ \A n \in S : heads[Rank(S, n)] = n
    BY <1>3, InOrderRank
  <2> HIDE DEF heads
  <2> QED BY <1>2, <1>4, <2>1
<1> HIDE DEF heads
<1>6. ASSUME NEW n \in 1 .. N PROVE n \in DOMAIN u /\ SameNode(u[n], r[n])
  <2>1. heads[n] = n /\ n \in DOMAIN heads /\ u[n] = node(n) /\ n \in DOMAIN u
    BY <1>1, <1>5
  <2>2. up(n) = r[n].p
    <3>1. CASE r[n].p = 0
      BY <2>1, <3>1
    <3>2. CASE r[n].p # 0
      <4>0. n # 1
        BY <1>0, <3>2 DEF TreeOK
      <4>1. r[n].p \in 1 .. N
        BY <1>0, <4>0, ParentOK
      <4>2. \A g \in DOMAIN heads : heads[g] = r[n].p <=> g = r[n].p
        BY <1>5, <4>1
      <4>3. (CHOOSE g \in DOMAIN heads : heads[g] = r[n].p) = r[n].p
        BY <1>5, <4>1, <4>2
      <4> QED BY <2>1, <3>2, <4>3
    <3> QED BY <3>1, <3>2
  <2>3. run(n) = {n}
    <3>1. n \in run(n)
      BY <1>0
    <3>2. ASSUME NEW j \in run(n), j # n PROVE FALSE
      <4>1. j \in 1 .. N /\ j \in (n + 1) .. j
        BY <1>0, <3>2
      <4>2. Joined(r, j)
        BY <3>2, <4>1
      <4> QED BY <1>0, <4>1, <4>2
    <3> QED BY <3>1, <3>2
  <2>4. UNION {r[j].orig : j \in run(heads[n])} = r[n].orig
    <3> HIDE DEF run
    <3> QED BY <2>1, <2>3
  <2>5. DOMAIN r[n] = {"k", "p", "ns", "prefix", "local", "decls", "attrs", "orig"}
    BY <1>0 DEF DocumentOK
  <2> DEFINE x == UNION {r[j].orig : j \in run(heads[n])}
             y == up(n)
  <2>6. u[n] = [r[n] EXCEPT !.p = y, !.orig = x]
    BY <2>1
  <2>7. y = r[n].p /\ x = r[n].orig
    BY <2>2, <2>4
  <2> HIDE DEF x, y
  <2>8. SameNode(u[n], r[n])
    BY <2>5, <2>6, <2>7 DEF SameNode
  <2> QED BY <2>1, <2>8
<1>7. Nodes(u) = Nodes(r)
  BY <1>0, <1>1, <1>5 DEF Nodes
<1> QED BY <1>0, <1>6, <1>7 DEF u

\* Binding the names of elements changes nothing else of a node.
LEMMA BindSame ==
    ASSUME NEW r, DocumentOK(r)
    PROVE  Nodes(BindNames(r)) = Nodes(r) /\ \A n \in Nodes(r) : SameNode(BindNames(r)[n], r[n])
<1> DEFINE u == BindNames(r)
           v(n) == Binding(r, n, r[n].prefix)
<1>1. u = [n \in Nodes(r) |-> IF IsElem(r, n) THEN [r[n] EXCEPT !.ns = v(n)] ELSE r[n]]
  BY DEF BindNames, Nodes
<1> HIDE DEF u, v
<1>2. Nodes(u) = Nodes(r)
  BY <1>1 DEF Nodes
<1>3. ASSUME NEW n \in Nodes(r) PROVE SameNode(u[n], r[n])
  <2>1. DOMAIN r[n] = {"k", "p", "ns", "prefix", "local", "decls", "attrs", "orig"}
    BY DEF DocumentOK
  <2>2. u[n] = r[n] \/ u[n] = [r[n] EXCEPT !.ns = v(n)]
    BY <1>1
  <2> QED BY <2>1, <2>2 DEF SameNode
<1> QED BY <1>2, <1>3 DEF u

\* A node is placed in the tag above its event, at the top without one.
LEMMA PlaceUp ==
    ASSUME NEW T, NEW es \in Seq(T), NEW i \in Noted(es), Eventful(T), Balanced(es)
    PROVE  /\ Level(es, i) = 0 => PlaceOver(es, i) = 1
           /\ Level(es, i) # 0 => \E h \in DOMAIN ShownAt(es) :
                 /\ PlaceOver(es, i) = h + 1 /\ ShownAt(es)[h] = Greatest(Up(es, i))
                 /\ Level(es, ShownAt(es)[h]) = Level(es, i) - 1
<1> DEFINE at == ShownAt(es)
           S == Noted(es)
           A == AboveShown(es, i)
<1>0. /\ S \in SUBSET (1 .. Len(es)) /\ Len(es) \in Nat /\ i \in 1 .. Len(es) /\ DOMAIN at = 1 .. Cardinality(S)
      /\ \A h \in DOMAIN at : at[h] \in S /\ at[h] \in Nat /\ h \in Nat /\ Rank(S, at[h]) = h
      /\ \A g \in S : Rank(S, g) \in DOMAIN at /\ at[Rank(S, g)] = g
      /\ \A g, h \in DOMAIN at : at[g] < at[h] => g < h
  <2>1. S \in SUBSET (1 .. Len(es)) /\ Cardinality(S) \in Nat /\ DOMAIN at = 1 .. Cardinality(S)
    BY ShownInOrder
  <2>2. /\ \A h \in DOMAIN at : at[h] \in S /\ Rank(S, at[h]) = h
        /\ \A g \in S : Rank(S, g) \in DOMAIN at /\ at[Rank(S, g)] = g
        /\ \A g, h \in DOMAIN at : at[g] < at[h] => g < h
    BY ShownInOrder
  <2>3. \A h \in DOMAIN at : h \in Nat /\ at[h] \in Nat
    <3> HIDE DEF at
    <3> SUFFICES ASSUME NEW h \in DOMAIN at PROVE h \in Nat /\ at[h] \in Nat
      OBVIOUS
    <3>1. at[h] \in S
      BY <2>2
    <3> HIDE DEF S
    <3>2. at[h] \in 1 .. Len(es) /\ h \in 1 .. Cardinality(S)
      BY <2>1, <3>1
    <3> QED BY <2>1, <3>2
  <2> HIDE DEF at
  <2> QED BY <2>1, <2>2, <2>3
<1>1. A = {h \in DOMAIN at : at[h] < i /\ es[at[h]].ev = "start" /\ Level(es, at[h]) = Level(es, i) - 1}
  BY DEF AboveShown
<1>2. \A g \in S : g \in 1 .. Len(es) /\ g \in 1 .. Len(es) + 1 /\ es[g].ev # "end"
  BY <1>0 DEF Noted
<1> HIDE DEF at, S, A
<1>3. ASSUME Level(es, i) = 0 PROVE A = {}
  <2> SUFFICES ASSUME NEW h \in A PROVE FALSE
    OBVIOUS
  <2>1. at[h] \in S /\ Level(es, at[h]) = Level(es, i) - 1
    BY <1>0, <1>1
  <2>2. Level(es, at[h]) >= 0
    BY <1>2, <2>1 DEF Balanced
  <2>3. Level(es, at[h]) = -1
    BY <1>3, <2>1
  <2> QED BY <2>2, <2>3
<1>4. ASSUME Level(es, i) # 0
      PROVE  \E h \in DOMAIN at : /\ PlaceOver(es, i) = h + 1 /\ at[h] = Greatest(Up(es, i))
                                  /\ Level(es, at[h]) = Level(es, i) - 1
  <2> DEFINE g == Greatest(Up(es, i))
             h == Rank(S, g)
  <2>1. Up(es, i) # {}
    BY <1>0, <1>4, UpExists
  <2>2. Up(es, i) \in SUBSET (1 .. Len(es))
    BY <1>0 DEF Up
  <2>3. g \in Up(es, i) /\ \A m \in Up(es, i) : m <= g
    BY <1>0, <2>1, <2>2, GreatestIn
  <2> HIDE DEF g
  <2>4. g \in 1 .. i - 1 /\ es[g].ev = "start" /\ Level(es, g) = Level(es, i) - 1 /\ g \in Nat
    BY <1>0, <2>3 DEF Up
  <2>5. g \in S /\ g < i
    BY <1>0, <2>4 DEF S, Noted
  <2>6. h \in DOMAIN at /\ at[h] = g
    BY <1>0, <2>5
  <2> HIDE DEF h
  <2>7. h \in A
    BY <1>1, <2>4, <2>5, <2>6
  <2>8. ASSUME NEW f \in A PROVE f \in Int /\ f <= h
    <3>1. f \in DOMAIN at /\ at[f] < i /\ es[at[f]].ev = "start" /\ Level(es, at[f]) = Level(es, i) - 1
      BY <1>1
    <3>2. at[f] \in S /\ at[f] \in Nat /\ f \in Nat /\ h \in Nat
      BY <1>0, <2>6, <3>1
    <3>3. at[f] \in 1 .. i - 1
      BY <1>0, <1>2, <3>1, <3>2
    <3>4. at[f] \in Up(es, i)
      BY <3>1, <3>3 DEF Up
    <3>5. at[f] <= g
      BY <2>3, <3>4
    <3>6. CASE at[f] = g
      <4>1. Rank(S, at[f]) = f /\ Rank(S, at[h]) = h
        BY <1>0, <2>6, <3>1
      <4> QED BY <2>6, <3>2, <3>6, <4>1
    <3>7. CASE at[f] < g
      <4>1. f < h
        BY <1>0, <2>6, <3>1, <3>7
      <4> QED BY <3>2, <4>1
    <3> QED BY <2>4, <3>2, <3>5, <3>6, <3>7
  <2>9. Greatest(A) = h
    BY <2>7, <2>8, GreatestOf
  <2>10. PlaceOver(es, i) = h + 1
    BY <2>7, <2>9 DEF PlaceOver, A
  <2> QED BY <2>4, <2>6, <2>10 DEF g
<1> QED BY <1>3, <1>4 DEF PlaceOver, A, at

\* Where only tags are closed, the level does not rise.
LEMMA OnlyEnds ==
    ASSUME NEW T, NEW es \in Seq(T), NEW i \in Nat \ {0}, NEW j \in Nat, i < j,
           es[i].ev = "text", \A k \in (i + 1) .. (j - 1) : es[k].ev = "end"
    PROVE  j = i + 1 \/ Level(es, j) < Level(es, i)
<1> DEFINE l == Level(es, i)
           Good(k) == Level(es, k) <= l
           Bad == {k \in (i + 1) .. j : ~Good(k)}
<1>0. l \in Int /\ Level(es, i + 1) = l
  BY LevelStep
<1>l. \A k \in (i + 1) .. j : Level(es, k) \in Int
  <2> SUFFICES ASSUME NEW k \in (i + 1) .. j PROVE Level(es, k) \in Int
    OBVIOUS
  <2>1. k \in Nat \ {0}
    OBVIOUS
  <2> QED BY <2>1, LevelStep
<1>1. ASSUME NEW k \in (i + 1) .. (j - 1) PROVE Level(es, k + 1) = Level(es, k) - 1
  <2>1. k \in Nat \ {0} /\ es[k].ev = "end"
    OBVIOUS
  <2> QED BY <2>1, LevelStep
<1> HIDE DEF l
<1>2. ASSUME Bad # {} PROVE FALSE
  <2>0. Bad \in SUBSET Nat
    OBVIOUS
  <2>1. PICK k \in Bad : \A m \in Bad : k <= m
    BY <1>2, <2>0, LeastExists
  <2> DEFINE h == k - 1
  <2>2. k # i + 1
    BY <1>0, <2>1
  <2>3. h \in (i + 1) .. (j - 1) /\ k = h + 1 /\ h < k /\ h \in (i + 1) .. j
    BY <2>1, <2>2
  <2> HIDE DEF h
  <2>4. Good(h)
    BY <2>1, <2>3
  <2>5. Level(es, k) = Level(es, h) - 1 /\ Level(es, h) \in Int
    BY <1>1, <1>l, <2>3
  <2>6. Good(k)
    BY <1>0, <2>4, <2>5
  <2> QED BY <2>1, <2>6
<1>3. ASSUME j # i + 1 PROVE Level(es, j) < l
  <2> DEFINE h == j - 1
  <2>1. h \in (i + 1) .. (j - 1) /\ j = h + 1 /\ h \in (i + 1) .. j
    BY <1>3
  <2> HIDE DEF h
  <2>2. Level(es, j) = Level(es, h) - 1 /\ Level(es, h) \in Int
    BY <1>1, <1>l, <2>1
  <2>3. Good(h)
    BY <1>2, <2>1
  <2> QED BY <1>0, <2>2, <2>3
<1> QED BY <1>3 DEF l

\* Parsing events in which no text follows text joins none.
LEMMA NoneJoined ==
    ASSUME NEW T, NEW es \in Seq(T), NEW r, Eventful(T), Balanced(es), Apart(es), IsRaw(es, r)
    PROVE  \A k \in Nodes(r) : ~Joined(r, k)
<1> SUFFICES ASSUME NEW k \in Nodes(r), Joined(r, k) PROVE FALSE
  OBVIOUS
<1> DEFINE at == ShownAt(es)
           S == Noted(es)
           N == Cardinality(S)
<1>0. /\ S \in SUBSET (1 .. Len(es)) /\ N \in Nat /\ DOMAIN at = 1 .. N /\ Len(es) \in Nat
      /\ \A h \in DOMAIN at : at[h] \in S /\ Rank(S, at[h]) = h
      /\ \A g \in S : Rank(S, g) \in DOMAIN at /\ at[Rank(S, g)] = g
      /\ \A g, h \in DOMAIN at : at[g] < at[h] => g < h
  BY ShownInOrder
<1>1. /\ Nodes(r) = 1 .. N + 1 /\ r[1] = DocNode
      /\ \A h \in 1 .. N : /\ r[h + 1].p = PlaceOver(es, at[h])
                           /\ es[at[h]].ev # "text" => r[h + 1].k = "elem"
  BY DEF IsRaw
<1>2. \A g \in 1 .. Len(es) : g \notin S => es[g].ev = "end"
  BY DEF Noted
<1> HIDE DEF at, S, N
<1>3. k > 1 /\ r[k].k = "text" /\ r[k - 1].k = "text" /\ r[k].p = r[k - 1].p
  BY DEF Joined
<1>4. k - 1 # 1
  <2>1. DocNode.k = "doc"
    BY DEF DocNode
  <2> QED BY <1>1, <1>3, <2>1
<1> DEFINE g == k - 2
           h == g + 1
<1>5. g \in 1 .. N /\ h \in 1 .. N /\ k - 1 = g + 1 /\ k = h + 1 /\ g \in Nat /\ h = g + 1 /\ g # h /\ g < h
  BY <1>0, <1>1, <1>3, <1>4
<1> HIDE DEF g, h
<1> DEFINE i == at[g]
           j == at[h]
<1>6. es[i].ev = "text" /\ es[j].ev = "text" /\ PlaceOver(es, i) = PlaceOver(es, j)
  <2>1. r[g + 1].k = "text" /\ r[h + 1].k = "text" /\ r[g + 1].p = r[h + 1].p
    BY <1>3, <1>5
  <2> QED BY <1>1, <1>5, <2>1
<1>7. /\ i \in S /\ j \in S /\ i \in 1 .. Len(es) /\ j \in 1 .. Len(es) /\ i \in Nat \ {0} /\ j \in Nat
      /\ Rank(S, i) = g /\ Rank(S, j) = h /\ (j < i => h < g)
  <2>1. g \in DOMAIN at /\ h \in DOMAIN at
    BY <1>0, <1>5
  <2>2. i \in S /\ j \in S /\ Rank(S, i) = g /\ Rank(S, j) = h /\ (j < i => h < g)
    BY <1>0, <2>1
  <2> HIDE DEF i, j
  <2>3. i \in 1 .. Len(es) /\ j \in 1 .. Len(es)
    BY <1>0, <2>2
  <2>4. i \in Nat \ {0} /\ j \in Nat
    BY <1>0, <2>3
  <2> QED BY <2>2, <2>3, <2>4
<1>p. \A m \in S : Rank(S, m) \in DOMAIN at /\ at[Rank(S, m)] = m
  BY <1>0
<1>q. ASSUME NEW m \in S, i < m, m < j PROVE FALSE
  <2> DEFINE f == Rank(S, m)
  <2>1. f \in DOMAIN at /\ at[f] = m
    BY <1>p
  <2> HIDE DEF f
  <2>2. g < f /\ f < h
    BY <1>0, <1>5, <1>q, <2>1
  <2>3. f \in Nat
    BY <1>0, <2>1
  <2> QED BY <1>5, <2>2, <2>3
<1> HIDE DEF i, j
<1>8. i < j
  <2>1. i # j
    BY <1>5, <1>7
  <2> QED BY <1>5, <1>7, <2>1
<1>9. \A m \in (i + 1) .. (j - 1) : es[m].ev = "end"
  <2> SUFFICES ASSUME NEW m \in (i + 1) .. (j - 1) PROVE es[m].ev = "end"
    OBVIOUS
  <2>1. i < m /\ m < j /\ m \in 1 .. Len(es)
    BY <1>0, <1>7
  <2>2. m \notin S
    BY <1>q, <2>1
  <2> QED BY <1>2, <2>1, <2>2
<1>10. j = i + 1 \/ Level(es, j) < Level(es, i)
  BY <1>6, <1>7, <1>8, <1>9, OnlyEnds
<1>11. j # i + 1
  <2>1. CASE j = i + 1
    <3>1. i \in 1 .. Len(es) - 1
      BY <1>0, <1>7, <2>1
    <3>2. ~(es[i].ev = "text" /\ es[i + 1].ev = "text")
      BY <3>1 DEF Apart
    <3> QED BY <1>6, <2>1, <3>2
  <2> QED BY <2>1
<1>12. Level(es, j) >= 0 /\ Level(es, j) \in Int /\ Level(es, i) \in Int
  <2>1. j \in 1 .. Len(es) + 1 /\ j \in Nat \ {0}
    BY <1>0, <1>7
  <2> QED BY <1>7, <2>1, LevelStep DEF Balanced
<1>13. Level(es, i) # 0
  BY <1>10, <1>11, <1>12
<1>14. PICK a \in DOMAIN at : PlaceOver(es, i) = a + 1 /\ Level(es, at[a]) = Level(es, i) - 1
  <2>1. i \in Noted(es)
    BY <1>7 DEF S
  <2> QED BY <1>13, <2>1, PlaceUp DEF at
<1>15. a \in Nat /\ a # 0
  BY <1>0
<1>16. j \in Noted(es)
  BY <1>7 DEF S
<1>17. CASE Level(es, j) = 0
  <2>1. PlaceOver(es, j) = 1
    BY <1>16, <1>17, PlaceUp
  <2>2. a + 1 = 1
    BY <1>6, <1>14, <2>1, Zenon
  <2> QED BY <1>15, <2>2
<1>18. CASE Level(es, j) # 0
  <2>1. PICK b \in DOMAIN at : PlaceOver(es, j) = b + 1 /\ Level(es, at[b]) = Level(es, j) - 1
    BY <1>16, <1>18, PlaceUp DEF at
  <2>2. b \in Nat
    BY <1>0
  <2>5. a + 1 = b + 1
    BY <1>6, <1>14, <2>1, Zenon
  <2>3. a = b
    BY <1>15, <2>2, <2>5
  <2>4. Level(es, i) - 1 = Level(es, j) - 1
    BY <1>14, <2>1, <2>3
  <2> QED BY <1>10, <1>11, <1>12, <2>4
<1> QED BY <1>17, <1>18

\* Reading such events again: what stands in what is what they say.
LEMMA ParseSame ==
    ASSUME NEW T, NEW es \in Seq(T), Eventful(T), Balanced(es), Apart(es)
    PROVE  \E r : /\ IsRaw(es, r) /\ Nodes(ParseEvents(es)) = Nodes(r)
                  /\ \A n \in Nodes(r) : SameNode(ParseEvents(es)[n], r[n])
<1>1. PICK r : ParseEvents(es) = BindNames(JoinText(r)) /\ IsRaw(es, r)
  BY RawParse
<1> DEFINE q == JoinText(r)
           u == ParseEvents(es)
<1>2. DocumentOK(r) /\ TreeOK(r)
  BY <1>1 DEF IsRaw
<1>3. \A k \in Nodes(r) : ~Joined(r, k)
  BY <1>1, NoneJoined
<1>4. Nodes(q) = Nodes(r) /\ \A n \in Nodes(r) : SameNode(q[n], r[n])
  BY <1>2, <1>3, JoinNothing
<1>5. DocumentOK(q)
  BY <1>2, JoinKeeps
<1>6. Nodes(BindNames(q)) = Nodes(q) /\ \A n \in Nodes(q) : SameNode(BindNames(q)[n], q[n])
  <2> HIDE DEF q
  <2> QED BY <1>5, BindSame
<1>7. u = BindNames(q)
  BY <1>1
<1> HIDE DEF u, q
<1>8. Nodes(u) = Nodes(r) /\ \A n \in Nodes(r) : SameNode(u[n], q[n])
  BY <1>4, <1>6, <1>7
<1>9. \A n \in Nodes(r) : SameNode(u[n], r[n])
  BY <1>4, <1>8 DEF SameNode
<1> QED BY <1>1, <1>8, <1>9 DEF u

\* Which event a node stands for, and where it stands.
ReadFrom(es, u) ==
    /\ Nodes(u) = 1 .. Cardinality(Noted(es)) + 1
    /\ u[1].k = "doc" /\ u[1].p = 0 /\ u[1].orig = {} /\ u[1].attrs = {}
    /\ \A h \in 1 .. Cardinality(Noted(es)) :
          LET i == ShownAt(es)[h]
              n == u[h + 1]
          IN  /\ i \in Noted(es) /\ n.orig = es[i].orig /\ n.prefix = Default
              /\ IF es[i].ev = "text" THEN n.k = "text" /\ n.attrs = {} ELSE n.k = "elem" /\ n.attrs = es[i].attrs
              /\ Level(es, i) = 0 => n.p = 1
              /\ Level(es, i) # 0 => n.p # 1 /\ u[n.p].orig = es[Greatest(Up(es, i))].orig

\* Every node of what is read stands for one of the events, where the event stands.
LEMMA ParseReads ==
    ASSUME NEW T, NEW es \in Seq(T), Eventful(T), Balanced(es), Apart(es)
    PROVE  ReadFrom(es, ParseEvents(es))
<1>1. PICK r : /\ IsRaw(es, r) /\ Nodes(ParseEvents(es)) = Nodes(r)
               /\ \A n \in Nodes(r) : SameNode(ParseEvents(es)[n], r[n])
  BY ParseSame
<1> DEFINE u == ParseEvents(es)
           at == ShownAt(es)
           N == Cardinality(Noted(es))
<1>2. N \in Nat /\ DOMAIN at = 1 .. N /\ \A h \in 1 .. N : at[h] \in Noted(es)
  BY ShownInOrder
<1>3. /\ Nodes(r) = 1 .. N + 1 /\ r[1] = DocNode
      /\ \A h \in 1 .. N :
            /\ r[h + 1].orig = es[at[h]].orig /\ r[h + 1].p = PlaceOver(es, at[h])
            /\ r[h + 1].prefix = Default
            /\ IF es[at[h]].ev = "text" THEN r[h + 1].k = "text" /\ r[h + 1].attrs = {}
               ELSE r[h + 1].k = "elem" /\ r[h + 1].attrs = es[at[h]].attrs
  BY <1>1 DEF IsRaw
<1> HIDE DEF u, N
<1>4. Nodes(u) = 1 .. N + 1 /\ \A n \in 1 .. N + 1 : SameNode(u[n], r[n])
  BY <1>1, <1>3 DEF u
<1>5. u[1].k = "doc" /\ u[1].p = 0 /\ u[1].orig = {} /\ u[1].attrs = {}
  <2>1. SameNode(u[1], DocNode)
    BY <1>2, <1>3, <1>4
  <2> QED BY <2>1 DEF SameNode, DocNode
<1>6. ASSUME NEW h \in 1 .. N
      PROVE  /\ at[h] \in Noted(es) /\ u[h + 1].orig = es[at[h]].orig /\ u[h + 1].prefix = Default
             /\ u[h + 1].p = PlaceOver(es, at[h])
             /\ IF es[at[h]].ev = "text" THEN u[h + 1].k = "text" /\ u[h + 1].attrs = {}
                ELSE u[h + 1].k = "elem" /\ u[h + 1].attrs = es[at[h]].attrs
  <2>1. SameNode(u[h + 1], r[h + 1])
    BY <1>2, <1>4
  <2> HIDE DEF at
  <2> QED BY <1>2, <1>3, <2>1 DEF SameNode
<1>7. ASSUME NEW h \in 1 .. N
      PROVE  /\ Level(es, at[h]) = 0 => u[h + 1].p = 1
             /\ Level(es, at[h]) # 0 =>
                  u[h + 1].p # 1 /\ u[u[h + 1].p].orig = es[Greatest(Up(es, at[h]))].orig
  <2> DEFINE i == at[h]
  <2>0. i \in Noted(es)
    BY <1>6
  <2> HIDE DEF i
  <2>1. Level(es, i) = 0 => PlaceOver(es, i) = 1
    BY <2>0, PlaceUp
  <2>2. u[h + 1].p = PlaceOver(es, i)
    BY <1>6 DEF i
  <2>3. ASSUME Level(es, i) # 0
        PROVE  u[h + 1].p # 1 /\ u[u[h + 1].p].orig = es[Greatest(Up(es, i))].orig
    <3>1. PICK g \in DOMAIN at : PlaceOver(es, i) = g + 1 /\ at[g] = Greatest(Up(es, i))
      BY <2>0, <2>3, PlaceUp
    <3>2. g \in 1 .. N /\ g + 1 # 1
      BY <1>2
    <3>3. u[g + 1].orig = es[at[g]].orig
      BY <1>6, <3>2
    <3> QED BY <2>2, <3>1, <3>2, <3>3, Zenon
  <2> QED BY <2>1, <2>2, <2>3 DEF i
<1> QED BY <1>4, <1>5, <1>6, <1>7 DEF ReadFrom, u, N

\* The shape of what is read, and that it is XML.
LEMMA ParseShape ==
    ASSUME NEW T, NEW es \in Seq(T), Eventful(T), Balanced(es), Apart(es)
    PROVE  Shape(ParseEvents(es)) = {<<o, {}>> : o \in Tops(es)} \union Nested(es)
<1> DEFINE u == ParseEvents(es)
           at == ShownAt(es)
           N == Cardinality(Noted(es))
           top(i) == <<es[i].orig, {}>>
           in(i) == <<es[i].orig, es[Greatest(Up(es, i))].orig>>
           pair(n) == <<u[n].orig, u[u[n].p].orig>>
<1>1. /\ N \in Nat
      /\ \A i \in Noted(es) : \E h \in 1 .. N : at[h] = i
  BY ShownInOrder
<1>2. ReadFrom(es, u)
  BY ParseReads
<1> HIDE DEF u, N
<1>3. Nodes(u) = 1 .. N + 1 /\ u[1].k = "doc" /\ u[1].orig = {}
  BY <1>2 DEF ReadFrom, N
<1>4. ASSUME NEW h \in 1 .. N
      PROVE  /\ at[h] \in Noted(es) /\ u[h + 1].k \in {"elem", "text"}
             /\ Level(es, at[h]) = 0 => pair(h + 1) = top(at[h])
             /\ Level(es, at[h]) # 0 => pair(h + 1) = in(at[h])
  <2>1. /\ at[h] \in Noted(es) /\ u[h + 1].k \in {"elem", "text"} /\ u[h + 1].orig = es[at[h]].orig
        /\ Level(es, at[h]) = 0 => u[h + 1].p = 1
        /\ Level(es, at[h]) # 0 => u[u[h + 1].p].orig = es[Greatest(Up(es, at[h]))].orig
    BY <1>2 DEF ReadFrom, N
  <2> QED BY <1>3, <2>1
<1>5. Shape(u) = {pair(n) : n \in {m \in Nodes(u) : u[m].k \in {"elem", "text"}}}
  BY DEF Shape
<1>6. \A n \in {m \in Nodes(u) : u[m].k \in {"elem", "text"}} : \E h \in 1 .. N : n = h + 1
  <2> SUFFICES ASSUME NEW n \in Nodes(u), u[n].k \in {"elem", "text"} PROVE \E h \in 1 .. N : n = h + 1
    OBVIOUS
  <2>1. n # 1
    BY <1>3
  <2>2. n - 1 \in 1 .. N /\ n = (n - 1) + 1
    BY <1>1, <1>3, <2>1
  <2> QED BY <2>2
<1>7. \A h \in 1 .. N : h + 1 \in {m \in Nodes(u) : u[m].k \in {"elem", "text"}}
  <2> SUFFICES ASSUME NEW h \in 1 .. N PROVE h + 1 \in Nodes(u) /\ u[h + 1].k \in {"elem", "text"}
    OBVIOUS
  <2>1. h + 1 \in Nodes(u)
    BY <1>1, <1>3
  <2>2. u[h + 1].k \in {"elem", "text"}
    BY <1>4
  <2> QED BY <2>1, <2>2
<1>8. {<<o, {}>> : o \in Tops(es)} = {top(i) : i \in {j \in Noted(es) : Level(es, j) = 0}}
  BY DEF Tops
<1>9. Nested(es) = {in(i) : i \in {j \in Noted(es) : Level(es, j) # 0}}
  BY DEF Nested
<1> DEFINE A == {<<o, {}>> : o \in Tops(es)}
           K == {m \in Nodes(u) : u[m].k \in {"elem", "text"}}
<1>10. /\ Shape(u) = {pair(n) : n \in K} /\ A = {top(i) : i \in {j \in Noted(es) : Level(es, j) = 0}}
       /\ (\A n \in K : \E h \in 1 .. N : n = h + 1) /\ (\A h \in 1 .. N : h + 1 \in K)
  BY <1>5, <1>6, <1>7, <1>8
<1> HIDE DEF A, K, pair, top, in, at
<1>11. ASSUME NEW x \in Shape(u) PROVE x \in A \union Nested(es)
  <2>1. PICK n \in K : x = pair(n)
    BY <1>10
  <2>2. PICK h \in 1 .. N : n = h + 1
    BY <1>10
  <2>3. CASE Level(es, at[h]) = 0
    BY <1>4, <1>10, <2>1, <2>2, <2>3
  <2>4. CASE Level(es, at[h]) # 0
    BY <1>4, <1>9, <2>1, <2>2, <2>4
  <2> QED BY <2>3, <2>4
<1>12. ASSUME NEW i \in Noted(es)
       PROVE  /\ Level(es, i) = 0 => top(i) \in Shape(u)
              /\ Level(es, i) # 0 => in(i) \in Shape(u)
  <2>1. PICK h \in 1 .. N : at[h] = i
    BY <1>1
  <2>2. pair(h + 1) \in Shape(u)
    BY <1>10
  <2> QED BY <1>4, <2>1, <2>2
<1>13. A \subseteq Shape(u) /\ Nested(es) \subseteq Shape(u)
  BY <1>9, <1>10, <1>12
<1>14. Shape(u) = A \union Nested(es)
  BY <1>11, <1>13
<1> QED BY <1>14 DEF A, u

\* With one tag at the top, no prefixes, and no attribute given twice.
LEMMA ParseWellFormed ==
    ASSUME NEW T, NEW es \in Seq(T), Eventful(T), Balanced(es), Apart(es), es # <<>>, es[1].ev = "start",
           \A i \in Noted(es) : Level(es, i) = 0 => i = 1,
           \A e \in T : e.ev = "start" => \A a, b \in e.attrs : a.prefix = Default /\ (a.local = b.local => a = b)
    PROVE  WellFormed(ParseEvents(es))
<1> DEFINE u == ParseEvents(es)
           at == ShownAt(es)
           N == Cardinality(Noted(es))
<1>1. /\ N \in Nat /\ DOMAIN at = 1 .. N /\ Noted(es) \in SUBSET (1 .. Len(es))
      /\ \A h \in 1 .. N : at[h] \in Noted(es) /\ Rank(Noted(es), at[h]) = h
      /\ \A i \in Noted(es) : \E h \in 1 .. N : at[h] = i
  BY ShownInOrder
<1>2. ReadFrom(es, u)
  BY ParseReads
<1> HIDE DEF u, N
<1>3. Nodes(u) = 1 .. N + 1 /\ u[1].k = "doc" /\ u[1].p = 0 /\ u[1].attrs = {}
  BY <1>2 DEF ReadFrom, N
<1>4. ASSUME NEW h \in 1 .. N
      PROVE  /\ u[h + 1].prefix = Default
             /\ IF es[at[h]].ev = "text" THEN u[h + 1].k = "text" /\ u[h + 1].attrs = {}
                ELSE u[h + 1].k = "elem" /\ u[h + 1].attrs = es[at[h]].attrs
             /\ Level(es, at[h]) = 0 <=> u[h + 1].p = 1
  BY <1>2 DEF ReadFrom, N
<1> HIDE DEF at
<1>5. 1 \in Noted(es) /\ Level(es, 1) = 0
  <2>1. Len(es) # 0 /\ Len(es) \in Nat
    OBVIOUS
  <2> QED BY <2>1, LevelFirst DEF Noted
<1>6. PICK f \in 1 .. N : at[f] = 1
  BY <1>1, <1>5
<1>7. \A n \in Nodes(u) : n # 1 => \E h \in 1 .. N : n = h + 1
  <2> SUFFICES ASSUME NEW n \in Nodes(u), n # 1 PROVE \E h \in 1 .. N : n = h + 1
    OBVIOUS
  <2>1. n - 1 \in 1 .. N /\ n = (n - 1) + 1
    BY <1>1, <1>3, SMTT(30)
  <2> QED BY <2>1
<1>8. \A n \in Nodes(u) : u[n].p = 1 => n = f + 1
  <2> SUFFICES ASSUME NEW n \in Nodes(u), u[n].p = 1 PROVE n = f + 1
    OBVIOUS
  <2>1. n # 1
    BY <1>3
  <2>2. PICK h \in 1 .. N : n = h + 1
    BY <1>7, <2>1
  <2>3. Level(es, at[h]) = 0 /\ at[h] \in Noted(es)
    BY <1>1, <1>4, <2>2
  <2>4. at[h] = 1
    BY <2>3
  <2>5. Rank(Noted(es), at[h]) = h /\ Rank(Noted(es), at[f]) = f
    BY <1>1
  <2> QED BY <1>6, <2>2, <2>4, <2>5
<1>9. u[f + 1].p = 1 /\ u[f + 1].k = "elem" /\ f + 1 \in Nodes(u)
  <2>1. es[at[f]].ev # "text" /\ Level(es, at[f]) = 0
    BY <1>5, <1>6
  <2>2. f + 1 \in Nodes(u)
    BY <1>1, <1>3
  <2> QED BY <1>4, <2>1, <2>2
<1>10. Cardinality({n \in Nodes(u) : u[n].p = 1 /\ u[n].k = "elem"}) = 1
  <2>1. {n \in Nodes(u) : u[n].p = 1 /\ u[n].k = "elem"} = {f + 1}
    BY <1>8, <1>9
  <2> QED BY <2>1, FS_Singleton
<1>11. ~\E n \in Nodes(u) : u[n].p = 1 /\ u[n].k = "text"
  BY <1>8, <1>9
<1>12. ASSUME NEW n \in Nodes(u)
       PROVE  /\ \A a, b \in u[n].attrs : a.prefix = Default /\ (a.local = b.local => a = b)
              /\ IsElem(u, n) => u[n].prefix = Default
  <2>1. CASE n = 1
    BY <1>3, <2>1 DEF IsElem
  <2>2. CASE n # 1
    <3>1. PICK h \in 1 .. N : n = h + 1
      BY <1>7, <2>2
    <3>2. CASE es[at[h]].ev = "text"
      <4>1. u[n].attrs = {} /\ u[n].prefix = Default
        BY <1>4, <3>1, <3>2
      <4> QED BY <4>1
    <3>3. CASE es[at[h]].ev # "text"
      <4>1. u[n].attrs = es[at[h]].attrs /\ u[n].prefix = Default
        BY <1>4, <3>1, <3>3
      <4>2. at[h] \in 1 .. Len(es) /\ es[at[h]].ev # "end"
        BY <1>1 DEF Noted
      <4>3. es[at[h]] \in T
        BY <4>2
      <4>4. es[at[h]].ev = "start"
        BY <3>3, <4>2, <4>3 DEF Eventful
      <4> QED BY <4>1, <4>3, <4>4
    <3> QED BY <3>2, <3>3
  <2> QED BY <2>1, <2>2
<1>13. ASSUME NEW n \in Nodes(u), IsElem(u, n)
       PROVE  ({u[n].prefix} \union {a.prefix : a \in u[n].attrs}) \ {Default, Xml} = {}
  BY <1>12, <1>13
<1>14. \A n \in Nodes(u) : \A a, b \in u[n].attrs : a.prefix = b.prefix /\ a.local = b.local => a = b
  BY <1>12
<1> QED BY <1>10, <1>11, <1>13, <1>14 DEF WellFormed, u

\* A stylesheet that copies keeps what stands in what, and writes XML.
LEMMA CopyKeeps ==
    ASSUME NEW d, NEW s, DocumentOK(d), TreeOK(d), Rooted(d), SheetOK(s), Copies(s, d), Copyable(s, d)
    PROVE  /\ WellFormed(apply_minimal_xslt(d, s))
           /\ Shape(apply_minimal_xslt(d, s)) = Shape(d)
<1> DEFINE n == CHOOSE m \in Nodes(d) : d[m].p = 1 /\ IsElem(d, m)
           T == CopyEvents(d)
<1>0. Len(d) \in Nat /\ Nodes(d) = 1 .. Len(d)
  BY DEF DocumentOK
<1>1. n \in Nodes(d) /\ d[n].p = 1 /\ IsElem(d, n)
  BY DEF Rooted
<1>2. PICK f : /\ xslt_execute(d, s) = f[<<n, 0>>]
               /\ \A q \in Spots(d, s) : f[q] = Line(d, s, f, q[1], q[2])
  BY <1>0, RunSolves
<1>2a. Interprets(d, s, f)
  BY <1>2 DEF Interprets
<1> HIDE DEF n
<1> DEFINE es == f[<<n, 0>>]
<1>3. n # 1
  <2>1. d[1].p = 0
    BY <1>0, <1>1 DEF TreeOK
  <2> QED BY <1>1, <2>1
<1>4. Says(d, n, es)
  BY <1>1, <1>2a, <1>3, NodeSays
<1> HIDE DEF es
<1>5. /\ es \in Seq(T) /\ Eventful(T) /\ Balanced(es) /\ Apart(es) /\ es # <<>>
      /\ \A i \in Noted(es) : Level(es, i) = 0 => i = 1
  BY <1>1, <1>4, CopyEventful DEF Says
<1>6. es[1].ev = "start"
  <2>1. es[1] = CopyTag(d, n)
    BY <1>1, <1>4 DEF Says
  <2> QED BY <2>1 DEF CopyTag, StartTag
<1>7. \A e \in T : e.ev = "start" => \A a, b \in e.attrs : a.prefix = Default /\ (a.local = b.local => a = b)
  <2> SUFFICES ASSUME NEW e \in T, e.ev = "start", NEW a \in e.attrs, NEW b \in e.attrs
               PROVE  a.prefix = Default /\ (a.local = b.local => a = b)
    OBVIOUS
  <2>1. EndTag.ev = "end" /\ (\A m : TextOf(d[m].orig).ev = "text")
    BY DEF EndTag, TextOf
  <2>2. PICK m \in Nodes(d) : e = CopyTag(d, m)
    BY <2>1 DEF CopyEvents
  <2>3. e.attrs = Unprefixed(d[m].attrs)
    BY <2>2 DEF CopyTag, StartTag
  <2>4. PICK x \in d[m].attrs : a = [prefix |-> Default, local |-> x.local, value |-> x.value]
    BY <2>3 DEF Unprefixed
  <2>5. PICK y \in d[m].attrs : b = [prefix |-> Default, local |-> y.local, value |-> y.value]
    BY <2>3 DEF Unprefixed
  <2>6. a.prefix = Default /\ a.local = x.local /\ b.local = y.local
    BY <2>4, <2>5
  <2>7. x.local = y.local => x = y
    BY DEF Copyable
  <2> QED BY <2>4, <2>5, <2>6, <2>7
<1>8. WellFormed(ParseEvents(es))
  BY <1>5, <1>6, <1>7, ParseWellFormed
<1>9. Shape(ParseEvents(es)) = {<<o, {}>> : o \in Tops(es)} \union Nested(es)
  BY <1>5, ParseShape
<1>10. Tops(es) = {d[n].orig} /\ Nested(es) = Below(d, n)
  <2>1. Copied(d, {n}) = {d[n].orig}
    BY <1>1 DEF Copied, IsElem
  <2> QED BY <1>4, <2>1 DEF Says
<1>11. Shape(d) = {<<d[n].orig, {}>>} \union Below(d, n)
  <2> DEFINE pair(m) == <<d[m].orig, d[d[m].p].orig>>
  <2>0. d[1].k = "doc" /\ d[1].orig = {} /\ d[1].p = 0 /\ 1 \in Nodes(d)
    BY <1>0, <1>1 DEF TreeOK, DocumentOK
  <2>1. Shape(d) = {pair(m) : m \in {k \in Nodes(d) : d[k].k \in {"elem", "text"}}}
    BY DEF Shape
  <2>2. Below(d, n) = {pair(m) : m \in {l \in Subtree(d, n) \ {n} : d[l].k # "comment"}}
    BY DEF Below
  <2>3. pair(n) = <<d[n].orig, {}>>
    BY <1>1, <2>0
  <2>4. ASSUME NEW m \in Nodes(d), d[m].k \in {"elem", "text"} PROVE m \in Subtree(d, n)
    <3>1. 1 \in AncestorsOrSelf(d, m) /\ m # 1
      BY <1>0, <2>0, <2>4, AncestorsOK
    <3>2. PICK c \in Children(d, 1) : c \in AncestorsOrSelf(d, m)
      BY <2>0, <3>1, ChildAbove
    <3>3. c \in Nodes(d) /\ d[c].p = 1
      BY DEF Children
    <3>4. d[c].k # "comment"
      <4>1. CASE c = m
        BY <2>4, <4>1
      <4>2. CASE c # m
        <5>1. d[c].k \in {"doc", "elem"}
          BY <1>0, <3>2, <4>2, AncestorsOK
        <5> QED BY <5>1
      <4> QED BY <4>1, <4>2
    <3>5. d[n].k # "comment"
      BY <1>1 DEF IsElem
    <3>6. c = n
      BY <1>1, <3>3, <3>4, <3>5 DEF Copyable
    <3> QED BY <3>2, <3>6 DEF Subtree
  <2>5. ASSUME NEW l \in Subtree(d, n) \ {n}, d[l].k # "comment" PROVE l \in Nodes(d) /\ d[l].k \in {"elem", "text"}
    <3>1. l \in Nodes(d) /\ n \in AncestorsOrSelf(d, l)
      BY DEF Subtree
    <3>2. n \in 1 .. l
      BY <1>0, <3>1, AncestorsOK
    <3>3. l # 1
      BY <1>0, <1>1, <1>3, <3>2
    <3> QED BY <2>5, <3>1, <3>3 DEF TreeOK, DocumentOK
  <2>6. n \in {k \in Nodes(d) : d[k].k \in {"elem", "text"}}
    BY <1>1 DEF IsElem
  <2> DEFINE A == {k \in Nodes(d) : d[k].k \in {"elem", "text"}}
             B == {l \in Subtree(d, n) \ {n} : d[l].k # "comment"}
  <2>7. A = {n} \union B
    <3>1. \A k \in A : k = n \/ k \in B
      BY <2>4
    <3>2. \A k \in B : k \in A
      BY <2>5
    <3> HIDE DEF B
    <3> QED BY <2>6, <3>1, <3>2
  <2>8. Shape(d) = {pair(m) : m \in A} /\ Below(d, n) = {pair(m) : m \in B}
    BY <2>1, <2>2
  <2> HIDE DEF A, B, pair
  <2>9. Shape(d) = {pair(n)} \union Below(d, n)
    BY <2>7, <2>8
  <2> QED BY <2>3, <2>9
<1>12. apply_minimal_xslt(d, s) = ParseEvents(es)
  BY <1>2 DEF apply_minimal_xslt, es
<1>13. {<<o, {}>> : o \in Tops(es)} = {<<d[n].orig, {}>>}
  BY <1>10
<1>14. Shape(ParseEvents(es)) = Shape(d)
  BY <1>9, <1>10, <1>11, <1>13
<1> QED BY <1>8, <1>12, <1>14

-----------------------------------------------------------------------------
(* XPath Filter 2.0.                                                       *)

\* The filter sets after 0 .. n filters.
AllOf(d, o, x, fs, n, a) ==
    a = [k \in 0 .. n |-> IF k = 0 THEN all(d) ELSE ApplyFilter(d, o, x, fs[k], a[k - 1])]

\* The filter sets after 0, 1, .. filters exist, however many there are.
LEMMA FoldExists ==
    ASSUME NEW d, NEW o, NEW x, NEW fs
    PROVE  \A n \in Nat : \E a : AllOf(d, o, x, fs, n, a)
<1> DEFINE Bad == {n \in Nat : ~\E a : AllOf(d, o, x, fs, n, a)}
<1> SUFFICES ASSUME Bad # {} PROVE FALSE
  OBVIOUS
<1>1. PICK n \in Bad : \A j \in Bad : n <= j
  BY LeastExists
<1>2. CASE n = 0
  <2> DEFINE a == [k \in 0 .. 0 |-> all(d)]
  <2>1. AllOf(d, o, x, fs, 0, a)
    BY DEF AllOf
  <2> QED BY <1>2, <2>1
<1>3. CASE n # 0
  <2>1. n \in Nat /\ n - 1 \in Nat /\ n - 1 \notin Bad
    BY <1>1, <1>3
  <2>2. PICK b : AllOf(d, o, x, fs, n - 1, b)
    BY <2>1
  <2> DEFINE next == ApplyFilter(d, o, x, fs[n], b[n - 1])
             a == [k \in 0 .. n |-> IF k = n THEN next ELSE b[k]]
  <2>3. \A k \in 0 .. n - 1 : b[k] = IF k = 0 THEN all(d) ELSE ApplyFilter(d, o, x, fs[k], b[k - 1])
    BY <2>2 DEF AllOf
  <2> HIDE DEF next
  <2>4. \A k \in 0 .. n - 1 : a[k] = b[k]
    BY <2>1
  <2>5. \A k \in 0 .. n : a[k] = IF k = 0 THEN all(d) ELSE ApplyFilter(d, o, x, fs[k], a[k - 1])
    <3> SUFFICES ASSUME NEW k \in 0 .. n
                 PROVE  a[k] = IF k = 0 THEN all(d) ELSE ApplyFilter(d, o, x, fs[k], a[k - 1])
      OBVIOUS
    <3>1. CASE k = n
      <4>1. a[k] = next /\ n - 1 \in 0 .. n - 1 /\ k # 0
        BY <2>1, <3>1, <1>3
      <4>2. a[k - 1] = b[n - 1]
        BY <2>4, <3>1, <4>1
      <4> HIDE DEF a
      <4> QED BY <3>1, <4>1, <4>2 DEF next
    <3>2. CASE k # n
      <4>1. k \in 0 .. n - 1
        BY <2>1, <3>2
      <4>2. k = 0 \/ k - 1 \in 0 .. n - 1
        BY <2>1, <4>1
      <4> HIDE DEF a
      <4> QED BY <2>3, <2>4, <4>1, <4>2
    <3> QED BY <3>1, <3>2
  <2>6. a = [k \in 0 .. n |-> a[k]]
    OBVIOUS
  <2> HIDE DEF a
  <2>7. AllOf(d, o, x, fs, n, a)
    BY <2>5, <2>6 DEF AllOf
  <2> QED BY <1>1, <2>7
<1> QED BY <1>2, <1>3

\* FilterNodes is the last of them.
LEMMA FoldResult ==
    ASSUME NEW d, NEW o, NEW x, NEW fs, Len(fs) \in Nat
    PROVE  \E a : AllOf(d, o, x, fs, Len(fs), a) /\ FilterNodes(d, o, x, fs) = a[Len(fs)]
<1> DEFINE c == CHOOSE a : AllOf(d, o, x, fs, Len(fs), a)
<1>1. AllOf(d, o, x, fs, Len(fs), c)
  BY FoldExists
<1>2. FilterNodes(d, o, x, fs) = c[Len(fs)]
  BY DEF FilterNodes, AllOf
<1> QED BY <1>1, <1>2

\* The nodes a filter's location path selects.
Selected(d, o, x, f) == evaluate_simple_xpath(d, o, x, f.path).nodes

\* What the first k filters select, node by node.
InAfter(d, o, x, fs, k, n) ==
    \E i \in 0 .. k :
        /\ i = 0 \/ (fs[i].filter = "union" /\ n \in Selected(d, o, x, fs[i]))
        /\ \A j \in (i + 1) .. k : /\ fs[j].filter = "intersect" => n \in Selected(d, o, x, fs[j])
                                   /\ fs[j].filter = "subtract" => n \notin Selected(d, o, x, fs[j])

\* A location path selects nodes of the document and leaves no marks.
LEMMA PathSelects ==
    ASSUME NEW d, NEW o, NEW x, NEW path
    PROVE  /\ evaluate_simple_xpath(d, o, x, path).nodes \subseteq Nodes(d)
           /\ evaluate_simple_xpath(d, o, x, path).vis = <<>>
           /\ evaluate_simple_xpath(d, o, x, path).noattrs = FALSE
BY DEF evaluate_simple_xpath, NodeSet, Subtree

\* One filter more.
LEMMA InAfterStep ==
    ASSUME NEW d, NEW o, NEW x, NEW fs, NEW k \in Nat, k # 0, NEW n,
           fs[k].filter \in {"intersect", "subtract", "union"}
    PROVE  /\ fs[k].filter = "intersect" =>
                (InAfter(d, o, x, fs, k, n) <=> InAfter(d, o, x, fs, k - 1, n) /\ n \in Selected(d, o, x, fs[k]))
           /\ fs[k].filter = "subtract" =>
                (InAfter(d, o, x, fs, k, n) <=> InAfter(d, o, x, fs, k - 1, n) /\ n \notin Selected(d, o, x, fs[k]))
           /\ fs[k].filter = "union" =>
                (InAfter(d, o, x, fs, k, n) <=> InAfter(d, o, x, fs, k - 1, n) \/ n \in Selected(d, o, x, fs[k]))
<1> DEFINE from(i) == i = 0 \/ (fs[i].filter = "union" /\ n \in Selected(d, o, x, fs[i]))
           kept(j) == /\ fs[j].filter = "intersect" => n \in Selected(d, o, x, fs[j])
                      /\ fs[j].filter = "subtract" => n \notin Selected(d, o, x, fs[j])
<1>1. \A l \in Nat : InAfter(d, o, x, fs, l, n) <=> \E i \in 0 .. l : from(i) /\ \A j \in (i + 1) .. l : kept(j)
  BY DEF InAfter
<1>2. (from(k) <=> (fs[k].filter = "union" /\ n \in Selected(d, o, x, fs[k])))
  OBVIOUS
<1>3. kept(k) <=> CASE fs[k].filter = "intersect" -> n \in Selected(d, o, x, fs[k])
                    [] fs[k].filter = "subtract" -> n \notin Selected(d, o, x, fs[k])
                    [] fs[k].filter = "union" -> TRUE
  OBVIOUS
<1> HIDE DEF from, kept
<1>4. InAfter(d, o, x, fs, k, n) <=> from(k) \/ (InAfter(d, o, x, fs, k - 1, n) /\ kept(k))
  <2>1. k - 1 \in Nat
    OBVIOUS
  <2>2. ASSUME InAfter(d, o, x, fs, k, n) PROVE from(k) \/ (InAfter(d, o, x, fs, k - 1, n) /\ kept(k))
    <3>1. PICK i \in 0 .. k : from(i) /\ \A j \in (i + 1) .. k : kept(j)
      BY <1>1, <2>2
    <3>2. CASE i # k
      <4>1. i \in 0 .. k - 1 /\ k \in (i + 1) .. k /\ \A j \in (i + 1) .. k - 1 : j \in (i + 1) .. k
        BY <3>2
      <4> QED BY <1>1, <2>1, <3>1, <4>1
    <3> QED BY <3>1, <3>2
  <2>3. ASSUME from(k) PROVE InAfter(d, o, x, fs, k, n)
    <3>1. k \in 0 .. k /\ \A j \in (k + 1) .. k : kept(j)
      OBVIOUS
    <3> QED BY <1>1, <2>3, <3>1
  <2>4. ASSUME InAfter(d, o, x, fs, k - 1, n), kept(k) PROVE InAfter(d, o, x, fs, k, n)
    <3>1. PICK i \in 0 .. k - 1 : from(i) /\ \A j \in (i + 1) .. k - 1 : kept(j)
      BY <1>1, <2>1, <2>4
    <3>2. i \in 0 .. k /\ \A j \in (i + 1) .. k : j = k \/ j \in (i + 1) .. k - 1
      OBVIOUS
    <3> QED BY <1>1, <2>4, <3>1, <3>2
  <2> QED BY <2>2, <2>3, <2>4
<1> QED BY <1>2, <1>3, <1>4

\* The filter set after k filters: no marks, and the nodes that InAfter says.
FoldOK(d, o, x, fs, k, g) == /\ g.vis = <<>> /\ g.noattrs = FALSE /\ g.nodes \subseteq Nodes(d)
                       /\ \A n \in Nodes(d) : n \in g.nodes <=> InAfter(d, o, x, fs, k, n)

\* One filter more keeps it so.
LEMMA FoldStep ==
    ASSUME NEW d, NEW o, NEW x, NEW fs, NEW k \in Nat, k # 0, NEW g, FoldOK(d, o, x, fs, k - 1, g),
           fs[k].filter \in {"intersect", "subtract", "union"}
    PROVE  FoldOK(d, o, x, fs, k, ApplyFilter(d, o, x, fs[k], g))
<1> DEFINE t == evaluate_simple_xpath(d, o, x, fs[k].path)
           h == ApplyFilter(d, o, x, fs[k], g)
<1>1. t.nodes \subseteq Nodes(d) /\ t.vis = <<>> /\ t.noattrs = FALSE /\ t.nodes = Selected(d, o, x, fs[k])
  <2> DEFINE path == fs[k].path
             v == evaluate_simple_xpath(d, o, x, path)
  <2>1. t = v /\ Selected(d, o, x, fs[k]) = v.nodes
    BY DEF Selected
  <2> HIDE DEF t, path
  <2>2. v.nodes \subseteq Nodes(d) /\ v.vis = <<>> /\ v.noattrs = FALSE
    BY PathSelects
  <2> QED BY <2>1, <2>2
<1>2. h = CASE fs[k].filter = "intersect" -> intersection(g, t)
            [] fs[k].filter = "subtract" -> subtract(g, t)
            [] fs[k].filter = "union" -> union(g, t)
  BY DEF ApplyFilter
<1> HIDE DEF t, h
<1>3. h.vis = <<>> /\ h.noattrs = FALSE
  BY <1>1, <1>2 DEF FoldOK, intersection, subtract, union, merge_ns_visible_intersection,
     merge_ns_visible_subtract, merge_ns_visible_union
<1>4. h.nodes = CASE fs[k].filter = "intersect" -> g.nodes \intersect t.nodes
                  [] fs[k].filter = "subtract" -> g.nodes \ t.nodes
                  [] fs[k].filter = "union" -> g.nodes \union t.nodes
  BY <1>2 DEF intersection, subtract, union
<1>5. ASSUME NEW n \in Nodes(d) PROVE n \in h.nodes <=> InAfter(d, o, x, fs, k, n)
  <2>1. n \in g.nodes <=> InAfter(d, o, x, fs, k - 1, n)
    BY DEF FoldOK
  <2>3. CASE fs[k].filter = "intersect"
    BY <1>1, <1>4, <2>1, InAfterStep, <2>3
  <2>4. CASE fs[k].filter = "subtract"
    BY <1>1, <1>4, <2>1, InAfterStep, <2>4
  <2>5. CASE fs[k].filter = "union"
    BY <1>1, <1>4, <2>1, InAfterStep, <2>5
  <2> QED BY <2>3, <2>4, <2>5
<1>6. h.nodes \subseteq Nodes(d)
  BY <1>1, <1>4 DEF FoldOK
<1> QED BY <1>3, <1>5, <1>6 DEF FoldOK, h

\* FilterNodes computes, over any number of filters, what InAfter says.
LEMMA FilterNodesSelects ==
    ASSUME NEW d, NEW o, NEW x, NEW fs, Len(fs) \in Nat, DOMAIN fs = 1 .. Len(fs),
           \A i \in DOMAIN fs : fs[i].filter \in {"intersect", "subtract", "union"}
    PROVE  FoldOK(d, o, x, fs, Len(fs), FilterNodes(d, o, x, fs))
<1>1. PICK a : AllOf(d, o, x, fs, Len(fs), a) /\ FilterNodes(d, o, x, fs) = a[Len(fs)]
  BY FoldResult
<1>2. \A k \in 0 .. Len(fs) : a[k] = IF k = 0 THEN all(d) ELSE ApplyFilter(d, o, x, fs[k], a[k - 1])
  BY <1>1 DEF AllOf
<1> DEFINE Bad == {k \in 0 .. Len(fs) : ~FoldOK(d, o, x, fs, k, a[k])}
<1>3. ASSUME Bad # {} PROVE FALSE
  <2>0. Bad \in SUBSET Nat
    OBVIOUS
  <2>1. PICK k \in Bad : \A j \in Bad : k <= j
    BY <1>3, <2>0, LeastExists
  <2>2. CASE k = 0
    <3>1. a[0] = all(d)
      BY <1>2
    <3>2. \A n : InAfter(d, o, x, fs, 0, n)
      <4>1. 0 \in 0 .. 0 /\ \A j \in (0 + 1) .. 0 : FALSE
        OBVIOUS
      <4> QED BY <4>1 DEF InAfter
    <3>3. FoldOK(d, o, x, fs, 0, a[0])
      BY <3>1, <3>2 DEF FoldOK, all, NodeSet
    <3> QED BY <2>2, <3>3
  <2>3. CASE k # 0
    <3>1. k \in 1 .. Len(fs) /\ k - 1 \in 0 .. Len(fs) /\ k - 1 \notin Bad
      BY <2>1, <2>3
    <3>2. FoldOK(d, o, x, fs, k - 1, a[k - 1]) /\ a[k] = ApplyFilter(d, o, x, fs[k], a[k - 1])
      BY <1>2, <2>3, <3>1
    <3>3. FoldOK(d, o, x, fs, k, a[k])
      BY <2>3, <3>1, <3>2, FoldStep
    <3> QED BY <2>1, <3>3
  <2> QED BY <2>2, <2>3
<1> QED BY <1>1, <1>3

=============================================================================
