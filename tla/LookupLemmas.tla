----------------------------- MODULE LookupLemmas -----------------------------
(***************************************************************************)
(* Lemmas about `find' over a Vec and the lookups of the key manager       *)
(* (Keys): an index they return is an index of the sequence, and the       *)
(* first one that qualifies.                                               *)
(***************************************************************************)
EXTENDS Keys, Integers, TLAPS, WellFoundedInduction

\* Every non-empty set of natural numbers has a least element (the `find' of an
\* iterator over a Vec succeeds if some element satisfies the predicate).
LEMMA LeastExists ==
    ASSUME NEW S \in SUBSET Nat, S # {}
    PROVE  \E i \in S : \A j \in S : i <= j
<1> DEFINE R == {ss \in Nat \X Nat : ss[1] < ss[2]}
<1>1. R = OpToRel(<, Nat)
  BY DEF OpToRel
<1>2. IsWellFoundedOn(R, Nat)
  BY <1>1, NatLessThanWellFounded
<1> HIDE DEF R
<1>3. PICK i \in S : \A j \in S : ~(<<j, i>> \in R)
  BY <1>2, WFMin
<1>4. ASSUME NEW j \in S PROVE i <= j
  <2>1. ~(<<j, i>> \in R)
    BY <1>3
  <2>2. i \in Nat /\ j \in Nat /\ ~(j < i)
    BY <2>1, Zenon DEF R
  <2> QED BY <2>2
<1> QED BY <1>4

\* FirstOf returns the least element of a non-empty set of indices.
LEMMA FirstOfLeast ==
    ASSUME NEW S \in SUBSET Nat, S # {}
    PROVE  FirstOf(S) \in S /\ \A j \in S : FirstOf(S) <= j
BY LeastExists DEF FirstOf

\* A lookup over a sequence returns 0 or one of its indices; 0 exactly when no index
\* qualifies (Rust: None).
LEMMA FirstOfIndex ==
    ASSUME NEW n \in Nat, NEW S \in SUBSET (1 .. n)
    PROVE  /\ FirstOf(S) \in {0} \union S
           /\ FirstOf(S) = 0 <=> S = {}
<1>1. CASE S = {}
  BY <1>1 DEF FirstOf
<1>2. CASE S # {}
  <2>1. S \in SUBSET Nat /\ 0 \notin S
    OBVIOUS
  <2>2. FirstOf(S) \in S
    BY <1>2, <2>1, FirstOfLeast
  <2> QED BY <1>2, <2>1, <2>2
<1> QED BY <1>1, <1>2

-----------------------------------------------------------------------------
(* Sequences.                                                              *)

\* A Vec of the program has the indices 1 .. Len.
LEMMA SeqDomain ==
    ASSUME NEW s, IsSeq(s)
    PROVE  Len(s) \in Nat /\ DOMAIN s = 1 .. Len(s)
BY DEF IsSeq

\* The sequences joined so far.
Joining(ss, n, a) == a = [i \in 1 .. n |-> IF i = 1 THEN ss[i] ELSE a[i - 1] \o ss[i]]

\* The recursion of FlattenSeq has a solution, however many sequences there are.
LEMMA JoiningExists ==
    ASSUME NEW ss
    PROVE  \A n \in Nat : \E a : Joining(ss, n, a)
<1> DEFINE Bad == {n \in Nat : ~\E a : Joining(ss, n, a)}
<1> SUFFICES ASSUME Bad # {} PROVE FALSE
  OBVIOUS
<1>1. PICK n \in Bad : \A j \in Bad : n <= j
  BY LeastExists
<1>2. CASE n = 0
  <2> DEFINE a == [i \in 1 .. 0 |-> ss[i]]
  <2>1. Joining(ss, 0, a)
    BY DEF Joining
  <2> QED BY <1>2, <2>1
<1>3. CASE n # 0
  <2>1. n \in Nat /\ n - 1 \in Nat /\ n - 1 \notin Bad
    BY <1>1, <1>3
  <2>2. PICK b : Joining(ss, n - 1, b)
    BY <2>1
  <2> DEFINE next == IF n = 1 THEN ss[n] ELSE b[n - 1] \o ss[n]
             a == [i \in 1 .. n |-> IF i = n THEN next ELSE b[i]]
  <2>3. \A i \in 1 .. n - 1 : b[i] = IF i = 1 THEN ss[i] ELSE b[i - 1] \o ss[i]
    BY <2>2 DEF Joining
  <2>4. \A i \in 1 .. n - 1 : a[i] = b[i]
    BY <2>1
  <2>5. \A i \in 1 .. n : a[i] = IF i = 1 THEN ss[i] ELSE a[i - 1] \o ss[i]
    <3> SUFFICES ASSUME NEW i \in 1 .. n
                 PROVE  a[i] = IF i = 1 THEN ss[i] ELSE a[i - 1] \o ss[i]
      OBVIOUS
    <3> HIDE DEF next
    <3>1. CASE i = n
      <4>1. a[i] = next /\ (i = 1 \/ i - 1 \in 1 .. n - 1)
        BY <2>1, <3>1
      <4>2. i = 1 \/ a[i - 1] = b[n - 1]
        BY <2>4, <3>1, <4>1
      <4> HIDE DEF a
      <4> QED BY <3>1, <4>1, <4>2 DEF next
    <3>2. CASE i # n
      <4>1. i \in 1 .. n - 1 /\ (i = 1 \/ i - 1 \in 1 .. n - 1)
        BY <2>1, <3>2
      <4> HIDE DEF a
      <4> QED BY <2>3, <2>4, <4>1
    <3> QED BY <3>1, <3>2
  <2>6. a = [i \in 1 .. n |-> a[i]]
    OBVIOUS
  <2> HIDE DEF a
  <2>7. Joining(ss, n, a)
    BY <2>5, <2>6 DEF Joining
  <2> QED BY <1>1, <2>7
<1> QED BY <1>2, <1>3

\* A `find' over a sequence.
LEMMA FindIndex ==
    ASSUME NEW s, IsSeq(s), NEW S \in SUBSET (DOMAIN s)
    PROVE  FirstOf(S) \in {0} \union S /\ (FirstOf(S) = 0 <=> S = {})
BY SeqDomain, FirstOfIndex

\* An index that qualifies, with none before it, is the one found.
LEMMA FindsFirst ==
    ASSUME NEW s, IsSeq(s), NEW S \in SUBSET (DOMAIN s), NEW i \in S,
           \A j \in S : ~(j < i)
    PROVE  FirstOf(S) = i
<1>1. S \in SUBSET Nat /\ S # {}
  BY SeqDomain
<1>2. FirstOf(S) \in S /\ FirstOf(S) <= i
  BY <1>1, FirstOfLeast
<1>3. FirstOf(S) \in Nat /\ i \in Nat /\ ~(FirstOf(S) < i)
  BY <1>1, <1>2
<1> QED BY <1>2, <1>3

-----------------------------------------------------------------------------
(* Keys of the manager.                                                    *)

\* Every lookup of the manager returns None or one of its keys.
LEMMA ManagerLookups ==
    ASSUME NEW ks, IsSeq(ks)
    PROVE  /\ \A n : find_by_name(ks, n) \in {0} \union DOMAIN ks
           /\ \A n : find_key_by_serial(ks, n) \in {0} \union DOMAIN ks
           /\ first_key(ks) \in {0} \union DOMAIN ks
<1>1. \A n : find_by_name(ks, n) \in {0} \union DOMAIN ks
  <2> TAKE n
  <2> DEFINE S == {i \in DOMAIN ks : ks[i].name # NoName /\ ks[i].name = n}
  <2>1. FirstOf(S) \in {0} \union S
    BY FindIndex
  <2> QED BY <2>1 DEF find_by_name
<1>2. \A n : find_key_by_serial(ks, n) \in {0} \union DOMAIN ks
  <2> TAKE n
  <2> DEFINE S == {i \in DOMAIN ks : Len(ks[i].chain) > 0 /\ ks[i].chain[1].serial = n}
  <2>1. FirstOf(S) \in {0} \union S
    BY FindIndex
  <2> QED BY <2>1 DEF find_key_by_serial
<1>3. first_key(ks) \in {0} \union DOMAIN ks
  BY SeqDomain DEF first_key
<1> QED BY <1>1, <1>2, <1>3
=============================================================================
