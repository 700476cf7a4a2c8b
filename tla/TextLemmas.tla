----------------------------- MODULE TextLemmas ------------------------------
(***************************************************************************)
(* Lemmas about EncText: rewriting the line endings and the tags of a text *)
(* changes nothing a reader of the text is told.  The rewriting is a pass  *)
(* over the tokens; what it has written for the first i tokens means what  *)
(* those tokens mean.                                                      *)
(***************************************************************************)
EXTENDS EncText, LookupLemmas, FiniteSetTheorems

-----------------------------------------------------------------------------
(* Sequences of sequences.                                                 *)

\* FlattenSeq is the last element of any solution of its recursion.
LEMMA FlattenIs ==
    ASSUME NEW T, NEW ss, ss \in Seq(Seq(T)), NEW a, Len(ss) # 0, Joining(ss, Len(ss), a)
    PROVE  FlattenSeq(ss) = a[Len(ss)]
<1> DEFINE n == Len(ss)
           b == CHOOSE c : Joining(ss, n, c)
<1>1. n \in Nat /\ n # 0
  OBVIOUS
<1>2. Joining(ss, n, b)
  OBVIOUS
<1>3. FlattenSeq(ss) = b[n]
  BY DEF FlattenSeq, Joining
<1> HIDE DEF b
<1>4. \A i \in 1 .. n : b[i] = IF i = 1 THEN ss[i] ELSE b[i - 1] \o ss[i]
  BY <1>2 DEF Joining
<1>5. \A i \in 1 .. n : a[i] = IF i = 1 THEN ss[i] ELSE a[i - 1] \o ss[i]
  BY DEF Joining
<1> DEFINE Bad == {i \in 1 .. n : a[i] # b[i]}
<1>6. ASSUME Bad # {} PROVE FALSE
  <2>0. Bad \in SUBSET Nat
    BY <1>1
  <2>1. PICK i \in Bad : \A j \in Bad : i <= j
    BY <1>6, <2>0, LeastExists
  <2>2. i = 1 \/ (i - 1 \in 1 .. n /\ i - 1 \notin Bad)
    BY <1>1, <2>1
  <2>3. i = 1 \/ a[i - 1] = b[i - 1]
    BY <2>2
  <2> HIDE DEF n
  <2>4. a[i] = b[i]
    BY <1>4, <1>5, <2>3
  <2> QED BY <2>4
<1> HIDE DEF n
<1>7. a[n] = b[n]
  <2>1. n \in 1 .. n /\ n \notin Bad
    BY <1>1, <1>6
  <2> QED BY <2>1
<1> QED BY <1>3, <1>7 DEF n

\* FlattenSeq joins sequences over T to a sequence over T.
LEMMA FlattenType ==
    ASSUME NEW T, NEW ss, ss \in Seq(Seq(T))
    PROVE  FlattenSeq(ss) \in Seq(T)
<1>1. CASE Len(ss) = 0
  BY <1>1 DEF FlattenSeq
<1>2. CASE Len(ss) # 0
  <2> DEFINE n == Len(ss)
  <2>1. n \in Nat /\ n # 0
    BY <1>2
  <2>2. PICK a : Joining(ss, n, a)
    BY <2>1, JoiningExists
  <2>3. FlattenSeq(ss) = a[n]
    BY <1>2, <2>2, FlattenIs
  <2>4. \A i \in 1 .. n : a[i] = IF i = 1 THEN ss[i] ELSE a[i - 1] \o ss[i]
    BY <2>2 DEF Joining
  <2> DEFINE Bad == {i \in 1 .. n : a[i] \notin Seq(T)}
  <2>5. ASSUME Bad # {} PROVE FALSE
    <3>0. Bad \in SUBSET Nat
      BY <2>1
    <3>1. PICK i \in Bad : \A j \in Bad : i <= j
      BY <2>5, <3>0, LeastExists
    <3>2. ss[i] \in Seq(T)
      OBVIOUS
    <3>3. i = 1 \/ (i - 1 \in 1 .. n /\ i - 1 \notin Bad)
      BY <2>1, <3>1
    <3> HIDE DEF n
    <3>4. CASE i = 1
      BY <2>4, <3>2, <3>4
    <3>5. CASE i # 1
      <4>1. a[i - 1] \in Seq(T)
        BY <3>3, <3>5
      <4>2. a[i] = a[i - 1] \o ss[i]
        BY <2>4, <3>5
      <4>3. a[i - 1] \o ss[i] \in Seq(T)
        BY <3>2, <4>1
      <4> QED BY <4>2, <4>3
    <3> QED BY <3>4, <3>5
  <2> QED BY <2>1, <2>3, <2>5
<1> QED BY <1>1, <1>2

\* One more sequence.
LEMMA FlattenAppend ==
    ASSUME NEW T, NEW ss, NEW x, ss \in Seq(Seq(T)), x \in Seq(T)
    PROVE  FlattenSeq(Append(ss, x)) = FlattenSeq(ss) \o x
<1> DEFINE r == Append(ss, x)
           n == Len(ss)
<1>1. r \in Seq(Seq(T)) /\ Len(r) = n + 1 /\ n \in Nat /\ r[n + 1] = x
  OBVIOUS
<1>2. \A i \in 1 .. n : r[i] = ss[i]
  OBVIOUS
<1> HIDE DEF r, n
<1>3. PICK a : Joining(r, n + 1, a)
  <2>1. n + 1 \in Nat
    BY <1>1
  <2> QED BY <2>1, JoiningExists
<1>4. FlattenSeq(r) = a[n + 1]
  <2>1. Len(r) # 0 /\ Joining(r, Len(r), a)
    BY <1>1, <1>3
  <2>2. FlattenSeq(r) = a[Len(r)]
    BY <1>1, <2>1, FlattenIs
  <2> QED BY <1>1, <2>2
<1>5. \A i \in 1 .. n + 1 : a[i] = IF i = 1 THEN r[i] ELSE a[i - 1] \o r[i]
  BY <1>3 DEF Joining
<1>6. CASE n = 0
  <2>1. ss = <<>> /\ FlattenSeq(ss) = <<>>
    BY <1>6 DEF FlattenSeq, n
  <2>2. a[n + 1] = x
    BY <1>1, <1>5, <1>6
  <2> QED BY <1>4, <2>1, <2>2 DEF r
<1>7. CASE n # 0
  <2> DEFINE b == [i \in 1 .. n |-> a[i]]
  <2>1. \A i \in 1 .. n : a[i] = IF i = 1 THEN ss[i] ELSE a[i - 1] \o ss[i]
    BY <1>1, <1>2, <1>5
  <2>2. \A i \in 1 .. n : b[i] = IF i = 1 THEN ss[i] ELSE b[i - 1] \o ss[i]
    <3> SUFFICES ASSUME NEW i \in 1 .. n PROVE b[i] = IF i = 1 THEN ss[i] ELSE b[i - 1] \o ss[i]
      OBVIOUS
    <3>1. i = 1 \/ i - 1 \in 1 .. n
      BY <1>1
    <3>2. b[i] = a[i] /\ (i = 1 \/ b[i - 1] = a[i - 1])
      BY <3>1
    <3> HIDE DEF b
    <3> QED BY <2>1, <3>2
  <2>3. b = [i \in 1 .. n |-> b[i]] /\ b[n] = a[n]
    BY <1>1, <1>7
  <2> HIDE DEF b
  <2>4. Joining(ss, n, b)
    BY <2>2, <2>3 DEF Joining
  <2>5. FlattenSeq(ss) = b[n]
    BY <1>7, <2>4, FlattenIs DEF n
  <2>6. a[n + 1] = a[n] \o x
    <3>1. n + 1 \in 1 .. n + 1 /\ n + 1 # 1 /\ (n + 1) - 1 = n
      BY <1>1, <1>7
    <3> QED BY <1>1, <1>5, <3>1
  <2> QED BY <1>4, <2>3, <2>5, <2>6 DEF r
<1> QED BY <1>6, <1>7

\* Sequences with the same elements are equal.
LEMMA SameElements ==
    ASSUME NEW S, NEW p, NEW q, p \in Seq(S), q \in Seq(S), Len(p) = Len(q), \A i \in 1 .. Len(p) : p[i] = q[i]
    PROVE  p = q
OBVIOUS

\* A sequence grows by its next element.
LEMMA PrefixStep ==
    ASSUME NEW S, NEW r, NEW k, r \in Seq(S), k \in Nat, k < Len(r)
    PROVE  /\ SubSeq(r, 1, k + 1) = Append(SubSeq(r, 1, k), r[k + 1])
           /\ SubSeq(r, 1, k) \in Seq(S) /\ Len(SubSeq(r, 1, k)) = k
           /\ r[k + 1] \in S
<1> DEFINE p == SubSeq(r, 1, k)
           q == SubSeq(r, 1, k + 1)
<1>1. k \in Nat /\ k + 1 <= Len(r) /\ Len(r) \in Nat
  OBVIOUS
<1>2. p \in Seq(S) /\ Len(p) = k /\ \A i \in 1 .. k : p[i] = r[i]
  BY <1>1
<1>3. q \in Seq(S) /\ Len(q) = k + 1 /\ \A i \in 1 .. k + 1 : q[i] = r[i]
  BY <1>1
<1>4. r[k + 1] \in S
  BY <1>1
<1> HIDE DEF p, q
<1>5. Append(p, r[k + 1]) = q
  <2> DEFINE a == Append(p, r[k + 1])
  <2>1. a \in Seq(S) /\ Len(a) = k + 1
    BY <1>2, <1>4
  <2>2. \A i \in 1 .. k + 1 : a[i] = r[i]
    BY <1>1, <1>2, <1>4
  <2> HIDE DEF a
  <2>3. \A i \in 1 .. Len(a) : a[i] = q[i]
    BY <1>3, <2>1, <2>2
  <2>4. a = q
    BY <1>3, <2>1, <2>3, SameElements
  <2> QED BY <2>4 DEF a
<1> QED BY <1>2, <1>4, <1>5 DEF p, q

\* The shortest and the longest prefix.
LEMMA PrefixEnds ==
    ASSUME NEW S, NEW r, r \in Seq(S)
    PROVE  SubSeq(r, 1, 0) = <<>> /\ SubSeq(r, 1, Len(r)) = r
OBVIOUS

\* Two sequences, one after the other.
LEMMA ConcatFacts ==
    ASSUME NEW S, NEW p, NEW q, p \in Seq(S), q \in Seq(S)
    PROVE  /\ p \o q \in Seq(S) /\ Len(p \o q) = Len(p) + Len(q)
           /\ \A j \in 1 .. Len(p) : (p \o q)[j] = p[j]
           /\ \A j \in 1 .. Len(q) : (p \o q)[Len(p) + j] = q[j]
OBVIOUS

\* An element appended to the second of two sequences.
LEMMA ConcatAppend ==
    ASSUME NEW S, NEW p, NEW q, NEW x, p \in Seq(S), q \in Seq(S), x \in S
    PROVE  p \o Append(q, x) = Append(p \o q, x)
OBVIOUS

\* Three sequences, one after the other.
LEMMA ConcatAssoc ==
    ASSUME NEW S, NEW p, NEW q, NEW r, p \in Seq(S), q \in Seq(S), r \in Seq(S)
    PROVE  (p \o q) \o r = p \o (q \o r)
OBVIOUS

\* FlattenSeq of two sequences of sequences, one after the other.
LEMMA FlattenConcat ==
    ASSUME NEW T, NEW s, NEW r, s \in Seq(Seq(T)), r \in Seq(Seq(T))
    PROVE  FlattenSeq(s \o r) = FlattenSeq(s) \o FlattenSeq(r)
<1> DEFINE p(k) == SubSeq(r, 1, k)
           Good(k) == FlattenSeq(s \o p(k)) = FlattenSeq(s) \o FlattenSeq(p(k))
           Bad == {k \in 0 .. Len(r) : ~Good(k)}
<1>0. Len(r) \in Nat /\ FlattenSeq(s) \in Seq(T)
  BY FlattenType
<1>1. Good(0)
  <2>1. p(0) = <<>>
    BY PrefixEnds
  <2>2. s \o p(0) = s /\ FlattenSeq(p(0)) = <<>>
    BY <2>1 DEF FlattenSeq
  <2>3. FlattenSeq(s) \o <<>> = FlattenSeq(s)
    BY <1>0
  <2> HIDE DEF p
  <2> QED BY <2>2, <2>3
<1>2. ASSUME Bad # {} PROVE FALSE
  <2>1. Bad \in SUBSET Nat
    BY <1>0
  <2> HIDE DEF Good
  <2>2. PICK i \in Bad : \A j \in Bad : i <= j
    BY <1>2, <2>1, LeastExists
  <2> DEFINE k == i - 1
  <2>3. k \in Nat /\ k < Len(r) /\ i = k + 1 /\ Good(k)
    <3>1. i \in Nat /\ i # 0 /\ i <= Len(r)
      BY <1>0, <1>1, <2>2
    <3>2. k \notin Bad /\ k \in 0 .. Len(r)
      BY <1>0, <2>2, <3>1
    <3> QED BY <3>1, <3>2
  <2> HIDE DEF k
  <2>4. p(k + 1) = Append(p(k), r[k + 1]) /\ p(k) \in Seq(Seq(T)) /\ r[k + 1] \in Seq(T)
    BY <2>3, PrefixStep
  <2> DEFINE q == p(k)
             x == r[k + 1]
  <2>5. q \in Seq(Seq(T)) /\ x \in Seq(T) /\ p(k + 1) = Append(q, x)
    BY <2>4
  <2>6. FlattenSeq(s \o q) = FlattenSeq(s) \o FlattenSeq(q)
    BY <2>3 DEF Good
  <2> HIDE DEF q, x, p
  <2>7. s \o Append(q, x) = Append(s \o q, x) /\ s \o q \in Seq(Seq(T))
    <3> DEFINE Q == Seq(T)
    <3>1. s \in Seq(Q)
      OBVIOUS
    <3>2. q \in Seq(Q)
      BY <2>5
    <3>3. x \in Q
      BY <2>5
    <3> HIDE DEF Q
    <3>4. s \o Append(q, x) = Append(s \o q, x)
      BY ONLY <3>1, <3>2, <3>3, ConcatAppend
    <3>5. s \o q \in Seq(Q)
      BY ONLY <3>1, <3>2, ConcatFacts
    <3> QED BY <3>4, <3>5 DEF Q
  <2>8. FlattenSeq(Append(s \o q, x)) = FlattenSeq(s \o q) \o x
    <3> DEFINE w == s \o q
    <3>1. w \in Seq(Seq(T))
      BY <2>7
    <3> HIDE DEF w
    <3>2. FlattenSeq(Append(w, x)) = FlattenSeq(w) \o x
      BY <2>5, <3>1, FlattenAppend
    <3> QED BY <3>2 DEF w
  <2>9. FlattenSeq(Append(q, x)) = FlattenSeq(q) \o x /\ FlattenSeq(q) \in Seq(T)
    BY <2>5, FlattenAppend, FlattenType
  <2>10. (FlattenSeq(s) \o FlattenSeq(q)) \o x = FlattenSeq(s) \o (FlattenSeq(q) \o x)
    <3> DEFINE y == FlattenSeq(s)
               z == FlattenSeq(q)
    <3>1. y \in Seq(T) /\ z \in Seq(T) /\ x \in Seq(T)
      BY <1>0, <2>5, <2>9
    <3> HIDE DEF y, z
    <3>2. (y \o z) \o x = y \o (z \o x)
      BY ONLY <3>1, ConcatAssoc, SMTT(30)
    <3> QED BY <3>2 DEF y, z
  <2>11. FlattenSeq(s \o p(k + 1)) = FlattenSeq(s) \o FlattenSeq(p(k + 1))
    BY <2>5, <2>6, <2>7, <2>8, <2>9, <2>10
  <2>12. Good(i)
    BY <2>3, <2>11 DEF Good
  <2> QED BY <2>2, <2>12
<1>3. Good(Len(r)) /\ p(Len(r)) = r
  <2> HIDE DEF Good
  <2>1. Len(r) \in 0 .. Len(r) /\ Len(r) \notin Bad
    BY <1>0, <1>2
  <2> QED BY <2>1, PrefixEnds
<1> HIDE DEF p
<1> QED BY <1>3

\* FlattenSeq of one-element sequences.
LEMMA FlattenOnes ==
    ASSUME NEW T, NEW r, r \in Seq(T)
    PROVE  LET f == [i \in 1 .. Len(r) |-> <<r[i]>>]
           IN  f \in Seq(Seq(T)) /\ FlattenSeq(f) = r
<1> DEFINE f == [i \in 1 .. Len(r) |-> <<r[i]>>]
           p(k) == SubSeq(f, 1, k)
           q(k) == SubSeq(r, 1, k)
           Good(k) == FlattenSeq(p(k)) = q(k)
           Bad == {k \in 0 .. Len(r) : ~Good(k)}
<1>0. Len(r) \in Nat /\ f \in Seq(Seq(T)) /\ Len(f) = Len(r)
  OBVIOUS
<1>a. \A i \in 1 .. Len(r) : f[i] = <<r[i]>>
  OBVIOUS
<1> HIDE DEF f
<1>1. Good(0)
  <2>1. p(0) = <<>> /\ q(0) = <<>>
    BY <1>0, PrefixEnds
  <2> HIDE DEF p, q
  <2> QED BY <2>1 DEF FlattenSeq
<1>2. ASSUME Bad # {} PROVE FALSE
  <2>1. Bad \in SUBSET Nat
    BY <1>0
  <2> HIDE DEF Good
  <2>2. PICK i \in Bad : \A j \in Bad : i <= j
    BY <1>2, <2>1, LeastExists
  <2> DEFINE k == i - 1
  <2>3. k \in Nat /\ k < Len(r) /\ i = k + 1 /\ Good(k)
    <3>1. i \in Nat /\ i # 0 /\ i <= Len(r)
      BY <1>0, <1>1, <2>2
    <3>2. k \notin Bad /\ k \in 0 .. Len(r)
      BY <1>0, <2>2, <3>1
    <3> QED BY <3>1, <3>2
  <2> HIDE DEF k
  <2>4. p(k + 1) = Append(p(k), f[k + 1]) /\ p(k) \in Seq(Seq(T)) /\ f[k + 1] \in Seq(T)
    BY <1>0, <2>3, PrefixStep
  <2>5. q(k + 1) = Append(q(k), r[k + 1]) /\ q(k) \in Seq(T) /\ r[k + 1] \in T
    BY <1>0, <2>3, PrefixStep
  <2>6. f[k + 1] = <<r[k + 1]>>
    BY <1>0, <1>a, <2>3
  <2>7. FlattenSeq(p(k)) = q(k)
    BY <2>3 DEF Good
  <2> HIDE DEF p, q
  <2>8. FlattenSeq(p(k + 1)) = q(k) \o <<r[k + 1]>>
    <3>1. FlattenSeq(Append(p(k), f[k + 1])) = FlattenSeq(p(k)) \o f[k + 1]
      BY <2>4, FlattenAppend
    <3> QED BY <2>4, <2>6, <2>7, <3>1
  <2>9. q(k) \o <<r[k + 1]>> = Append(q(k), r[k + 1])
    BY <2>5
  <2>10. Good(i)
    BY <2>3, <2>5, <2>8, <2>9 DEF Good
  <2> QED BY <2>2, <2>10
<1>3. Good(Len(r))
  <2> HIDE DEF Good
  <2>1. Len(r) \in 0 .. Len(r) /\ Len(r) \notin Bad
    BY <1>0, <1>2
  <2> QED BY <2>1
<1>4. p(Len(r)) = f /\ q(Len(r)) = r
  BY <1>0, PrefixEnds
<1> HIDE DEF p, q
<1>5. FlattenSeq(f) = r
  BY <1>3, <1>4
<1> QED BY <1>0, <1>5 DEF f

-----------------------------------------------------------------------------
(* The meaning of a text, token by token.                                  *)

\* The tokens of a text in UTF-8, and what tokens say.
Readable == {x \in Token : x.k \notin NotUtf8}
Says == {StartOf(x) : x \in Token} \union {EndOf(x) : x \in Token} \union {Character(x) : x \in Token}

\* The fields of tokens.
LEMMA Tokens ==
    /\ LF \in Readable /\ LF.k = "LF"
    /\ \A x \in Readable : x \in Token
    /\ \A x \in Token : x.n \in TagNames /\ x.form \in Forms
<1>1. LF \in [k : Kinds, n : TagNames, form : Forms] /\ LF.k = "LF"
  BY TagNamesAssumption DEF LF, Plain, Tok, Kinds, Forms, Spaces
<1>2. LF \in Token
  BY <1>1 DEF Token
<1> QED BY <1>1, <1>2 DEF Readable, Token, NotUtf8

\* An empty-element tag.
LEMMA EmptyTags ==
    ASSUME NEW n, NEW f, n \in TagNames, f \in Forms
    PROVE  LET x == Tok("empty", n, f) IN x \in Readable /\ x.k = "empty" /\ x.n = n /\ x.form = f
<1> DEFINE x == Tok("empty", n, f)
<1>1. x \in [k : Kinds, n : TagNames, form : Forms] /\ x.k = "empty" /\ x.n = n /\ x.form = f
  BY DEF Tok, Kinds, StartsTag, Bracketed
<1> HIDE DEF x
<1>2. x \in Token
  BY <1>1 DEF Token
<1>3. x \in Readable
  BY <1>1, <1>2 DEF Readable, NotUtf8
<1> QED BY <1>1, <1>3 DEF x

\* A token says at most two things.
LEMMA EventsType ==
    ASSUME NEW t, NEW x, x \in Token
    PROVE  Events(t, x) \in Seq(Says)
<1>1. LF \in Token
  BY Tokens
<1>2. StartOf(x) \in Says /\ EndOf(x) \in Says /\ Character(x) \in Says /\ Character(LF) \in Says
  BY <1>1 DEF Says
<1> DEFINE a == StartOf(x)
           b == EndOf(x)
           c == Character(x)
           d == Character(LF)
<1>3. Events(t, x) \in {<<>>, <<a>>, <<b>>, <<c>>, <<d>>, <<a, b>>}
  BY DEF Events
<1> HIDE DEF a, b, c, d
<1>4. <<>> \in Seq(Says) /\ <<a>> \in Seq(Says) /\ <<b>> \in Seq(Says) /\ <<c>> \in Seq(Says)
        /\ <<d>> \in Seq(Says) /\ <<a, b>> \in Seq(Says)
  BY <1>2 DEF a, b, c, d
<1> QED BY <1>3, <1>4

\* What the tokens of a text say, one after the other.
Said(t) == [i \in DOMAIN t |-> Events(Before(t, i), t[i])]

\* A text of n tokens says n things.
LEMMA SaidType ==
    ASSUME NEW t, t \in Seq(Token)
    PROVE  Said(t) \in Seq(Seq(Says)) /\ Len(Said(t)) = Len(t)
<1>1. Len(t) \in Nat /\ DOMAIN t = 1 .. Len(t)
  OBVIOUS
<1>2. \A i \in 1 .. Len(t) : Events(Before(t, i), t[i]) \in Seq(Says)
  BY EventsType
<1>3. Said(t) \in [1 .. Len(t) -> Seq(Says)]
  BY <1>1, <1>2 DEF Said
<1> HIDE DEF Said
<1> QED BY <1>1, <1>3

\* The meaning of a text is a sequence of events.
LEMMA MeaningType ==
    ASSUME NEW t, t \in Seq(Token)
    PROVE  Meaning(t) \in Seq(Says) /\ Meaning(t) = FlattenSeq(Said(t))
<1>1. Meaning(t) = FlattenSeq(Said(t))
  BY DEF Meaning, Said
<1>2. Said(t) \in Seq(Seq(Says))
  BY SaidType
<1> QED BY <1>1, <1>2, FlattenType

\* The tokens before an index of the first of two texts, and of the second.
LEMMA BeforeConcat ==
    ASSUME NEW S, NEW p, NEW q, p \in Seq(S), q \in Seq(S)
    PROVE  /\ \A i \in 1 .. Len(p) : Before(p \o q, i) = Before(p, i)
           /\ \A i \in 1 .. Len(q) : Before(p \o q, Len(p) + i) = p \o Before(q, i)
<1> DEFINE r == p \o q
<1>1. r \in Seq(S) /\ Len(r) = Len(p) + Len(q) /\ Len(p) \in Nat /\ Len(q) \in Nat
  OBVIOUS
<1>2. /\ \A j \in 1 .. Len(p) : r[j] = p[j]
      /\ \A j \in 1 .. Len(q) : r[Len(p) + j] = q[j]
  OBVIOUS
<1> HIDE DEF r
<1>3. ASSUME NEW i, i \in 1 .. Len(p) PROVE SubSeq(r, 1, i - 1) = SubSeq(p, 1, i - 1)
  <2> DEFINE a == SubSeq(r, 1, i - 1)
             b == SubSeq(p, 1, i - 1)
  <2>1. a \in Seq(S) /\ Len(a) = i - 1 /\ \A j \in 1 .. i - 1 : a[j] = r[j]
    BY <1>1, <1>3
  <2>2. b \in Seq(S) /\ Len(b) = i - 1 /\ \A j \in 1 .. i - 1 : b[j] = p[j]
    BY <1>1, <1>3
  <2> HIDE DEF a, b
  <2>3. \A j \in 1 .. Len(a) : a[j] = b[j]
    BY <1>1, <1>2, <1>3, <2>1, <2>2
  <2>4. a = b
    BY <2>1, <2>2, <2>3, SameElements
  <2> QED BY <2>4 DEF a, b
<1>4. ASSUME NEW i, i \in 1 .. Len(q) PROVE SubSeq(r, 1, Len(p) + i - 1) = p \o SubSeq(q, 1, i - 1)
  <2> DEFINE a == SubSeq(r, 1, Len(p) + i - 1)
             c == SubSeq(q, 1, i - 1)
             b == p \o c
  <2>1. a \in Seq(S) /\ Len(a) = Len(p) + i - 1 /\ \A j \in 1 .. Len(p) + i - 1 : a[j] = r[j]
    BY <1>1, <1>4
  <2>2. c \in Seq(S) /\ Len(c) = i - 1 /\ \A j \in 1 .. i - 1 : c[j] = q[j]
    BY <1>1, <1>4
  <2> HIDE DEF c
  <2>3. b \in Seq(S) /\ Len(b) = Len(p) + i - 1
    <3>1. b \in Seq(S) /\ Len(b) = Len(p) + Len(c)
      BY <2>2, ConcatFacts
    <3> HIDE DEF b
    <3> QED BY <1>1, <1>4, <2>2, <3>1
  <2>4. \A j \in 1 .. Len(p) : b[j] = p[j]
    BY <2>2
  <2>5. \A j \in 1 .. i - 1 : b[Len(p) + j] = c[j]
    BY <2>2
  <2> HIDE DEF a, b
  <2>6. ASSUME NEW j, j \in 1 .. Len(a) PROVE a[j] = b[j]
    <3>1. CASE j <= Len(p)
      BY <1>1, <1>2, <1>4, <2>1, <2>4, <2>6, <3>1
    <3>2. CASE ~(j <= Len(p))
      <4>1. j - Len(p) \in 1 .. i - 1 /\ j - Len(p) \in 1 .. Len(q) /\ j = Len(p) + (j - Len(p))
        BY <1>1, <1>4, <2>1, <2>6, <3>2
      <4> DEFINE h == j - Len(p)
      <4>2. h \in 1 .. i - 1 /\ h \in 1 .. Len(q) /\ j = Len(p) + h
        BY <4>1
      <4> HIDE DEF h
      <4>3. b[j] = q[h]
        BY <2>2, <2>5, <4>2
      <4>4. a[j] = q[h]
        BY <1>2, <2>1, <2>6, <4>2
      <4> QED BY <4>3, <4>4
    <3> QED BY <3>1, <3>2
  <2>7. a = b
    BY <2>1, <2>3, <2>6, SameElements
  <2> QED BY <2>7 DEF a, b, c
<1>5. \A i \in 1 .. Len(q) : Len(p) + i - 1 = (Len(p) + i) - 1
  BY <1>1
<1> QED BY <1>3, <1>4, <1>5 DEF Before, r

\* One text after another: the second is read in the light of the first.
LEMMA SaidConcat ==
    ASSUME NEW p, NEW q, NEW g, p \in Seq(Token), q \in Seq(Token),
           g = [i \in 1 .. Len(q) |-> Events(p \o Before(q, i), q[i])]
    PROVE  Said(p \o q) = Said(p) \o g /\ g \in Seq(Seq(Says))
<1> DEFINE r == p \o q
<1>1. r \in Seq(Token) /\ Len(r) = Len(p) + Len(q) /\ Len(p) \in Nat /\ Len(q) \in Nat
  OBVIOUS
<1>2. \A j \in 1 .. Len(p) : r[j] = p[j] /\ Before(r, j) = Before(p, j)
  BY BeforeConcat
<1>3. \A j \in 1 .. Len(q) : r[Len(p) + j] = q[j] /\ Before(r, Len(p) + j) = p \o Before(q, j)
  BY BeforeConcat
<1> HIDE DEF r
<1>4. /\ Said(r) \in Seq(Seq(Says)) /\ Len(Said(r)) = Len(r)
      /\ Said(p) \in Seq(Seq(Says)) /\ Len(Said(p)) = Len(p)
  BY <1>1, SaidType
<1>5. g \in Seq(Seq(Says)) /\ Len(g) = Len(q)
  <2>1. \A i \in 1 .. Len(q) : Events(p \o Before(q, i), q[i]) \in Seq(Says)
    BY EventsType
  <2>2. g \in [1 .. Len(q) -> Seq(Says)]
    BY <2>1
  <2> QED BY <1>1, <2>2
<1>6. /\ \A j \in 1 .. Len(r) : Said(r)[j] = Events(Before(r, j), r[j])
      /\ \A j \in 1 .. Len(p) : Said(p)[j] = Events(Before(p, j), p[j])
      /\ \A j \in 1 .. Len(q) : g[j] = Events(p \o Before(q, j), q[j])
  BY <1>1 DEF Said
<1> DEFINE s == Said(p)
           a == s \o g
<1>a. s \in Seq(Seq(Says)) /\ Len(s) = Len(p)
  BY <1>4
<1> HIDE DEF s
<1>7. a \in Seq(Seq(Says)) /\ Len(a) = Len(s) + Len(g)
  <2> DEFINE E == Seq(Says)
  <2>1. s \in Seq(E) /\ g \in Seq(E)
    BY <1>a, <1>5
  <2> HIDE DEF E, a
  <2>2. s \o g \in Seq(E) /\ Len(s \o g) = Len(s) + Len(g)
    BY <2>1, ConcatFacts
  <2> QED BY <2>2 DEF a, E
<1>8. /\ \A j \in 1 .. Len(p) : a[j] = s[j]
      /\ \A j \in 1 .. Len(q) : a[Len(p) + j] = g[j]
  BY <1>a, <1>5, ConcatFacts
<1> HIDE DEF a
<1>9. ASSUME NEW j, j \in 1 .. Len(r) PROVE Said(r)[j] = a[j]
  <2>1. CASE j <= Len(p)
    <3>1. j \in 1 .. Len(p)
      BY <1>1, <1>9, <2>1
    <3> QED BY <1>2, <1>6, <1>8, <1>9, <3>1 DEF s
  <2>2. CASE ~(j <= Len(p))
    <3> DEFINE h == j - Len(p)
    <3>1. h \in 1 .. Len(q) /\ j = Len(p) + h
      BY <1>1, <1>9, <2>2
    <3> HIDE DEF h
    <3>2. a[j] = Events(p \o Before(q, h), q[h])
      BY <1>6, <1>8, <3>1
    <3>3. Said(r)[j] = Events(p \o Before(q, h), q[h])
      BY <1>3, <1>6, <1>9, <3>1
    <3> QED BY <3>2, <3>3
  <2> QED BY <2>1, <2>2
<1>10. Said(r) = a
  <2> DEFINE m == Said(r)
  <2>1. m \in Seq(Seq(Says)) /\ Len(m) = Len(a) /\ \A j \in 1 .. Len(m) : m[j] = a[j]
    BY <1>1, <1>a, <1>4, <1>5, <1>7, <1>9
  <2> HIDE DEF m
  <2>2. m = a
    BY <1>7, <2>1, SameElements
  <2> QED BY <2>2 DEF m
<1> QED BY <1>5, <1>10 DEF a, r, s

\* The tokens before an index of the first of two texts.
LEMMA BeforeFirst ==
    ASSUME NEW S, NEW p, NEW q, NEW i, p \in Seq(S), q \in Seq(S), i \in 1 .. Len(p)
    PROVE  Before(p \o q, i) = Before(p, i)
BY BeforeConcat

\* One more token.
LEMMA MeaningAppend ==
    ASSUME NEW t, NEW x, t \in Seq(Token), x \in Token
    PROVE  Meaning(Append(t, x)) = Meaning(t) \o Events(t, x)
<1> DEFINE q == <<x>>
           e == Events(t, x)
           g == [i \in 1 .. Len(q) |-> Events(t \o Before(q, i), q[i])]
<1>1. q \in Seq(Token) /\ Len(q) = 1 /\ q[1] = x /\ t \o q = Append(t, x)
  OBVIOUS
<1>2. Before(q, 1) = <<>> /\ t \o <<>> = t
  BY DEF Before
<1>3. e \in Seq(Says)
  BY EventsType
<1>4. g = <<e>>
  <2>1. Len(q) = 1 /\ Events(t \o Before(q, 1), q[1]) = e
    BY <1>1, <1>2
  <2>2. g = [i \in 1 .. 1 |-> e]
    <3>1. \A i \in 1 .. 1 : Events(t \o Before(q, i), q[i]) = e
      BY <2>1
    <3> HIDE DEF e, q
    <3> QED BY <2>1, <3>1
  <2> HIDE DEF e, q, g
  <2> QED BY <2>2
<1> HIDE DEF q
<1>5. Said(t \o q) = Said(t) \o g
  BY <1>1, SaidConcat
<1> HIDE DEF g, e
<1>6. Meaning(t \o q) = FlattenSeq(Said(t) \o <<e>>)
  <2>1. t \o q \in Seq(Token)
    BY <1>1
  <2> QED BY <1>4, <1>5, <2>1, MeaningType
<1>7. Said(t) \o <<e>> = Append(Said(t), e) /\ Said(t) \in Seq(Seq(Says))
  <2>1. Said(t) \in Seq(Seq(Says))
    BY SaidType
  <2> DEFINE s == Said(t)
             E == Seq(Says)
  <2>2. s \in Seq(E) /\ e \in E
    BY <1>3, <2>1
  <2> HIDE DEF s, E
  <2>3. s \o <<e>> = Append(s, e)
    BY <2>2
  <2> QED BY <2>1, <2>3 DEF s
<1>8. FlattenSeq(Append(Said(t), e)) = FlattenSeq(Said(t)) \o e
  <2> DEFINE s == Said(t)
  <2>1. s \in Seq(Seq(Says))
    BY <1>7
  <2> HIDE DEF s
  <2>2. FlattenSeq(Append(s, e)) = FlattenSeq(s) \o e
    BY <1>3, <2>1, FlattenAppend
  <2> QED BY <2>2 DEF s
<1> QED BY <1>1, <1>6, <1>7, <1>8, MeaningType DEF e

\* What a token says depends on whether a section is open and, for a line feed, on
\* the token before it.
LEMMA EventsSame ==
    ASSUME NEW p, NEW q, NEW x, Within(p) <=> Within(q),
           x.k = "LF" => (Ends(p, "CR") <=> Ends(q, "CR"))
    PROVE  Events(p, x) = Events(q, x)
<1> HIDE DEF Within, Ends
<1>1. CASE Within(p)
  BY <1>1 DEF Events
<1>2. CASE ~Within(p)
  BY <1>2 DEF Events
<1> QED BY <1>1, <1>2

\* How a section is opened and closed.
LEMMA WithinAppend ==
    ASSUME NEW S, NEW t, NEW x, t \in Seq(S), x \in S
    PROVE  Within(Append(t, x)) <=> (x.k \notin SectionEnd /\ (x.k \in SectionStart \/ Within(t)))
<1> DEFINE r == Append(t, x)
           n == Len(t)
<1>1. n \in Nat /\ Len(r) = n + 1 /\ DOMAIN r = 1 .. n + 1 /\ DOMAIN t = 1 .. n
  OBVIOUS
<1>2. r[n + 1] = x /\ \A i \in 1 .. n : r[i] = t[i]
  OBVIOUS
<1> HIDE DEF r, n
<1>3. ASSUME Within(r) PROVE x.k \notin SectionEnd /\ (x.k \in SectionStart \/ Within(t))
  <2>1. PICK j \in 1 .. n + 1 : r[j].k \in SectionStart /\ \A i \in j .. n + 1 : r[i].k \notin SectionEnd
    BY <1>1, <1>3 DEF Within
  <2>2. x.k \notin SectionEnd
    <3>1. n + 1 \in j .. n + 1
      BY <1>1
    <3> QED BY <1>2, <2>1, <3>1
  <2>3. CASE j = n + 1
    BY <1>2, <2>1, <2>2, <2>3
  <2>4. CASE j # n + 1
    <3>1. j \in 1 .. n /\ \A i \in j .. n : i \in j .. n + 1 /\ i \in 1 .. n
      BY <1>1, <2>4
    <3>2. t[j].k \in SectionStart /\ \A i \in j .. n : t[i].k \notin SectionEnd
      BY <1>2, <2>1, <3>1
    <3>3. Within(t)
      BY <1>1, <3>1, <3>2 DEF Within, n
    <3> QED BY <2>2, <3>3
  <2> QED BY <2>3, <2>4
<1>4. ASSUME x.k \notin SectionEnd, x.k \in SectionStart PROVE Within(r)
  <2>1. n + 1 \in DOMAIN r /\ r[n + 1].k \in SectionStart
    BY <1>1, <1>2, <1>4
  <2>2. \A i \in n + 1 .. Len(r) : r[i].k \notin SectionEnd
    <3>1. \A i \in n + 1 .. Len(r) : i = n + 1
      BY <1>1
    <3> QED BY <1>2, <1>4, <3>1
  <2> QED BY <2>1, <2>2 DEF Within
<1>5. ASSUME x.k \notin SectionEnd, Within(t) PROVE Within(r)
  <2>1. PICK j \in 1 .. n : t[j].k \in SectionStart /\ \A i \in j .. n : t[i].k \notin SectionEnd
    BY <1>1, <1>5 DEF Within, n
  <2>2. \A i \in j .. Len(r) : i \in j .. n \/ i = n + 1
    BY <1>1
  <2>3. \A i \in j .. Len(r) : r[i].k \notin SectionEnd
    <3>1. \A i \in j .. n : r[i] = t[i]
      BY <1>1, <1>2
    <3> QED BY <1>2, <1>5, <2>1, <2>2, <3>1
  <2>4. j \in DOMAIN r /\ r[j].k \in SectionStart
    BY <1>1, <1>2, <2>1
  <2> QED BY <2>3, <2>4 DEF Within
<1> QED BY <1>3, <1>4, <1>5 DEF r

\* How a text ends.
LEMMA EndsAppend ==
    ASSUME NEW S, NEW t, NEW x, NEW k, t \in Seq(S), x \in S
    PROVE  /\ Ends(Append(t, x), k) <=> x.k = k
           /\ Append(t, x) # <<>> /\ Append(t, x)[Len(Append(t, x))] = x
           /\ Append(t, x) \in Seq(S)
BY DEF Ends

\* A tidy text stays tidy with a token that fits.
LEMMA TidyAppend ==
    ASSUME NEW S, NEW t, NEW x, t \in Seq(S), x \in S, Tidy(t), Fits(t, x)
    PROVE  Tidy(Append(t, x))
<1> DEFINE r == Append(t, x)
           n == Len(t)
<1>1. n \in Nat /\ Len(r) = n + 1 /\ DOMAIN r = 1 .. n + 1 /\ DOMAIN t = 1 .. n
  OBVIOUS
<1>2. r[n + 1] = x /\ \A i \in 1 .. n : r[i] = t[i]
  OBVIOUS
<1> DEFINE one == <<x>>
<1>3. r = t \o one /\ one \in Seq(S) /\ Len(one) = 1
  OBVIOUS
<1>4. \A i \in 1 .. n : Before(r, i) = Before(t, i)
  <2> HIDE DEF one, r
  <2>1. \A i \in 1 .. n : Before(t \o one, i) = Before(t, i)
    BY <1>3, BeforeFirst
  <2> QED BY <1>3, <2>1
<1>5. Before(r, n + 1) = t
  <2> DEFINE c == SubSeq(r, 1, n)
  <2>1. r \in Seq(S) /\ c \in Seq(S) /\ Len(c) = n /\ \A i \in 1 .. n : c[i] = r[i]
    BY <1>1
  <2> HIDE DEF c, r
  <2>2. \A i \in 1 .. Len(c) : c[i] = t[i]
    BY <1>2, <2>1
  <2>3. c = t
    BY <1>1, <2>1, <2>2, SameElements
  <2>4. (n + 1) - 1 = n
    BY <1>1
  <2> QED BY <2>3, <2>4 DEF Before, c
<1> HIDE DEF r, n
<1> SUFFICES ASSUME NEW i \in 1 .. n + 1 PROVE Fits(Before(r, i), r[i])
  BY <1>1 DEF Tidy, r
<1>6. CASE i = n + 1
  BY <1>2, <1>5, <1>6
<1>7. CASE i # n + 1
  <2>1. i \in 1 .. n
    BY <1>1, <1>7
  <2>2. Fits(Before(t, i), t[i])
    BY <1>1, <2>1 DEF Tidy
  <2> QED BY <1>2, <1>4, <2>1, <2>2
<1> QED BY <1>6, <1>7

\* Texts of one another's prefixes: nothing is said by the empty text.
LEMMA EmptyText ==
    Meaning(<<>>) = <<>> /\ ~Within(<<>>) /\ Tidy(<<>>) /\ Steady(<<>>) /\ ~Ends(<<>>, "CR")
BY DEF Meaning, FlattenSeq, Within, Tidy, Steady, Ends

-----------------------------------------------------------------------------
(* Line endings.                                                           *)

\* The tokens written for the tokens 1 .. i of T, for every i (as U[i]), when the line
\* endings of the tokens lo + 1 .. hi are normalized.
Inside(lo, hi, i) == lo < i /\ i <= hi
DropsLF(T, lo, hi, i) == /\ Inside(lo, hi, i) /\ Inside(lo, hi, i - 1)
                         /\ T[i].k = "LF" /\ T[i - 1].k = "CR"
LinePass(T, U, lo, hi) ==
    /\ T \in Seq(Readable) /\ lo \in Nat /\ hi \in Nat /\ lo <= hi /\ hi <= Len(T)
    /\ U \in [0 .. Len(T) -> Seq(Readable)] /\ U[0] = <<>>
    /\ \A i \in 1 .. Len(T) :
          U[i] = IF Inside(lo, hi, i) /\ T[i].k = "CR" THEN Append(U[i - 1], LF)
                 ELSE IF DropsLF(T, lo, hi, i) THEN U[i - 1] ELSE Append(U[i - 1], T[i])

\* One step of the pass.
Stepped(T, U, lo, hi, i) ==
    /\ T[i] \in Readable /\ i - 1 \in 0 .. Len(T) /\ U[i - 1] \in Seq(Readable) /\ U[i] \in Seq(Readable)
    /\ Inside(lo, hi, i) /\ T[i].k = "CR" => U[i] = Append(U[i - 1], LF)
    /\ DropsLF(T, lo, hi, i) => U[i] = U[i - 1]
    /\ ~(Inside(lo, hi, i) /\ T[i].k = "CR") /\ ~DropsLF(T, lo, hi, i) => U[i] = Append(U[i - 1], T[i])

LEMMA LineStep ==
    ASSUME NEW T, NEW U, NEW lo, NEW hi, NEW i, LinePass(T, U, lo, hi), i \in 1 .. Len(T)
    PROVE  Stepped(T, U, lo, hi, i)
<1>1. Len(T) \in Nat /\ i \in 0 .. Len(T) /\ i - 1 \in 0 .. Len(T)
  BY DEF LinePass
<1>2. T[i] \in Readable /\ U[i - 1] \in Seq(Readable) /\ U[i] \in Seq(Readable)
  <2>1. T \in Seq(Readable) /\ U \in [0 .. Len(T) -> Seq(Readable)]
    BY DEF LinePass
  <2> QED BY ONLY <1>1, <2>1, i \in 1 .. Len(T)
<1>3. U[i] = IF Inside(lo, hi, i) /\ T[i].k = "CR" THEN Append(U[i - 1], LF)
             ELSE IF DropsLF(T, lo, hi, i) THEN U[i - 1] ELSE Append(U[i - 1], T[i])
  BY DEF LinePass
<1>4. DropsLF(T, lo, hi, i) => T[i].k # "CR"
  BY DEF DropsLF
<1> QED BY <1>1, <1>2, <1>3, <1>4 DEF Stepped

\* What was written last is the last token, unless both are line endings; a carriage
\* return is left only where nothing is normalized.
LineLast(T, U, lo, hi, i) ==
    /\ U[i] # <<>>
    /\ \/ U[i][Len(U[i])] = T[i]
       \/ T[i].k \in Spaces /\ U[i][Len(U[i])].k \in Spaces
    /\ Ends(U[i], "CR") <=> (T[i].k = "CR" /\ ~Inside(lo, hi, i))

LEMMA LineLasts ==
    ASSUME NEW T, NEW U, NEW lo, NEW hi, NEW m, LinePass(T, U, lo, hi), m \in 1 .. Len(T)
    PROVE  LineLast(T, U, lo, hi, m)
<1> DEFINE Bad == {j \in 1 .. Len(T) : ~LineLast(T, U, lo, hi, j)}
<1>0. Len(T) \in Nat
  BY DEF LinePass
<1> SUFFICES ASSUME Bad # {} PROVE FALSE
  OBVIOUS
<1>1. Bad \in SUBSET Nat
  BY <1>0
<1>2. PICK i \in Bad : \A j \in Bad : i <= j
  BY <1>1, LeastExists
<1>a. i \in 1 .. Len(T)
  BY <1>2
<1>3. /\ i \in 1 .. Len(T)
      /\ T[i] \in Readable /\ i - 1 \in 0 .. Len(T) /\ U[i - 1] \in Seq(Readable) /\ U[i] \in Seq(Readable)
      /\ Inside(lo, hi, i) /\ T[i].k = "CR" => U[i] = Append(U[i - 1], LF)
      /\ DropsLF(T, lo, hi, i) => U[i] = U[i - 1]
      /\ ~(Inside(lo, hi, i) /\ T[i].k = "CR") /\ ~DropsLF(T, lo, hi, i) => U[i] = Append(U[i - 1], T[i])
  <2>1. T[i] \in Readable
    <3>1. Stepped(T, U, lo, hi, i)
      BY <1>a, LineStep
    <3> QED BY <3>1 DEF Stepped
  <2>2. i - 1 \in 0 .. Len(T) /\ U[i - 1] \in Seq(Readable) /\ U[i] \in Seq(Readable)
    <3>1. Stepped(T, U, lo, hi, i)
      BY <1>a, LineStep
    <3> QED BY <3>1 DEF Stepped
  <2>3. Inside(lo, hi, i) /\ T[i].k = "CR" => U[i] = Append(U[i - 1], LF)
    BY <1>a DEF LinePass
  <2>4. DropsLF(T, lo, hi, i) => U[i] = U[i - 1]
    <3>1. Stepped(T, U, lo, hi, i)
      BY <1>a, LineStep
    <3> QED BY <3>1 DEF Stepped
  <2>5. ~(Inside(lo, hi, i) /\ T[i].k = "CR") /\ ~DropsLF(T, lo, hi, i) => U[i] = Append(U[i - 1], T[i])
    <3>1. Stepped(T, U, lo, hi, i)
      BY <1>a, LineStep
    <3> QED BY <3>1 DEF Stepped
  <2> QED BY <1>a, <2>1, <2>2, <2>3, <2>4, <2>5
<1>4. LF \in Readable /\ LF.k = "LF"
  BY Tokens
<1>5. CASE Inside(lo, hi, i) /\ T[i].k = "CR"
  <2>1. U[i] = Append(U[i - 1], LF)
    BY <1>3, <1>5
  <2>2. U[i] # <<>> /\ U[i][Len(U[i])] = LF /\ ~Ends(U[i], "CR")
    BY <1>3, <1>4, <2>1, EndsAppend
  <2>3. LineLast(T, U, lo, hi, i)
    BY <1>4, <1>5, <2>2 DEF LineLast, Spaces
  <2> QED BY <1>2, <2>3
<1>6. CASE DropsLF(T, lo, hi, i)
  <2>1. i - 1 \in 1 .. Len(T) /\ i - 1 \notin Bad
    BY <1>0, <1>2, <1>3, <1>6 DEF DropsLF, Inside, LinePass
  <2>2. LineLast(T, U, lo, hi, i - 1)
    BY <2>1
  <2>3. T[i].k = "LF" /\ T[i - 1].k = "CR" /\ Inside(lo, hi, i - 1) /\ U[i] = U[i - 1]
    BY <1>3, <1>6 DEF DropsLF
  <2>4. ~Ends(U[i], "CR") /\ U[i] # <<>>
    BY <2>2, <2>3 DEF LineLast
  <2>5. U[i][Len(U[i])].k \in Spaces
    BY <2>2, <2>3 DEF LineLast, Spaces
  <2>6. LineLast(T, U, lo, hi, i)
    BY <2>3, <2>4, <2>5 DEF LineLast, Spaces
  <2> QED BY <1>2, <2>6
<1>7. CASE ~(Inside(lo, hi, i) /\ T[i].k = "CR") /\ ~DropsLF(T, lo, hi, i)
  <2>1. U[i] = Append(U[i - 1], T[i])
    BY <1>3, <1>7
  <2>2. U[i] # <<>> /\ U[i][Len(U[i])] = T[i] /\ (Ends(U[i], "CR") <=> T[i].k = "CR")
    BY <1>3, <2>1, EndsAppend, SMTT(30)
  <2>3. LineLast(T, U, lo, hi, i)
    BY <1>7, <2>2 DEF LineLast
  <2> QED BY <1>2, <2>3
<1> QED BY <1>5, <1>6, <1>7

\* The prefixes of a text.
Upto(T, i) == SubSeq(T, 1, i)

LEMMA UptoStep ==
    ASSUME NEW S, NEW T, NEW i, T \in Seq(S), i \in 1 .. Len(T)
    PROVE  /\ Upto(T, i) = Append(Upto(T, i - 1), T[i]) /\ Upto(T, i - 1) \in Seq(S)
           /\ Upto(T, i - 1) = Before(T, i) /\ T[i] \in S
           /\ Len(Upto(T, i - 1)) = i - 1
<1> DEFINE k == i - 1
<1>1. k \in Nat /\ k < Len(T) /\ i = k + 1
  OBVIOUS
<1> HIDE DEF k
<1>2. /\ SubSeq(T, 1, k + 1) = Append(SubSeq(T, 1, k), T[k + 1])
      /\ SubSeq(T, 1, k) \in Seq(S) /\ Len(SubSeq(T, 1, k)) = k
      /\ T[k + 1] \in S
  BY <1>1, PrefixStep
<1>3. i - 1 = k
  BY <1>1
<1> QED BY <1>1, <1>2, <1>3 DEF Upto, Before

\* How the text up to an index ends.
LEMMA UptoEnds ==
    ASSUME NEW S, NEW T, NEW i, NEW k, T \in Seq(S), i \in 0 .. Len(T)
    PROVE  /\ Upto(T, i) \in Seq(S)
           /\ i = 0 => Upto(T, i) = <<>>
           /\ i # 0 => Upto(T, i) # <<>> /\ Upto(T, i)[Len(Upto(T, i))] = T[i]
           /\ Ends(Upto(T, i), k) <=> (i # 0 /\ T[i].k = k)
<1>1. CASE i = 0
  <2>1. Upto(T, i) = <<>>
    BY <1>1, PrefixEnds DEF Upto
  <2>2. <<>> \in Seq(S) /\ ~Ends(<<>>, k)
    BY DEF Ends
  <2> QED BY <1>1, <2>1, <2>2
<1>2. CASE i # 0
  <2>1. i \in 1 .. Len(T)
    BY <1>2
  <2>2. Upto(T, i) = Append(Upto(T, i - 1), T[i]) /\ Upto(T, i - 1) \in Seq(S) /\ T[i] \in S
    BY <2>1, UptoStep
  <2> DEFINE w == Upto(T, i - 1)
             x == T[i]
  <2>3. w \in Seq(S) /\ x \in S /\ Upto(T, i) = Append(w, x)
    BY <2>2
  <2> HIDE DEF w
  <2>4. /\ Append(w, x) # <<>> /\ Append(w, x)[Len(Append(w, x))] = x
        /\ Append(w, x) \in Seq(S) /\ (Ends(Append(w, x), k) <=> x.k = k)
    BY <2>3, EndsAppend
  <2> QED BY <1>2, <2>3, <2>4
<1> QED BY <1>1, <1>2

\* Its last token.
LEMMA UptoLast ==
    ASSUME NEW S, NEW T, NEW i, T \in Seq(S), i \in 0 .. Len(T)
    PROVE  /\ Upto(T, i) \in Seq(S)
           /\ i = 0 => Upto(T, i) = <<>>
           /\ i # 0 => Upto(T, i) # <<>> /\ Upto(T, i)[Len(Upto(T, i))] = T[i]
<1> DEFINE k == "CR"
<1> HIDE DEF k
<1>1. /\ Upto(T, i) \in Seq(S)
      /\ i = 0 => Upto(T, i) = <<>>
      /\ i # 0 => Upto(T, i) # <<>> /\ Upto(T, i)[Len(Upto(T, i))] = T[i]
      /\ Ends(Upto(T, i), k) <=> (i # 0 /\ T[i].k = k)
  BY UptoEnds
<1> QED BY <1>1

\* No line ending is split where the normalized part begins and ends.
LineBorder(T, lo, hi) ==
    /\ 0 < lo /\ lo < hi /\ T[lo].k = "CR" => T[lo + 1].k # "CR"
    /\ lo < hi /\ hi < Len(T) /\ T[hi].k = "CR" => T[hi + 1].k # "LF"

\* What was written so far means what was read so far.
SoFar(T, U, i) == /\ Within(U[i]) <=> Within(Upto(T, i))
                  /\ Meaning(U[i]) = Meaning(Upto(T, i))
                  /\ Tidy(U[i])

LEMMA LineKeeps ==
    ASSUME NEW T, NEW U, NEW lo, NEW hi, NEW i, LinePass(T, U, lo, hi), LineBorder(T, lo, hi),
           i \in 1 .. Len(T), Tidy(T), SoFar(T, U, i - 1)
    PROVE  SoFar(T, U, i)
<1> DEFINE h == i - 1
           w == U[h]
           t == Upto(T, h)
           x == T[i]
<1>0. /\ Len(T) \in Nat /\ h \in 0 .. Len(T) /\ h + 1 = i /\ lo \in Nat /\ hi \in Nat
      /\ T \in Seq(Readable)
  BY DEF LinePass
<1>1. /\ x \in Readable /\ w \in Seq(Readable) /\ U[i] \in Seq(Readable)
      /\ Inside(lo, hi, i) /\ x.k = "CR" => U[i] = Append(w, LF)
      /\ DropsLF(T, lo, hi, i) => U[i] = w
      /\ ~(Inside(lo, hi, i) /\ x.k = "CR") /\ ~DropsLF(T, lo, hi, i) => U[i] = Append(w, x)
  <2>1. Inside(lo, hi, i) /\ x.k = "CR" => U[i] = Append(w, LF)
    BY DEF LinePass
  <2>2. x \in Readable /\ w \in Seq(Readable) /\ U[i] \in Seq(Readable)
    <3>1. Stepped(T, U, lo, hi, i)
      BY LineStep
    <3> QED BY <3>1 DEF Stepped
  <2>3. DropsLF(T, lo, hi, i) => U[i] = w
    <3>1. Stepped(T, U, lo, hi, i)
      BY LineStep
    <3> QED BY <3>1 DEF Stepped
  <2>4. ~(Inside(lo, hi, i) /\ x.k = "CR") /\ ~DropsLF(T, lo, hi, i) => U[i] = Append(w, x)
    <3>1. Stepped(T, U, lo, hi, i)
      BY LineStep
    <3> QED BY <3>1 DEF Stepped
  <2> QED BY <2>1, <2>2, <2>3, <2>4
<1>2. Upto(T, i) = Append(t, x) /\ t \in Seq(Readable) /\ Fits(t, x)
  <2>1. Upto(T, i) = Append(t, x) /\ t \in Seq(Readable) /\ t = Before(T, i)
    BY <1>0, UptoStep
  <2>2. Fits(Before(T, i), T[i])
    BY <1>0 DEF Tidy
  <2> QED BY <2>1, <2>2
<1>3. /\ h = 0 => w = <<>> /\ t = <<>>
      /\ Ends(t, "CR") <=> (h # 0 /\ T[h].k = "CR")
      /\ h # 0 => t # <<>> /\ t[Len(t)] = T[h]
  <2>1. h = 0 => w = <<>>
    BY DEF LinePass
  <2> HIDE DEF h
  <2>2. h = 0 => t = <<>>
    BY <1>0, UptoLast
  <2>3. Ends(t, "CR") <=> (h # 0 /\ T[h].k = "CR")
    BY <1>0, UptoEnds
  <2>4. h # 0 => t # <<>> /\ t[Len(t)] = T[h]
    BY <1>0, UptoLast
  <2> QED BY <2>1, <2>2, <2>3, <2>4
<1>4. h # 0 => LineLast(T, U, lo, hi, h)
  <2>1. h # 0 => h \in 1 .. Len(T)
    BY <1>0
  <2> HIDE DEF h
  <2> QED BY <2>1, LineLasts
<1>5. (Within(w) <=> Within(t)) /\ Meaning(w) = Meaning(t) /\ Tidy(w)
  BY DEF SoFar
<1>6. Ends(w, "CR") <=> (h # 0 /\ T[h].k = "CR" /\ ~Inside(lo, hi, h))
  BY <1>3, <1>4 DEF LineLast, Ends
<1> HIDE DEF h, w, t, x
<1>7. w \in Seq(Token) /\ t \in Seq(Token) /\ x \in Token /\ LF \in Token /\ LF \in Readable /\ LF.k = "LF"
  BY <1>1, <1>2, Tokens
<1>8. Meaning(Append(t, x)) = Meaning(t) \o Events(t, x)
  BY <1>7, MeaningAppend
<1>9. Within(Append(t, x)) <=> (x.k \notin SectionEnd /\ (x.k \in SectionStart \/ Within(t)))
  BY <1>7, WithinAppend
<1>10. Meaning(t) \in Seq(Says)
  BY <1>7, MeaningType
<1>11. CASE Inside(lo, hi, i) /\ x.k = "CR"
  <2>1. U[i] = Append(w, LF)
    BY <1>1, <1>11
  <2>2. ~Ends(w, "CR")
    <3> SUFFICES ASSUME h # 0, T[h].k = "CR", ~Inside(lo, hi, h) PROVE FALSE
      BY <1>6
    <3>1. h = lo /\ 0 < lo /\ lo < hi /\ i = lo + 1
      BY <1>0, <1>11 DEF Inside
    <3>2. T[lo].k = "CR" /\ T[lo + 1].k = "CR"
      BY <1>11, <3>1 DEF x
    <3> QED BY <3>1, <3>2 DEF LineBorder
  <2>3. Events(w, LF) = <<Character(LF)>>
    BY <1>7, <2>2 DEF Events
  <2>4. Events(t, x) = <<Character(LF)>>
    BY <1>11 DEF Events
  <2>5. Meaning(Append(w, LF)) = Meaning(w) \o Events(w, LF)
    BY <1>7, MeaningAppend
  <2>6. Within(Append(w, LF)) <=> Within(w)
    BY <1>7, WithinAppend DEF SectionStart, SectionEnd
  <2>7. Tidy(Append(w, LF))
    <3>1. Fits(w, LF)
      BY <1>7 DEF Fits, Loose, SectionEnd
    <3> QED BY <1>1, <1>5, <1>7, <3>1, TidyAppend
  <2>8. Within(Append(t, x)) <=> Within(t)
    BY <1>9, <1>11 DEF SectionStart, SectionEnd
  <2> QED BY <1>2, <1>5, <1>8, <2>1, <2>3, <2>4, <2>5, <2>6, <2>7, <2>8 DEF SoFar
<1>12. CASE DropsLF(T, lo, hi, i)
  <2>1. U[i] = w /\ x.k = "LF" /\ T[h].k = "CR" /\ h # 0
    BY <1>0, <1>1, <1>12 DEF DropsLF, Inside, h, x
  <2>2. Events(t, x) = <<>>
    BY <1>3, <2>1 DEF Events
  <2>3. Meaning(Append(t, x)) = Meaning(t)
    BY <1>8, <1>10, <2>2
  <2>4. Within(Append(t, x)) <=> Within(t)
    BY <1>9, <2>1 DEF SectionStart, SectionEnd
  <2> QED BY <1>2, <1>5, <2>1, <2>3, <2>4 DEF SoFar
<1>13. CASE ~(Inside(lo, hi, i) /\ x.k = "CR") /\ ~DropsLF(T, lo, hi, i)
  <2>1. U[i] = Append(w, x)
    BY <1>1, <1>13
  <2>2. x.k = "LF" => (Ends(w, "CR") <=> Ends(t, "CR"))
    <3> SUFFICES ASSUME x.k = "LF", h # 0, T[h].k = "CR", Inside(lo, hi, h) PROVE FALSE
      BY <1>3, <1>6
    <3>1. CASE Inside(lo, hi, i)
      BY <1>13, <3>1 DEF DropsLF, h, x
    <3>2. CASE ~Inside(lo, hi, i)
      <4>1. h = hi /\ lo < hi /\ hi < Len(T) /\ i = hi + 1
        BY <1>0, <3>2 DEF Inside
      <4>2. T[hi].k = "CR" /\ T[hi + 1].k = "LF"
        BY <4>1 DEF x
      <4> QED BY <4>1, <4>2 DEF LineBorder
    <3> QED BY <3>1, <3>2
  <2>3. Events(w, x) = Events(t, x)
    BY <1>5, <2>2, EventsSame
  <2>4. Meaning(Append(w, x)) = Meaning(w) \o Events(w, x)
    BY <1>7, MeaningAppend
  <2>5. Within(Append(w, x)) <=> (x.k \notin SectionEnd /\ (x.k \in SectionStart \/ Within(w)))
    BY <1>7, WithinAppend
  <2>6. Fits(w, x)
    <3>1. x.k = "close" /\ w # <<>> => w[Len(w)].k \notin {"gt", "slash", "broken"} /\ ~Loose(w[Len(w)], "empty", x.n)
      <4> SUFFICES ASSUME x.k = "close", w # <<>> PROVE w[Len(w)].k \notin {"gt", "slash", "broken"} /\ ~Loose(w[Len(w)], "empty", x.n)
        OBVIOUS
      <4>1. h # 0 /\ LineLast(T, U, lo, hi, h)
        BY <1>3, <1>4
      <4>2. CASE w[Len(w)].k \in Spaces
        BY <4>2 DEF Loose, Spaces
      <4>3. CASE w[Len(w)] = T[h]
        BY <1>2, <1>3, <4>1, <4>3 DEF Fits
      <4> QED BY <4>1, <4>2, <4>3 DEF LineLast, w
    <3> QED BY <1>2, <1>5, <3>1 DEF Fits
  <2>7. Tidy(Append(w, x))
    BY <1>1, <1>5, <2>6, TidyAppend
  <2> QED BY <1>2, <1>5, <1>8, <1>9, <2>1, <2>3, <2>4, <2>5, <2>7 DEF SoFar
<1> QED BY <1>11, <1>12, <1>13

\* Normalizing the line endings of a part of a text does not change its meaning.
LEMMA LinesKept ==
    ASSUME NEW T, NEW U, NEW lo, NEW hi, NEW m, LinePass(T, U, lo, hi), LineBorder(T, lo, hi), Tidy(T),
           m \in 0 .. Len(T)
    PROVE  SoFar(T, U, m)
<1> DEFINE Bad == {j \in 0 .. Len(T) : ~SoFar(T, U, j)}
<1>0. Len(T) \in Nat /\ T \in Seq(Readable) /\ U[0] = <<>>
  BY DEF LinePass
<1> SUFFICES ASSUME Bad # {} PROVE FALSE
  OBVIOUS
<1>1. Bad \in SUBSET Nat
  BY <1>0
<1>2. PICK i \in Bad : \A j \in Bad : i <= j
  BY <1>1, LeastExists
<1>3. CASE i = 0
  <2>1. Upto(T, 0) = <<>>
    BY <1>0, PrefixEnds DEF Upto
  <2>2. SoFar(T, U, 0)
    BY <1>0, <2>1, EmptyText DEF SoFar
  <2> QED BY <1>2, <1>3, <2>2
<1>4. CASE i # 0
  <2>1. i \in 1 .. Len(T) /\ i - 1 \in 0 .. Len(T) /\ i - 1 \notin Bad
    BY <1>0, <1>2, <1>4
  <2>2. SoFar(T, U, i - 1)
    BY <2>1
  <2>3. SoFar(T, U, i)
    BY <2>1, <2>2, LineKeeps
  <2> QED BY <1>2, <2>3
<1> QED BY <1>3, <1>4

\* A steady text stays steady with a token that is not the second of two end tags.
LEMMA SteadyAppend ==
    ASSUME NEW S, NEW t, NEW x, t \in Seq(S), x \in S, Steady(t),
           LET n == Len(t)
           IN  n > 1 /\ t[n].k = "close" /\ x.k = "close" /\ t[n].n = x.n => ~Loose(t[n - 1], "open", t[n].n)
    PROVE  Steady(Append(t, x))
<1> DEFINE r == Append(t, x)
           n == Len(t)
<1>1. n \in Nat /\ Len(r) = n + 1 /\ DOMAIN r = 1 .. n + 1 /\ DOMAIN t = 1 .. n
  OBVIOUS
<1>2. r[n + 1] = x /\ \A i \in 1 .. n : r[i] = t[i]
  OBVIOUS
<1>3. n > 1 /\ t[n].k = "close" /\ x.k = "close" /\ t[n].n = x.n => ~Loose(t[n - 1], "open", t[n].n)
  OBVIOUS
<1>4. \A i \in 1 .. n : i + 2 \in 1 .. n /\ t[i + 1].k = "close" /\ t[i + 2].k = "close" /\ t[i + 1].n = t[i + 2].n
        => ~Loose(t[i], "open", t[i + 1].n)
  BY <1>1 DEF Steady
<1> HIDE DEF r, n
<1> SUFFICES ASSUME NEW i \in 1 .. n + 1, i + 2 \in 1 .. n + 1, r[i + 1].k = "close", r[i + 2].k = "close",
                    r[i + 1].n = r[i + 2].n
             PROVE  ~Loose(r[i], "open", r[i + 1].n)
  BY <1>1 DEF Steady, r
<1>5. i \in 1 .. n /\ i + 1 \in 1 .. n /\ r[i] = t[i] /\ r[i + 1] = t[i + 1]
  BY <1>1, <1>2
<1>6. CASE i + 2 \in 1 .. n
  <2>1. r[i + 2] = t[i + 2]
    BY <1>2, <1>6
  <2> QED BY <1>4, <1>5, <1>6, <2>1
<1>7. CASE i + 2 \notin 1 .. n
  <2>1. i + 2 = n + 1 /\ i + 1 = n /\ i = n - 1 /\ n > 1
    BY <1>1, <1>7
  <2>2. r[i + 2] = x /\ t[i + 1] = t[n] /\ t[i] = t[n - 1]
    BY <1>2, <2>1
  <2> QED BY <1>3, <1>5, <2>1, <2>2
<1> QED BY <1>6, <1>7

\* A steady text stays steady.
LEMMA LinesSteady ==
    ASSUME NEW T, NEW U, NEW lo, NEW hi, NEW m, LinePass(T, U, lo, hi), Steady(T), m \in 0 .. Len(T)
    PROVE  Steady(U[m])
<1> DEFINE Bad == {j \in 0 .. Len(T) : ~Steady(U[j])}
<1>0. Len(T) \in Nat /\ T \in Seq(Readable) /\ U[0] = <<>>
  BY DEF LinePass
<1> SUFFICES ASSUME Bad # {} PROVE FALSE
  OBVIOUS
<1>1. Bad \in SUBSET Nat
  BY <1>0
<1>2. PICK i \in Bad : \A j \in Bad : i <= j
  BY <1>1, LeastExists
<1>3. CASE i = 0
  BY <1>0, <1>2, <1>3, EmptyText
<1>4. CASE i # 0
  <2> DEFINE h == i - 1
             w == U[h]
             x == T[i]
  <2>1. i \in 1 .. Len(T) /\ h \in 0 .. Len(T) /\ h \notin Bad /\ h + 1 = i
    BY <1>0, <1>2, <1>4
  <2>2. Steady(w)
    BY <2>1
  <2>3. /\ x \in Readable /\ w \in Seq(Readable)
    <3>1. Stepped(T, U, lo, hi, i)
      BY <2>1, LineStep
    <3> QED BY <3>1 DEF Stepped
  <2>4. DropsLF(T, lo, hi, i) => U[i] = w
    <3>1. Stepped(T, U, lo, hi, i)
      BY <2>1, LineStep
    <3> QED BY <3>1 DEF Stepped
  <2>5. ~(Inside(lo, hi, i) /\ x.k = "CR") /\ ~DropsLF(T, lo, hi, i) => U[i] = Append(w, x)
    <3>1. Stepped(T, U, lo, hi, i)
      BY <2>1, LineStep
    <3> QED BY <3>1 DEF Stepped
  <2>6. Inside(lo, hi, i) /\ x.k = "CR" => U[i] = Append(w, LF)
    BY <2>1 DEF LinePass
  <2> HIDE DEF w, x
  <2>7. CASE DropsLF(T, lo, hi, i)
    BY <1>2, <2>2, <2>4, <2>7
  <2>8. CASE Inside(lo, hi, i) /\ x.k = "CR"
    <3>1. Steady(Append(w, LF))
      BY <2>2, <2>3, Tokens, SteadyAppend
    <3> QED BY <1>2, <2>6, <2>8, <3>1
  <2>9. CASE ~(Inside(lo, hi, i) /\ x.k = "CR") /\ ~DropsLF(T, lo, hi, i)
    <3>1. ASSUME Len(w) > 1, w[Len(w)].k = "close", x.k = "close", w[Len(w)].n = x.n,
                 Loose(w[Len(w) - 1], "open", w[Len(w)].n)
          PROVE  FALSE
      <4>1. h \in 1 .. Len(T)
        <5>1. h # 0
          BY <1>0, <3>1 DEF w
        <5> QED BY <1>0, <2>1, <5>1
      <4>2. LineLast(T, U, lo, hi, h)
        BY <4>1, LineLasts
      <4>3. T[h] = w[Len(w)]
        BY <3>1, <4>2 DEF LineLast, Spaces, w
      <4> DEFINE g == h - 1
                 v == U[g]
      <4>4. v \in Seq(Readable) /\ T[h] \in Readable /\ w = Append(v, T[h])
        <5>1. ~(Inside(lo, hi, h) /\ T[h].k = "CR") /\ ~DropsLF(T, lo, hi, h)
          BY <3>1, <4>3 DEF DropsLF
        <5> HIDE DEF h
        <5>2. U[h - 1] \in Seq(Readable) /\ T[h] \in Readable
          <6>1. Stepped(T, U, lo, hi, h)
            BY <4>1, LineStep
          <6> QED BY <6>1 DEF Stepped
        <5>3. U[h] = Append(U[h - 1], T[h])
          <6>1. Stepped(T, U, lo, hi, h)
            BY <4>1, LineStep
          <6> QED BY <5>1, <6>1 DEF Stepped
        <5> QED BY <5>2, <5>3 DEF w
      <4>5. Len(w) = Len(v) + 1 /\ Len(v) \in Nat /\ Len(v) > 0 /\ v # <<>> /\ w[Len(w) - 1] = v[Len(v)]
        <5> HIDE DEF v
        <5> QED BY <3>1, <4>4
      <4>6. g \in 1 .. Len(T) /\ g + 1 = h
        <5>1. g # 0
          BY <1>0, <4>5 DEF v
        <5> QED BY <1>0, <4>1, <5>1
      <4>7. LineLast(T, U, lo, hi, g)
        BY <4>6, LineLasts
      <4>8. T[g] = v[Len(v)]
        BY <3>1, <4>5, <4>7 DEF LineLast, Spaces, Loose, v
      <4>9. Loose(T[g], "open", T[h].n) /\ T[h].k = "close" /\ T[i].k = "close" /\ T[h].n = T[i].n
        BY <3>1, <4>3, <4>5, <4>8 DEF x
      <4>10. g \in DOMAIN T /\ g + 2 \in DOMAIN T /\ g + 1 = h /\ g + 2 = i
        BY <1>0, <2>1, <4>6
      <4> HIDE DEF g, h
      <4> QED BY <4>9, <4>10 DEF Steady
    <3>2. Steady(Append(w, x))
      BY <2>2, <2>3, <3>1, SteadyAppend
    <3> QED BY <1>2, <2>5, <2>9, <3>2
  <2> QED BY <2>7, <2>8, <2>9
<1> QED BY <1>3, <1>4

-----------------------------------------------------------------------------
(* Empty elements.                                                         *)

\* The tokens written for the tokens 1 .. i of T, for every i (as U[i]), when the start tags
\* in D are joined with the end tags that follow them.
Joined(x) == Tok("empty", x.n, x.form)
EmptyPass(T, U, D) ==
    /\ T \in Seq(Readable) /\ U \in [0 .. Len(T) -> Seq(Readable)] /\ U[0] = <<>>
    /\ \A i \in D : /\ i \in 1 .. Len(T) /\ i + 1 \in 1 .. Len(T)
                    /\ T[i].k = "open" /\ T[i + 1].k = "close" /\ T[i].n = T[i + 1].n
    /\ \A i \in 1 .. Len(T) :
          U[i] = IF i \in D THEN Append(U[i - 1], Joined(T[i]))
                 ELSE IF i - 1 \in D THEN U[i - 1] ELSE Append(U[i - 1], T[i])

\* Two elements are added one after the other.
LEMMA TwoMore ==
    ASSUME NEW S, NEW m, NEW a, NEW b, m \in Seq(S), a \in S, b \in S
    PROVE  m \o <<a, b>> = (m \o <<a>>) \o <<b>>
<1> DEFINE l == m \o <<a, b>>
           d == m \o <<a>>
           r == d \o <<b>>
           n == Len(m)
<1>0. n \in Nat
  OBVIOUS
<1>1. d \in Seq(S) /\ Len(d) = n + 1 /\ d[n + 1] = a /\ \A i \in 1 .. n : d[i] = m[i]
  OBVIOUS
<1>2. l \in Seq(S) /\ Len(l) = n + 2 /\ l[n + 1] = a /\ l[n + 2] = b /\ \A i \in 1 .. n : l[i] = m[i]
  OBVIOUS
<1> HIDE DEF d, l
<1>3. r \in Seq(S) /\ Len(r) = n + 2 /\ r[n + 2] = b /\ \A i \in 1 .. n + 1 : r[i] = d[i]
  BY <1>0, <1>1
<1> HIDE DEF r, n
<1>4. ASSUME NEW i, i \in 1 .. Len(l) PROVE l[i] = r[i]
  <2>1. i \in 1 .. n \/ i = n + 1 \/ i = n + 2
    BY <1>0, <1>2, <1>4
  <2> QED BY <1>0, <1>1, <1>2, <1>3, <2>1
<1>5. l = r
  BY <1>2, <1>3, <1>4, SameElements
<1> QED BY <1>5 DEF l, r, d

\* The tokens of a step.
LEMMA EmptyTypes ==
    ASSUME NEW T, NEW U, NEW D, NEW i, EmptyPass(T, U, D), i \in 1 .. Len(T)
    PROVE  T[i] \in Readable /\ U[i - 1] \in Seq(Readable) /\ U[i] \in Seq(Readable)
<1>1. Len(T) \in Nat /\ i \in 0 .. Len(T) /\ i - 1 \in 0 .. Len(T)
  BY DEF EmptyPass
<1>2. T \in Seq(Readable) /\ U \in [0 .. Len(T) -> Seq(Readable)]
  BY DEF EmptyPass
<1> QED BY ONLY <1>1, <1>2, i \in 1 .. Len(T)

\* A start tag that is joined with its end tag.
LEMMA EmptyJoins ==
    ASSUME NEW T, NEW U, NEW D, NEW i, EmptyPass(T, U, D), i \in D
    PROVE  /\ i \in 1 .. Len(T) /\ U[i] = Append(U[i - 1], Joined(T[i])) /\ T[i].k = "open"
           /\ Joined(T[i]) \in Readable /\ Joined(T[i]).k = "empty"
           /\ Joined(T[i]).n = T[i].n /\ Joined(T[i]).form = T[i].form
<1>1. i \in 1 .. Len(T) /\ T[i].k = "open"
  BY DEF EmptyPass
<1>2. U[i] = Append(U[i - 1], Joined(T[i]))
  BY <1>1 DEF EmptyPass
<1>3. T[i] \in Readable
  BY <1>1, EmptyTypes
<1>4. T[i].n \in TagNames /\ T[i].form \in Forms
  BY <1>3, Tokens
<1>5. /\ Joined(T[i]) \in Readable /\ Joined(T[i]).k = "empty"
      /\ Joined(T[i]).n = T[i].n /\ Joined(T[i]).form = T[i].form
  BY <1>4, EmptyTags DEF Joined
<1> QED BY <1>1, <1>2, <1>5

\* An end tag that was joined with its start tag.
DroppedEnd(T, U, D, h, i) ==
    /\ h \in 1 .. Len(T) /\ i \in 1 .. Len(T) /\ U[i] = U[h] /\ i \notin D
    /\ T[i].k = "close" /\ T[h].k = "open" /\ T[i].n = T[h].n

LEMMA EmptyDrops ==
    ASSUME NEW T, NEW U, NEW D, NEW i, NEW h, EmptyPass(T, U, D), h \in D, i = h + 1
    PROVE  DroppedEnd(T, U, D, h, i)
<1>1. Len(T) \in Nat
  BY DEF EmptyPass
<1>2. h \in 1 .. Len(T) /\ i \in 1 .. Len(T) /\ T[h].k = "open" /\ T[i].k = "close" /\ T[h].n = T[i].n
  BY DEF EmptyPass
<1>3. i \notin D
  BY <1>2 DEF EmptyPass
<1>4. i - 1 = h
  BY <1>1, <1>2
<1>5. U[i] = U[i - 1]
  BY <1>2, <1>3, <1>4 DEF EmptyPass
<1> QED BY <1>2, <1>3, <1>4, <1>5 DEF DroppedEnd

\* Any other token.
LEMMA EmptyCopies ==
    ASSUME NEW T, NEW U, NEW D, NEW i, EmptyPass(T, U, D), i \in 1 .. Len(T), i \notin D, i - 1 \notin D
    PROVE  U[i] = Append(U[i - 1], T[i])
BY DEF EmptyPass

\* What was written last.
LastWritten(T, U, D, i) ==
    /\ U[i] # <<>>
    /\ U[i][Len(U[i])] = IF i \in D THEN Joined(T[i]) ELSE IF i - 1 \in D THEN Joined(T[i - 1]) ELSE T[i]

LEMMA EmptyLast ==
    ASSUME NEW T, NEW U, NEW D, NEW i, EmptyPass(T, U, D), i \in 1 .. Len(T)
    PROVE  LastWritten(T, U, D, i)
<1> USE DEF LastWritten
<1>0. T[i] \in Readable /\ U[i - 1] \in Seq(Readable)
  BY EmptyTypes
<1>1. CASE i \in D
  <2> DEFINE y == Joined(T[i])
             w == U[i - 1]
  <2>1. U[i] = Append(w, y) /\ y \in Readable
    BY <1>1, EmptyJoins
  <2> HIDE DEF w, y
  <2>2. Append(w, y) # <<>> /\ Append(w, y)[Len(Append(w, y))] = y
    BY <1>0, <2>1 DEF w
  <2> QED BY <1>1, <2>1, <2>2 DEF y
<1>2. CASE i - 1 \in D
  <2> DEFINE h == i - 1
  <2>0. h \in D /\ i = h + 1
    BY <1>2 DEF EmptyPass
  <2> HIDE DEF h
  <2>1. h \in D /\ h \in 1 .. Len(T) /\ U[i] = U[h] /\ i \notin D
    <3>1. DroppedEnd(T, U, D, h, i)
      BY <2>0, EmptyDrops
    <3> QED BY <2>0, <3>1 DEF DroppedEnd
  <2> DEFINE y == Joined(T[h])
             w == U[h - 1]
  <2>2. U[h] = Append(w, y) /\ y \in Readable
    BY <2>1, EmptyJoins
  <2>3. w \in Seq(Readable)
    BY <2>1, EmptyTypes
  <2> HIDE DEF w, y
  <2>4. Append(w, y) # <<>> /\ Append(w, y)[Len(Append(w, y))] = y
    BY <2>2, <2>3
  <2>5. U[i] # <<>> /\ U[i][Len(U[i])] = y
    BY <2>1, <2>2, <2>4
  <2> QED BY <1>2, <2>1, <2>5 DEF h, y
<1>3. CASE i \notin D /\ i - 1 \notin D
  <2> DEFINE w == U[i - 1]
             y == T[i]
  <2>1. U[i] = Append(w, y) /\ w \in Seq(Readable) /\ y \in Readable
    BY <1>0, <1>3, EmptyCopies
  <2> HIDE DEF w, y
  <2>2. Append(w, y) # <<>> /\ Append(w, y)[Len(Append(w, y))] = y
    BY <2>1
  <2> QED BY <1>3, <2>1, <2>2 DEF y
<1> QED BY <1>1, <1>2, <1>3

\* What was written so far means what was read so far, and the end of an element whose end
\* tag is still to come.
EmptySoFar(T, U, D, i) ==
    /\ Within(U[i]) <=> Within(Upto(T, i))
    /\ i \in D => Meaning(U[i]) = Meaning(Upto(T, i)) \o <<EndOf(T[i])>>
    /\ i \notin D => Meaning(U[i]) = Meaning(Upto(T, i))

LEMMA EmptyKeeps ==
    ASSUME NEW T, NEW U, NEW D, NEW i, EmptyPass(T, U, D), i \in 1 .. Len(T), Tidy(T),
           EmptySoFar(T, U, D, i - 1)
    PROVE  EmptySoFar(T, U, D, i)
<1> DEFINE h == i - 1
           w == U[h]
           t == Upto(T, h)
           x == T[i]
<1>0. Len(T) \in Nat /\ h \in 0 .. Len(T) /\ T \in Seq(Readable) /\ U[0] = <<>>
  BY DEF EmptyPass
<1>1. x \in Readable /\ w \in Seq(Readable)
  BY EmptyTypes
<1>2. Upto(T, i) = Append(t, x) /\ t \in Seq(Readable) /\ Fits(t, x)
  <2>1. Upto(T, i) = Append(t, x) /\ t \in Seq(Readable) /\ t = Before(T, i)
    BY <1>0, UptoStep
  <2>2. Fits(Before(T, i), T[i])
    BY <1>0 DEF Tidy
  <2> QED BY <2>1, <2>2
<1>3. i \in D => /\ U[i] = Append(w, Joined(x)) /\ x.k = "open"
                 /\ Joined(x) \in Readable /\ Joined(x).k = "empty"
                 /\ Joined(x).n = x.n /\ Joined(x).form = x.form
  BY EmptyJoins
<1>4. h \in D => U[i] = w /\ x.k = "close" /\ T[h].k = "open" /\ x.n = T[h].n
  <2>1. i = h + 1
    BY <1>0
  <2> HIDE DEF h
  <2>2. h \in D => DroppedEnd(T, U, D, h, i)
    BY <2>1, EmptyDrops
  <2> QED BY <2>2 DEF DroppedEnd
<1>5. i \notin D /\ h \notin D => U[i] = Append(w, x)
  BY EmptyCopies
<1>6. /\ Within(w) <=> Within(t)
      /\ h \in D => Meaning(w) = Meaning(t) \o <<EndOf(T[h])>>
      /\ h \notin D => Meaning(w) = Meaning(t)
  BY DEF EmptySoFar
<1>7. i \notin D /\ h \notin D => (Ends(w, "CR") <=> Ends(t, "CR"))
  <2> SUFFICES ASSUME i \notin D, h \notin D PROVE Ends(w, "CR") <=> Ends(t, "CR")
    OBVIOUS
  <2> HIDE DEF h
  <2>1. CASE h = 0
    <3>1. t = <<>> /\ w = <<>>
      BY <1>0, <2>1, UptoLast
    <3> QED BY <3>1
  <2>2. CASE h # 0
    <3>1. h \in 1 .. Len(T)
      BY <1>0, <2>2
    <3>2. Ends(t, "CR") <=> T[h].k = "CR"
      <4>1. Ends(t, "CR") <=> (h # 0 /\ T[h].k = "CR")
        BY <1>0, UptoEnds
      <4> QED BY <2>2, <4>1
    <3>3. w # <<>> /\ w[Len(w)] = IF h - 1 \in D THEN Joined(T[h - 1]) ELSE T[h]
      <4>1. LastWritten(T, U, D, h)
        BY <3>1, EmptyLast
      <4> QED BY <4>1 DEF LastWritten
    <3>4. CASE h - 1 \in D
      <4> DEFINE g == h - 1
      <4>0. g \in D /\ h = g + 1
        BY <1>0, <3>1, <3>4
      <4> HIDE DEF g
      <4>1. T[h].k = "close" /\ g \in 1 .. Len(T) /\ g \in D
        <5>1. DroppedEnd(T, U, D, g, h)
          BY <4>0, EmptyDrops
        <5> QED BY <4>0, <5>1 DEF DroppedEnd
      <4>2. Joined(T[g]).k = "empty"
        BY <4>1, EmptyJoins
      <4>3. w[Len(w)].k = "empty"
        BY <3>3, <3>4, <4>2 DEF g
      <4> QED BY <3>2, <4>1, <4>3 DEF Ends
    <3>5. CASE h - 1 \notin D
      BY <3>2, <3>3, <3>5 DEF Ends
    <3> QED BY <3>4, <3>5
  <2> QED BY <2>1, <2>2
<1> HIDE DEF h, w, t, x
<1>8. w \in Seq(Token) /\ t \in Seq(Token) /\ x \in Token
  BY <1>1, <1>2, Tokens
<1>9. Meaning(Append(t, x)) = Meaning(t) \o Events(t, x)
  BY <1>8, MeaningAppend
<1>10. Within(Append(t, x)) <=> (x.k \notin SectionEnd /\ (x.k \in SectionStart \/ Within(t)))
  BY <1>8, WithinAppend
<1>11. Meaning(t) \in Seq(Says)
  BY <1>8, MeaningType
<1>12. CASE i \in D
  <2> DEFINE y == Joined(x)
             a == StartOf(x)
             b == EndOf(x)
  <2>1. U[i] = Append(w, y) /\ x.k = "open" /\ y \in Readable /\ y.k = "empty" /\ y.n = x.n /\ y.form = x.form
    BY <1>3, <1>12
  <2>2. h \notin D
    BY <1>4, <2>1
  <2>3. ~Within(t) /\ ~Within(w)
    BY <1>2, <1>6, <2>1 DEF Fits
  <2>4. StartOf(y) = a /\ EndOf(y) = b
    BY <2>1 DEF StartOf, EndOf
  <2> HIDE DEF y
  <2>5. Events(t, x) = <<a>> /\ Events(w, y) = <<a, b>>
    <3>1. Events(t, x) = <<StartOf(x)>>
      BY <2>1, <2>3 DEF Events
    <3>2. Events(w, y) = <<StartOf(y), EndOf(y)>>
      BY <2>1, <2>3 DEF Events
    <3> QED BY <2>4, <3>1, <3>2
  <2>6. y \in Token
    BY <2>1, Tokens
  <2>7. Meaning(Append(w, y)) = Meaning(w) \o Events(w, y)
    BY <1>8, <2>6, MeaningAppend
  <2>8. Within(Append(w, y)) <=> (y.k \notin SectionEnd /\ (y.k \in SectionStart \/ Within(w)))
    BY <1>8, <2>6, WithinAppend
  <2>9. Meaning(t) \o <<a, b>> = (Meaning(t) \o <<a>>) \o <<b>>
    <3> DEFINE m == Meaning(t)
    <3>1. m \in Seq(Says) /\ a \in Says /\ b \in Says
      BY <1>8, <1>11 DEF Says
    <3> HIDE DEF m, a, b
    <3>2. m \o <<a, b>> = (m \o <<a>>) \o <<b>>
      BY <3>1, TwoMore
    <3> QED BY <3>2 DEF m
  <2>10. Meaning(U[i]) = Meaning(Upto(T, i)) \o <<EndOf(T[i])>>
    <3>1. Meaning(U[i]) = Meaning(t) \o <<a, b>>
      BY <1>6, <2>1, <2>2, <2>5, <2>7
    <3>2. Meaning(Upto(T, i)) = Meaning(t) \o <<a>>
      BY <1>2, <1>9, <2>5
    <3> QED BY <2>9, <3>1, <3>2 DEF x
  <2>11. Within(U[i]) <=> Within(Upto(T, i))
    BY <1>2, <1>10, <2>1, <2>3, <2>8 DEF SectionStart, SectionEnd
  <2> QED BY <1>12, <2>10, <2>11 DEF EmptySoFar
<1>13. CASE h \in D
  <2>1. U[i] = w /\ x.k = "close" /\ x.n = T[h].n /\ i \notin D
    BY <1>3, <1>4, <1>13
  <2>2. ~Within(t)
    BY <1>2, <2>1 DEF Fits
  <2>3. Events(t, x) = <<EndOf(x)>>
    BY <2>1, <2>2 DEF Events
  <2>4. EndOf(x) = EndOf(T[h])
    BY <2>1 DEF EndOf
  <2>5. Meaning(U[i]) = Meaning(Upto(T, i))
    BY <1>2, <1>6, <1>9, <1>13, <2>1, <2>3, <2>4
  <2>6. Within(U[i]) <=> Within(Upto(T, i))
    BY <1>2, <1>6, <1>10, <2>1 DEF SectionStart, SectionEnd
  <2> QED BY <2>1, <2>5, <2>6 DEF EmptySoFar
<1>14. CASE i \notin D /\ h \notin D
  <2>1. U[i] = Append(w, x)
    BY <1>5, <1>14
  <2>2. Events(w, x) = Events(t, x)
    BY <1>6, <1>7, <1>14, EventsSame
  <2>3. Meaning(Append(w, x)) = Meaning(w) \o Events(w, x)
    BY <1>8, MeaningAppend
  <2>4. Within(Append(w, x)) <=> (x.k \notin SectionEnd /\ (x.k \in SectionStart \/ Within(w)))
    BY <1>8, WithinAppend
  <2> QED BY <1>2, <1>6, <1>9, <1>10, <1>14, <2>1, <2>2, <2>3, <2>4 DEF EmptySoFar
<1> QED BY <1>12, <1>13, <1>14

\* Joining the tags of empty elements does not change the meaning.
LEMMA EmptiesKept ==
    ASSUME NEW T, NEW U, NEW D, NEW m, EmptyPass(T, U, D), Tidy(T), m \in 0 .. Len(T)
    PROVE  EmptySoFar(T, U, D, m)
<1> DEFINE Bad == {j \in 0 .. Len(T) : ~EmptySoFar(T, U, D, j)}
<1>0. Len(T) \in Nat /\ T \in Seq(Readable) /\ U[0] = <<>> /\ 0 \notin D
  BY DEF EmptyPass
<1> SUFFICES ASSUME Bad # {} PROVE FALSE
  OBVIOUS
<1>1. Bad \in SUBSET Nat
  BY <1>0
<1>2. PICK i \in Bad : \A j \in Bad : i <= j
  BY <1>1, LeastExists
<1>3. CASE i = 0
  <2>1. Upto(T, 0) = <<>>
    BY <1>0, PrefixEnds DEF Upto
  <2>2. EmptySoFar(T, U, D, 0)
    BY <1>0, <2>1, EmptyText DEF EmptySoFar
  <2> QED BY <1>2, <1>3, <2>2
<1>4. CASE i # 0
  <2>1. i \in 1 .. Len(T) /\ i - 1 \in 0 .. Len(T) /\ i - 1 \notin Bad
    BY <1>0, <1>2, <1>4
  <2>2. EmptySoFar(T, U, D, i - 1)
    BY <2>1
  <2>3. EmptySoFar(T, U, D, i)
    BY <2>1, <2>2, EmptyKeeps
  <2> QED BY <1>2, <2>3
<1> QED BY <1>3, <1>4

\* A text that is tidy and steady stays tidy.
LEMMA EmptiesTidy ==
    ASSUME NEW T, NEW U, NEW D, NEW m, EmptyPass(T, U, D), Tidy(T), Steady(T), m \in 0 .. Len(T)
    PROVE  Tidy(U[m])
<1> DEFINE Bad == {j \in 0 .. Len(T) : ~Tidy(U[j])}
<1>0. Len(T) \in Nat /\ T \in Seq(Readable) /\ U[0] = <<>>
  BY DEF EmptyPass
<1> SUFFICES ASSUME Bad # {} PROVE FALSE
  OBVIOUS
<1>1. Bad \in SUBSET Nat
  BY <1>0
<1>2. PICK i \in Bad : \A j \in Bad : i <= j
  BY <1>1, LeastExists
<1>3. CASE i = 0
  BY <1>0, <1>2, <1>3, EmptyText
<1>4. CASE i # 0
  <2> DEFINE h == i - 1
             w == U[h]
             t == Upto(T, h)
             x == T[i]
  <2>1. i \in 1 .. Len(T) /\ h \in 0 .. Len(T) /\ h \notin Bad /\ i = h + 1
    BY <1>0, <1>2, <1>4
  <2>2. Tidy(w) /\ x \in Readable /\ w \in Seq(Readable)
    BY <2>1, EmptyTypes
  <2>3. Fits(t, x)
    <3>1. t = Before(T, i)
      BY <1>0, <2>1, UptoStep
    <3>2. Fits(Before(T, i), T[i])
      BY <1>0, <2>1 DEF Tidy
    <3> QED BY <3>1, <3>2
  <2>4. Within(w) <=> Within(t)
    <3> HIDE DEF h
    <3>1. EmptySoFar(T, U, D, h)
      BY <2>1, EmptiesKept
    <3> QED BY <3>1 DEF EmptySoFar
  <2>5. CASE i \in D
    <3> DEFINE y == Joined(x)
    <3>1. U[i] = Append(w, y) /\ y \in Readable /\ y.k = "empty" /\ x.k = "open"
      BY <2>5, EmptyJoins, SMTT(30)
    <3> HIDE DEF y, h, w, t, x
    <3>2. Fits(w, y)
      BY <2>3, <2>4, <3>1 DEF Fits, Loose, SectionEnd
    <3>3. Tidy(Append(w, y))
      BY <2>2, <3>1, <3>2, TidyAppend
    <3> QED BY <1>2, <3>1, <3>3
  <2>6. CASE h \in D
    <3> HIDE DEF h
    <3>1. DroppedEnd(T, U, D, h, i)
      BY <2>1, <2>6, EmptyDrops
    <3>2. U[i] = w
      BY <3>1 DEF DroppedEnd
    <3> HIDE DEF w
    <3> QED BY <1>2, <2>2, <3>2
  <2>7. CASE i \notin D /\ h \notin D
    <3>1. U[i] = Append(w, x)
      <4>1. i \in 1 .. Len(T) /\ i \notin D /\ i - 1 \notin D
        BY <2>1, <2>7
      <4> QED BY ONLY <4>1, EmptyPass(T, U, D), EmptyCopies DEF h, w, x
    <3>2. x.k = "close" /\ w # <<>> => w[Len(w)].k \notin {"gt", "slash", "broken"} /\ ~Loose(w[Len(w)], "empty", x.n)
      <4> SUFFICES ASSUME x.k = "close", w # <<>> PROVE w[Len(w)].k \notin {"gt", "slash", "broken"} /\ ~Loose(w[Len(w)], "empty", x.n)
        OBVIOUS
      <4>1. h \in 1 .. Len(T)
        <5>1. h # 0
          BY <1>0
        <5> QED BY <1>0, <2>1, <5>1
      <4> HIDE DEF h
      <4>2. LastWritten(T, U, D, h)
        BY <4>1, EmptyLast
      <4> DEFINE g == h - 1
      <4>3. w[Len(w)] = IF g \in D THEN Joined(T[g]) ELSE T[h]
        BY <2>7, <4>2 DEF LastWritten
      <4>4. CASE g \in D
        <5>0. h = g + 1
          BY <4>1
        <5> HIDE DEF g
        <5>1. DroppedEnd(T, U, D, g, h)
          BY <4>4, <5>0, EmptyDrops
        <5>2. /\ Joined(T[g]).k = "empty" /\ Joined(T[g]).n = T[g].n /\ Joined(T[g]).form = T[g].form
          BY <4>4, EmptyJoins
        <5>3. T[g].k = "open" /\ T[h].k = "close" /\ T[h].n = T[g].n /\ g \in 1 .. Len(T)
          BY <5>1 DEF DroppedEnd
        <5>4. T[h].n = T[i].n => ~Loose(T[g], "open", T[h].n)
          <6>1. g \in DOMAIN T /\ g + 2 \in DOMAIN T /\ g + 1 = h /\ g + 2 = i
            BY <1>0, <2>1, <5>0, <5>3
          <6> QED BY <5>3, <6>1 DEF Steady
        <5>5. w[Len(w)] = Joined(T[g])
          BY <4>3, <4>4
        <5> HIDE DEF w
        <5> QED BY <5>2, <5>3, <5>4, <5>5 DEF Loose
      <4>5. CASE g \notin D
        <5>1. w[Len(w)] = T[h]
          BY <4>3, <4>5
        <5>2. t # <<>> /\ t[Len(t)] = T[h]
          <6>1. h \in 0 .. Len(T) /\ h # 0
            BY <4>1
          <6> QED BY <1>0, <6>1, UptoLast
        <5> HIDE DEF w, t, x
        <5> QED BY <2>3, <5>1, <5>2 DEF Fits
      <4> QED BY <4>4, <4>5
    <3>3. Fits(w, x)
      <4> HIDE DEF w, t, x
      <4> QED BY <2>3, <2>4, <3>2 DEF Fits
    <3> HIDE DEF w, x
    <3>4. Tidy(Append(w, x))
      BY <2>2, <3>3, TidyAppend
    <3> QED BY <1>2, <3>1, <3>4
  <2> QED BY <2>5, <2>6, <2>7
<1> QED BY <1>3, <1>4

\* Nothing in a section misleads the search for " />".
Quiet(t, x) ==
    /\ Within(t) => x.k \notin {"open", "close", "empty", "lt", "quote"} /\ ~Loose(x, "slash", x.n)
    /\ x.k \in SectionEnd \union {"lt"} => Within(t)
Clear(t) == \A i \in DOMAIN t : Quiet(Before(t, i), t[i])

LEMMA TidyClear ==
    ASSUME NEW t, Tidy(t)
    PROVE  Clear(t)
BY DEF Tidy, Clear, Fits, Quiet

\* One more token.
LEMMA ClearAppend ==
    ASSUME NEW S, NEW t, NEW x, t \in Seq(S), x \in S, Clear(t), Quiet(t, x)
    PROVE  Clear(Append(t, x))
<1> DEFINE r == Append(t, x)
           n == Len(t)
<1>1. n \in Nat /\ Len(r) = n + 1 /\ DOMAIN r = 1 .. n + 1 /\ DOMAIN t = 1 .. n
  OBVIOUS
<1>2. r[n + 1] = x /\ \A i \in 1 .. n : r[i] = t[i]
  OBVIOUS
<1> DEFINE one == <<x>>
<1>3. r = t \o one /\ one \in Seq(S) /\ Len(one) = 1
  OBVIOUS
<1>4. \A i \in 1 .. n : Before(r, i) = Before(t, i)
  <2> HIDE DEF one, r
  <2>1. \A i \in 1 .. n : Before(t \o one, i) = Before(t, i)
    BY <1>3, BeforeFirst
  <2> QED BY <1>3, <2>1
<1>5. Before(r, n + 1) = t
  <2> DEFINE c == SubSeq(r, 1, n)
  <2>1. r \in Seq(S) /\ c \in Seq(S) /\ Len(c) = n /\ \A i \in 1 .. n : c[i] = r[i]
    BY <1>1
  <2> HIDE DEF c, r
  <2>2. \A i \in 1 .. Len(c) : c[i] = t[i]
    BY <1>2, <2>1
  <2>3. c = t
    BY <1>1, <2>1, <2>2, SameElements
  <2>4. (n + 1) - 1 = n
    BY <1>1
  <2> QED BY <2>3, <2>4 DEF Before, c
<1> HIDE DEF r, n
<1> SUFFICES ASSUME NEW i \in 1 .. n + 1 PROVE Quiet(Before(r, i), r[i])
  BY <1>1 DEF Clear, r
<1>6. CASE i = n + 1
  BY <1>2, <1>5, <1>6
<1>7. CASE i # n + 1
  <2>1. i \in 1 .. n
    BY <1>1, <1>7
  <2>2. Quiet(Before(t, i), t[i])
    BY <1>1, <2>1 DEF Clear
  <2> QED BY <1>2, <1>4, <2>1, <2>2
<1> QED BY <1>6, <1>7

\* Joining the tags of empty elements writes nothing into a section.
LEMMA EmptiesClear ==
    ASSUME NEW T, NEW U, NEW D, NEW m, EmptyPass(T, U, D), Tidy(T), m \in 0 .. Len(T)
    PROVE  Clear(U[m])
<1> DEFINE Bad == {j \in 0 .. Len(T) : ~Clear(U[j])}
<1>0. Len(T) \in Nat /\ T \in Seq(Readable) /\ U[0] = <<>>
  BY DEF EmptyPass
<1> SUFFICES ASSUME Bad # {} PROVE FALSE
  OBVIOUS
<1>1. Bad \in SUBSET Nat
  BY <1>0
<1>2. PICK i \in Bad : \A j \in Bad : i <= j
  BY <1>1, LeastExists
<1>3. CASE i = 0
  BY <1>0, <1>2, <1>3, EmptyText, TidyClear
<1>4. CASE i # 0
  <2> DEFINE h == i - 1
             w == U[h]
             t == Upto(T, h)
             x == T[i]
  <2>1. i \in 1 .. Len(T) /\ h \in 0 .. Len(T) /\ h \notin Bad /\ i = h + 1
    BY <1>0, <1>2, <1>4
  <2>2. Clear(w) /\ x \in Readable /\ w \in Seq(Readable)
    BY <2>1, EmptyTypes
  <2>3. Fits(t, x)
    <3>1. t = Before(T, i)
      BY <1>0, <2>1, UptoStep
    <3>2. Fits(Before(T, i), T[i])
      BY <1>0, <2>1 DEF Tidy
    <3> QED BY <3>1, <3>2
  <2>4. Within(w) <=> Within(t)
    <3> HIDE DEF h
    <3>1. EmptySoFar(T, U, D, h)
      BY <2>1, EmptiesKept
    <3> QED BY <3>1 DEF EmptySoFar
  <2>5. CASE i \in D
    <3> DEFINE y == Joined(x)
    <3>1. U[i] = Append(w, y) /\ y \in Readable /\ y.k = "empty" /\ x.k = "open"
      BY <2>5, EmptyJoins, SMTT(30)
    <3> HIDE DEF y, h, w, t, x
    <3>2. Quiet(w, y)
      BY <2>3, <2>4, <3>1 DEF Fits, Quiet, SectionEnd
    <3>3. Clear(Append(w, y))
      BY <2>2, <3>1, <3>2, ClearAppend
    <3> QED BY <1>2, <3>1, <3>3
  <2>6. CASE h \in D
    <3> HIDE DEF h
    <3>1. DroppedEnd(T, U, D, h, i)
      BY <2>1, <2>6, EmptyDrops
    <3>2. U[i] = w
      BY <3>1 DEF DroppedEnd
    <3> HIDE DEF w
    <3> QED BY <1>2, <2>2, <3>2
  <2>7. CASE i \notin D /\ h \notin D
    <3>1. U[i] = Append(w, x)
      <4>1. i \in 1 .. Len(T) /\ i \notin D /\ i - 1 \notin D
        BY <2>1, <2>7
      <4> QED BY ONLY <4>1, EmptyPass(T, U, D), EmptyCopies DEF h, w, x
    <3> HIDE DEF w, t, x
    <3>2. Quiet(w, x)
      BY <2>3, <2>4 DEF Fits, Quiet
    <3>3. Clear(Append(w, x))
      BY <2>2, <3>2, ClearAppend
    <3> QED BY <1>2, <3>1, <3>3
  <2> QED BY <2>5, <2>6, <2>7
<1> QED BY <1>3, <1>4

\* Every non-empty set of indices has a greatest element.
LEMMA GreatestExists ==
    ASSUME NEW n, NEW S, n \in Nat, S \subseteq 1 .. n, S # {}
    PROVE  Max(S) \in S /\ \A j \in S : j <= Max(S)
<1> DEFINE R == {n - i : i \in S}
<1>1. R \in SUBSET Nat /\ R # {}
  OBVIOUS
<1>2. PICK m \in R : \A j \in R : m <= j
  BY <1>1, LeastExists
<1>3. PICK i \in S : m = n - i
  BY <1>2
<1>4. ASSUME NEW j \in S PROVE i >= j
  <2>1. n - j \in R
    OBVIOUS
  <2>2. n - i <= n - j
    BY <1>2, <1>3, <2>1
  <2> QED BY <2>2
<1>5. \E x \in S : \A y \in S : x >= y
  BY <1>4
<1>6. Max(S) \in S /\ \A y \in S : Max(S) >= y
  BY <1>5 DEF Max
<1> QED BY <1>6

\* In a part of a tidy text the search for empty elements finds start tags followed by their
\* own end tags only.
LEMMA FindsEmpty ==
    ASSUME NEW b, NEW p, NEW a, NEW i, b \in Seq(Readable), p \in Seq(Readable), a \in Seq(Readable),
           Tidy(b \o p \o a), LooksEmpty(p, i)
    PROVE  /\ i \in 1 .. Len(p) /\ i + 1 \in 1 .. Len(p)
           /\ p[i].k = "open" /\ p[i + 1].k = "close" /\ p[i].n = p[i + 1].n
<1> DEFINE T == b \o p \o a
           lo == Len(b)
           from == {j \in 1 .. i : p[j].k \in StartsTag}
           m == Max(from)
<1>1. /\ lo \in Nat /\ Len(p) \in Nat /\ Len(a) \in Nat /\ T \in Seq(Readable)
      /\ Len(T) = lo + Len(p) + Len(a) /\ \A j \in 1 .. Len(p) : T[lo + j] = p[j]
  OBVIOUS
<1>fits. \A j \in DOMAIN T : Fits(Before(T, j), T[j])
  BY DEF Tidy
<1>dom. DOMAIN T = 1 .. Len(T)
  BY <1>1
<1>2. i \in 1 .. Len(p) /\ i + 1 \in 1 .. Len(p) /\ p[i + 1].k = "close" /\ p[i].k \in EndsTag
  BY <1>1 DEF LooksEmpty
<1>3. OpenName(p, i) = <<p[i + 1].n>>
  BY DEF LooksEmpty
<1>4. from # {} /\ p[m].n = p[i + 1].n /\ (p[m].k \in {"open", "lt"} \/ (p[m].k = "empty" /\ p[m].form # "plain"))
  BY <1>3 DEF OpenName
<1>5. m \in from /\ \A j \in from : j <= m
  <2> HIDE DEF from
  <2>1. from \subseteq 1 .. i /\ i \in Nat
    BY <1>2 DEF from
  <2> QED BY <1>4, <2>1, GreatestExists
<1> HIDE DEF T, lo, from, m
<1>6. m \in 1 .. i /\ p[m].k \in StartsTag
  BY <1>5 DEF from
<1>7. p[i].k \in StartsTag => m = i
  <2> SUFFICES ASSUME p[i].k \in StartsTag PROVE m = i
    OBVIOUS
  <2>1. i \in from
    BY <1>2 DEF from
  <2> QED BY <1>2, <1>5, <1>6, <2>1
<1>7a. \A j \in 1 .. Len(p) : lo + j \in 1 .. Len(T) /\ T[lo + j] = p[j]
  BY <1>1
<1>8. ASSUME NEW j \in 1 .. Len(p), NEW h \in Nat, h + 1 = lo + j
      PROVE  h + 1 \in 1 .. Len(T) /\ T[h + 1] = p[j] /\ Fits(Upto(T, h), p[j])
  <2> DEFINE g == h + 1
  <2>1. g \in 1 .. Len(T) /\ T[g] = p[j]
    BY <1>7a, <1>8
  <2>2. h = g - 1
    OBVIOUS
  <2> HIDE DEF g
  <2>3. Fits(Before(T, g), T[g])
    BY <1>fits, <1>dom, <2>1
  <2>4. Upto(T, g - 1) = Before(T, g)
    BY <1>1, <2>1, UptoStep
  <2>5. Fits(Upto(T, h), p[j])
    BY <2>1, <2>2, <2>3, <2>4
  <2> QED BY <2>1, <2>5 DEF g
<1>9. p[i].k \notin {"gt", "slash", "broken"} /\ ~Loose(p[i], "empty", p[i + 1].n)
  <2> DEFINE g == lo + i
             t == Upto(T, g)
  <2>1. g \in 1 .. Len(T) /\ T[g] = p[i]
    BY <1>2, <1>7a
  <2>2. Fits(t, p[i + 1])
    <3> DEFINE k == i + 1
    <3>1. k \in 1 .. Len(p) /\ g \in Nat /\ g + 1 = lo + k
      BY <1>1, <1>2
    <3> HIDE DEF k, g
    <3>2. Fits(Upto(T, g), p[k])
      BY <1>8, <3>1
    <3> QED BY <3>2 DEF k
  <2> HIDE DEF g
  <2>3. t # <<>> /\ t[Len(t)] = p[i]
    <3>1. g \in 0 .. Len(T) /\ g # 0
      BY <2>1
    <3>2. Upto(T, g) # <<>> /\ Upto(T, g)[Len(Upto(T, g))] = T[g]
      <4>1. T \in Seq(Readable)
        BY <1>1
      <4> QED BY <3>1, <4>1, UptoLast
    <3> QED BY <2>1, <3>2
  <2> HIDE DEF t
  <2> QED BY <1>2, <2>2, <2>3 DEF Fits
<1>10. p[i].k \notin SectionEnd
  <2> SUFFICES ASSUME p[i].k \in SectionEnd PROVE FALSE
    OBVIOUS
  <2> DEFINE g == lo + i - 1
             t == Upto(T, g)
  <2>1. g \in Nat /\ g < Len(T) /\ g = lo + (i - 1)
    BY <1>1, <1>2
  <2>2. Within(t)
    <3>1. g + 1 = lo + i
      BY <1>1, <1>2
    <3> HIDE DEF g
    <3>2. Fits(t, p[i])
      BY <1>2, <1>8, <2>1, <3>1
    <3> HIDE DEF t
    <3> QED BY <3>2 DEF Fits
  <2>3. t \in Seq(Readable) /\ Len(t) = g /\ \A j \in 1 .. g : t[j] = T[j]
    <3> HIDE DEF g
    <3> QED BY <1>1, <2>1 DEF Upto
  <2> HIDE DEF t
  <2>4. PICK c \in 1 .. g : T[c].k \in SectionStart /\ \A j \in c .. g : T[j].k \notin SectionEnd
    <3>1. PICK c \in DOMAIN t : t[c].k \in SectionStart /\ \A j \in c .. Len(t) : t[j].k \notin SectionEnd
      BY <2>2 DEF Within
    <3>2. c \in 1 .. g /\ \A j \in c .. g : j \in 1 .. g
      BY <2>1, <2>3, <3>1
    <3> QED BY <2>3, <3>1, <3>2
  <2>5. m # i
    BY <1>6 DEF StartsTag, Bracketed, SectionStart, SectionEnd
  <2> DEFINE e == lo + m
             r == Upto(T, e - 1)
  <2>6. e \in 1 .. Len(T) /\ e <= g /\ T[e] = p[m] /\ Fits(r, p[m])
    <3>1. m \in 1 .. Len(p)
      BY <1>1, <1>2, <1>6
    <3>2. e \in 1 .. Len(T) /\ T[e] = p[m] /\ Fits(r, p[m])
      <4> DEFINE h == e - 1
      <4>1. h \in Nat /\ h + 1 = lo + m /\ h + 1 = e
        BY <1>1, <3>1
      <4> HIDE DEF h, e
      <4>2. h + 1 \in 1 .. Len(T) /\ T[h + 1] = p[m] /\ Fits(Upto(T, h), p[m])
        BY <1>8, <3>1, <4>1
      <4> QED BY <4>1, <4>2 DEF h
    <3>3. e <= g
      BY <1>1, <1>2, <1>6, <2>1, <2>5
    <3> QED BY <3>2, <3>3
  <2>7. c <= e
    <3>1. CASE c <= lo
      BY <1>1, <1>6, <2>4, <3>1
    <3>2. CASE ~(c <= lo)
      <4> DEFINE f == c - lo
      <4>1. f \in 1 .. i /\ f \in 1 .. Len(p) /\ c = lo + f
        <5>1. lo \in Nat /\ Len(p) \in Nat /\ i \in 1 .. Len(p) /\ c \in 1 .. g /\ g = lo + i - 1
          BY <1>1, <1>2, <2>4
        <5> HIDE DEF g
        <5> QED BY ONLY <3>2, <5>1
      <4> HIDE DEF f
      <4>2. p[f].k \in SectionStart
        BY <1>7a, <2>4, <4>1
      <4>3. f \in from
        BY <4>1, <4>2 DEF from, StartsTag
      <4> QED BY <1>1, <1>5, <1>6, <4>1, <4>3
    <3> QED BY <3>1, <3>2
  <2>8. c # e
    BY <1>4, <2>4, <2>6 DEF SectionStart
  <2> HIDE DEF e
  <2>9. r \in Seq(Readable) /\ Len(r) = e - 1 /\ \A j \in 1 .. e - 1 : r[j] = T[j]
    BY <1>1, <2>6 DEF Upto
  <2> HIDE DEF r
  <2>10. c \in DOMAIN r /\ r[c].k \in SectionStart /\ \A j \in c .. Len(r) : r[j].k \notin SectionEnd
    <3>1. c \in 1 .. e - 1 /\ \A j \in c .. e - 1 : j \in 1 .. e - 1 /\ j \in c .. g
      BY <2>1, <2>4, <2>6, <2>7, <2>8
    <3>2. DOMAIN r = 1 .. e - 1
      BY <2>9
    <3>3. r[c] = T[c]
      BY <2>9, <3>1
    <3>4. ASSUME NEW j \in c .. e - 1 PROVE r[j].k \notin SectionEnd
      BY <2>4, <2>9, <3>1
    <3> QED BY <2>4, <2>9, <3>1, <3>2, <3>3, <3>4
  <2>11. Within(r)
    BY <2>10 DEF Within
  <2> QED BY <1>4, <2>6, <2>11 DEF Fits
<1>11. p[i].k \in StartsTag
  BY <1>2, <1>9, <1>10 DEF StartsTag, EndsTag
<1>12. p[i].k = "open" /\ p[i].n = p[i + 1].n
  BY <1>2, <1>4, <1>7, <1>9, <1>11 DEF Loose, EndsTag, Bracketed, SectionEnd
<1> QED BY <1>2, <1>12

-----------------------------------------------------------------------------
(* The functions of decrypt.rs on a part of a text.                        *)

\* What is written for the tokens of b \o p \o a one after the other, f[j] for p[j] and every
\* other token for itself.
Runs(b, p, a, f, T, U) ==
    /\ T \in Seq(Readable) /\ T = b \o p \o a
    /\ Len(T) = Len(b) + Len(p) + Len(a)
    /\ U \in [0 .. Len(T) -> Seq(Readable)] /\ U[0] = <<>> /\ U[Len(T)] = b \o FlattenSeq(f) \o a
    /\ \A i \in 1 .. Len(T) : ~Inside(Len(b), Len(b) + Len(p), i) => U[i] = Append(U[i - 1], T[i])
    /\ \A i \in 1 .. Len(T), j \in 1 .. Len(p) : i = Len(b) + j => U[i] = U[i - 1] \o f[j]

\* Three sequences, one after the other.
Three(S, b, p, a, t) ==
    /\ t \in Seq(S) /\ Len(t) = Len(b) + Len(p) + Len(a)
    /\ \A j \in 1 .. Len(b) : t[j] = b[j]
    /\ \A j \in 1 .. Len(p) : t[Len(b) + j] = p[j]
    /\ \A j \in 1 .. Len(a) : t[Len(b) + Len(p) + j] = a[j]

LEMMA ThreeFacts ==
    ASSUME NEW S, NEW b, NEW p, NEW a, NEW t, b \in Seq(S), p \in Seq(S), a \in Seq(S), t = b \o p \o a
    PROVE  Three(S, b, p, a, t)
BY DEF Three

LEMMA Running ==
    ASSUME NEW b, NEW p, NEW a, NEW f, b \in Seq(Readable), p \in Seq(Readable), a \in Seq(Readable),
           f \in Seq(Seq(Readable)), Len(f) = Len(p)
    PROVE  \E T, U : Runs(b, p, a, f, T, U)
<1> DEFINE T == b \o p \o a
           ob == [i \in 1 .. Len(b) |-> <<b[i]>>]
           oa == [i \in 1 .. Len(a) |-> <<a[i]>>]
           G == ob \o f \o oa
           U == [k \in 0 .. Len(T) |-> FlattenSeq(SubSeq(G, 1, k))]
<1>0. Len(b) \in Nat /\ Len(p) \in Nat /\ Len(a) \in Nat
  OBVIOUS
<1>1. /\ T \in Seq(Readable) /\ Len(T) = Len(b) + Len(p) + Len(a)
      /\ \A j \in 1 .. Len(b) : T[j] = b[j]
      /\ \A j \in 1 .. Len(p) : T[Len(b) + j] = p[j]
      /\ \A j \in 1 .. Len(a) : T[Len(b) + Len(p) + j] = a[j]
  <2>1. T = b \o p \o a
    OBVIOUS
  <2> HIDE DEF T
  <2>2. Three(Readable, b, p, a, T)
    BY <2>1, ThreeFacts
  <2> QED BY <2>2 DEF Three
<1>2. ob \in Seq(Seq(Readable)) /\ FlattenSeq(ob) = b /\ Len(ob) = Len(b)
  BY FlattenOnes
<1>3. oa \in Seq(Seq(Readable)) /\ FlattenSeq(oa) = a /\ Len(oa) = Len(a)
  BY FlattenOnes
<1>4. (\A j \in 1 .. Len(b) : ob[j] = <<b[j]>>) /\ (\A j \in 1 .. Len(a) : oa[j] = <<a[j]>>)
  OBVIOUS
<1> HIDE DEF ob, oa
<1>5. /\ G \in Seq(Seq(Readable)) /\ Len(G) = Len(T)
      /\ \A j \in 1 .. Len(b) : G[j] = ob[j]
      /\ \A j \in 1 .. Len(p) : G[Len(b) + j] = f[j]
      /\ \A j \in 1 .. Len(a) : G[Len(b) + Len(p) + j] = oa[j]
  <2>1. G = ob \o f \o oa
    OBVIOUS
  <2> HIDE DEF G
  <2>2. Three(Seq(Readable), ob, f, oa, G)
    BY <1>2, <1>3, <2>1, ThreeFacts
  <2> HIDE DEF T
  <2> QED BY <1>1, <1>2, <1>3, <2>2 DEF Three
<1>6. FlattenSeq(G) = b \o FlattenSeq(f) \o a
  <2> DEFINE c == ob \o f
  <2>1. c \in Seq(Seq(Readable)) /\ FlattenSeq(c) = b \o FlattenSeq(f)
    <3>1. FlattenSeq(ob \o f) = FlattenSeq(ob) \o FlattenSeq(f)
      <4>1. ob \in Seq(Seq(Readable)) /\ f \in Seq(Seq(Readable))
        BY <1>2
      <4> QED BY ONLY <4>1, FlattenConcat
    <3>2. c \in Seq(Seq(Readable))
      BY <1>2
    <3> QED BY <1>2, <3>1, <3>2
  <2> HIDE DEF c
  <2>2. FlattenSeq(c \o oa) = FlattenSeq(c) \o FlattenSeq(oa)
    <3>1. c \in Seq(Seq(Readable)) /\ oa \in Seq(Seq(Readable))
      BY <1>3, <2>1
    <3> QED BY ONLY <3>1, FlattenConcat
  <2> QED BY <1>3, <2>1, <2>2 DEF c
<1> HIDE DEF T, G
<1>7. \A k \in 0 .. Len(T) : U[k] = FlattenSeq(SubSeq(G, 1, k)) /\ SubSeq(G, 1, k) \in Seq(Seq(Readable))
  BY <1>0, <1>1, <1>5
<1>8. U \in [0 .. Len(T) -> Seq(Readable)]
  <2> SUFFICES ASSUME NEW k \in 0 .. Len(T) PROVE FlattenSeq(SubSeq(G, 1, k)) \in Seq(Readable)
    OBVIOUS
  <2> DEFINE s == SubSeq(G, 1, k)
  <2>1. s \in Seq(Seq(Readable))
    BY <1>7
  <2> HIDE DEF s
  <2>2. FlattenSeq(s) \in Seq(Readable)
    BY <2>1, FlattenType
  <2> QED BY <2>2 DEF s
<1>9. U[0] = <<>>
  <2>1. SubSeq(G, 1, 0) = <<>> /\ 0 \in 0 .. Len(T)
    BY <1>0, <1>1, <1>5, PrefixEnds
  <2> QED BY <1>7, <2>1 DEF FlattenSeq
<1>10. U[Len(T)] = b \o FlattenSeq(f) \o a
  <2>1. SubSeq(G, 1, Len(T)) = G /\ Len(T) \in 0 .. Len(T)
    BY <1>0, <1>1, <1>5, PrefixEnds
  <2> QED BY <1>6, <1>7, <2>1
<1>11. \A i \in 1 .. Len(T) : U[i] = U[i - 1] \o G[i]
  <2> SUFFICES ASSUME NEW i \in 1 .. Len(T) PROVE U[i] = U[i - 1] \o G[i]
    OBVIOUS
  <2> DEFINE k == i - 1
             s == SubSeq(G, 1, k)
  <2>1. k \in Nat /\ k < Len(G) /\ i = k + 1 /\ k \in 0 .. Len(T) /\ i \in 0 .. Len(T)
    BY <1>0, <1>1, <1>5
  <2>2. U[i] = FlattenSeq(SubSeq(G, 1, i)) /\ U[k] = FlattenSeq(s)
    BY <1>7, <2>1
  <2> HIDE DEF k, U
  <2>3. SubSeq(G, 1, k + 1) = Append(s, G[k + 1]) /\ s \in Seq(Seq(Readable)) /\ G[k + 1] \in Seq(Readable)
    BY <1>5, <2>1, PrefixStep
  <2> HIDE DEF s
  <2>4. FlattenSeq(Append(s, G[i])) = FlattenSeq(s) \o G[i]
    BY <2>1, <2>3, FlattenAppend
  <2> QED BY <2>1, <2>2, <2>3, <2>4 DEF k
<1> HIDE DEF U
<1>12. ASSUME NEW i \in 1 .. Len(T), ~Inside(Len(b), Len(b) + Len(p), i)
       PROVE  U[i] = Append(U[i - 1], T[i])
  <2>1. G[i] = <<T[i]>>
    <3>1. CASE i <= Len(b)
      <4>1. i \in 1 .. Len(b)
        BY <1>0, <3>1
      <4> QED BY <1>1, <1>4, <1>5, <4>1
    <3>2. CASE ~(i <= Len(b))
      <4> DEFINE j == i - (Len(b) + Len(p))
      <4>1. j \in 1 .. Len(a) /\ i = Len(b) + Len(p) + j
        BY <1>0, <1>1, <1>12, <3>2 DEF Inside
      <4> HIDE DEF j
      <4> QED BY <1>1, <1>4, <1>5, <4>1
    <3> QED BY <3>1, <3>2
  <2> DEFINE w == U[i - 1]
  <2>2. w \in Seq(Readable) /\ T[i] \in Readable
    <3>1. Len(T) \in Nat /\ i - 1 \in 0 .. Len(T)
      BY <1>0, <1>1
    <3>2. T \in Seq(Readable)
      BY <1>1
    <3>3. T[i] \in Readable
      BY <3>2
    <3>4. U[i - 1] \in Seq(Readable)
      BY <1>8, <3>1
    <3> QED BY <3>3, <3>4
  <2>3. U[i] = w \o <<T[i]>>
    BY <1>11, <2>1
  <2> HIDE DEF w
  <2>4. w \o <<T[i]>> = Append(w, T[i])
    BY <2>2
  <2> QED BY <2>3, <2>4 DEF w
<1>13. ASSUME NEW i \in 1 .. Len(T), NEW j \in 1 .. Len(p), i = Len(b) + j PROVE U[i] = U[i - 1] \o f[j]
  <2>1. G[i] = f[j]
    BY <1>5, <1>13
  <2>2. U[i] = U[i - 1] \o G[i]
    BY <1>11
  <2> QED BY <2>1, <2>2
<1>14. T = b \o p \o a
  BY DEF T
<1>15. Runs(b, p, a, f, T, U)
  BY <1>1, <1>8, <1>9, <1>10, <1>12, <1>13, <1>14 DEF Runs
<1> QED BY <1>15

\* What normalize_line_endings writes for each token.
FollowsCR(p, j) == j > 1 /\ p[j - 1].k = "CR"
LineForms(p, f) ==
    /\ f \in Seq(Seq(Readable)) /\ Len(f) = Len(p)
    /\ \A j \in 1 .. Len(p) :
          /\ p[j].k = "CR" => f[j] = <<LF>>
          /\ p[j].k = "LF" /\ FollowsCR(p, j) => f[j] = <<>>
          /\ p[j].k # "CR" /\ ~(p[j].k = "LF" /\ FollowsCR(p, j)) => f[j] = <<p[j]>>

LEMMA LinesForm ==
    ASSUME NEW p, p \in Seq(Readable)
    PROVE  \E f : LineForms(p, f) /\ normalize_line_endings(p) = FlattenSeq(f)
<1> DEFINE g(i) == CASE p[i].k = "CR" -> <<LF>>
                     [] p[i].k = "LF" /\ i > 1 /\ p[i - 1].k = "CR" -> <<>>
                     [] OTHER -> <<p[i]>>
           f == [i \in DOMAIN p |-> g(i)]
<1>1. normalize_line_endings(p) = FlattenSeq(f)
  BY DEF normalize_line_endings
<1>2. DOMAIN p = 1 .. Len(p) /\ Len(p) \in Nat
  OBVIOUS
<1>3. \A j \in 1 .. Len(p) :
          /\ p[j].k = "CR" => g(j) = <<LF>>
          /\ p[j].k = "LF" /\ FollowsCR(p, j) => g(j) = <<>>
          /\ p[j].k # "CR" /\ ~(p[j].k = "LF" /\ FollowsCR(p, j)) => g(j) = <<p[j]>>
  BY DEF FollowsCR
<1>4. ASSUME NEW j \in 1 .. Len(p) PROVE g(j) \in Seq(Readable)
  <2> HIDE DEF g
  <2>1. p[j] \in Readable /\ LF \in Readable
    BY Tokens
  <2>2. <<p[j]>> \in Seq(Readable) /\ <<LF>> \in Seq(Readable) /\ <<>> \in Seq(Readable)
    BY <2>1
  <2> QED BY <1>3, <2>2
<1> HIDE DEF g
<1>5. f = [i \in 1 .. Len(p) |-> g(i)]
  BY <1>2
<1>6. f \in Seq(Seq(Readable)) /\ Len(f) = Len(p) /\ \A j \in 1 .. Len(p) : f[j] = g(j)
  BY <1>2, <1>4, <1>5
<1> HIDE DEF f
<1>7. LineForms(p, f)
  BY <1>3, <1>6 DEF LineForms
<1> QED BY <1>1, <1>7

\* It is the pass over the part p of a text.
LEMMA LinesPass ==
    ASSUME NEW b, NEW p, NEW a, NEW f, NEW T, NEW U, NEW lo, NEW hi,
           b \in Seq(Readable), p \in Seq(Readable), a \in Seq(Readable),
           LineForms(p, f), Runs(b, p, a, f, T, U), lo = Len(b), hi = Len(b) + Len(p)
    PROVE  LinePass(T, U, lo, hi)
<1>1. /\ lo \in Nat /\ hi \in Nat /\ Len(p) \in Nat /\ Len(a) \in Nat /\ lo <= hi /\ hi <= Len(T)
      /\ hi = lo + Len(p) /\ Len(T) = hi + Len(a)
      /\ T \in Seq(Readable) /\ T = b \o p \o a /\ U \in [0 .. Len(T) -> Seq(Readable)] /\ U[0] = <<>>
  BY DEF Runs
<1>2. \A j \in 1 .. Len(p) : T[lo + j] = p[j]
  <2>1. Three(Readable, b, p, a, T)
    BY <1>1, ThreeFacts
  <2> QED BY <2>1 DEF Three
<1>3. ASSUME NEW i \in 1 .. Len(T)
      PROVE  U[i] = IF Inside(lo, hi, i) /\ T[i].k = "CR" THEN Append(U[i - 1], LF)
                 ELSE IF DropsLF(T, lo, hi, i) THEN U[i - 1] ELSE Append(U[i - 1], T[i])
  <2>1. CASE ~Inside(lo, hi, i)
    <3>1. U[i] = Append(U[i - 1], T[i])
      BY <2>1 DEF Runs
    <3>2. ~DropsLF(T, lo, hi, i)
      BY <2>1 DEF DropsLF
    <3> QED BY <2>1, <3>1, <3>2
  <2>2. CASE Inside(lo, hi, i)
    <3> DEFINE j == i - lo
               w == U[i - 1]
    <3>1. j \in 1 .. Len(p) /\ i = lo + j
      BY <1>1, <2>2 DEF Inside
    <3>2. w \in Seq(Readable)
      <4>1. i - 1 \in 0 .. Len(T)
        BY <1>1
      <4> QED BY <1>1, <4>1
    <3>3. DropsLF(T, lo, hi, i) <=> p[j].k = "LF" /\ FollowsCR(p, j)
      <4>1. T[i] = p[j]
        BY <1>2, <3>1
      <4>2. Inside(lo, hi, i - 1) <=> j > 1
        BY <1>1, <3>1 DEF Inside
      <4>3. j > 1 => T[i - 1] = p[j - 1]
        <5> SUFFICES ASSUME j > 1 PROVE T[i - 1] = p[j - 1]
          OBVIOUS
        <5> DEFINE k == j - 1
        <5>1. k \in 1 .. Len(p) /\ i - 1 = lo + k
          BY <1>1, <3>1
        <5> HIDE DEF k
        <5>2. T[i - 1] = p[k]
          BY <1>2, <5>1
        <5> QED BY <5>2 DEF k
      <4> HIDE DEF j
      <4> QED BY <2>2, <4>1, <4>2, <4>3 DEF DropsLF, FollowsCR
    <3>4. T[i] = p[j]
      BY <1>2, <3>1
    <3> HIDE DEF j
    <3>5. U[i] = w \o f[j]
      BY <3>1 DEF Runs
    <3>6. /\ p[j].k = "CR" => f[j] = <<LF>>
          /\ p[j].k = "LF" /\ FollowsCR(p, j) => f[j] = <<>>
          /\ p[j].k # "CR" /\ ~(p[j].k = "LF" /\ FollowsCR(p, j)) => f[j] = <<p[j]>>
      BY <3>1 DEF LineForms
    <3> HIDE DEF w
    <3>7. w \o <<LF>> = Append(w, LF) /\ w \o <<>> = w /\ w \o <<p[j]>> = Append(w, p[j])
      BY <3>2
    <3>8. U[i] = IF p[j].k = "CR" THEN Append(w, LF)
                 ELSE IF DropsLF(T, lo, hi, i) THEN w ELSE Append(w, p[j])
      BY <3>3, <3>5, <3>6, <3>7
    <3> QED BY <2>2, <3>4, <3>8 DEF w
  <2> QED BY <2>1, <2>2
<1> QED BY <1>1, <1>3 DEF LinePass

\* Line endings normalized in a part p of a text.
KeptIn(b, p, a, q) ==
    /\ q \in Seq(Readable) /\ Meaning(b \o q \o a) = Meaning(b \o p \o a) /\ Tidy(b \o q \o a)

LEMMA LinesKeptIn ==
    ASSUME NEW b, NEW p, NEW a, b \in Seq(Readable), p \in Seq(Readable), a \in Seq(Readable),
           Tidy(b \o p \o a), LineBorder(b \o p \o a, Len(b), Len(b) + Len(p))
    PROVE  /\ KeptIn(b, p, a, normalize_line_endings(p))
           /\ Steady(b \o p \o a) => Steady(b \o normalize_line_endings(p) \o a)
<1> DEFINE q == normalize_line_endings(p)
           lo == Len(b)
           hi == Len(b) + Len(p)
<1>1. PICK f : LineForms(p, f) /\ q = FlattenSeq(f)
  BY LinesForm
<1> HIDE DEF q
<1>2. f \in Seq(Seq(Readable)) /\ Len(f) = Len(p)
  BY <1>1 DEF LineForms
<1>3. PICK T, U : Runs(b, p, a, f, T, U)
  BY <1>2, Running
<1>4. T = b \o p \o a /\ Len(T) \in Nat /\ T \in Seq(Readable) /\ U[Len(T)] = b \o q \o a
  BY <1>1, <1>3 DEF Runs
<1>5. LineBorder(T, lo, hi) /\ Tidy(T)
  BY <1>4
<1>6. LinePass(T, U, lo, hi)
  BY <1>1, <1>3, LinesPass
<1>7. q \in Seq(Readable)
  BY <1>1, <1>2, FlattenType
<1> HIDE DEF lo, hi
<1>8. SoFar(T, U, Len(T)) /\ (Steady(T) => Steady(U[Len(T)]))
  <2> DEFINE m == Len(T)
  <2>1. m \in 0 .. Len(T)
    BY <1>4
  <2> HIDE DEF m
  <2>2. SoFar(T, U, m)
    BY <1>5, <1>6, <2>1, LinesKept
  <2>3. Steady(T) => Steady(U[m])
    BY <1>6, <2>1, LinesSteady
  <2> QED BY <2>2, <2>3 DEF m
<1>9. Upto(T, Len(T)) = T
  BY <1>4, PrefixEnds DEF Upto
<1>10. Meaning(U[Len(T)]) = Meaning(T) /\ Tidy(U[Len(T)])
  BY <1>8, <1>9 DEF SoFar
<1>11. KeptIn(b, p, a, q) /\ (Steady(b \o p \o a) => Steady(b \o q \o a))
  BY <1>4, <1>7, <1>8, <1>10 DEF KeptIn
<1> QED BY <1>11 DEF q

\* What normalize_empty_elements writes for each token.
EmptyForms(p, f, E) ==
    /\ f \in Seq(Seq(Readable)) /\ Len(f) = Len(p) /\ E \subseteq 1 .. Len(p)
    /\ \A j \in E : /\ j + 1 \in 1 .. Len(p) /\ p[j].k = "open" /\ p[j + 1].k = "close" /\ p[j].n = p[j + 1].n
    /\ \A j \in 1 .. Len(p) :
          /\ j \in E => f[j] = <<Joined(p[j])>>
          /\ j \notin E /\ j - 1 \in E => f[j] = <<>>
          /\ j \notin E /\ j - 1 \notin E => f[j] = <<p[j]>>

LEMMA EmptiesForm ==
    ASSUME NEW b, NEW p, NEW a, b \in Seq(Readable), p \in Seq(Readable), a \in Seq(Readable), Tidy(b \o p \o a)
    PROVE  \E f, E : EmptyForms(p, f, E) /\ normalize_empty_elements(p) = FlattenSeq(f)
<1> DEFINE g(i) == CASE LooksEmpty(p, i) -> <<IF p[i].k = "open" THEN Tok("empty", p[i].n, p[i].form) ELSE Broken>>
                     [] LooksEmpty(p, i - 1) -> <<>>
                     [] OTHER -> <<p[i]>>
           f == [i \in DOMAIN p |-> g(i)]
           E == {j \in 1 .. Len(p) : LooksEmpty(p, j)}
<1>1. DOMAIN p = 1 .. Len(p) /\ Len(p) \in Nat /\ \A j \in 1 .. Len(p) : p[j] \in Readable
  OBVIOUS
<1>2. Utf8(p)
  BY <1>1 DEF Utf8, Readable
<1>3. normalize_empty_elements(p) = FlattenSeq(f)
  BY <1>2 DEF normalize_empty_elements
<1>4. ASSUME NEW i, LooksEmpty(p, i)
      PROVE  /\ i \in 1 .. Len(p) /\ i + 1 \in 1 .. Len(p)
             /\ p[i].k = "open" /\ p[i + 1].k = "close" /\ p[i].n = p[i + 1].n
  BY <1>4, FindsEmpty
<1>5. \A i : LooksEmpty(p, i) <=> i \in E
  <2> HIDE DEF E
  <2> SUFFICES ASSUME NEW i PROVE LooksEmpty(p, i) <=> i \in E
    OBVIOUS
  <2> QED BY <1>4 DEF E
<1>6. \A j \in 1 .. Len(p) :
          /\ j \in E => g(j) = <<Joined(p[j])>>
          /\ j \notin E /\ j - 1 \in E => g(j) = <<>>
          /\ j \notin E /\ j - 1 \notin E => g(j) = <<p[j]>>
  <2> SUFFICES ASSUME NEW j \in 1 .. Len(p)
               PROVE  /\ j \in E => g(j) = <<Joined(p[j])>>
                      /\ j \notin E /\ j - 1 \in E => g(j) = <<>>
                      /\ j \notin E /\ j - 1 \notin E => g(j) = <<p[j]>>
    OBVIOUS
  <2> HIDE DEF E
  <2>1. CASE LooksEmpty(p, j)
    BY <1>4, <1>5, <2>1 DEF Joined
  <2>2. CASE ~LooksEmpty(p, j)
    BY <1>5, <2>2
  <2> QED BY <2>1, <2>2
<1>7. ASSUME NEW j \in 1 .. Len(p) PROVE g(j) \in Seq(Readable)
  <2> HIDE DEF g, E
  <2>1. p[j] \in Readable
    BY <1>1
  <2>2. Joined(p[j]) \in Readable
    <3>1. p[j].n \in TagNames /\ p[j].form \in Forms
      BY <2>1, Tokens
    <3> QED BY <3>1, EmptyTags DEF Joined
  <2>3. <<p[j]>> \in Seq(Readable) /\ <<Joined(p[j])>> \in Seq(Readable) /\ <<>> \in Seq(Readable)
    BY <2>1, <2>2
  <2> QED BY <1>6, <2>3
<1>8. \A j \in E : /\ j + 1 \in 1 .. Len(p) /\ p[j].k = "open" /\ p[j + 1].k = "close" /\ p[j].n = p[j + 1].n
  <2> HIDE DEF g, E
  <2> QED BY <1>4, <1>5
<1> HIDE DEF g
<1>9. f = [i \in 1 .. Len(p) |-> g(i)]
  BY <1>1
<1>10. f \in Seq(Seq(Readable)) /\ Len(f) = Len(p) /\ \A j \in 1 .. Len(p) : f[j] = g(j)
  BY <1>1, <1>7, <1>9
<1>11. E \subseteq 1 .. Len(p)
  OBVIOUS
<1> HIDE DEF f, E
<1>12. EmptyForms(p, f, E)
  BY <1>6, <1>8, <1>10, <1>11 DEF EmptyForms
<1> QED BY <1>3, <1>12

\* It is the pass over the part p of a text.
LEMMA EmptiesPass ==
    ASSUME NEW b, NEW p, NEW a, NEW f, NEW E, NEW T, NEW U, NEW D,
           b \in Seq(Readable), p \in Seq(Readable), a \in Seq(Readable),
           EmptyForms(p, f, E), Runs(b, p, a, f, T, U), D = {Len(b) + j : j \in E}
    PROVE  EmptyPass(T, U, D)
<1> DEFINE lo == Len(b)
           hi == lo + Len(p)
<1>1. /\ lo \in Nat /\ hi \in Nat /\ Len(p) \in Nat /\ Len(a) \in Nat /\ lo <= hi /\ hi <= Len(T)
      /\ hi = lo + Len(p) /\ Len(T) = hi + Len(a)
      /\ T \in Seq(Readable) /\ T = b \o p \o a /\ U \in [0 .. Len(T) -> Seq(Readable)] /\ U[0] = <<>>
  BY DEF Runs
<1>2. \A j \in 1 .. Len(p) : T[lo + j] = p[j]
  <2>1. Three(Readable, b, p, a, T)
    BY <1>1, ThreeFacts
  <2> QED BY <2>1 DEF Three
<1>3. E \subseteq 1 .. Len(p)
  BY DEF EmptyForms
<1>4. \A i : i \in D <=> \E j \in E : i = lo + j
  OBVIOUS
<1>5. ASSUME NEW i \in D
      PROVE  /\ i \in 1 .. Len(T) /\ i + 1 \in 1 .. Len(T)
             /\ T[i].k = "open" /\ T[i + 1].k = "close" /\ T[i].n = T[i + 1].n
  <2>1. PICK j \in E : i = lo + j
    BY <1>4
  <2>2. j \in 1 .. Len(p) /\ j + 1 \in 1 .. Len(p) /\ p[j].k = "open" /\ p[j + 1].k = "close" /\ p[j].n = p[j + 1].n
    BY DEF EmptyForms
  <2> DEFINE k == j + 1
  <2>3. i + 1 = lo + k /\ k \in 1 .. Len(p) /\ p[k].k = "close" /\ p[j].n = p[k].n
    BY <1>1, <2>1, <2>2
  <2> HIDE DEF k, lo
  <2>4. T[i] = p[j] /\ T[i + 1] = p[k]
    BY <1>2, <2>1, <2>2, <2>3
  <2>5. i \in 1 .. Len(T) /\ i + 1 \in 1 .. Len(T)
    BY <1>1, <2>1, <2>2, <2>3
  <2> QED BY <2>2, <2>3, <2>4, <2>5
<1>6. ASSUME NEW i \in 1 .. Len(T)
      PROVE  U[i] = IF i \in D THEN Append(U[i - 1], Joined(T[i]))
                 ELSE IF i - 1 \in D THEN U[i - 1] ELSE Append(U[i - 1], T[i])
  <2>1. CASE ~Inside(lo, hi, i)
    <3>1. U[i] = Append(U[i - 1], T[i])
      BY <2>1 DEF Runs
    <3>2. i \notin D
      <4> SUFFICES ASSUME i \in D PROVE FALSE
        OBVIOUS
      <4>1. PICK j \in E : i = lo + j
        BY <1>4
      <4> QED BY <1>1, <1>3, <2>1, <4>1 DEF Inside
    <3>3. i - 1 \notin D
      <4> SUFFICES ASSUME i - 1 \in D PROVE FALSE
        OBVIOUS
      <4>1. PICK j \in E : i - 1 = lo + j
        BY <1>4
      <4>2. j + 1 \in 1 .. Len(p)
        BY DEF EmptyForms
      <4> QED BY <1>1, <1>3, <2>1, <4>1, <4>2 DEF Inside
    <3> QED BY <3>1, <3>2, <3>3
  <2>2. CASE Inside(lo, hi, i)
    <3> DEFINE j == i - lo
               h == j - 1
               w == U[i - 1]
    <3>1. j \in 1 .. Len(p) /\ i = lo + j /\ h \in Nat /\ i - 1 = lo + h
      BY <1>1, <2>2 DEF Inside
    <3>2. w \in Seq(Readable)
      <4>1. i - 1 \in 0 .. Len(T)
        BY <1>1
      <4> QED BY <1>1, <4>1
    <3>3. (i \in D <=> j \in E) /\ (i - 1 \in D <=> h \in E)
      <4> HIDE DEF j, h
      <4>1. \A m \in E : m \in Nat /\ (lo + m = lo + j <=> m = j) /\ (lo + m = lo + h <=> m = h)
        <5>1. lo \in Nat /\ j \in Nat /\ h \in Nat
          BY <1>1, <3>1
        <5>2. \A m \in E : m \in Nat
          BY <1>1, <1>3
        <5> HIDE DEF lo
        <5> SUFFICES ASSUME NEW m \in E
                     PROVE  m \in Nat /\ (lo + m = lo + j <=> m = j) /\ (lo + m = lo + h <=> m = h)
          OBVIOUS
        <5>3. m \in Nat
          BY <5>2
        <5>4. lo + m = lo + j <=> m = j
          BY ONLY <5>1, <5>3, SMT
        <5>5. lo + m = lo + h <=> m = h
          BY ONLY <5>1, <5>3, SMT
        <5> QED BY <5>3, <5>4, <5>5
      <4> QED BY <1>4, <3>1, <4>1
    <3>4. T[i] = p[j]
      BY <1>2, <3>1
    <3>5. /\ j \in E => f[j] = <<Joined(p[j])>>
          /\ j \notin E /\ h \in E => f[j] = <<>>
          /\ j \notin E /\ h \notin E => f[j] = <<p[j]>>
      BY <3>1 DEF EmptyForms
    <3> HIDE DEF j, h
    <3>6. U[i] = w \o f[j]
      BY <3>1 DEF Runs
    <3> HIDE DEF w
    <3>7. Joined(p[j]) \in Readable /\ p[j] \in Readable
      <4>1. p[j] \in Readable
        BY <3>1
      <4>2. p[j].n \in TagNames /\ p[j].form \in Forms
        BY <4>1, Tokens
      <4> QED BY <4>1, <4>2, EmptyTags DEF Joined
    <3>8. w \o <<Joined(p[j])>> = Append(w, Joined(p[j])) /\ w \o <<>> = w /\ w \o <<p[j]>> = Append(w, p[j])
      BY <3>2, <3>7
    <3>9. U[i] = IF i \in D THEN Append(w, Joined(p[j]))
                 ELSE IF i - 1 \in D THEN w ELSE Append(w, p[j])
      BY <3>3, <3>5, <3>6, <3>8
    <3> QED BY <3>4, <3>9 DEF w
  <2> QED BY <2>1, <2>2
<1> QED BY <1>1, <1>5, <1>6 DEF EmptyPass

\* Tags of empty elements joined in a part of a text.
LEMMA EmptiesKeptIn ==
    ASSUME NEW b, NEW p, NEW a, b \in Seq(Readable), p \in Seq(Readable), a \in Seq(Readable),
           Tidy(b \o p \o a)
    PROVE  LET q == normalize_empty_elements(p)
           IN  /\ q \in Seq(Readable) /\ Meaning(b \o q \o a) = Meaning(b \o p \o a)
               /\ Clear(b \o q \o a)
               /\ Steady(b \o p \o a) => Tidy(b \o q \o a)
<1> DEFINE q == normalize_empty_elements(p)
<1>1. PICK f, E : EmptyForms(p, f, E) /\ q = FlattenSeq(f)
  BY EmptiesForm
<1> HIDE DEF q
<1>2. f \in Seq(Seq(Readable)) /\ Len(f) = Len(p) /\ E \subseteq 1 .. Len(p)
  BY <1>1 DEF EmptyForms
<1>3. PICK T, U : Runs(b, p, a, f, T, U)
  BY <1>2, Running
<1> DEFINE D == {Len(b) + j : j \in E}
           m == Len(T)
<1>4. T = b \o p \o a /\ m \in 0 .. Len(T) /\ T \in Seq(Readable) /\ U[m] = b \o q \o a /\ Len(T) \in Nat
      /\ Len(T) = Len(b) + Len(p) + Len(a)
  BY <1>1, <1>3 DEF Runs
<1>5. Tidy(T)
  BY <1>4
<1>6. m \notin D
  <2> SUFFICES ASSUME NEW j \in E, m = Len(b) + j PROVE FALSE
    OBVIOUS
  <2>1. j + 1 \in 1 .. Len(p) /\ j \in Nat
    BY <1>1, <1>2 DEF EmptyForms
  <2>2. Len(b) \in Nat /\ Len(a) \in Nat /\ Len(p) \in Nat
    OBVIOUS
  <2> QED BY <1>4, <2>1, <2>2
<1>7. EmptyPass(T, U, D)
  <2>1. D = {Len(b) + j : j \in E}
    OBVIOUS
  <2> HIDE DEF D
  <2> QED BY <1>1, <1>3, <2>1, EmptiesPass
<1>8. q \in Seq(Readable)
  BY <1>1, <1>2, FlattenType
<1>9. Upto(T, m) = T
  BY <1>4, PrefixEnds DEF Upto
<1> HIDE DEF D, m
<1>10. EmptySoFar(T, U, D, m) /\ (Steady(T) => Tidy(U[m]))
  <2>1. EmptySoFar(T, U, D, m)
    BY <1>4, <1>5, <1>7, EmptiesKept
  <2>2. Steady(T) => Tidy(U[m])
    BY <1>4, <1>5, <1>7, EmptiesTidy
  <2> QED BY <2>1, <2>2
<1>12. Clear(U[m])
  BY <1>4, <1>5, <1>7, EmptiesClear
<1>11. Meaning(U[m]) = Meaning(T)
  BY <1>6, <1>9, <1>10 DEF EmptySoFar
<1> QED BY <1>4, <1>8, <1>10, <1>11, <1>12 DEF q

\* The token y is x, or x without the space at the end of an empty-element tag.
Shrunk(x, y) ==
    \/ y = x
    \/ /\ x.k = "empty" /\ y.k = "empty" /\ y.n = x.n /\ Attributes(y.form) = Attributes(x.form)
       /\ y.form # "plain" => x.form # "plain"

\* A text with such tokens, one for one.
ShrunkText(t, v) == t \in Seq(Readable) /\ v \in Seq(Readable) /\ Len(v) = Len(t) /\ \A i \in 1 .. Len(t) : Shrunk(t[i], v[i])

\* The texts before a token.
LEMMA ShrunkBefore ==
    ASSUME NEW t, NEW v, NEW i, ShrunkText(t, v), i \in 1 .. Len(t)
    PROVE  ShrunkText(Before(t, i), Before(v, i))
<1>1. t \in Seq(Readable) /\ v \in Seq(Readable) /\ Len(v) = Len(t) /\ Len(t) \in Nat /\ i - 1 \in Nat /\ i - 1 <= Len(t)
  BY DEF ShrunkText
<1> DEFINE p == Before(t, i)
           q == Before(v, i)
<1>2. p \in Seq(Readable) /\ Len(p) = i - 1 /\ \A j \in 1 .. i - 1 : p[j] = t[j]
  BY <1>1 DEF Before
<1>3. q \in Seq(Readable) /\ Len(q) = i - 1 /\ \A j \in 1 .. i - 1 : q[j] = v[j]
  BY <1>1 DEF Before
<1> HIDE DEF p, q
<1>4. \A j \in 1 .. i - 1 : Shrunk(t[j], v[j])
  BY <1>1 DEF ShrunkText
<1>5. \A j \in 1 .. Len(p) : Shrunk(p[j], q[j])
  BY <1>2, <1>3, <1>4
<1>6. ShrunkText(p, q)
  BY <1>2, <1>3, <1>5 DEF ShrunkText
<1> QED BY <1>6 DEF p, q

\* They have the same sections and end alike.
LEMMA ShrunkWithin ==
    ASSUME NEW t, NEW v, ShrunkText(t, v)
    PROVE  /\ Within(t) <=> Within(v)
           /\ Ends(t, "CR") <=> Ends(v, "CR")
           /\ t = <<>> <=> v = <<>>
           /\ t # <<>> => Shrunk(t[Len(t)], v[Len(v)])
<1>1. /\ t \in Seq(Readable) /\ v \in Seq(Readable) /\ Len(v) = Len(t) /\ Len(t) \in Nat
      /\ DOMAIN t = 1 .. Len(t) /\ DOMAIN v = 1 .. Len(t)
  BY DEF ShrunkText
<1>2. \A i \in 1 .. Len(t) : Shrunk(t[i], v[i]) /\ t[i].k = v[i].k
  BY DEF ShrunkText, Shrunk
<1>3. \A j \in 1 .. Len(t) : \A x \in j .. Len(t) : x \in 1 .. Len(t)
  BY <1>1
<1>4. Within(t) <=> Within(v)
  <2>1. ASSUME NEW j \in 1 .. Len(t)
        PROVE  (\A x \in j .. Len(t) : t[x].k \notin SectionEnd) <=> (\A x \in j .. Len(t) : v[x].k \notin SectionEnd)
    BY <1>2, <1>3
  <2> QED BY <1>1, <1>2, <2>1 DEF Within
<1>5. t = <<>> <=> v = <<>>
  BY <1>1
<1>6. t # <<>> => Len(t) \in 1 .. Len(t)
  BY <1>1
<1>7. t # <<>> => Shrunk(t[Len(t)], v[Len(v)]) /\ t[Len(t)].k = v[Len(v)].k
  BY <1>1, <1>2, <1>6
<1>8. Ends(t, "CR") <=> Ends(v, "CR")
  BY <1>5, <1>7 DEF Ends
<1> QED BY <1>4, <1>5, <1>7, <1>8

\* Such a token says the same outside sections.
LEMMA ShrunkEvents ==
    ASSUME NEW t, NEW x, NEW y, Shrunk(x, y), Within(t) => x.k # "empty"
    PROVE  Events(t, y) = Events(t, x)
<1>1. CASE y = x
  BY <1>1
<1>2. CASE y # x
  <2>1. x.k = "empty" /\ y.k = "empty" /\ y.n = x.n /\ Attributes(y.form) = Attributes(x.form)
    BY <1>2 DEF Shrunk
  <2>2. ~Within(t)
    BY <2>1
  <2>3. StartOf(x) = StartOf(y) /\ EndOf(x) = EndOf(y)
    BY <2>1 DEF StartOf, EndOf
  <2>4. Events(t, x) = <<StartOf(x), EndOf(x)>> /\ Events(t, y) = <<StartOf(y), EndOf(y)>>
    BY <2>1, <2>2 DEF Events
  <2> QED BY <2>3, <2>4
<1> QED BY <1>1, <1>2

\* Such a token fits where the other does.
LEMMA ShrunkFits ==
    ASSUME NEW t, NEW v, NEW x, NEW y, ShrunkText(t, v), Shrunk(x, y), Fits(t, x)
    PROVE  Fits(v, y)
<1>1. /\ Within(t) <=> Within(v)
      /\ t = <<>> <=> v = <<>>
      /\ t # <<>> => Shrunk(t[Len(t)], v[Len(v)])
  BY ShrunkWithin
<1>2. y.k = x.k /\ y.n = x.n
  BY DEF Shrunk
<1>3. t # <<>> => t[Len(t)].k = v[Len(v)].k /\ \A n : Loose(v[Len(v)], "empty", n) => Loose(t[Len(t)], "empty", n)
  BY <1>1 DEF Shrunk, Loose
<1>4. Loose(y, "slash", y.n) => Loose(x, "slash", x.n)
  BY DEF Shrunk, Loose
<1> QED BY <1>1, <1>2, <1>3, <1>4 DEF Fits

\* Such a text means the same.
LEMMA ShrunkMeans ==
    ASSUME NEW t, NEW v, ShrunkText(t, v), Clear(t)
    PROVE  Meaning(v) = Meaning(t)
<1>1. /\ t \in Seq(Readable) /\ v \in Seq(Readable) /\ Len(v) = Len(t) /\ Len(t) \in Nat
      /\ DOMAIN t = 1 .. Len(t) /\ DOMAIN v = 1 .. Len(t)
  BY DEF ShrunkText
<1>2. ASSUME NEW i \in 1 .. Len(t)
      PROVE  Events(Before(v, i), v[i]) = Events(Before(t, i), t[i])
  <2> DEFINE p == Before(t, i)
             q == Before(v, i)
             x == t[i]
             y == v[i]
  <2>1. ShrunkText(p, q) /\ Shrunk(x, y) /\ (Within(p) => x.k # "empty")
    <3>1. Within(p) => x.k # "empty"
      BY <1>1 DEF Clear, Quiet
    <3>2. ShrunkText(p, q)
      BY ShrunkBefore
    <3> QED BY <3>1, <3>2 DEF ShrunkText
  <2> HIDE DEF p, q, x, y
  <2>2. Events(p, y) = Events(p, x)
    BY <2>1, ShrunkEvents
  <2>3. (Within(p) <=> Within(q)) /\ (Ends(p, "CR") <=> Ends(q, "CR"))
    BY <2>1, ShrunkWithin
  <2>4. Events(q, y) = Events(p, y)
    BY <2>3, EventsSame
  <2>5. Events(q, y) = Events(p, x)
    BY <2>2, <2>4
  <2> QED BY <2>5 DEF p, q, x, y
<1>3. Said(v) = Said(t)
  BY <1>1, <1>2 DEF Said
<1>4. Meaning(v) = FlattenSeq(Said(v)) /\ Meaning(t) = FlattenSeq(Said(t))
  BY DEF Meaning, Said
<1> QED BY <1>3, <1>4

\* It stays tidy.
LEMMA ShrunkTidy ==
    ASSUME NEW t, NEW v, ShrunkText(t, v), Tidy(t)
    PROVE  Tidy(v)
<1>1. /\ t \in Seq(Readable) /\ v \in Seq(Readable) /\ Len(v) = Len(t) /\ Len(t) \in Nat
      /\ DOMAIN t = 1 .. Len(t) /\ DOMAIN v = 1 .. Len(t)
  BY DEF ShrunkText
<1>2. ASSUME NEW i \in 1 .. Len(t)
      PROVE  Fits(Before(v, i), v[i])
  <2> DEFINE p == Before(t, i)
             q == Before(v, i)
             x == t[i]
             y == v[i]
  <2>1. ShrunkText(p, q) /\ Shrunk(x, y) /\ Fits(p, x)
    <3>1. Fits(p, x)
      BY <1>1 DEF Tidy
    <3>2. ShrunkText(p, q)
      BY ShrunkBefore
    <3> QED BY <3>1, <3>2 DEF ShrunkText
  <2> HIDE DEF p, q, x, y
  <2>2. Fits(q, y)
    BY <2>1, ShrunkFits
  <2> QED BY <2>2 DEF p, q, x, y
<1> QED BY <1>1, <1>2 DEF Tidy

\* The last bracket begins a tag only in a section.
LEMMA TagsInSections ==
    ASSUME NEW t, NEW i, t \in Seq(Readable), Clear(t), i \in 1 .. Len(t), InTag(t, i)
    PROVE  Within(Before(t, i))
<1>1. PICK j \in 1 .. i - 1 : t[j].k \in StartsTag \ EndsTag /\ \A x \in j .. i - 1 : t[x].k \notin EndsTag
  BY DEF InTag
<1> DEFINE r == Before(t, i)
<1>2. /\ Len(t) \in Nat /\ i \in Nat /\ j \in Nat /\ j \in 1 .. Len(t) /\ DOMAIN t = 1 .. Len(t)
      /\ r \in Seq(Readable) /\ Len(r) = i - 1 /\ DOMAIN r = 1 .. i - 1 /\ \A x \in 1 .. i - 1 : r[x] = t[x]
  BY DEF Before
<1> HIDE DEF r
<1>3. \A x \in j .. i - 1 : t[x].k \notin SectionEnd
  BY <1>1 DEF EndsTag
<1>4. CASE t[j].k \in SectionStart
  <2>1. j \in DOMAIN r /\ r[j].k \in SectionStart
    BY <1>2, <1>4
  <2>2. \A x \in j .. Len(r) : x \in 1 .. i - 1 /\ x \in j .. i - 1
    BY <1>2
  <2>3. \A x \in j .. Len(r) : r[x].k \notin SectionEnd
    BY <1>2, <1>3, <2>2
  <2>4. Within(r)
    BY <2>1, <2>3 DEF Within
  <2> QED BY <2>4 DEF r
<1>5. CASE t[j].k = "lt"
  <2> DEFINE s == Before(t, j)
  <2>1. s \in Seq(Readable) /\ Len(s) = j - 1 /\ DOMAIN s = 1 .. j - 1 /\ \A x \in 1 .. j - 1 : s[x] = t[x]
    BY <1>2 DEF Before
  <2>2. Within(s)
    BY <1>2, <1>5 DEF Clear, Quiet
  <2> HIDE DEF s
  <2>3. PICK c \in 1 .. j - 1 : s[c].k \in SectionStart /\ \A x \in c .. j - 1 : s[x].k \notin SectionEnd
    BY <2>1, <2>2 DEF Within
  <2>4. c \in 1 .. i - 1
    BY <1>2
  <2>5. ASSUME NEW x \in c .. i - 1 PROVE r[x].k \notin SectionEnd
    <3>1. x \in 1 .. i - 1 /\ (x \in j .. i - 1 \/ (x \in c .. j - 1 /\ x \in 1 .. j - 1))
      BY <1>2
    <3>2. r[x] = t[x]
      BY <1>2, <3>1
    <3> QED BY <1>3, <2>1, <2>3, <3>1, <3>2
  <2>6. r[c].k \in SectionStart
    BY <1>2, <2>1, <2>3, <2>4
  <2>7. Within(r)
    BY <1>2, <2>4, <2>5, <2>6 DEF Within
  <2> QED BY <2>7 DEF r
<1> QED BY <1>1, <1>4, <1>5 DEF StartsTag, EndsTag

\* So the search for " />" changes empty-element tags and nothing else.
LEMMA OnlyEmptyTags ==
    ASSUME NEW b, NEW p, NEW a, b \in Seq(Readable), p \in Seq(Readable), a \in Seq(Readable),
           Clear(b \o p \o a)
    PROVE  normalize_self_closing_space(p) = [i \in 1 .. Len(p) |-> IF p[i].k = "empty" THEN Closer(p[i]) ELSE p[i]]
<1> DEFINE t == b \o p \o a
           lo == Len(b)
<1>1. /\ lo \in Nat /\ Len(p) \in Nat /\ Len(a) \in Nat /\ t \in Seq(Readable) /\ DOMAIN p = 1 .. Len(p)
      /\ Len(t) = lo + Len(p) + Len(a) /\ \A j \in 1 .. Len(p) : t[lo + j] = p[j]
  OBVIOUS
<1>2. Clear(t)
  OBVIOUS
<1>3. Utf8(p)
  BY <1>1 DEF Utf8, Readable
<1> HIDE DEF t, lo
<1>4. ASSUME NEW i \in 1 .. Len(p), InTag(p, i)
      PROVE  /\ p[i].k # "quote"
             /\ p[i].k = "slash" => p[i].form = "plain"
  <2>1. PICK j \in 1 .. i - 1 : p[j].k \in StartsTag \ EndsTag /\ \A x \in j .. i - 1 : p[x].k \notin EndsTag
    BY <1>4 DEF InTag
  <2> DEFINE g == lo + i
             h == lo + j
  <2>2. g \in 1 .. Len(t) /\ g \in DOMAIN t /\ t[g] = p[i] /\ h \in 1 .. g - 1 /\ t[h] = p[j]
    BY <1>1
  <2>3. ASSUME NEW x \in h .. g - 1 PROVE t[x].k \notin EndsTag
    <3> DEFINE y == x - lo
    <3>1. y \in j .. i - 1 /\ y \in 1 .. Len(p) /\ x = lo + y
      BY <1>1
    <3> HIDE DEF y
    <3> QED BY <1>1, <2>1, <3>1
  <2> HIDE DEF g, h
  <2>4. InTag(t, g)
    BY <2>1, <2>2, <2>3 DEF InTag
  <2>5. Within(Before(t, g))
    BY <1>1, <1>2, <2>2, <2>4, TagsInSections
  <2>6. Quiet(Before(t, g), t[g])
    BY <1>2, <2>2 DEF Clear
  <2> QED BY <2>2, <2>5, <2>6 DEF Quiet, Loose
<1>5. ASSUME NEW i \in 1 .. Len(p) PROVE StateBefore(p, i) # "value" /\ (StateBefore(p, i) = "tag" => InTag(p, i))
  <2>1. ~Misled(p, i)
    <3> SUFFICES ASSUME NEW q \in 1 .. i - 1, p[q].k = "quote", InTag(p, q) PROVE FALSE
      BY DEF Misled
    <3>1. q \in 1 .. Len(p)
      BY <1>1
    <3> QED BY <1>4, <3>1
  <2> QED BY <2>1 DEF StateBefore
<1>6. ASSUME NEW i \in 1 .. Len(p), p[i].k = "slash", InTag(p, i) PROVE Closer(p[i]) = p[i]
  <2> DEFINE x == p[i]
  <2>1. x \in [k : Kinds, n : TagNames, form : Forms]
    BY <1>1 DEF Readable, Token
  <2>2. x.form = "plain"
    BY <1>4, <1>6
  <2> HIDE DEF x
  <2>3. Closer(x) = x
    BY <2>1, <2>2 DEF Closer
  <2> QED BY <2>3 DEF x
<1> DEFINE e(i) == IF \/ p[i].k = "empty" /\ StateBefore(p, i) # "value"
                      \/ p[i].k = "slash" /\ StateBefore(p, i) = "tag"
                   THEN Closer(p[i]) ELSE p[i]
           g(i) == IF p[i].k = "empty" THEN Closer(p[i]) ELSE p[i]
<1>7. normalize_self_closing_space(p) = [i \in 1 .. Len(p) |-> e(i)]
  BY <1>1, <1>3 DEF normalize_self_closing_space
<1>8. ASSUME NEW i \in 1 .. Len(p) PROVE e(i) = g(i)
  BY <1>5, <1>6
<1> HIDE DEF e, g
<1>9. [i \in 1 .. Len(p) |-> e(i)] = [i \in 1 .. Len(p) |-> g(i)]
  BY <1>8
<1> QED BY <1>7, <1>9 DEF g

\* normalize_self_closing_space in a part of a text.
LEMMA SpacesKeptIn ==
    ASSUME NEW b, NEW p, NEW a, b \in Seq(Readable), p \in Seq(Readable), a \in Seq(Readable),
           Clear(b \o p \o a)
    PROVE  LET q == normalize_self_closing_space(p)
           IN  /\ q \in Seq(Readable) /\ Meaning(b \o q \o a) = Meaning(b \o p \o a)
               /\ Tidy(b \o p \o a) => Tidy(b \o q \o a)
<1> DEFINE q == normalize_self_closing_space(p)
           t == b \o p \o a
           v == b \o q \o a
           g(i) == IF p[i].k = "empty" THEN Closer(p[i]) ELSE p[i]
<1>1. DOMAIN p = 1 .. Len(p) /\ Len(p) \in Nat /\ \A j \in 1 .. Len(p) : p[j] \in Readable
  OBVIOUS
<1>3. q = [i \in 1 .. Len(p) |-> g(i)]
  BY OnlyEmptyTags
<1>4. ASSUME NEW j \in 1 .. Len(p) PROVE g(j) \in Readable /\ Shrunk(p[j], g(j))
  <2> DEFINE x == p[j]
             f == IF x.form = "space" THEN "plain" ELSE IF x.form = "attrspace" THEN "attr" ELSE x.form
  <2>0. x \in Readable
    BY <1>1
  <2>1. CASE x.k # "empty"
    BY <2>0, <2>1 DEF Shrunk
  <2>2. CASE x.k = "empty"
    <3>1. x \in [k : Kinds, n : TagNames, form : Forms]
      BY <2>0 DEF Readable, Token
    <3>2. g(j) = [x EXCEPT !.form = f]
      BY <2>2 DEF Closer
    <3>3. f \in Forms /\ Attributes(f) = Attributes(x.form) /\ (f # "plain" => x.form # "plain")
      BY <3>1 DEF Forms, Attributes
    <3> HIDE DEF g, x, f
    <3>4. g(j).k = "empty" /\ g(j).n = x.n /\ g(j).form = f
      BY <2>2, <3>1, <3>2
    <3>5. g(j) = Tok("empty", x.n, f)
      BY <2>2, <3>1, <3>2 DEF Tok
    <3>6. g(j) \in Readable
      BY <3>1, <3>3, <3>5, EmptyTags
    <3>7. Shrunk(x, g(j))
      BY <2>2, <3>3, <3>4 DEF Shrunk
    <3> QED BY <3>6, <3>7 DEF x
  <2> QED BY <2>1, <2>2
<1> HIDE DEF g, q
<1>5. q \in Seq(Readable) /\ Len(q) = Len(p) /\ \A j \in 1 .. Len(p) : Shrunk(p[j], q[j])
  <2>1. \A j \in 1 .. Len(p) : q[j] = g(j)
    BY <1>3
  <2>2. q \in Seq(Readable) /\ Len(q) = Len(p)
    BY <1>1, <1>3, <1>4
  <2> QED BY <1>4, <2>1, <2>2
<1>6. ShrunkText(t, v)
  <2>1. Len(b) \in Nat /\ Len(a) \in Nat /\ t = b \o p \o a /\ v = b \o q \o a
    OBVIOUS
  <2> HIDE DEF t, v
  <2>2. Three(Readable, b, p, a, t) /\ Three(Readable, b, q, a, v)
    BY <1>5, <2>1, ThreeFacts
  <2>3. t \in Seq(Readable) /\ v \in Seq(Readable) /\ Len(v) = Len(t) /\ Len(t) = Len(b) + Len(p) + Len(a)
    BY <1>5, <2>2 DEF Three
  <2>4. ASSUME NEW i \in 1 .. Len(t) PROVE Shrunk(t[i], v[i])
    <3>1. CASE i \in 1 .. Len(b)
      BY <2>2, <3>1 DEF Three, Shrunk
    <3>2. CASE \E j \in 1 .. Len(p) : i = Len(b) + j
      <4>1. PICK j \in 1 .. Len(p) : i = Len(b) + j
        BY <3>2
      <4>2. t[i] = p[j] /\ v[i] = q[j]
        BY <1>5, <2>2, <4>1 DEF Three
      <4> QED BY <1>5, <4>2
    <3>3. CASE \E j \in 1 .. Len(a) : i = Len(b) + Len(p) + j
      <4>1. PICK j \in 1 .. Len(a) : i = Len(b) + Len(p) + j
        BY <3>3
      <4>2. t[i] = a[j] /\ v[i] = a[j]
        BY <1>5, <2>2, <4>1 DEF Three
      <4> QED BY <4>2 DEF Shrunk
    <3>4. \/ i \in 1 .. Len(b)
          \/ i - Len(b) \in 1 .. Len(p) /\ i = Len(b) + (i - Len(b))
          \/ i - (Len(b) + Len(p)) \in 1 .. Len(a) /\ i = Len(b) + Len(p) + (i - (Len(b) + Len(p)))
      BY <1>1, <2>1, <2>3
    <3> QED BY <3>1, <3>2, <3>3, <3>4
  <2> QED BY <2>3, <2>4 DEF ShrunkText
<1>7. Clear(t)
  OBVIOUS
<1> HIDE DEF t, v
<1>8. Meaning(v) = Meaning(t)
  BY <1>6, <1>7, ShrunkMeans
<1>9. Tidy(t) => Tidy(v)
  BY <1>6, ShrunkTidy
<1> QED BY <1>5, <1>8, <1>9 DEF q, t, v

\* Nothing around a text.
LEMMA Alone ==
    ASSUME NEW S, NEW p, p \in Seq(S)
    PROVE  <<>> \o p \o <<>> = p
OBVIOUS

\* No line ending is split at the border of p.
LEMMA Borders ==
    ASSUME NEW b, NEW p, NEW a, b \in Seq(Readable), p \in Seq(Readable), a \in Seq(Readable),
           Ends(b, "CR") /\ p # <<>> => p[1].k # "CR",
           Ends(p, "CR") /\ a # <<>> => a[1].k # "LF"
    PROVE  LineBorder(b \o p \o a, Len(b), Len(b) + Len(p))
<1> DEFINE t == b \o p \o a
           lo == Len(b)
           hi == Len(b) + Len(p)
<1>0. /\ lo \in Nat /\ Len(p) \in Nat /\ Len(a) \in Nat /\ hi = lo + Len(p)
      /\ (b = <<>> <=> lo = 0) /\ (p = <<>> <=> Len(p) = 0) /\ (a = <<>> <=> Len(a) = 0)
  OBVIOUS
<1>1. t = b \o p \o a
  OBVIOUS
<1> HIDE DEF t
<1>2. Three(Readable, b, p, a, t)
  BY <1>1, ThreeFacts
<1>3. /\ Len(t) = hi + Len(a)
      /\ \A j \in 1 .. lo : t[j] = b[j]
      /\ \A j \in 1 .. Len(p) : t[lo + j] = p[j]
      /\ \A j \in 1 .. Len(a) : t[hi + j] = a[j]
  BY <1>2 DEF Three
<1>4. 0 < lo /\ lo < hi /\ t[lo].k = "CR" => t[lo + 1].k # "CR"
  <2> SUFFICES ASSUME 0 < lo, lo < hi, t[lo].k = "CR" PROVE t[lo + 1].k # "CR"
    OBVIOUS
  <2>1. lo \in 1 .. lo /\ 1 \in 1 .. Len(p) /\ p # <<>> /\ b # <<>>
    BY <1>0
  <2>2. t[lo] = b[lo] /\ t[lo + 1] = p[1]
    BY <1>3, <2>1
  <2>3. Ends(b, "CR")
    BY <2>1, <2>2 DEF Ends
  <2> QED BY <2>1, <2>2, <2>3
<1>5. lo < hi /\ hi < Len(t) /\ t[hi].k = "CR" => t[hi + 1].k # "LF"
  <2> SUFFICES ASSUME lo < hi, hi < Len(t), t[hi].k = "CR" PROVE t[hi + 1].k # "LF"
    OBVIOUS
  <2>1. Len(p) \in 1 .. Len(p) /\ 1 \in 1 .. Len(a) /\ p # <<>> /\ a # <<>>
    BY <1>0, <1>3
  <2>2. t[hi] = p[Len(p)] /\ t[hi + 1] = a[1]
    BY <1>3, <2>1
  <2>3. Ends(p, "CR")
    BY <2>1, <2>2 DEF Ends
  <2> QED BY <2>1, <2>2, <2>3
<1>6. LineBorder(t, lo, hi)
  BY <1>4, <1>5 DEF LineBorder
<1> QED BY <1>6 DEF t

\* Normalized in a document around it.
LEMMA NormalizedIn ==
    ASSUME NEW b, NEW p, NEW a, b \in Seq(Readable), p \in Seq(Readable), a \in Seq(Readable),
           Tidy(b \o p \o a), LineBorder(b \o p \o a, Len(b), Len(b) + Len(p))
    PROVE  LET q == Normalized(p)
           IN  /\ q \in Seq(Readable) /\ Meaning(b \o q \o a) = Meaning(b \o p \o a)
               /\ Steady(b \o p \o a) => Tidy(b \o q \o a)
<1> DEFINE l == normalize_line_endings(p)
           e == normalize_empty_elements(l)
           s == normalize_self_closing_space(e)
<1>1. CASE ~LooksLikeXml(p)
  BY <1>1 DEF Normalized
<1>2. CASE LooksLikeXml(p)
  <2>1. Normalized(p) = s
    BY <1>2 DEF Normalized
  <2>2. /\ l \in Seq(Readable) /\ Meaning(b \o l \o a) = Meaning(b \o p \o a) /\ Tidy(b \o l \o a)
        /\ Steady(b \o p \o a) => Steady(b \o l \o a)
    BY LinesKeptIn DEF KeptIn
  <2> HIDE DEF l
  <2>3. /\ e \in Seq(Readable) /\ Meaning(b \o e \o a) = Meaning(b \o l \o a) /\ Clear(b \o e \o a)
        /\ Steady(b \o l \o a) => Tidy(b \o e \o a)
    BY <2>2, EmptiesKeptIn
  <2> HIDE DEF e
  <2>4. /\ s \in Seq(Readable) /\ Meaning(b \o s \o a) = Meaning(b \o e \o a)
        /\ Tidy(b \o e \o a) => Tidy(b \o s \o a)
    BY <2>3, SpacesKeptIn
  <2> HIDE DEF s
  <2> QED BY <2>1, <2>2, <2>3, <2>4
<1> QED BY <1>1, <1>2

\* Normalized alone.
LEMMA NormalizedAlone ==
    ASSUME NEW p, p \in Seq(Readable), Tidy(p)
    PROVE  Normalized(p) \in Seq(Readable) /\ Meaning(Normalized(p)) = Meaning(p)
<1> DEFINE z == <<>>
           q == Normalized(p)
<1>1. z \in Seq(Readable) /\ Len(z) = 0
  OBVIOUS
<1>2. z \o p \o z = p
  BY Alone
<1>3. Tidy(z \o p \o z) /\ LineBorder(z \o p \o z, Len(z), Len(z) + Len(p))
  <2>1. Len(p) \in Nat
    OBVIOUS
  <2>2. LineBorder(p, 0, Len(p))
    BY <2>1 DEF LineBorder
  <2> QED BY <1>1, <1>2, <2>1, <2>2
<1> HIDE DEF z
<1>4. q \in Seq(Readable) /\ Meaning(z \o q \o z) = Meaning(z \o p \o z)
  BY <1>1, <1>3, NormalizedIn
<1> HIDE DEF q
<1>5. z \o q \o z = q
  BY <1>4, Alone DEF z
<1>6. q \in Seq(Readable) /\ Meaning(q) = Meaning(p)
  BY <1>2, <1>4, <1>5
<1> QED BY <1>6 DEF q

\* The tags of a whole document rewritten once more.
LEMMA Rewritten ==
    ASSUME NEW p, p \in Seq(Readable), Tidy(p)
    PROVE  LET q == normalize_self_closing_space(normalize_empty_elements(p))
           IN  q \in Seq(Readable) /\ Meaning(q) = Meaning(p)
<1> DEFINE z == <<>>
           e == normalize_empty_elements(p)
           s == normalize_self_closing_space(e)
<1>1. z \in Seq(Readable)
  OBVIOUS
<1>2. z \o p \o z = p
  BY Alone
<1> HIDE DEF z
<1>3. e \in Seq(Readable) /\ Meaning(z \o e \o z) = Meaning(z \o p \o z) /\ Clear(z \o e \o z)
  <2>1. Tidy(z \o p \o z)
    BY <1>2
  <2> QED BY <1>1, <2>1, EmptiesKeptIn
<1> HIDE DEF e
<1>4. s \in Seq(Readable) /\ Meaning(z \o s \o z) = Meaning(z \o e \o z)
  BY <1>1, <1>3, SpacesKeptIn
<1> HIDE DEF s
<1>5. z \o s \o z = s
  BY <1>4, Alone DEF z
<1>6. s \in Seq(Readable) /\ Meaning(s) = Meaning(p)
  BY <1>2, <1>3, <1>4, <1>5
<1> QED BY <1>6 DEF s, e

\* The plaintext in a document around it.
LEMMA EmbeddedKept ==
    ASSUME NEW b, NEW p, NEW a, b \in Seq(Readable), p \in Seq(Readable), a \in Seq(Readable),
           Tidy(b \o p \o a), Steady(b \o p \o a), LineBorder(b \o p \o a, Len(b), Len(b) + Len(p))
    PROVE  LET q == normalize_self_closing_space(normalize_empty_elements(b \o Normalized(p) \o a))
           IN  q \in Seq(Readable) /\ Meaning(q) = Meaning(b \o p \o a)
<1> DEFINE n == Normalized(p)
           w == b \o n \o a
<1>1. n \in Seq(Readable) /\ Meaning(w) = Meaning(b \o p \o a) /\ Tidy(w)
  BY NormalizedIn
<1>2. w \in Seq(Readable)
  <2> HIDE DEF n
  <2> QED BY <1>1
<1> HIDE DEF w
<1>3. LET q == normalize_self_closing_space(normalize_empty_elements(w))
      IN  q \in Seq(Readable) /\ Meaning(q) = Meaning(w)
  BY <1>1, <1>2, Rewritten
<1> QED BY <1>1, <1>3 DEF w

-----------------------------------------------------------------------------
(* Prologs and the line feeds around a root element.                       *)

\* One text after another, where the first ends outside sections and line endings.
LEMMA MeaningConcat ==
    ASSUME NEW p, NEW q, p \in Seq(Token), q \in Seq(Token), ~Within(p), ~Ends(p, "CR")
    PROVE  Meaning(p \o q) = Meaning(p) \o Meaning(q)
<1> DEFINE g == [i \in 1 .. Len(q) |-> Events(p \o Before(q, i), q[i])]
<1>1. Said(p \o q) = Said(p) \o g /\ g \in Seq(Seq(Says))
  <2>1. g = [i \in 1 .. Len(q) |-> Events(p \o Before(q, i), q[i])]
    OBVIOUS
  <2> HIDE DEF g
  <2> QED BY <2>1, SaidConcat
<1>2. ASSUME NEW w, w \in Seq(Token)
      PROVE  (Within(p \o w) <=> Within(w)) /\ (Ends(p \o w, "CR") <=> Ends(w, "CR"))
  <2> DEFINE t == p \o w
  <2>1. /\ t \in Seq(Token) /\ Len(t) = Len(p) + Len(w) /\ Len(p) \in Nat /\ Len(w) \in Nat
        /\ \A j \in 1 .. Len(p) : t[j] = p[j]
        /\ \A j \in 1 .. Len(w) : t[Len(p) + j] = w[j]
        /\ DOMAIN t = 1 .. Len(t) /\ DOMAIN w = 1 .. Len(w) /\ DOMAIN p = 1 .. Len(p)
    BY <1>2, ConcatFacts
  <2>2. p = <<>> => t = w
    BY <1>2
  <2>3. w = <<>> => t = p
    BY <1>2
  <2>4. (w = <<>> <=> Len(w) = 0) /\ (t = <<>> <=> Len(t) = 0)
    BY <1>2, <2>1
  <2> HIDE DEF t
  <2>5. ASSUME Within(t) PROVE Within(w)
    <3>1. PICK j \in 1 .. Len(t) : t[j].k \in SectionStart /\ \A x \in j .. Len(t) : t[x].k \notin SectionEnd
      BY <2>1, <2>5 DEF Within
    <3>2. ~(j <= Len(p))
      <4> SUFFICES ASSUME j <= Len(p) PROVE FALSE
        OBVIOUS
      <4>1. j \in 1 .. Len(p) /\ \A x \in j .. Len(p) : x \in j .. Len(t) /\ x \in 1 .. Len(p)
        BY <2>1, <3>1
      <4>2. p[j].k \in SectionStart /\ \A x \in j .. Len(p) : p[x].k \notin SectionEnd
        BY <2>1, <3>1, <4>1
      <4>3. Within(p)
        BY <2>1, <4>1, <4>2 DEF Within
      <4> QED BY <4>3
    <3> DEFINE k == j - Len(p)
    <3>3. k \in 1 .. Len(w) /\ j = Len(p) + k
      BY <2>1, <3>1, <3>2
    <3> HIDE DEF k
    <3>4. ASSUME NEW x \in k .. Len(w) PROVE w[x].k \notin SectionEnd
      <4>1. x \in 1 .. Len(w) /\ Len(p) + x \in j .. Len(t)
        BY <2>1, <3>3
      <4> QED BY <2>1, <3>1, <4>1
    <3>5. w[k].k \in SectionStart
      BY <2>1, <3>1, <3>3
    <3> QED BY <2>1, <3>3, <3>4, <3>5 DEF Within
  <2>6. ASSUME Within(w) PROVE Within(t)
    <3>1. PICK k \in 1 .. Len(w) : w[k].k \in SectionStart /\ \A x \in k .. Len(w) : w[x].k \notin SectionEnd
      BY <2>1, <2>6 DEF Within
    <3> DEFINE j == Len(p) + k
    <3>2. j \in 1 .. Len(t) /\ t[j].k \in SectionStart
      BY <2>1, <3>1
    <3>3. ASSUME NEW x \in j .. Len(t) PROVE t[x].k \notin SectionEnd
      <4> DEFINE y == x - Len(p)
      <4>1. y \in k .. Len(w) /\ y \in 1 .. Len(w) /\ x = Len(p) + y
        BY <2>1, <3>1
      <4> HIDE DEF y
      <4>2. t[x] = w[y]
        BY <2>1, <4>1
      <4> QED BY <3>1, <4>1, <4>2
    <3> HIDE DEF j
    <3> QED BY <2>1, <3>2, <3>3 DEF Within
  <2>7. Ends(t, "CR") <=> Ends(w, "CR")
    <3>1. CASE w = <<>>
      BY <2>3, <3>1 DEF Ends
    <3>2. CASE w # <<>>
      <4>1. Len(w) \in 1 .. Len(w) /\ t # <<>> /\ Len(t) = Len(p) + Len(w)
        BY <2>1, <2>4, <3>2
      <4>2. t[Len(t)] = w[Len(w)]
        BY <2>1, <4>1
      <4> QED BY <3>2, <4>1, <4>2 DEF Ends
    <3> QED BY <3>1, <3>2
  <2> QED BY <2>5, <2>6, <2>7 DEF t
<1>3. g = Said(q)
  <2>1. DOMAIN q = 1 .. Len(q) /\ Len(q) \in Nat
    OBVIOUS
  <2>2. ASSUME NEW i \in 1 .. Len(q) PROVE Events(p \o Before(q, i), q[i]) = Events(Before(q, i), q[i])
    <3> DEFINE w == Before(q, i)
               x == q[i]
    <3>1. w \in Seq(Token)
      BY <2>1 DEF Before
    <3> HIDE DEF w, x
    <3>2. (Within(p \o w) <=> Within(w)) /\ (Ends(p \o w, "CR") <=> Ends(w, "CR"))
      BY <1>2, <3>1
    <3>3. Events(p \o w, x) = Events(w, x)
      BY <3>2, EventsSame
    <3> QED BY <3>3 DEF w, x
  <2> QED BY <2>1, <2>2 DEF Said
<1>4. Said(p) \in Seq(Seq(Says)) /\ Said(q) \in Seq(Seq(Says))
  BY SaidType
<1> DEFINE sp == Said(p)
           sq == Said(q)
<1>5. sp \in Seq(Seq(Says)) /\ sq \in Seq(Seq(Says))
  BY <1>4
<1> HIDE DEF sp, sq
<1>6. FlattenSeq(sp \o sq) = FlattenSeq(sp) \o FlattenSeq(sq)
  BY ONLY <1>5, FlattenConcat
<1>7. \A t : Meaning(t) = FlattenSeq(Said(t))
  BY DEF Meaning, Said
<1> HIDE DEF g
<1>8. FlattenSeq(Said(p) \o Said(q)) = FlattenSeq(Said(p)) \o FlattenSeq(Said(q))
  BY <1>6 DEF sp, sq
<1> QED BY <1>1, <1>3, <1>7, <1>8

\* Nothing but line feeds.
Blanks(m) == \A i \in DOMAIN m : Blank(m[i])

\* A line ending says at most a line feed; so does a prolog.
LEMMA LineSays ==
    ASSUME NEW t, NEW x, ~Within(t), x \in Token, x.k \in {"CR", "LF", "decl", "doctype"}
    PROVE  Events(t, x) \in Seq(Says) /\ Blanks(Events(t, x))
<1>1. Events(t, x) \in Seq(Says)
  BY EventsType
<1>2. Events(t, x) = <<>> \/ Events(t, x) = <<Character(LF)>> \/ (x.k = "LF" /\ Events(t, x) = <<Character(x)>>)
  BY DEF Events
<1>3. \A y : y.k = "LF" => Blank(Character(y))
  BY DEF Blank, Character
<1>4. LF.k = "LF"
  BY Tokens
<1>5. ASSUME NEW y, Blank(y) PROVE Blanks(<<y>>)
  BY <1>5 DEF Blanks
<1>6. Blanks(<<>>)
  BY DEF Blanks
<1> QED BY <1>1, <1>2, <1>3, <1>4, <1>5, <1>6

\* One after the other.
LEMMA BlanksConcat ==
    ASSUME NEW S, NEW m, NEW n, m \in Seq(S), n \in Seq(S), Blanks(m), Blanks(n)
    PROVE  Blanks(m \o n)
<1> DEFINE r == m \o n
<1>1. /\ r \in Seq(S) /\ Len(r) = Len(m) + Len(n) /\ Len(m) \in Nat /\ Len(n) \in Nat
      /\ \A j \in 1 .. Len(m) : r[j] = m[j]
      /\ \A j \in 1 .. Len(n) : r[Len(m) + j] = n[j]
      /\ DOMAIN r = 1 .. Len(r) /\ DOMAIN m = 1 .. Len(m) /\ DOMAIN n = 1 .. Len(n)
  BY ConcatFacts
<1> HIDE DEF r
<1>2. ASSUME NEW i \in 1 .. Len(r) PROVE Blank(r[i])
  <2>1. CASE i \in 1 .. Len(m)
    BY <1>1, <2>1 DEF Blanks
  <2>2. CASE i \notin 1 .. Len(m)
    <3> DEFINE j == i - Len(m)
    <3>1. j \in 1 .. Len(n) /\ i = Len(m) + j
      BY <1>1, <2>2
    <3> HIDE DEF j
    <3> QED BY <1>1, <3>1 DEF Blanks
  <2> QED BY <2>1, <2>2
<1> QED BY <1>1, <1>2 DEF Blanks, r

\* A prolog says only line feeds.
LEMMA PrologSays ==
    ASSUME NEW t, t \in Seq(Readable), \A i \in 1 .. Len(t) : t[i].k \in {"CR", "LF", "decl", "doctype"}
    PROVE  ~Within(t) /\ Meaning(t) \in Seq(Says) /\ Blanks(Meaning(t))
<1> DEFINE Good(i) == ~Within(Upto(t, i)) /\ Meaning(Upto(t, i)) \in Seq(Says) /\ Blanks(Meaning(Upto(t, i)))
           Bad == {j \in 0 .. Len(t) : ~Good(j)}
<1>0. Len(t) \in Nat
  OBVIOUS
<1>1. Good(0)
  <2>1. Upto(t, 0) = <<>>
    BY PrefixEnds DEF Upto
  <2>2. <<>> \in Seq(Says) /\ Blanks(<<>>)
    BY DEF Blanks
  <2> QED BY <2>1, <2>2, EmptyText
<1>2. ASSUME NEW i \in 1 .. Len(t), Good(i - 1) PROVE Good(i)
  <2> DEFINE w == Upto(t, i - 1)
             x == t[i]
  <2>1. Upto(t, i) = Append(w, x) /\ w \in Seq(Readable) /\ x \in Readable
    BY UptoStep
  <2>2. ~Within(w) /\ Meaning(w) \in Seq(Says) /\ Blanks(Meaning(w)) /\ x.k \in {"CR", "LF", "decl", "doctype"}
    BY <1>2
  <2> HIDE DEF w, x
  <2>3. ~Within(Append(w, x))
    BY <2>1, <2>2, WithinAppend DEF SectionStart
  <2>4. w \in Seq(Token) /\ x \in Token
    BY <2>1, Tokens
  <2> DEFINE m == Meaning(w)
             n == Events(w, x)
  <2>5. n \in Seq(Says) /\ Blanks(n) /\ m \in Seq(Says) /\ Blanks(m)
    BY <2>2, <2>4, LineSays
  <2>6. Meaning(Append(w, x)) = m \o n
    BY <2>4, MeaningAppend
  <2> HIDE DEF m, n
  <2>7. Blanks(m \o n) /\ m \o n \in Seq(Says)
    <3>1. Blanks(m \o n)
      BY <2>5, BlanksConcat
    <3> QED BY <2>5, <3>1
  <2> QED BY <2>1, <2>3, <2>6, <2>7
<1> HIDE DEF Good
<1>3. ASSUME Bad # {} PROVE FALSE
  <2>1. Bad \in SUBSET Nat
    BY <1>0
  <2>2. PICK i \in Bad : \A j \in Bad : i <= j
    BY <1>3, <2>1, LeastExists
  <2>3. i # 0
    BY <1>1, <2>2
  <2>4. i \in 1 .. Len(t) /\ i - 1 \in 0 .. Len(t) /\ i - 1 \notin Bad
    BY <1>0, <2>2, <2>3
  <2>5. Good(i)
    BY <1>2, <2>4
  <2> QED BY <2>2, <2>5
<1>4. Good(Len(t))
  BY <1>0, <1>3
<1>5. Upto(t, Len(t)) = t
  BY PrefixEnds DEF Upto
<1> QED BY <1>4, <1>5 DEF Good

\* The smallest of a set of natural numbers.
LEMMA SmallestExists ==
    ASSUME NEW S, S \subseteq Nat, S # {}
    PROVE  Min(S) \in S /\ \A j \in S : Min(S) <= j
<1>1. PICK m \in S : \A j \in S : m <= j
  BY LeastExists
<1>2. \E x \in S : \A y \in S : x =< y
  BY <1>1
<1> QED BY <1>2 DEF Min

\* What stands around a part whose first and last elements are the first and the last that
\* are not blank.
LEMMA InnerIs ==
    ASSUME NEW S, NEW m, NEW x, NEW y, m \in Seq(S), x \in 1 .. Len(m), y \in 1 .. Len(m),
           ~Blank(m[x]), ~Blank(m[y]), \A i \in 1 .. Len(m) : ~Blank(m[i]) => x <= i /\ i <= y
    PROVE  Inner(m) = SubSeq(m, x, y)
<1> DEFINE solid == {i \in DOMAIN m : ~Blank(m[i])}
<1>1. DOMAIN m = 1 .. Len(m) /\ Len(m) \in Nat
  OBVIOUS
<1>2. x \in solid /\ y \in solid /\ \A i \in solid : x <= i /\ i <= y
  BY <1>1
<1>3. solid \subseteq Nat /\ solid \subseteq 1 .. Len(m) /\ solid # {}
  BY <1>1, <1>2
<1>4. Inner(m) = SubSeq(m, Min(solid), Max(solid))
  BY <1>3 DEF Inner
<1> HIDE DEF solid
<1>5. Min(solid) \in solid /\ \A j \in solid : Min(solid) <= j
  BY <1>3, SmallestExists
<1>6. Max(solid) \in solid /\ \A j \in solid : j <= Max(solid)
  BY <1>1, <1>3, GreatestExists
<1>7. Min(solid) = x /\ Max(solid) = y
  <2>1. Min(solid) <= x /\ x <= Min(solid) /\ Min(solid) \in Nat
    BY <1>2, <1>3, <1>5
  <2>2. Max(solid) <= y /\ y <= Max(solid) /\ Max(solid) \in Nat
    BY <1>2, <1>3, <1>6
  <2> QED BY <2>1, <2>2
<1> QED BY <1>4, <1>7

\* Line feeds around do not count.
LEMMA InnerAround ==
    ASSUME NEW S, NEW a, NEW m, NEW b, a \in Seq(S), m \in Seq(S), b \in Seq(S), Blanks(a), Blanks(b)
    PROVE  Inner(a \o m \o b) = Inner(m)
<1> DEFINE r == a \o m \o b
           solid == {i \in DOMAIN m : ~Blank(m[i])}
           n == Len(a)
<1>1. r = a \o m \o b /\ DOMAIN m = 1 .. Len(m) /\ Len(m) \in Nat /\ n \in Nat /\ Len(b) \in Nat
  OBVIOUS
<1> HIDE DEF r
<1>2. Three(S, a, m, b, r)
  BY <1>1, ThreeFacts
<1>3. /\ r \in Seq(S) /\ Len(r) = n + Len(m) + Len(b)
      /\ DOMAIN r = 1 .. Len(r)
      /\ \A j \in 1 .. Len(m) : r[n + j] = m[j]
  BY <1>2 DEF Three
<1>4. ASSUME NEW i \in 1 .. Len(r), ~Blank(r[i])
      PROVE  \E j \in 1 .. Len(m) : i = n + j /\ ~Blank(m[j])
  <2>1. ~(i \in 1 .. n)
    <3> SUFFICES ASSUME i \in 1 .. n PROVE FALSE
      OBVIOUS
    <3>1. i \in DOMAIN a
      OBVIOUS
    <3>2. r[i] = a[i]
      BY <1>2 DEF Three
    <3> QED BY <1>4, <3>1, <3>2 DEF Blanks
  <2>2. ~(\E j \in 1 .. Len(b) : i = n + Len(m) + j)
    <3> SUFFICES ASSUME NEW j \in 1 .. Len(b), i = n + Len(m) + j PROVE FALSE
      OBVIOUS
    <3>1. r[i] = b[j]
      BY <1>2 DEF Three
    <3> QED BY <1>4, <3>1 DEF Blanks
  <2> DEFINE j == i - n
  <2>3. j \in 1 .. Len(m) /\ i = n + j
    <3>1. i > n
      BY <1>1, <2>1
    <3>2. i <= n + Len(m)
      <4> SUFFICES ASSUME i > n + Len(m) PROVE FALSE
        BY <1>1
      <4> DEFINE c == i - (n + Len(m))
      <4>1. c \in 1 .. Len(b) /\ i = n + Len(m) + c
        BY <1>1, <1>3
      <4> QED BY <2>2, <4>1
    <3> QED BY <1>1, <3>1, <3>2
  <2> HIDE DEF j
  <2> QED BY <1>3, <1>4, <2>3
<1>5. CASE solid = {}
  <2>1. Inner(m) = <<>>
    BY <1>5 DEF Inner
  <2>2. \A i \in 1 .. Len(r) : Blank(r[i])
    BY <1>1, <1>4, <1>5
  <2>3. Inner(r) = <<>>
    BY <1>3, <2>2 DEF Inner
  <2> QED BY <2>1, <2>3 DEF r
<1>6. CASE solid # {}
  <2> DEFINE x == Min(solid)
             y == Max(solid)
  <2>1. solid \subseteq Nat /\ solid \subseteq 1 .. Len(m)
    BY <1>1
  <2>2. x \in solid /\ \A j \in solid : x <= j
    BY <1>6, <2>1, SmallestExists
  <2>3. y \in solid /\ \A j \in solid : j <= y
    BY <1>1, <1>6, <2>1, GreatestExists
  <2> HIDE DEF x, y
  <2>4. x \in 1 .. Len(m) /\ y \in 1 .. Len(m) /\ ~Blank(m[x]) /\ ~Blank(m[y])
    BY <2>1, <2>2, <2>3
  <2>5. \A i \in 1 .. Len(m) : ~Blank(m[i]) => x <= i /\ i <= y
    BY <1>1, <2>2, <2>3
  <2>6. Inner(m) = SubSeq(m, x, y)
    BY <2>4, <2>5, InnerIs
  <2> DEFINE c == n + x
             d == n + y
  <2>7. c \in 1 .. Len(r) /\ d \in 1 .. Len(r) /\ x <= y
    BY <1>1, <1>3, <2>1, <2>2, <2>3, <2>4
  <2>8. r[c] = m[x] /\ r[d] = m[y]
    BY <1>3, <2>4
  <2>9. ASSUME NEW i \in 1 .. Len(r), ~Blank(r[i]) PROVE c <= i /\ i <= d
    <3>1. PICK j \in 1 .. Len(m) : i = n + j /\ ~Blank(m[j])
      BY <1>4, <2>9
    <3>2. x <= j /\ j <= y
      BY <2>5, <3>1
    <3> QED BY <1>1, <2>4, <3>1, <3>2
  <2>10. Inner(r) = SubSeq(r, c, d)
    <3> HIDE DEF c, d
    <3> QED BY <1>3, <2>4, <2>7, <2>8, <2>9, InnerIs
  <2>11. SubSeq(r, c, d) = SubSeq(m, x, y)
    <3> DEFINE p == SubSeq(r, c, d)
               q == SubSeq(m, x, y)
               l == y - x + 1
    <3>1. q \in Seq(S) /\ Len(q) = l /\ \A j \in 1 .. l : q[j] = m[x + j - 1]
      <4>1. x \in 1 .. Len(m) /\ y \in 1 .. Len(m) /\ x <= y /\ m \in Seq(S) /\ Len(m) \in Nat
        BY <1>1, <2>4, <2>7
      <4> QED BY ONLY <4>1
    <3>2. d - c + 1 = l /\ l \in Nat
      BY <1>1, <2>4, <2>7
    <3>3. p \in Seq(S) /\ Len(p) = d - c + 1 /\ \A j \in 1 .. d - c + 1 : p[j] = r[c + j - 1]
      <4>1. c \in 1 .. Len(r) /\ d \in 1 .. Len(r) /\ c <= d /\ r \in Seq(S) /\ Len(r) \in Nat
        BY <1>1, <1>3, <2>4, <2>7
      <4> HIDE DEF c, d
      <4> QED BY <4>1, SMTT(30)
    <3>4. \A j \in 1 .. l : p[j] = q[j]
      <4> SUFFICES ASSUME NEW j \in 1 .. l PROVE p[j] = q[j]
        OBVIOUS
      <4> DEFINE e == x + j - 1
      <4>1. e \in 1 .. Len(m) /\ c + j - 1 = n + e
        BY <1>1, <2>4, <2>7, <3>2
      <4>2. p[j] = r[c + j - 1] /\ q[j] = m[e]
        BY <3>1, <3>2, <3>3
      <4> HIDE DEF e, c, p, q
      <4> QED BY <1>3, <4>1, <4>2
    <3> HIDE DEF p, q, l
    <3>5. p = q
      BY <3>1, <3>2, <3>3, <3>4, SameElements
    <3> QED BY <3>5 DEF p, q
  <2> QED BY <2>6, <2>10, <2>11 DEF r
<1> QED BY <1>5, <1>6

\* A text without the white space around it.
LEMMA TrimType ==
    ASSUME NEW S, NEW t, t \in Seq(S)
    PROVE  trim(t) \in Seq(S)
<1>1. CASE Solid(t) = {}
  BY <1>1 DEF trim
<1>2. CASE Solid(t) # {}
  <2> DEFINE s == Solid(t)
             x == Min(s)
             y == Max(s)
  <2>1. s \subseteq 1 .. Len(t) /\ s \subseteq Nat /\ Len(t) \in Nat
    BY DEF Solid
  <2>2. trim(t) = SubSeq(t, x, y)
    BY <1>2 DEF trim
  <2> HIDE DEF s
  <2>3. x \in s
    BY <1>2, <2>1, SmallestExists DEF s
  <2>4. y \in s
    BY <1>2, <2>1, GreatestExists DEF s
  <2> HIDE DEF x, y
  <2>5. x \in 1 .. Len(t) /\ y \in 1 .. Len(t)
    BY <2>1, <2>3, <2>4
  <2> QED BY <2>1, <2>2, <2>5
<1> QED BY <1>1, <1>2

\* A line feed, wherever it is written.
LEMMA FeedSays ==
    ASSUME NEW t
    PROVE  Events(t, LF) \in Seq(Says) /\ Blanks(Events(t, LF))
<1>1. Events(t, LF) \in Seq(Says)
  BY EventsType, Tokens
<1>2. LF.k = "LF"
  BY Tokens
<1>3. Events(t, LF) = <<>> \/ Events(t, LF) = <<Character(LF)>>
  BY <1>2 DEF Events
<1>4. Blank(Character(LF))
  BY <1>2 DEF Blank, Character
<1> QED BY <1>1, <1>3, <1>4 DEF Blanks

\* The prolog of WithProlog.
PrologOf(before) == IF trim(before) # <<>> /\ trim(before)[1].k = "decl" THEN trim(before) ELSE <<Tok("decl", "utf8", "plain")>>

LEMMA PrologTokens ==
    ASSUME NEW before, before \in Seq(Readable), is_xml_prolog(trim(before))
    PROVE  LET p == PrologOf(before)
           IN  p \in Seq(Readable) /\ \A i \in 1 .. Len(p) : p[i].k \in {"CR", "LF", "decl", "doctype"}
<1> DEFINE t == trim(before)
           x == Tok("decl", "utf8", "plain")
<1>1. t \in Seq(Readable)
  BY TrimType
<1>2. \A i \in 1 .. Len(t) : t[i].k \in {"CR", "LF", "decl", "doctype"}
  <2>1. is_xml_prolog(t) /\ DOMAIN t = 1 .. Len(t)
    BY <1>1
  <2> HIDE DEF t
  <2> QED BY <2>1 DEF is_xml_prolog, Solid, Spaces
<1>3. x \in Readable /\ x.k = "decl"
  BY TagNamesAssumption DEF Readable, Token, Tok, Kinds, StartsTag, Bracketed, Forms, NotUtf8
<1>4. <<x>> \in Seq(Readable) /\ Len(<<x>>) = 1 /\ <<x>>[1] = x
  BY <1>3
<1>5. PrologOf(before) = t \/ PrologOf(before) = <<x>>
  BY DEF PrologOf
<1> HIDE DEF t, x
<1>6. CASE PrologOf(before) = t
  BY <1>1, <1>2, <1>6
<1>7. CASE PrologOf(before) = <<x>>
  <2>1. \A i \in 1 .. Len(<<x>>) : <<x>>[i].k = "decl"
    BY <1>3, <1>4
  <2> QED BY <1>4, <1>7, <2>1
<1> QED BY <1>5, <1>6, <1>7

\* A root element with its prolog means what it means without.
LEMMA PrologKept ==
    ASSUME NEW before, NEW t, before \in Seq(Readable), t \in Seq(Readable), is_xml_prolog(trim(before))
    PROVE  WithProlog(before, t) \in Seq(Readable) /\ Inner(Meaning(WithProlog(before, t))) = Inner(Meaning(t))
<1> DEFINE p == PrologOf(before)
           h == p \o <<LF>>
           w == h \o t
           e == IF t # <<>> /\ Last(t) = LF THEN <<>> ELSE <<LF>>
           mh == Meaning(h)
           mt == Meaning(t)
           me == IF e = <<>> THEN <<>> ELSE Events(w, LF)
<1>1. WithProlog(before, t) = w \o e
  BY DEF WithProlog, PrologOf
<1>2. p \in Seq(Readable) /\ \A i \in 1 .. Len(p) : p[i].k \in {"CR", "LF", "decl", "doctype"}
  BY PrologTokens
<1>3. LF \in Readable /\ LF.k = "LF"
  BY Tokens
<1> HIDE DEF p
<1>4. /\ h \in Seq(Readable) /\ h = Append(p, LF) /\ Len(h) = Len(p) + 1
      /\ \A i \in 1 .. Len(h) : h[i].k \in {"CR", "LF", "decl", "doctype"}
  BY <1>2, <1>3
<1>5. ~Ends(h, "CR")
  <2>1. h[Len(h)] = LF
    BY <1>2, <1>3
  <2> HIDE DEF h
  <2> QED BY <1>3, <2>1 DEF Ends
<1>6. e = <<>> \/ e = <<LF>>
  OBVIOUS
<1> HIDE DEF h, e
<1>7. ~Within(h) /\ mh \in Seq(Says) /\ Blanks(mh)
  BY <1>4, PrologSays
<1>8. w \in Seq(Readable) /\ t \in Seq(Token) /\ h \in Seq(Token)
  BY <1>4, Tokens
<1>9. Meaning(w) = mh \o mt
  BY <1>5, <1>7, <1>8, MeaningConcat
<1>10. mt \in Seq(Says)
  BY <1>8, MeaningType
<1>11. w \o e \in Seq(Readable) /\ Meaning(w \o e) = Meaning(w) \o me /\ me \in Seq(Says) /\ Blanks(me)
  <2> HIDE DEF w
  <2>1. CASE e = <<>>
    <3>1. w \o e = w /\ me = <<>> /\ <<>> \in Seq(Says) /\ Blanks(<<>>)
      BY <1>8, <2>1 DEF Blanks
    <3>2. Meaning(w) \in Seq(Says)
      <4>1. w \in Seq(Token)
        BY <1>8, Tokens
      <4> QED BY <4>1, MeaningType
    <3> DEFINE mw == Meaning(w)
    <3>3. mw \o <<>> = mw
      <4>1. mw \in Seq(Says)
        BY <3>2
      <4> HIDE DEF mw
      <4> QED BY <4>1
    <3> QED BY <1>8, <3>1, <3>3
  <2>2. CASE e = <<LF>>
    <3>1. w \o e = Append(w, LF) /\ me = Events(w, LF)
      BY <1>8, <2>2
    <3>2. w \in Seq(Token) /\ LF \in Token
      BY <1>3, <1>8, Tokens
    <3>3. Meaning(Append(w, LF)) = Meaning(w) \o Events(w, LF)
      BY <3>2, MeaningAppend
    <3>4. Append(w, LF) \in Seq(Readable)
      BY <1>3, <1>8
    <3>5. Events(w, LF) \in Seq(Says) /\ Blanks(Events(w, LF))
      BY FeedSays
    <3> QED BY <3>1, <3>3, <3>4, <3>5
  <2> QED BY <1>6, <2>1, <2>2
<1> HIDE DEF mh, mt, me, w
<1>12. Inner(mh \o mt \o me) = Inner(mt)
  BY <1>7, <1>10, <1>11, InnerAround
<1>13. Meaning(w \o e) = mh \o mt \o me
  BY <1>9, <1>11
<1> QED BY <1>1, <1>11, <1>12, <1>13 DEF mt

\* What is spliced means what was meant.
LEMMA SplicedMeans ==
    ASSUME NEW pl, NEW p, pl.before \in Seq(Readable), pl.after \in Seq(Readable), p \in Seq(Readable),
           ~IsOpaque(pl),
           IsRoot(pl) => Tidy(p),
           ~IsRoot(pl) => /\ Tidy(pl.before \o p \o pl.after) /\ Steady(pl.before \o p \o pl.after)
                          /\ Ends(pl.before, "CR") /\ p # <<>> => p[1].k # "CR"
                          /\ Ends(p, "CR") /\ pl.after # <<>> => pl.after[1].k # "LF"
    PROVE  LET q == replace_encrypted_data_bytes(pl, p)
           IN  /\ q \in Seq(Readable)
               /\ Inner(Meaning(q)) = Inner(Meaning(IF IsRoot(pl) THEN p ELSE pl.before \o p \o pl.after))
<1> DEFINE q == replace_encrypted_data_bytes(pl, p)
<1>1. CASE IsRoot(pl)
  <2> DEFINE n == Normalized(p)
  <2>1. n \in Seq(Readable) /\ Meaning(n) = Meaning(p)
    BY <1>1, NormalizedAlone
  <2>2. q = n \/ q = WithProlog(pl.before, n)
    BY <1>1 DEF replace_encrypted_data_bytes
  <2> HIDE DEF n, q
  <2>3. is_xml_prolog(trim(pl.before))
    BY <1>1 DEF IsRoot
  <2>4. WithProlog(pl.before, n) \in Seq(Readable) /\ Inner(Meaning(WithProlog(pl.before, n))) = Inner(Meaning(n))
    BY <2>1, <2>3, PrologKept
  <2>5. q \in Seq(Readable) /\ Inner(Meaning(q)) = Inner(Meaning(p))
    BY <2>1, <2>2, <2>4
  <2> QED BY <1>1, <2>5 DEF q
<1>2. CASE ~IsRoot(pl)
  <2> DEFINE b == pl.before
             a == pl.after
  <2>1. LineBorder(b \o p \o a, Len(b), Len(b) + Len(p))
    BY <1>2, Borders
  <2>2. q = normalize_self_closing_space(normalize_empty_elements(b \o Normalized(p) \o a))
    BY <1>2 DEF replace_encrypted_data_bytes
  <2>3. b \in Seq(Readable) /\ a \in Seq(Readable) /\ Tidy(b \o p \o a) /\ Steady(b \o p \o a)
    BY <1>2
  <2> HIDE DEF b, a, q
  <2>4. q \in Seq(Readable) /\ Meaning(q) = Meaning(b \o p \o a)
    BY <2>1, <2>2, <2>3, EmbeddedKept
  <2> QED BY <1>2, <2>4 DEF q, b, a
<1> QED BY <1>1, <1>2

-----------------------------------------------------------------------------
(* Encodings, and the parts of a text.                                     *)

\* A declaration at the very start is within the header.
LEMMA FirstInHeader ==
    ASSUME NEW t, t \in Seq(Readable), t # <<>>, t[1].k = "decl", t[1].n = "latin1"
    PROVE  DeclaresLatin1(t)
<1>1. {j \in 1 .. 1 : Width(t[j]) = 2} = {}
  <2>1. Width(t[1]) = 1
    BY DEF Width
  <2> QED BY <2>1
<1>2. Cardinality({j \in 1 .. 1 : Width(t[j]) = 2}) = 0
  BY <1>1, FS_EmptySet
<1>3. ByteEnd(t, 1) = 1
  BY <1>2 DEF ByteEnd
<1>4. 1 \in DOMAIN t /\ ByteEnd(t, 1) <= HeaderLen
  BY <1>3, HeaderLenAssumption
<1> QED BY <1>4 DEF DeclaresLatin1

\* The element a name stands for is a part of the text.
LEMMA NodeType ==
    ASSUME NEW S, NEW t, NEW name, t \in Seq(S), ElementsEnd(t)
    PROVE  extract_node_data(t, name) \in Seq(S)
<1> DEFINE at == {i \in Tags(t, {"open", "empty"}) : t[i].n = name}
           i == Min(at)
           ends == {j \in i .. Len(t) : Depth(t, i, j) = 0}
           j == Min(ends)
<1>0. Len(t) \in Nat /\ DOMAIN t = 1 .. Len(t)
  OBVIOUS
<1>1. CASE at = {}
  BY <1>1 DEF extract_node_data
<1>2. CASE at # {}
  <2>1. extract_node_data(t, name) = SubSeq(t, i, j)
    BY <1>2 DEF extract_node_data, ElementAt
  <2>2. at \subseteq Nat
    BY <1>0 DEF Tags
  <2>3. i \in at
    <3> HIDE DEF at
    <3> QED BY <1>2, <2>2, SmallestExists
  <2>4. i \in 1 .. Len(t) /\ i \in Tags(t, {"open", "empty"})
    BY <1>0, <2>3 DEF Tags
  <2> HIDE DEF i, at
  <2>5. ends # {}
    BY <2>4 DEF ElementsEnd
  <2>6. ends \subseteq Nat
    BY <1>0, <2>4
  <2>7. j \in ends
    <3> HIDE DEF ends
    <3> QED BY <2>5, <2>6, SmallestExists
  <2>8. j \in i .. Len(t)
    BY <2>7
  <2> HIDE DEF j
  <2> QED BY <1>0, <2>1, <2>4, <2>8
<1> QED BY <1>1, <1>2

\* Texts in UTF-8.
LEMMA Utf8Parts ==
    ASSUME NEW b, NEW p, NEW a, b \in Seq(Token), p \in Seq(Token), a \in Seq(Token), Utf8(b \o p \o a)
    PROVE  b \in Seq(Readable) /\ p \in Seq(Readable) /\ a \in Seq(Readable)
<1> DEFINE t == b \o p \o a
<1>1. t = b \o p \o a /\ Len(b) \in Nat /\ Len(p) \in Nat /\ Len(a) \in Nat
  OBVIOUS
<1> HIDE DEF t
<1>2. Three(Token, b, p, a, t)
  BY <1>1, ThreeFacts
<1>3. \A i \in 1 .. Len(t) : t[i].k \notin NotUtf8
  <2>1. t \in Seq(Token)
    BY <1>2 DEF Three
  <2> QED BY <1>1, <2>1 DEF Utf8
<1>4. ASSUME NEW r, r \in Seq(Token), NEW n \in Nat, \A j \in 1 .. Len(r) : n + j \in 1 .. Len(t) /\ t[n + j] = r[j]
      PROVE  r \in Seq(Readable)
  <2>1. \A j \in 1 .. Len(r) : r[j] \in Token /\ r[j].k \notin NotUtf8
    <3> SUFFICES ASSUME NEW j \in 1 .. Len(r) PROVE r[j] \in Token /\ r[j].k \notin NotUtf8
      OBVIOUS
    <3>1. n + j \in 1 .. Len(t) /\ t[n + j] = r[j]
      BY <1>4
    <3>2. t[n + j].k \notin NotUtf8
      BY <1>3, <3>1
    <3>3. r[j] \in Token
      BY <1>4
    <3> QED BY <3>1, <3>2, <3>3
  <2>2. \A j \in 1 .. Len(r) : r[j] \in Readable
    BY <2>1 DEF Readable
  <2> QED BY <1>4, <2>2
<1>5. /\ \A j \in 1 .. Len(b) : 0 + j \in 1 .. Len(t) /\ t[0 + j] = b[j]
      /\ \A j \in 1 .. Len(p) : Len(b) + j \in 1 .. Len(t) /\ t[Len(b) + j] = p[j]
      /\ \A j \in 1 .. Len(a) : Len(b) + Len(p) + j \in 1 .. Len(t) /\ t[Len(b) + Len(p) + j] = a[j]
  BY <1>1, <1>2 DEF Three
<1>6. b \in Seq(Readable)
  BY <1>4, <1>5
<1>7. p \in Seq(Readable)
  BY <1>1, <1>4, <1>5
<1>8. a \in Seq(Readable)
  <2> DEFINE n == Len(b) + Len(p)
  <2>1. n \in Nat /\ \A j \in 1 .. Len(a) : n + j \in 1 .. Len(t) /\ t[n + j] = a[j]
    BY <1>1, <1>5
  <2> HIDE DEF n
  <2> QED BY <1>4, <2>1
<1> QED BY <1>6, <1>7, <1>8
=============================================================================
