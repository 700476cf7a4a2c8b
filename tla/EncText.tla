------------------------------- MODULE EncText -------------------------------
(***************************************************************************)
(* The text around the encrypted data: what the command line takes from a  *)
(* data file, and how decrypt.rs puts the plaintext into the document,     *)
(* normalizes the text and converts its encoding.                          *)
(*                                                                         *)
(* A text is a sequence of tokens [k, n, form]: tags "open", "close" and   *)
(* "empty" with a name n and the form of what follows the name before the  *)
(* bracket ("plain" nothing, "space" a space, "attr" attributes,           *)
(* "attrspace" both); "decl" (n the encoding), "doctype"; "comment" and    *)
(* "commentend", the two ends of a comment or a processing instruction;    *)
(* "cdata" and "dataend", those of a CDATA section; "gt" and "slash", the  *)
(* characters > and /> where they are no markup (slash with form "space":  *)
(* after a space); "lt" an unfinished tag, <n and a space, in a section    *)
(* where that is no markup; "quote" a quotation mark outside of tags;      *)
(* "CR", "LF"; "chars"; "hi" a character up to U+00FF in UTF-8, "hi1" the  *)
(* same in ISO-8859-1, "wide" one above; "octets" something else that is   *)
(* not UTF-8; and "broken", the /> put for a bracket of no tag and an end  *)
(* tag, which were cut away. A section is a comment, a processing          *)
(* instruction or a CDATA section: anything may stand in it, and what ends *)
(* no section is a "gt". What stands in attribute values, and quotation    *)
(* marks of two kinds, are left out.                                       *)
(***************************************************************************)
EXTENDS Integers, Sequences, SequencesExt

\* The number of leading bytes in which the encoding declaration is looked for (200).
CONSTANT HeaderLen
ASSUME HeaderLenAssumption == HeaderLen \in Nat \ {0}

\* The names of elements, and what stands for a name in other tokens.
CONSTANT TagNames
ASSUME TagNamesAssumption == {"", "utf8", "latin1"} \subseteq TagNames

Tok(k, n, form) == [k |-> k, n |-> n, form |-> form]
Plain(k) == Tok(k, "", "plain")
Broken == Plain("broken")
LF == Plain("LF")

Spaces == {"CR", "LF"}
NotUtf8 == {"hi1", "octets"}
SectionStart == {"comment", "cdata"}
SectionEnd == {"commentend", "dataend"}
Bracketed == {"open", "close", "empty", "decl", "doctype"}    \* from < to >
StartsTag == Bracketed \union SectionStart \union {"lt"}
EndsTag == Bracketed \union SectionEnd \union {"gt", "slash", "broken"}

Kinds == StartsTag \union EndsTag \union Spaces \union NotUtf8 \union {"chars", "quote", "hi", "wide"}
Forms == {"plain", "space", "attr", "attrspace"}
Token == {x \in [k : Kinds, n : TagNames, form : Forms] : x.k = "hi" => x = Plain("hi")}

Utf8(t) == \A i \in DOMAIN t : t[i].k \notin NotUtf8
Solid(t) == {i \in DOMAIN t : t[i].k \notin Spaces}
trim(t) == IF Solid(t) = {} THEN <<>> ELSE SubSeq(t, Min(Solid(t)), Max(Solid(t)))

Before(t, i) == SubSeq(t, 1, i - 1)

\* A section is open where the text t ends.
Within(t) == \E j \in DOMAIN t : t[j].k \in SectionStart /\ \A x \in j .. Len(t) : t[x].k \notin SectionEnd

\* The tags of a kind, as a parser sees them.
Tags(t, kinds) == {i \in DOMAIN t : t[i].k \in kinds /\ ~Within(Before(t, i))}

-----------------------------------------------------------------------------
(* main.rs, cmd_encrypt.                                                   *)

\* template_has_wrapper: EncryptedData is not the root.
template_has_wrapper(before) == Tags(before, {"open"}) # {}

Depth(t, i, j) == Cardinality(Tags(t, {"open"}) \intersect (i .. j))
                    - Cardinality(Tags(t, {"close"}) \intersect (i .. j))

\* The tokens of the element that starts at token i.
ElementAt(t, i) == SubSeq(t, i, Min({j \in i .. Len(t) : Depth(t, i, j) = 0}))

\* extract_node_data: the source text of the first element of the name; <<>> without one.
extract_node_data(t, name) ==
    LET at == {i \in Tags(t, {"open", "empty"}) : t[i].n = name}
    IN  IF at = {} THEN <<>> ELSE ElementAt(t, Min(at))

\* A text a parser accepts, as extract_node_data wants it: every element ends.
ElementsEnd(t) == \A i \in Tags(t, {"open", "empty"}) : \E j \in i .. Len(t) : Depth(t, i, j) = 0

\* node is <<>> or the name of --node-name; it is only looked at with a wrapper.
Payload(data, before, node) ==
    IF template_has_wrapper(before) /\ node # <<>> THEN extract_node_data(data, node[1]) ELSE data

-----------------------------------------------------------------------------
(* decrypt.rs: normalization.                                              *)

\* Variant: the line feed of a CRLF pair is kept.
normalize_each_line_ending(t) == [i \in DOMAIN t |-> IF t[i].k = "CR" THEN LF ELSE t[i]]

normalize_line_endings(t) ==
    FlattenSeq([i \in DOMAIN t |->
        CASE t[i].k = "CR" -> <<LF>>
          [] t[i].k = "LF" /\ i > 1 /\ t[i - 1].k = "CR" -> <<>>
          [] OTHER -> <<t[i]>>])

\* The name read at the last "<" up to the bracket that ends token i, which need not be that
\* of a tag: an empty-element tag without anything after its name is read with its slash.
OpenName(t, i) ==
    LET from == {j \in 1 .. i : t[j].k \in StartsTag}
        x == t[Max(from)]
    IN  IF from # {} /\ (x.k \in {"open", "lt"} \/ (x.k = "empty" /\ x.form # "plain")) THEN <<x.n>> ELSE <<>>

\* A bracket followed by an end tag of the name read before it.
LooksEmpty(t, i) == /\ i \in 1 .. Len(t) - 1
                    /\ t[i].k \in EndsTag /\ t[i + 1].k = "close" /\ t[i + 1].form = "plain"
                    /\ OpenName(t, i) = <<t[i + 1].n>>

\* The bracket and the end tag become "/>".
normalize_empty_elements(t) ==
    IF ~Utf8(t) THEN t
    ELSE FlattenSeq([i \in DOMAIN t |->
        CASE LooksEmpty(t, i) -> <<IF t[i].k = "open" THEN Tok("empty", t[i].n, t[i].form) ELSE Broken>>
          [] LooksEmpty(t, i - 1) -> <<>>
          [] OTHER -> <<t[i]>>])

\* The scan for " />" is in a tag after any "<", up to the next ">", and there in a value
\* after a quotation mark, up to the next: in sections too.  A tag as a whole leaves a value
\* as it is: its own quotation marks are even in number, or of another kind.
NextState(s, x) ==
    CASE s = "value" -> IF x.k = "quote" THEN "tag" ELSE "value"
      [] s # "value" /\ x.k \in EndsTag -> "text"
      [] s # "value" /\ x.k \in StartsTag \ EndsTag -> "tag"
      [] s = "tag" /\ x.k = "quote" -> "value"
      [] OTHER -> s

Scan(t) == LET s[i \in 0 .. Len(t)] == IF i = 0 THEN "text" ELSE NextState(s[i - 1], t[i]) IN s

\* As long as no quotation mark was met in a tag, the last bracket tells the state.
InTag(t, i) == \E j \in 1 .. i - 1 : /\ t[j].k \in StartsTag \ EndsTag
                                   /\ \A x \in j .. i - 1 : t[x].k \notin EndsTag

Misled(t, i) == \E q \in 1 .. i - 1 : t[q].k = "quote" /\ InTag(t, q)

StateBefore(t, i) == IF Misled(t, i) THEN Scan(t)[i - 1] ELSE IF InTag(t, i) THEN "tag" ELSE "text"

\* Without the space before the slash.
Closer(x) == [x EXCEPT !.form = IF @ = "space" THEN "plain" ELSE IF @ = "attrspace" THEN "attr" ELSE @]

normalize_self_closing_space(t) ==
    IF ~Utf8(t) THEN t
    ELSE [i \in DOMAIN t |->
        IF \/ t[i].k = "empty" /\ StateBefore(t, i) # "value"
           \/ t[i].k = "slash" /\ StateBefore(t, i) = "tag"
        THEN Closer(t[i]) ELSE t[i]]

\* is_xml_prolog: a declaration and a DOCTYPE, both optional, and nothing else.
is_xml_prolog(t) ==
    /\ \A i \in Solid(t) : t[i].k \in {"decl", "doctype"}
    /\ \A i, j \in Solid(t) : i < j => t[i].k = "decl" /\ t[j].k = "doctype"

-----------------------------------------------------------------------------
(* decrypt.rs: the plaintext in its place.  A place has the text before    *)
(* and after the EncryptedData, its Type ("", "Element", "Content" or      *)
(* "other") and whether it has a MimeType that does not name XML.          *)

\* Variant: the MimeType is not looked at.
IsOpaqueByType(p) == p.type = "other"

IsOpaque(p) == p.type = "other" \/ (p.type = "" /\ p.mime_other)

\* The first character after white space is "<".
LooksLikeXml(t) == Utf8(t) /\ trim(t) # <<>> /\ trim(t)[1].k \in StartsTag
HasDecl(t) == LooksLikeXml(t) /\ trim(t)[1].k = "decl"

Normalized(t) ==
    IF ~LooksLikeXml(t) THEN t
    ELSE normalize_self_closing_space(normalize_empty_elements(normalize_line_endings(t)))

IsRoot(p) == is_xml_prolog(trim(p.before)) /\ trim(p.after) = <<>>

\* A root element gets the declaration of the encrypted document, or one of its own.
WithProlog(before, t) ==
    (IF trim(before) # <<>> /\ trim(before)[1].k = "decl" THEN trim(before) ELSE <<Tok("decl", "utf8", "plain")>>)
      \o <<LF>> \o t \o (IF t # <<>> /\ Last(t) = LF THEN <<>> ELSE <<LF>>)

replace_encrypted_data_bytes(p, t) ==
    CASE IsOpaque(p) -> t
      [] ~IsOpaque(p) /\ IsRoot(p) ->
            IF LooksLikeXml(t) /\ ~HasDecl(t) THEN WithProlog(p.before, Normalized(t)) ELSE Normalized(t)
      [] OTHER -> normalize_self_closing_space(normalize_empty_elements(p.before \o Normalized(t) \o p.after))

-----------------------------------------------------------------------------
(* decrypt.rs: the encoding of the result.                                 *)

Width(x) == IF x.k \in {"hi", "wide"} THEN 2 ELSE 1
ByteEnd(t, i) == i + Cardinality({j \in 1 .. i : Width(t[j]) = 2})

\* The header is no UTF-8 when it has other octets, or ends inside a character.
HeaderReadable(t) == \A i \in DOMAIN t : /\ ByteEnd(t, i) <= HeaderLen => t[i].k \notin NotUtf8
                                         /\ ByteEnd(t, i) = HeaderLen + 1 => Width(t[i]) = 1
DeclaresLatin1(t) == \E i \in DOMAIN t : t[i].k = "decl" /\ t[i].n = "latin1" /\ ByteEnd(t, i) <= HeaderLen

\* A character above U+00FF stays in UTF-8.
utf8_to_latin1(t) == IF ~Utf8(t) THEN t
                     ELSE [i \in DOMAIN t |-> IF t[i].k = "hi" THEN Plain("hi1") ELSE t[i]]

maybe_convert_encoding(t) == IF HeaderReadable(t) /\ DeclaresLatin1(t) THEN utf8_to_latin1(t) ELSE t

-----------------------------------------------------------------------------
(* What a text means to an XML reader, for the properties.                 *)

\* The text t ends with a token of kind k.
Ends(t, k) == t # <<>> /\ t[Len(t)].k = k

Attributes(form) == form \in {"attr", "attrspace"}
StartOf(x) == [event |-> "start", of |-> x.n, attr |-> Attributes(x.form)]
EndOf(x) == [event |-> "end", of |-> x.n]
Character(x) == [event |-> "char", of |-> x]

\* What a reader is told by the token x after the text t.
Events(t, x) ==
    CASE x.k = "CR" -> <<Character(LF)>>
      [] x.k = "LF" /\ Ends(t, "CR") -> <<>>
      [] ~Within(t) /\ x.k = "cdata" -> <<>>
      [] x.k = "dataend" -> <<>>
      [] ~Within(t) /\ x.k \in {"decl", "doctype"} -> <<>>
      [] ~Within(t) /\ x.k = "open" -> <<StartOf(x)>>
      [] ~Within(t) /\ x.k = "close" -> <<EndOf(x)>>
      [] ~Within(t) /\ x.k = "empty" -> <<StartOf(x), EndOf(x)>>
      [] OTHER -> <<Character(x)>>

Meaning(t) == FlattenSeq([i \in DOMAIN t |-> Events(Before(t, i), t[i])])

\* Without the line ends around the root element.
Blank(e) == e.event = "char" /\ e.of.k = "LF"
Inner(m) == LET solid == {i \in DOMAIN m : ~Blank(m[i])}
            IN  IF solid = {} THEN <<>> ELSE SubSeq(m, Min(solid), Max(solid))

\* A tag of kind k and name n with something after its name.
Loose(x, k, n) == x.k = k /\ x.n = n /\ x.form # "plain"

\* The token x after the text t misleads neither the search for empty elements nor the one
\* for " />": in a section no tags, no "/>" after a space and no quotation marks; no > right
\* before an end tag; no empty-element tag with anything after its name as the last child of
\* an element of that name.
Fits(t, x) ==
    /\ Within(t) => x.k \notin {"open", "close", "empty", "lt", "quote"} /\ ~Loose(x, "slash", x.n)
    /\ x.k \in SectionEnd \union {"lt"} => Within(t)
    /\ x.k = "close" /\ t # <<>> => t[Len(t)].k \notin {"gt", "slash", "broken"} /\ ~Loose(t[Len(t)], "empty", x.n)

Tidy(t) == \A i \in DOMAIN t : Fits(Before(t, i), t[i])

\* The search may be repeated: it does not make such a tag.
Steady(t) == \A i \in DOMAIN t :
    i + 2 \in DOMAIN t /\ t[i + 1].k = "close" /\ t[i + 2].k = "close" /\ t[i + 1].n = t[i + 2].n
        => ~Loose(t[i], "open", t[i + 1].n)
=============================================================================
