----------------------------- MODULE MCSpellings -----------------------------
(***************************************************************************)
(* Texts of up to three parts, and how patterns are spelled.               *)
(***************************************************************************)
EXTENDS GtsIdText

CONSTANTS uuid, Lexemes

Short1 == {<<x>> : x \in Lexemes}
Parts ==
    Short1 \cup {<<x, y>> : x, y \in Lexemes}
      \cup {<<"a", "v1", x>> : x \in Lexemes} \cup {<<"a", x, "0">> : x \in Lexemes}
      \cup {<<x, "v1", "0">> : x \in Lexemes} \cup {<<"a", "v1", "0", x>> : x \in Lexemes}

Usual == {Nothing, <<"a", "v1">>, <<"a", "v1", "0">>, <<uuid>>, <<"*">>, <<"a", "*">>}

Texts ==
    {Text(<<p>>) : p \in Parts} \cup {[Text(<<p>>) EXCEPT !.prefixed = FALSE] : p \in Usual}
      \cup {Text(<<p, s>>) : p \in Parts, s \in Usual} \cup {Text(<<s, p>>) : p \in Parts, s \in Usual}
      \cup {Text(<<<<"a", "v1">>, s, p>>) : p \in Parts, s \in Usual}
      \cup {Text(<<<<"a", "v1", "0">>, s, p, Nothing>>) : p \in Usual, s \in Usual}

-----------------------------------------------------------------------------
MajorText == [n \in {0, 1} |-> IF n = 0 THEN "v0" ELSE "v1"]
MinorText == [n \in {0, 1} |-> IF n = 0 THEN "0" ELSE "1"]

(* The parts a segment is written as, v* being another way to write a      *)
(* star in place of a version.                                             *)
PartsFor(seg) ==
    LET numbered(version, text) == IF version = None THEN <<>> ELSE <<text[version]>>
        head == seg.names \o numbered(seg.major, MajorText) \o numbered(seg.minor, MinorText)
    IN  IF seg.uuid # None THEN {<<seg.uuid>>}
        ELSE IF seg.kind # "wildcard" THEN {head}
        ELSE {Append(head, "*")}
               \cup (IF Len(seg.names) = Fields /\ seg.major = None THEN {Append(head, "v*")} ELSE {})

Spellings(segments) ==
    LET fixed == [k \in DOMAIN Front(segments) |-> CHOOSE p \in PartsFor(segments[k]) : TRUE]
        tail == IF Last(segments).is_type THEN <<Nothing>> ELSE <<>>
    IN  {Text(Append(fixed, p) \o tail) : p \in PartsFor(Last(segments))}

(* A text is read as the one pattern it spells, and refused if it spells   *)
(* none.                                                                   *)
ReadRight(text) ==
    \A p \in {ParsePattern(text)} :
        /\ p # None => IsPattern(p) /\ text \in Spellings(p)
        /\ ValidateId(text).valid <=> p # None
        /\ ParseId(text) = (IF p = None THEN None ELSE IF IsWildcard(Last(p)) THEN None ELSE p)

Told(p) == \A text \in Spellings(p) : Length(text) <= MaxLength => ParsePattern(text) = p

(* What an identifier says of those above it are identifiers, up to the    *)
(* type it is directly below.                                              *)
ChainRight(text) ==
    \A id \in {ParseId(text)} :
        id # None =>
            /\ \A k \in DOMAIN id : ParseId(ChainIds(text, id)[k]) = SubSeq(id, 1, k)
            /\ \A type \in {GetTypeId(text, id)} \ {None} : ParseId(type) = Front(id) /\ IsType(type)

(* A candidate is judged alike as an identifier and as a pattern.          *)
JudgedAlike(pattern, id) ==
    LET pattern_text == CHOOSE t \in Spellings(pattern) : TRUE
        id_text == CHOOSE t \in Spellings(id) : TRUE
    IN  MatchIdPattern(id_text, pattern_text).is_match <=> Covers(pattern, id)
=============================================================================
