------------------------------ MODULE GtsIdText -------------------------------
(***************************************************************************)
(* From the text of an identifier or a pattern to its segments (parse.rs,  *)
(* gts_id_segment.rs), what an identifier says of itself (gts_id.rs), and  *)
(* what the operations answer about texts (ops.rs).                        *)
(*                                                                         *)
(* A text is split at its tildes into parts, and a part at its dots into   *)
(* lexemes; prefixed is whether it begins with the GTS prefix.  A lexeme   *)
(* may be a name and a version at once: names may begin with a v.          *)
(***************************************************************************)
EXTENDS GtsIdPattern, FiniteSetsExt

CONSTANTS
    LexemeLength,   \* [lexemes -> Nat]
    MajorOf,        \* [lexemes -> Versions, or None: not a v and a canonical number]
    MinorOf,        \* [lexemes -> Versions, or None: not a canonical number]
    Capitals,       \* lexemes with a capital
    Hyphenated,     \* lexemes with a hyphen, UUIDs among them
    Starred         \* lexemes that end with a star

Text(parts) == [prefixed |-> TRUE, parts |-> parts]

Nothing == <<"">>

LexemesOf(parts) == UNION {ToSet(part) : part \in ToSet(parts)}

PartLength(part) == Total([k \in DOMAIN part |-> LexemeLength[part[k]]]) + Len(part) - 1

Length(text) ==
    PrefixLength + Total([k \in DOMAIN text.parts |-> PartLength(text.parts[k])])
        + Len(text.parts) - 1

StarsIn(parts) ==
    Total([k \in DOMAIN parts |-> Cardinality({i \in DOMAIN parts[k] : parts[k][i] \in Starred})])

HasStar(text) == StarsIn(text.parts) > 0

---------------------------------------------------------------------------
(* Parsing. *)

UuidTailOf(parts) ==
    IF Len(parts) >= 2 /\ Len(Last(parts)) = 1 /\ Last(Last(parts)) \in Uuids
    THEN Last(Last(parts)) ELSE None

(* The segments before a UUID tail, each with whether a tilde follows it,  *)
(* or None.                                                                *)
Raw(text, portion, uuid, allow_wildcards) ==
    LET typed == uuid = None /\ Last(portion) = Nothing
        raw == IF typed THEN Front(portion) ELSE portion
    IN  IF LexemesOf(portion) \cap Hyphenated # {} \/ Nothing \in ToSet(raw) \/ raw = <<>>
        THEN None
        ELSE [k \in DOMAIN raw |->
                [tokens |-> raw[k], is_type |-> typed \/ uuid # None \/ k < Len(raw)]]

StarsAllowed(parts, stars) ==
    stars = 0 \/ (stars = 1 /\ Last(Last(parts)) \in Starred)

SplitRawSegments(text, uuid, allow_wildcards) ==
    IF /\ text.prefixed
       /\ LexemesOf(text.parts) \cap Capitals = {}
       /\ Length(text) <= MaxLength
       /\ allow_wildcards => StarsAllowed(text.parts, StarsIn(text.parts))
    THEN Raw(text, IF uuid = None THEN text.parts ELSE Front(text.parts), uuid, allow_wildcards)
    ELSE None

(* Slip: a version is any number, however it is written.                   *)
MajorRead(token) == IF token = "v01" THEN 1 ELSE MajorOf[token]

(* The value after the v; a number as the standard library writes it.      *)
ParseMajor(token) == MajorOf[token]

NumberedParts(names, wild, versions, is_type) ==
    IF ~(ToSet(names) \subseteq Tokens) \/ None \in ToSet(versions) THEN None
    ELSE [kind |-> IF wild THEN "wildcard" ELSE "named", names |-> names,
          major |-> IF versions = <<>> THEN None ELSE versions[1],
          minor |-> IF Len(versions) < 2 THEN None ELSE versions[2],
          is_type |-> is_type, uuid |-> None]

StatedParts(stated, wild, is_type) ==
    LET n == Len(stated) IN
    IF n > Fields + 2 \/ (~wild /\ n <= Fields) THEN None
    ELSE NumberedParts(SubSeq(stated, 1, IF n < Fields THEN n ELSE Fields), wild,
                       [k \in 1 .. n - Fields |->
                          IF k = 1 THEN ParseMajor(stated[Fields + 1]) ELSE MinorOf[stated[Fields + 2]]],
                       is_type)

(* A star ends a pattern's segment, after some names or all of them, with  *)
(* a major version or without; v* stands for a star in place of a version. *)
ParseSegmentParts(tokens, is_type, allow_wildcards) ==
    IF /\ allow_wildcards /\ Len(tokens) <= Fields + 2
       /\ Last(tokens) = "*" \/ (Last(tokens) = "v*" /\ Len(tokens) = Fields + 1)
    THEN StatedParts(Front(tokens), TRUE, is_type)
    ELSE StatedParts(tokens, FALSE, is_type)

UuidTailSegment(uuid) ==
    [kind |-> "uuid", names |-> NoNames, major |-> None, minor |-> None,
     is_type |-> FALSE, uuid |-> uuid]

(* An instance, unless anonymous, follows at least one type.               *)
Chained(parsed, uuid) ==
    IF None \in ToSet(parsed) THEN None
    ELSE IF uuid # None THEN Append(parsed, UuidTailSegment(uuid))
    ELSE IF Len(parsed) = 1 /\ ~parsed[1].is_type /\ ~IsWildcard(parsed[1]) THEN None
    ELSE parsed

ParseRaw(raw, uuid, allow_wildcards) ==
    IF raw = None THEN None
    ELSE Chained([k \in DOMAIN raw |->
                    ParseSegmentParts(raw[k].tokens, raw[k].is_type, allow_wildcards)], uuid)

Parse(text, allow_wildcards) ==
    LET tail == UuidTailOf(text.parts)
    IN  ParseRaw(SplitRawSegments(text, tail, allow_wildcards), tail, allow_wildcards)

(* GtsId::try_new and GtsIdPattern::try_new.                               *)
ParseId(text) == Parse(text, FALSE)
ParsePattern(text) == Parse(text, TRUE)

---------------------------------------------------------------------------
(* GtsId. *)

IsType(text) == Last(text.parts) = Nothing

(* The first segments, as the text they were.                              *)
Prefix(text, n) == Text(Append(SubSeq(text.parts, 1, n), Nothing))

GetTypeId(text, id) == IF Len(id) < 2 THEN None ELSE Prefix(text, Len(id) - 1)

ChainIds(text, id) ==
    [k \in DOMAIN id |-> IF k = Len(id) THEN text ELSE Prefix(text, k)]

(* Its own UUID, or the one derived from the text.                         *)
ToUuid(text, id) ==
    IF Last(id).uuid # None THEN [uuid |-> Last(id).uuid] ELSE [derived_from |-> text]

---------------------------------------------------------------------------
(* GtsOps. *)

ParsedAs(text) == Parse(text, HasStar(text))

Validated(text, segments) ==
    [valid |-> segments # None, is_wildcard |-> HasStar(text),
     is_type |-> IF segments = None THEN None ELSE ~HasStar(text) /\ IsType(text)]

ValidateId(text) == Validated(text, ParsedAs(text))

Matched(candidate, cand, pat) ==
    IF cand = None THEN [is_match |-> FALSE, error |-> "candidate"]
    ELSE IF pat = None THEN [is_match |-> FALSE, error |-> "pattern"]
    ELSE [is_match |-> IF HasStar(candidate) THEN Covers(pat, cand) ELSE Matches(pat, cand),
          error |-> None]

MatchIdPattern(candidate, pattern) ==
    Matched(candidate, ParsedAs(candidate), ParsePattern(pattern))
=============================================================================
