----------------------------- MODULE MCPatterns -----------------------------
(***************************************************************************)
(* Every pair of patterns whose identifiers fit in MaxLength, compared     *)
(* with the sets of identifiers they select, in two worlds.                *)
(*                                                                         *)
(* One name per segment: chains of up to three segments, with and without  *)
(* minor versions, UUID tails, and a name long enough that some patterns   *)
(* select nothing and some only what is exactly at the limit.  Two names   *)
(* per segment, so that a wildcard may stand after some of them: chains of *)
(* two.                                                                    *)
(***************************************************************************)
EXTENDS MCEvolution

CONSTANTS long, uuid, other_uuid

Lengths(longest) == [token \in {"a", "b", long} |-> IF token = long THEN longest ELSE 1]

Short == INSTANCE GtsIdPattern WITH
    Tokens <- {"a", "b", long}, TokenLength <- Lengths(9), Fields <- 1,
    Versions <- {0, 1}, DigitCount <- [v \in {0, 1} |-> 1],
    Uuids <- {uuid, other_uuid}, UuidLength <- 6, PrefixLength <- 4, MaxLength <- 20

Wide == INSTANCE GtsIdPattern WITH
    Tokens <- {"a", "b", long}, TokenLength <- Lengths(4), Fields <- 2,
    Versions <- {0, 1}, DigitCount <- [v \in {0, 1} |-> 1],
    Uuids <- {uuid}, UuidLength <- 8, PrefixLength <- 4, MaxLength <- 19

(* The names include one that reads as a version.                          *)
MCLexemes == {"a", "v1", "v0", "v01", "0", "01", "*", "v*", "a*", "", "x-y", "A", uuid}

Spelt == INSTANCE MCSpellings WITH
    Tokens <- {"a", "v1"}, TokenLength <- ("a" :> 1) @@ ("v1" :> 2), Fields <- 1,
    Versions <- {0, 1}, DigitCount <- [v \in {0, 1} |-> 1],
    Uuids <- {uuid}, UuidLength <- 6, PrefixLength <- 4, MaxLength <- 19,
    Lexemes <- MCLexemes,
    LexemeLength <- [x \in MCLexemes \cup {"1"} |->
        CASE x \in {"v1", "v0", "01", "v*", "a*"} -> 2 [] x \in {"v01", "x-y"} -> 3
          [] x = "" -> 0 [] x = uuid -> 6 [] OTHER -> 1],
    MajorOf <- [x \in MCLexemes |-> CASE x = "v0" -> 0 [] x = "v1" -> 1 [] OTHER -> None],
    MinorOf <- [x \in MCLexemes \cup {"1"} |-> CASE x = "0" -> 0 [] x = "1" -> 1 [] OTHER -> None],
    Capitals <- {"A"}, Hyphenated <- {"x-y", uuid}, Starred <- {"*", "v*", "a*"}

ASSUME ConstantsAssumption ==
    /\ Short!WellFormed /\ Wide!WellFormed /\ Spelt!WellFormed
    /\ Short!Ample /\ Wide!Ample

-----------------------------------------------------------------------------
ShortSelected ==
    LET identifiers == Short!Identifiers
    IN  [p \in Short!Patterns |-> {id \in identifiers : Short!Matches(p, id)}]

WideSelected ==
    LET identifiers == Wide!Identifiers
    IN  [p \in Wide!Patterns |-> {id \in identifiers : Wide!Matches(p, id)}]

ShortPatterns == [asks |-> {"short"}, values |-> {}, docs |-> Short!Patterns]
WidePatterns == [asks |-> {"wide"}, values |-> {}, docs |-> Wide!Patterns]
Spelling == [asks |-> {"spelling"}, values |-> {}, docs |-> Spelt!Texts]
Spelled == [asks |-> {"spelled"}, values |-> {}, docs |-> Spelt!Patterns]

PatternsAsked == Asked("short") \/ Asked("wide")

Selected == IF "short" \in asks THEN ShortSelected ELSE WideSelected
Covered(p, q) == IF "short" \in asks THEN Short!Covers(p, q) ELSE Wide!Covers(p, q)

-----------------------------------------------------------------------------
(* Coverage, decided from the text of two patterns, is containment of what *)
(* they select, both ways, at the length limit too (GtsIdPattern::covers:  *)
(* "every GTS ID matched by the other pattern is also matched by self").   *)
CoverageExact ==
    PatternsAsked =>
        (Covered(old, new) <=> Selected[new] \subseteq Selected[old])

(* A text is read as the one identifier or pattern it spells and refused   *)
(* if it spells none, and the identifiers above one are its beginnings     *)
(* (parse_id, parse_pattern, chain_ids, get_type_id).  And whether a       *)
(* candidate matches does not depend on the way that judges it: for an     *)
(* identifier the one for identifiers and the one for patterns, taken      *)
(* where it has a star, agree (match_id_pattern, to_pattern: "the implicit *)
(* envelope").                                                             *)
SpellingExact ==
    /\ AskedOfOne("spelling") => Spelt!ReadRight(old) /\ Spelt!ChainRight(old)
    /\ AskedOfOne("spelled") => Spelt!Told(old)
    /\ (Asked("spelled") /\ Spelt!IsIdentifier(new)) => Spelt!JudgedAlike(old, new)
=============================================================================
