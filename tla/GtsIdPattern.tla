---------------------------- MODULE GtsIdPattern ----------------------------
(***************************************************************************)
(* GTS identifiers, the patterns that select them, and coverage of one     *)
(* pattern by another (gts-id).                                            *)
(*                                                                         *)
(* An identifier is a chain of segments, all but the last of them types; a *)
(* pattern may replace the last by a wildcard that keeps a prefix of it.   *)
(* Two algorithms look at them: matches_views, which tests an identifier   *)
(* against a pattern segment by segment, and covers, which decides from    *)
(* two patterns alone whether one selects all the other does, down to what *)
(* fits under the length limit.                                            *)
(*                                                                         *)
(* Text is abstracted to segments; what remains of it is its length.       *)
(***************************************************************************)
EXTENDS Naturals, SequencesExt

CONSTANTS
    Tokens,        \* names a segment may be made of
    TokenLength,   \* [Tokens -> Nat \ {0}]
    Fields,        \* names in a segment: four in the code
    Versions,      \* version numbers, major or minor
    DigitCount,    \* [Versions -> Nat \ {0}]
    Uuids,         \* UUIDs an anonymous instance may carry
    UuidLength,    \* 36 in the code
    PrefixLength,  \* length of "gts."
    MaxLength,     \* GTS_ID_MAX_LENGTH
    None           \* "not specified"

---------------------------------------------------------------------------
(* Segments. *)

NoNames == <<>>

Named ==
    [kind : {"named"}, names : [1 .. Fields -> Tokens],
     major : Versions, minor : Versions \cup {None},
     is_type : BOOLEAN, uuid : {None}]

UuidTail ==
    [kind : {"uuid"}, names : {NoNames}, major : {None}, minor : {None},
     is_type : {FALSE}, uuid : Uuids]

(* What precedes the `*`: some of the names, or all of them and a major.   *)
(* `v*` is read as `*`: its text is one longer, it selects the same.       *)
Wildcard ==
    [kind : {"wildcard"}, names : UNION {[1 .. n -> Tokens] : n \in 0 .. Fields},
     major : {None}, minor : {None}, is_type : {FALSE}, uuid : {None}]
    \cup [kind : {"wildcard"}, names : [1 .. Fields -> Tokens],
          major : Versions, minor : {None}, is_type : {FALSE}, uuid : {None}]

(* What is assumed of the constants.                                       *)
WellFormed ==
    /\ Fields \in Nat \ {0}
    /\ Tokens # {} /\ TokenLength \in [Tokens -> Nat \ {0}]
    /\ Versions # {} /\ DigitCount \in [Versions -> Nat \ {0}]
    /\ UuidLength \in Nat \ {0} /\ {PrefixLength, MaxLength} \subseteq Nat
    /\ None \notin Versions \cup Uuids \cup Named \cup UuidTail \cup Wildcard

(* There is a choice of one-letter names and of one-digit versions.       *)
Ample ==
    /\ \E a, b \in Tokens : a # b /\ TokenLength[a] = 1 /\ TokenLength[b] = 1
    /\ \E v, w \in Versions : v # w /\ DigitCount[v] = 1 /\ DigitCount[w] = 1

IsWildcard(seg) == seg.kind = "wildcard"

(* A wildcard that specifies nothing: its text is `*` alone. *)
IsBare(seg) == IsWildcard(seg) /\ seg.names = NoNames

(* By prefixes, so that lemmas can follow it.                             *)
Total(lengths) ==
    LET Upto[k \in 0 .. Len(lengths)] == IF k = 0 THEN 0 ELSE Upto[k - 1] + lengths[k]
    IN  Upto[Len(lengths)]

NamesLength(names) == Total([k \in DOMAIN names |-> TokenLength[names[k]]])

(* Each name is followed by a dot, a version starts with `v`. *)
SegmentLength(seg) ==
    IF seg.kind = "uuid" THEN UuidLength
    ELSE NamesLength(seg.names) + Len(seg.names)
         + (IF seg.major = None THEN 0 ELSE 1 + DigitCount[seg.major])
         + (IF seg.minor = None THEN 0 ELSE 1 + DigitCount[seg.minor])
         + (IF seg.is_type THEN 1 ELSE 0)
         + (IF ~IsWildcard(seg) THEN 0 ELSE IF seg.major = None THEN 1 ELSE 2)

ChainLength(segs) == Total([k \in DOMAIN segs |-> SegmentLength(segs[k])])

TextLength(segs) == PrefixLength + ChainLength(segs)

---------------------------------------------------------------------------
(* Parsed identifiers and patterns. *)

AllTypes(segs) == \A k \in DOMAIN segs : segs[k].kind = "named" /\ segs[k].is_type

(* parse_id: an instance, named or anonymous, follows at least one type. *)
IsIdentifier(id) ==
    /\ id \in Seq(Named \cup UuidTail) /\ id # <<>>
    /\ TextLength(id) <= MaxLength
    /\ AllTypes(Front(id))
    /\ Len(id) = 1 => Last(id).is_type

(* parse_pattern: a wildcard stands last, and may stand alone. *)
IsPattern(p) ==
    \/ IsIdentifier(p)
    \/ /\ p \in Seq(Named \cup Wildcard) /\ p # <<>>
       /\ Last(p) \in Wildcard /\ AllTypes(Front(p))
       /\ TextLength(p) <= MaxLength

---------------------------------------------------------------------------
(* GtsIdPattern::matches_views. *)

(* The specified names of a partial segment are those of seg. *)
NamesCover(partial, seg) ==
    \A k \in DOMAIN partial.names :
        k \in DOMAIN seg.names /\ partial.names[k] = seg.names[k]

(* `v1.*` requires an explicit minor. *)
Admits(partial, seg) ==
    /\ NamesCover(partial, seg)
    /\ partial.major # None => seg.major = partial.major /\ seg.minor # None

SegmentMatches(p, seg) ==
    /\ p.uuid # None => p.uuid = seg.uuid
    /\ p.names = seg.names
    /\ p.major = seg.major
    /\ p.minor # None => p.minor = seg.minor
    /\ p.is_type = seg.is_type

(* A slip: a bare wildcard asks for a segment of its own. *)
MatchesBeyond(pattern, id) ==
    /\ Len(pattern) <= Len(id)
    /\ \A k \in DOMAIN pattern :
           IF IsWildcard(pattern[k]) THEN Admits(pattern[k], id[k])
           ELSE SegmentMatches(pattern[k], id[k])

Matches(pattern, id) ==
    LET last == Len(pattern)
        required == IF IsBare(pattern[last]) THEN last - 1 ELSE last
    IN /\ required <= Len(id)
       /\ \A k \in 1 .. last : k <= Len(id) =>
              IF IsWildcard(pattern[k]) THEN Admits(pattern[k], id[k])
              ELSE SegmentMatches(pattern[k], id[k])

---------------------------------------------------------------------------
(* GtsIdPattern::covers. *)

(* What a pattern selects: one instance up to its minor version, or all    *)
(* that follows a chain of types, next saying how it has to go on.         *)
SelectionOf(pattern) ==
    LET last == Last(pattern) IN
    IF IsWildcard(last)
    THEN [instance |-> FALSE, types |-> Front(pattern),
          next |-> IF IsBare(last) THEN None ELSE last]
    ELSE IF last.is_type
    THEN [instance |-> FALSE, types |-> pattern, next |-> None]
    ELSE [instance |-> TRUE, types |-> Front(pattern), next |-> last]

(* The length of the shortest text a partial segment stands for: names of  *)
(* one letter and the version `v0` for what is left open; in `v1.*` the    *)
(* `*` becomes a one-digit minor.                                          *)
ShortestPartial(partial) ==
    IF partial.major # None THEN SegmentLength(partial)
    ELSE NamesLength(partial.names) + (Fields - Len(partial.names)) + Fields + 2

ShortestSegment == 2 * Fields + 2

ShortestSelected(sel) ==
    LET chain == PrefixLength + ChainLength(sel.types) IN
    IF sel.instance THEN chain + SegmentLength(sel.next)
    ELSE IF sel.next = None /\ sel.types # <<>> THEN chain
    ELSE chain + (IF sel.next = None THEN ShortestSegment ELSE ShortestPartial(sel.next))
               + (IF sel.types = <<>> THEN 1 ELSE 0)

(* A version without a minor covers every minor. *)
SegmentCovers(a, b) ==
    /\ a.names = b.names
    /\ a.major = b.major
    /\ a.minor = None \/ a.minor = b.minor

ChainCovers(a, b) == \A k \in DOMAIN a : SegmentCovers(a[k], b[k])

SameChainCovers(a, b) == Len(a) = Len(b) /\ ChainCovers(a, b)

PartialCovers(a, b) == NamesCover(a, b) /\ (a.major # None => b.major = a.major)

TailCovers(a, b) ==
    IF a.uuid # None \/ b.uuid # None THEN a.uuid = b.uuid ELSE SegmentCovers(a, b)

InstanceCoversInstance(op, val) ==
    SameChainCovers(op.types, val.types) /\ TailCovers(op.next, val.next)

(* At the limit only instances with a one-digit minor fit in val. *)
InstanceCoversScope(op, val) ==
    /\ val.next # None
    /\ SameChainCovers(op.types, val.types)
    /\ op.next.uuid = None /\ op.next.minor = None
    /\ op.next.names = val.next.names
    /\ op.next.major = val.next.major

ScopeCoversInstance(op, val) ==
    LET n == Len(op.types) IN
    /\ Len(val.types) >= n
    /\ ChainCovers(op.types, val.types)
    /\ op.next # None =>
          Admits(op.next, IF n < Len(val.types) THEN val.types[n + 1] ELSE val.next)

(* A first segment can only be a type, so `v1.*` stays within `v1~`. *)
FirstTypeCovers(op, val) ==
    /\ Len(op.types) = 1 /\ op.next = None
    /\ val.types = <<>> /\ val.next # None
    /\ op.types[1].minor = None
    /\ op.types[1].names = val.next.names
    /\ op.types[1].major = val.next.major

ScopeCoversScope(op, val) ==
    LET n == Len(op.types) IN
    IF n > Len(val.types) THEN FirstTypeCovers(op, val)
    ELSE /\ ChainCovers(op.types, val.types)
         /\ op.next # None =>
               IF n < Len(val.types) THEN Admits(op.next, val.types[n + 1])
               ELSE val.next # None /\ PartialCovers(op.next, val.next)

(* A slip: an instance is thought never to cover a scope. *)
CoversBelowLimit(op, val, at_limit) ==
    \/ op.instance /\ val.instance /\ InstanceCoversInstance(op, val)
    \/ ~op.instance /\ val.instance /\ ScopeCoversInstance(op, val)
    \/ ~op.instance /\ ~val.instance /\ ScopeCoversScope(op, val)

CoversNonempty(op, val, at_limit) ==
    \/ op.instance /\ val.instance /\ InstanceCoversInstance(op, val)
    \/ op.instance /\ ~val.instance /\ at_limit /\ InstanceCoversScope(op, val)
    \/ ~op.instance /\ val.instance /\ ScopeCoversInstance(op, val)
    \/ ~op.instance /\ ~val.instance /\ ScopeCoversScope(op, val)

Covers(pattern, other) ==
    LET val == SelectionOf(other)
        shortest == ShortestSelected(val)
    IN \/ shortest > MaxLength
       \/ CoversNonempty(SelectionOf(pattern), val, shortest = MaxLength)
---------------------------------------------------------------------------
(* The patterns over chains of up to three segments that fit in MaxLength, *)
(* and the identifiers among them: what coverage is judged by.             *)
Types == {seg \in Named : seg.is_type}
Lasts == Named \cup UuidTail \cup Wildcard

Fits(segs) == TextLength(segs) <= MaxLength

Chains1 == {<<s>> : s \in Lasts}
Scopes1 == {segs \in {<<t>> : t \in Types} : Fits(segs)}
Chains2 == {Append(scope, s) : scope \in Scopes1, s \in Lasts}
Scopes2 == {segs \in {Append(scope, t) : scope \in Scopes1, t \in Types} : Fits(segs)}
Chains3 == {Append(scope, s) : scope \in Scopes2, s \in Lasts}

Patterns == {p \in Chains1 \cup Chains2 \cup Chains3 : IsPattern(p)}
Identifiers == {p \in Patterns : IsIdentifier(p)}
============================================================================
