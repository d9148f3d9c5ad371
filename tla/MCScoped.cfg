SPECIFICATION Spec
CONSTANTS
    None = None
    SelfId = SelfId
    Elements = Elements
    Names <- MCNames
    PatternNames = {"b"}
    Strings <- MCStrings
    LengthOf <- MCLength
    MatchedBy <- MCMatched
    KindOf <- MCKind
    Selects <- MCSelects
    Exhibits <- MCExhibits
    Double <- Exact
    MaxDepth = 3
    MaxLength = 7
    ShortestTail = 3
    FamilyCount = 1
    FamilyOf <- ScopedFamilyOf
INVARIANT
    ProvenInclusion
