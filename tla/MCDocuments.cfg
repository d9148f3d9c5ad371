SPECIFICATION Spec
CONSTANTS
    None = None
    SelfId = SelfId
    Elements = Elements
    Names <- MCNames
    PatternNames = {"b"}
    Strings <- MCStrings
    LengthOf <- MCLength
    MatchedBy <- MCMatched
    KindOf <- MCKind
    Selects <- MCSelects
    Exhibits <- MCExhibits
    Double <- Exact
    MaxDepth = 8
    MaxLength = 7
    ShortestTail = 3
    FamilyCount = 11
    FamilyOf <- DocumentFamilyOf
    AnyEntity = "t1"
    Absent = Absent
    ChainOf <- MCChainOf
    long = long
    uuid = uuid
    other_uuid = other_uuid
INVARIANTS
    CoverageExact
    TraitsMerged
    TraitsDecided
    ReadAsDeclared
    
    RejectionsExplained
    SpellingExact
    InstancesFit
    CompiledAdmitted
