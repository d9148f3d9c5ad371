SPECIFICATION Spec
CONSTANTS
    None = None
    SelfId = SelfId
    Elements = Elements
    Names <- MCNames
    PatternNames = {"b"}
    Strings <- MCStrings
    LengthOf <- MCLength
    MatchedBy <- MCMatched
    KindOf <- MCKind
    Selects <- MCSelects
    Exhibits <- MCExhibits
    Double <- Exact
    MaxDepth = 3
    MaxLength = 7
    ShortestTail = 3
    FamilyCount = 17
    FamilyOf <- FilesFamilyOf
    ParentOf <- MCParentOf
    Prefixed = {"a"}
INVARIANTS
    ProvenInclusion
    Refuted
    FlatteningExact
    LevelsHonest
    BaseUsable
    AdmittedIncluded
    CastLands
    Keyed
    GraphComplete
    QueryHonest
    ReportSound
    ScanHonest
