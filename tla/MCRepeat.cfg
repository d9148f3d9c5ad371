SPECIFICATION FairSpec
CONSTANTS
    a = a
    b = b
    c = c
    i = i
    NoType = NoType
    TypeIds <- MCTypeIds
    InstanceIds = {i}
    Base <- MCBase
    Ancestors <- MCAncestors
    Dialects = {"draft-07"}
    Registries <- MCRegistries
    Requests <- MCRequests
    MaxCalls = 2
INVARIANTS
    CachesAgree
    InvalidDeserved
    SearchInv
PROPERTIES
    Terminates
    ServiceSpec
