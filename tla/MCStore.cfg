SPECIFICATION FairSpec
CONSTANTS
    base = base
    leaf = leaf
    peer = peer
    item = item
    NoType = NoType
    NoId = NoId
    TypeIds <- MCTypeIds
    InstanceIds <- MCInstanceIds
    Base <- MCBase
    Ancestors <- MCAncestors
    Dialects = {"draft-07"}
    Calls <- MCCalls
    Disks <- MCDisks
INVARIANTS
    AnswersHonest
    VettedStayValid
PROPERTIES
    RegistrySpec
    Returns
