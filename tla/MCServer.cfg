SPECIFICATION ServerSpec
CONSTANTS
    base = base
    leaf = leaf
    peer = peer
    item = item
    c1 = c1
    c2 = c2
    Clients = {c1, c2}
    None = None
    NoType = NoType
    NoId = NoId
    TypeIds <- MCTypeIds
    InstanceIds <- MCInstanceIds
    Base <- MCBase
    Ancestors <- MCAncestors
    Dialects = {"draft-07"}
    Calls <- ServerCalls
    Requests <- MCServerRequests
    Disks <- MCFiles
PROPERTIES
    ServiceSpec
    RepeatAccepted
    EveryoneAnswered
