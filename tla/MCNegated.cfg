SPECIFICATION Spec
CONSTANTS
    base = base
    leaf = leaf
    peer = peer
    host = host
    culprit = culprit
    other = other
    holder = holder
    item = item
    NoType = NoType
    TypeIds <- NegatedTypeIds
    InstanceIds <- NegatedInstanceIds
    Base <- NegatedBase
    Ancestors <- NegatedAncestors
    Dialects = {"draft-07"}
    Registries <- NegatedRegistries
    Requests <- NegatedRequests
    MaxCalls = 1
INVARIANTS
    VerdictsJustified
