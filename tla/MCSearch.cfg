SPECIFICATION Spec
CONSTANTS
    base = base
    leaf = leaf
    peer = peer
    other = other
    item = item
    host = host
    culprit = culprit
    holder = holder
    NoType = NoType
    TypeIds <- MCTypeIds
    InstanceIds <- MCInstanceIds
    Base <- MCBase
    Ancestors <- MCAncestors
    Dialects = {"draft-07", "2020-12"}
    Registries <- MCRegistries
    Requests <- MCRequests
    MaxCalls = 1
INVARIANTS
    AnswerCorrect
    NoReentry
    VerdictsJustified
