SPECIFICATION FairSpec
CONSTANTS
    h0 = h0
    h1 = h1
    h2 = h2
    h3 = h3
    f0 = f0
    f1 = f1
    c0 = c0
    c1 = c1
    c2 = c2
    host = host
    foreign = foreign
    Nodes <- MCNodes
    Host = h0
    TypeIds = {host, foreign}
    Nowhere = Nowhere
    Cases <- MCCases
    Modes = {"partial", "full"}
    MaxDepth = 4
INVARIANTS
    ResolvedIsSound
    RefusedForCause
    FragmentsClosed
PROPERTIES
    Terminates
