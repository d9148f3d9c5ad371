SPECIFICATION Spec
CONSTANTS
    h0 = h0
    h1 = h1
    h2 = h2
    h3 = h3
    f0 = f0
    f1 = f1
    c0 = c0
    c1 = c1
    c2 = c2
    host = host
    foreign = foreign
    Nodes = {h0, h1, h2, f0}
    Host = h0
    TypeIds = {foreign}
    Nowhere = Nowhere
    Cases <- Moved
    Modes = {"partial"}
    MaxDepth = 32
INVARIANTS
    KeptPointersHold
