SPECIFICATION FairSpec
CONSTANTS
    Null = Null
    Instances = {i1}
    Conns = {k1, k2}
    Buffer = 1
    MaxVersion = 2
    Clients = {c1, c2}
    Slow = {c2}
    Edits = {m1}
    MaxRetries = 2
    Events <- Calm
    MaxEvents = 1
PROPERTY GridCatchesUp
CHECK_DEADLOCK FALSE
