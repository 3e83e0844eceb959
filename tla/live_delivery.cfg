SPECIFICATION Spec
CONSTANTS
    Null = Null
    Instances = {i1, i2}
    Conns = {k1, k2}
    Buffer = 1
    MaxVersion = 2
    Clients = {c1}
    Slow = {}
    Edits = {m1, m2}
    MaxRetries = 2
    Events <- AllEvents
    MaxEvents = 2
SYMMETRY AnyOrder
INVARIANTS
    TypeOK
    ChannelsOpen
    GuessesAreReplaced
    NothingAnnouncedIsLost
CHECK_DEADLOCK FALSE
