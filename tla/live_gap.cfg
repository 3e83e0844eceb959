SPECIFICATION Spec
CONSTANTS
    Null = Null
    Instances = {i1}
    Conns = {k1}
    Buffer = 1
    MaxVersion = 1
    Clients = {c1}
    Slow = {}
    Edits = {}
    MaxRetries = 2
    Events = {}
    MaxEvents = 0
INVARIANT ConnectedClientsAreServed
CHECK_DEADLOCK FALSE
