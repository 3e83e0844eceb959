SPECIFICATION Spec
CONSTANTS
    alice = alice
    bob = bob
    root = root
    guest = guest
    crew = crew
    r1 = r1
    r2 = r2
    r3 = r3
    Null = Null
    Users = {alice, bob}
    SuperAdmins = {}
    ReadOnlyUsers = {}
    Teams = {crew}
    Reqs = {r1, r2}
    MaxTime = 3
    MaxRequired = 1
    MaxShifts = 2
    MaxCoverage = 1
    Asked <- RangeAsked
    InitEvent <- WholeEvent
    InitAdmins = {alice, bob}
    InitCoverage <- NoCoverage
SYMMETRY AnyOrder
INVARIANT EventOrdered
