SPECIFICATION FairSpec
CONSTANTS
    alice = alice
    bob = bob
    root = root
    guest = guest
    crew = crew
    r1 = r1
    r2 = r2
    r3 = r3
    Null = Null
    Users = {alice, bob, root}
    SuperAdmins = {root}
    ReadOnlyUsers = {}
    Teams = {crew}
    Reqs = {r1, r2}
    MaxTime = 2
    MaxRequired = 2
    MaxShifts = 3
    MaxCoverage = 2
    Asked <- LiveAsked
    InitEvent <- WholeEvent
    InitAdmins = {bob}
    InitCoverage <- TwoWindows
INVARIANT BoundedOverbooking
PROPERTIES EveryRequestAnswered LockEventuallyFreezes
