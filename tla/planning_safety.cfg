SPECIFICATION Spec
CONSTANTS
    alice = alice
    bob = bob
    root = root
    guest = guest
    crew = crew
    r1 = r1
    r2 = r2
    r3 = r3
    Null = Null
    Users = {alice, bob, root, guest}
    SuperAdmins = {root}
    ReadOnlyUsers = {guest}
    Teams = {crew}
    Reqs = {r1, r2}
    MaxTime = 3
    MaxRequired = 1
    MaxShifts = 1
    MaxCoverage = 2
    Asked <- SafetyAsked
    InitEvent <- InnerEvent
    InitAdmins = {bob}
    InitCoverage <- OneSeat
SYMMETRY AnyOrder
INVARIANTS TypeOK StaleGridIsAnnounced ShiftsOrdered ShiftsWithinEvent
PROPERTY LockFreezesShifts
