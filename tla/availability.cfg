SPECIFICATION Spec
CONSTANTS
    s1 = s1
    s2 = s2
    t1 = t1
    Null = Null
    Tabs = {t1}
    Saves = {s1, s2}
    available = available
    unavailable = unavailable
    Statuses = {available, unavailable}
    EventStart = 0
    EventEnd = 5
    Gran = 2
    Horizon = 7
    InitEntries <- Earlier
SYMMETRY AnyOrder
INVARIANTS TypeOK OverlapsNeedRivals OwnSaveIsSeen
PROPERTIES ReplacesAll StoresThePainting
CHECK_DEADLOCK FALSE
