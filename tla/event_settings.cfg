SPECIFICATION Spec
CONSTANTS
    root = root
    eve = eve
    q1 = q1
    q2 = q2
    Null = Null
    Pages = {root, eve}
    SuperAdmins = {root}
    People = {root, eve}
    Teams = {"bar", "door"}
    Names = {"camp", "fair"}
    Texts = {"", "hall 2"}
    Slugs = {"s1", "s2"}
    Needs = {"two"}
    BadNeeds = {"backwards"}
    NeedIds = {"n1", "n2"}
    TypedHours <- SoundAndNot
    Empty = Empty
    Requests = {q1, q2}
    InitDB <- Stored
    Worked = {"details", "access", "teams", "admins", "pinned", "hidden", "coverage"}
    Refocused = {root}
    LateKeys = {"pinned"}
SYMMETRY AnyOrder
INVARIANTS TypeOK OwnChangesAreReadBack
PROPERTIES RangeEditsAreExact SaveKeepsOthersChanges
CHECK_DEADLOCK FALSE
