SPECIFICATION Spec
CONSTANTS
    alice = alice
    bob = bob
    bar = bar
    door = door
    q1 = q1
    q2 = q2
    Null = Null
    DayHours = 4
    Roster <- TwoUsers
    Pinned = {}
    EventTeams <- BothTeams
    Coverage <- TwoNeeded
    Availability <- BobIsFree
    Me = alice
    Event <- TwoDays
    Hidden <- LastHour
    Teams = {bar, door}
    ShiftIds = {1, 2}
    Requests = {q1, q2}
    InitRights <- EventAdmin
    MaxChanges = 1
    Sessions <- EachInTurn
SYMMETRY AnyOrder
INVARIANTS TypeOK BarsAgreeWithBlocks BlockWidthIsVisibleTime StatsAddUp NoGuessSurvives
PROPERTIES SavesOnlyChangedPeople
CHECK_DEADLOCK FALSE
