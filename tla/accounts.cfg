SPECIFICATION Spec
CONSTANTS
    d1 = d1
    d2 = d2
    Calls = {"c1", "c2", "c3", "c4"}
    NoCall = NoCall
    CodesEach = 1
    Devices = {d1, d2}
    Names = {"ann", "bob"}
    Mails = {"a@x", "taken"}
    Taken = {"taken"}
    Providers = {"p1"}
    Visits <- OpensPage
    Sends <- SendsMore
    InUse = {"profile", "connections", "register", "factor"}
    Nothing = Nothing
SYMMETRY AnyOrder
INVARIANTS TypeOK OwnChangesAreShown OwnSwitchIsSeen ShownCodesAreStored SavesSendOnlyTyped SomeoneAdministers EnabledSecretIsConfirmed
CHECK_DEADLOCK FALSE
