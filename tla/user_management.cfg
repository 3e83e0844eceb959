SPECIFICATION Spec
CONSTANTS
    q1 = q1
    q2 = q2
    Null = Null
    Admins = {2, 3}
    InitUsers <- FourAccounts
    MaxUsers = 5
    Names = {"ann", "root", "eve", "gate", "new"}
    Typed = {"new"}
    Requests = {q1, q2}
    PageSize = 3
    Assigned = {"super_admin", "user"}
    InUse <- EachInTurn
SYMMETRY AnyOrder
INVARIANTS TypeOK LocalsHavePasswords PagesAreFilled
PROPERTIES LastAdminGoesKnowingly OnlyDummiesAreDeleted
CHECK_DEADLOCK FALSE
