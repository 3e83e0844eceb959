--------------------------- MODULE MCUserManagement ---------------------------
(* Instances of UserManagement for TLC: two super admins, a dummy and an    *)
(* account that signs in elsewhere.                                        *)
EXTENDS UserManagement, TLC

CONSTANTS q1, q2

Person(name, totp) ==
    [name |-> name, role |-> "super_admin", active |-> TRUE, type |-> "local", pass |-> TRUE, totp |-> totp]
Placeholder(name) ==
    [name |-> name, role |-> "user", active |-> TRUE, type |-> "dummy", pass |-> FALSE, totp |-> "off"]
Elsewhere(name) == [Person(name, "off") EXCEPT !.role = "user", !.type = "oauth", !.pass = FALSE]
FourAccounts == <<Elsewhere("ann"), Person("root", "off"), Person("eve", "on"), Placeholder("gate")>>

Viewing == [by |-> {2}, uses |-> {"views"}]
Rights == [by |-> {2, 3}, uses |-> {"list"}]
Editing == [by |-> {2}, uses |-> {"edit", "create", "delete"}]
EachInTurn == {Viewing, Rights, Editing}

AnyOrder == Permutations(Requests)
=============================================================================
