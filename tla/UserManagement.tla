---------------------------- MODULE UserManagement ----------------------------
(***************************************************************************)
(* The administration of the accounts: UserService, statement by statement, *)
(* as several super admins call it at once, each from the page of their    *)
(* own browser, whose list of accounts is as old as its last answer.       *)
(* Names and descriptions that nothing depends on have no state.           *)
(***************************************************************************)
EXTENDS Integers, FiniteSets, Sequences

CONSTANTS
    Admins,        \* the accounts with a browser that shows the page
    InitUsers,     \* the accounts to begin with, in the order of creation
    MaxUsers,      \* Bound: accounts that are ever created
    Names,         \* usernames; two that differ in case are one name
    Typed,         \* Bound: usernames typed into the forms
    Requests,      \* Bound: requests the pages may send, each once
    PageSize,
    Assigned,      \* Bound: roles that are given to accounts
    InUse,         \* Bound: in one behaviour, who works and with what: set of [by, uses]
    Null

Ids == 1 .. MaxUsers
Roles == {"super_admin", "user", "read_only"}
Types == {"local", "oauth", "dummy"}
Ops == {"update", "create", "delete", "totp"}
Factors == {"on", "codes", "off"}    \* "codes": off, with recovery codes left

Account == [name : Names, role : Roles, active : BOOLEAN, type : Types, pass : BOOLEAN, totp : Factors]
Row == [id : Ids, user : Account]    \* of the list

ASSUME UserManagementAssumption ==
    /\ Admins \subseteq Ids /\ \A x \in InUse : x.by \subseteq Admins
    /\ MaxUsers \in Nat /\ PageSize \in Nat \ {0}
    /\ InitUsers \in Seq(Account) /\ Len(InitUsers) <= MaxUsers
    /\ \A id \in 1 .. Len(InitUsers) : InitUsers[id].type = "local" => InitUsers[id].pass
    /\ Typed \subseteq Names /\ Assigned \subseteq Roles
    /\ Null \notin Account /\ Null \notin Row /\ Null # {} /\ Null \notin Names /\ Null \notin BOOLEAN
    /\ Null \notin Roles \cup Types \cup Ops /\ Null \notin Ids

VARIABLES
    users,     \* the table; Null for an account that is deleted or not created yet
    created,   \* how many accounts were ever created
    loose,     \* history: accounts of which an update broke off after the password was
               \* cleared, or two overlapped
    pages,     \* per super admin: what the page shows
    asks,      \* the requests
    part       \* Bound: one of InUse, fixed in Init

vars == <<users, created, loose, pages, asks, part>>

Live == {id \in Ids : users[id] # Null}

-----------------------------------------------------------------------------
(* What is listed.                                                         *)

NoView == [search |-> Null, role |-> Null, type |-> Null, hide |-> TRUE, page |-> 0]

\* Dummies are hidden unless a type is asked for.
Matches(u, view) ==
    /\ view.role \in {Null, u.role}
    /\ view.type \in {Null, u.type}
    /\ view.hide /\ view.type = Null => u.type # "dummy"

\* The newest account comes first.
Before(id, S) == Cardinality({j \in S : j > id})

\* A term is the name it finds; the search knows no filters and no pages.
Rows(view) ==
    LET matching == {id \in Live : Matches(users[id], view)}
        first == view.page * PageSize
        listed == {id \in matching : Before(id, matching) \in first .. first + PageSize - 1}
        found == {id \in Live : users[id].name = view.search}
    IN  {[id |-> id, user |-> users[id]] : id \in IF view.search = Null THEN listed ELSE found}

Total(view) == Cardinality({id \in Live : Matches(users[id], view)})

-----------------------------------------------------------------------------
(* The page: filters and pages of the list.                                *)

Unloaded == [rows |-> Null, total |-> 0]

\* A list that was cached before is fetched again here, which differs from one
\* that is not refreshed by nothing but the moment it was read.
Turn(p, view) ==
    /\ "views" \in part.uses /\ pages[p].dialog = Null
    /\ view # pages[p].view
    /\ pages' = [pages EXCEPT ![p] = [view |-> view, list |-> Unloaded, dialog |-> Null]]
    /\ UNCHANGED <<users, created, loose, asks, part>>

Search(p, term) == Turn(p, [pages[p].view EXCEPT !.search = term])

\* Mutant: the page of the list stays what it was.
FilterInPlace(p, role, type, hide) ==
    /\ hide # pages[p].view.hide => pages[p].view.type = Null
    /\ Turn(p, [pages[p].view EXCEPT !.role = role, !.type = type, !.hide = hide])

\* The box that hides dummies is disabled while a type is asked for.
Filter(p, role, type, hide) ==
    /\ hide # pages[p].view.hide => pages[p].view.type = Null
    /\ Turn(p, [pages[p].view EXCEPT !.role = role, !.type = type, !.hide = hide, !.page = 0])

NextPage(p) ==
    LET view == pages[p].view
    IN  /\ view.search = Null /\ (view.page + 1) * PageSize < pages[p].list.total
        /\ Turn(p, [view EXCEPT !.page = @ + 1])

\* Mutant: the button works on the first page.
PreviousPageAlways(p) ==
    LET view == pages[p].view
    IN  /\ view.search = Null /\ pages[p].list.total > 0
        /\ Turn(p, [view EXCEPT !.page = @ - 1])

PreviousPage(p) ==
    LET view == pages[p].view
    IN  /\ view.search = Null /\ pages[p].list.total > 0 /\ view.page > 0
        /\ Turn(p, [view EXCEPT !.page = @ - 1])

\* An answer of the list, after an invalidation or when the window got the
\* focus; nobody but an active account gets one.
Refresh(p) ==
    LET view == pages[p].view
    IN  /\ users[p] # Null /\ users[p].active
        /\ pages' = [pages EXCEPT ![p].list = [rows |-> Rows(view), total |-> Total(view)]]
        /\ UNCHANGED <<users, created, loose, asks, part>>

-----------------------------------------------------------------------------
(* The page: dialogs and what they send.                                   *)

Nothing == [name |-> Null, role |-> Null, active |-> Null, type |-> Null, pass |-> FALSE]
Unsent == [pc |-> "unsent", by |-> Null, op |-> Null, form |-> Null, id |-> Null, body |-> Nothing,
           warned |-> FALSE, saw |-> Null, met |-> FALSE]

\* What the next statement of a request is, and what it has to be answered.
Statements == {"admit", "read", "name", "password", "clear", "write", "codes"}
Underway(q) == asks[q].pc \in Statements
Pending(q) == Underway(q) \/ asks[q].pc = "done"

Shown(p) == IF pages[p].list.rows = Null THEN {} ELSE pages[p].list.rows

Dialog(kind, row, role) == [kind |-> kind, row |-> row, role |-> role, asked |-> {}]

\* A dialog covers the page.
Open(p, dialog) ==
    /\ pages[p].dialog = Null
    /\ pages' = [pages EXCEPT ![p].dialog = dialog]
    /\ UNCHANGED <<users, created, loose, asks, part>>

OpenCreate(p) == "create" \in part.uses /\ Open(p, Dialog("create", Null, Null))
OpenEdit(p, row) == "edit" \in part.uses /\ Open(p, Dialog("edit", row, Null))
AskDelete(p, row) == "delete" \in part.uses /\ row.user.type = "dummy" /\ Open(p, Dialog("delete", row, Null))

\* Escape, a click beside the dialog, or Cancel: requests go on.
Close(p) ==
    /\ pages[p].dialog # Null
    /\ pages' = [pages EXCEPT ![p].dialog = IF @.kind = "totp" THEN [@ EXCEPT !.kind = "edit"] ELSE Null]
    /\ UNCHANGED <<users, created, loose, asks, part>>

AskTotp(p) ==
    /\ pages[p].dialog # Null /\ pages[p].dialog.kind = "edit"
    /\ pages[p].dialog.row.user.totp = "on"
    /\ pages' = [pages EXCEPT ![p].dialog.kind = "totp"]
    /\ UNCHANGED <<users, created, loose, asks, part>>

\* "form" is where the request comes from, "warned" that its user was told
\* what it means for the account.
Send(p, q, op, form, id, body, warned, dialog) ==
    /\ asks[q] = Unsent
    /\ asks' = [asks EXCEPT ![q] = [Unsent EXCEPT !.pc = "admit", !.by = p, !.op = op, !.form = form,
                                                  !.id = id, !.body = body, !.warned = warned]]
    /\ pages' = [pages EXCEPT ![p].dialog =
                    IF dialog = Null THEN Null ELSE [dialog EXCEPT !.asked = @ \cup {q}]]
    /\ UNCHANGED <<users, created, loose, part>>

Busy(p, form) == \E q \in Requests : Pending(q) /\ asks[q].by = p /\ asks[q].form = form
Asked(p, op) == \E q \in pages[p].dialog.asked : Pending(q) /\ asks[q].op = op

RoleOf(role) == [Nothing EXCEPT !.role = role]
ActiveOf(active) == [Nothing EXCEPT !.active = active]

\* Mutant: one's own role is changed like any other.
ChooseRoleOfAny(p, q, row, role) ==
    /\ "list" \in part.uses /\ pages[p].dialog = Null /\ row \in Shown(p) /\ ~Busy(p, "list") /\ role # row.user.role
    /\ Send(p, q, "update", "list", row.id, RoleOf(role), FALSE, Null)

\* One's own role and one's own activity are taken after a warning only.
ChooseRole(p, q, row, role) ==
    /\ "list" \in part.uses /\ pages[p].dialog = Null /\ row \in Shown(p) /\ ~Busy(p, "list") /\ role # row.user.role
    /\ IF row.id = p
       THEN Open(p, Dialog("selfRole", row, role))
       ELSE Send(p, q, "update", "list", row.id, RoleOf(role), FALSE, Null)

ToggleActive(p, q, row) ==
    /\ "list" \in part.uses /\ pages[p].dialog = Null /\ row \in Shown(p) /\ ~Busy(p, "list")
    /\ IF row.id = p /\ row.user.active
       THEN Open(p, Dialog("selfDeactivate", row, Null))
       ELSE Send(p, q, "update", "list", row.id, ActiveOf(~row.user.active), FALSE, Null)

ConfirmSelf(p, q) ==
    LET d == pages[p].dialog
    IN  /\ d # Null /\ d.kind \in {"selfRole", "selfDeactivate"}
        /\ Send(p, q, "update", "list", d.row.id,
                IF d.kind = "selfRole" THEN RoleOf(d.role) ELSE ActiveOf(~d.row.user.active), TRUE, Null)

\* What is typed differs from the account as it was when the dialog opened, or
\* is not sent.  The dialog warns before an account becomes a dummy, and wants
\* a password before a dummy becomes an account.
SubmitEdit(p, q, name, type, pass) ==
    LET d == pages[p].dialog
        was == d.row.user
        body == [name |-> IF name = was.name THEN Null ELSE name, role |-> Null, active |-> Null,
                 type |-> IF type = was.type THEN Null ELSE type, pass |-> pass]
    IN  /\ d # Null /\ d.kind = "edit" /\ ~Asked(p, "update")
        /\ name \in Typed \cup {was.name}
        /\ (type = "oauth") = (was.type = "oauth")
        /\ type = "local" /\ was.type = "dummy" => pass
        /\ body # Nothing
        /\ Send(p, q, "update", "edit", d.row.id, body, type = "dummy", d)

SubmitCreate(p, q, name, type, role) ==
    LET d == pages[p].dialog
    IN  /\ d # Null /\ d.kind = "create" /\ ~Asked(p, "create")
        /\ type # "oauth"
        /\ Send(p, q, "create", "create", Null,
                [name |-> name, role |-> role, active |-> Null, type |-> type, pass |-> type = "local"], FALSE, d)

ConfirmDelete(p, q) ==
    LET d == pages[p].dialog
    IN  /\ d # Null /\ d.kind = "delete" /\ ~Busy(p, "delete")
        /\ Send(p, q, "delete", "delete", d.row.id, Nothing, TRUE, d)

ConfirmTotp(p, q) ==
    LET d == pages[p].dialog
    IN  /\ d # Null /\ d.kind = "totp" /\ ~Asked(p, "totp")
        /\ Send(p, q, "totp", "edit", d.row.id, Nothing, FALSE, d)

-----------------------------------------------------------------------------
(* UserService.                                                            *)

Step(q, pc) == asks' = [asks EXCEPT ![q].pc = pc]

\* The session's role and activity are read when the request comes in.
Admit(q) ==
    LET caller == users[asks[q].by]
    IN  /\ asks[q].pc = "admit"
        /\ caller # Null /\ caller.active /\ caller.role = "super_admin"
        /\ Step(q, IF asks[q].op = "create" THEN "name" ELSE "read")
        /\ UNCHANGED <<users, created, loose, pages, part>>

\* Mutant: any conversion clears the password.
AfterPasswordOfAny(r, saw) == IF r.body.type # Null /\ r.body.type # saw.type THEN "clear" ELSE "write"

\* The statements of an update that are left after one of them.
AfterPassword(r, saw) == IF r.body.type = "dummy" /\ saw.type # "dummy" THEN "clear" ELSE "write"
AfterName(r, saw) == IF r.body.pass THEN "password" ELSE AfterPassword(r, saw)
AfterRead(r, saw) == IF r.body.name \in {Null, saw.name} THEN AfterName(r, saw) ELSE "name"

\* Mutant: whatever the account is by now, it is deleted.
ReadTargetOfAny(q) ==
    LET r == asks[q]
        row == users[r.id]
    IN  /\ r.pc = "read" /\ row # Null
        /\ r.op = "totp" => row.totp = "on"
        /\ r.op = "update" /\ r.body.type = "local" /\ row.type = "dummy" => r.body.pass
        /\ asks' = [asks EXCEPT ![q].pc = IF r.op = "update" THEN AfterRead(r, row) ELSE "write", ![q].saw = row]
        /\ UNCHANGED <<users, created, loose, pages, part>>

ReadTarget(q) ==
    LET r == asks[q]
        row == users[r.id]
    IN  /\ r.pc = "read" /\ row # Null
        /\ r.op = "totp" => row.totp = "on"
        /\ r.op = "delete" => row.type = "dummy"
        /\ r.op = "update" /\ r.body.type = "local" /\ row.type = "dummy" => r.body.pass
        /\ asks' = [asks EXCEPT ![q].pc = IF r.op = "update" THEN AfterRead(r, row) ELSE "write", ![q].saw = row]
        /\ UNCHANGED <<users, created, loose, pages, part>>

CheckName(q) ==
    LET r == asks[q]
    IN  /\ r.pc = "name"
        /\ \A id \in Live \ {r.id} : users[id].name # r.body.name
        /\ Step(q, IF r.op = "create" THEN "write" ELSE AfterName(r, r.saw))
        /\ UNCHANGED <<users, created, loose, pages, part>>

\* A row that is gone by now is not written, and this is no error.
SetPass(id, pass) == users' = IF users[id] = Null THEN users ELSE [users EXCEPT ![id].pass = pass]

WritePassword(q) ==
    /\ asks[q].pc = "password"
    /\ SetPass(asks[q].id, TRUE)
    /\ Step(q, AfterPassword(asks[q], asks[q].saw))
    /\ UNCHANGED <<created, loose, pages, part>>

ClearPassword(q) ==
    /\ asks[q].pc = "clear"
    /\ SetPass(asks[q].id, FALSE)
    /\ Step(q, "write")
    /\ UNCHANGED <<created, loose, pages, part>>

\* Requests for an account that another one read before.
Rivals(id, q) == {o \in Requests \ {q} : asks[o].id = id /\ asks[o].saw # Null /\ Underway(o)}

\* COALESCE takes over what the body names; the index on names is unique.
WriteFields(q) ==
    LET r == asks[q]
        row == users[r.id]
        New(f) == IF r.body[f] = Null THEN row[f] ELSE r.body[f]
    IN  /\ r.pc = "write" /\ r.op = "update" /\ row # Null
        /\ \A id \in Live \ {r.id} : users[id].name # New("name")
        /\ users' = [users EXCEPT ![r.id] = [row EXCEPT !.name = New("name"), !.role = New("role"),
                                                        !.active = New("active"), !.type = New("type")]]
        /\ asks' = [o \in Requests |->
              IF o = q THEN [asks[q] EXCEPT !.pc = "done", !.saw = Null]
              ELSE [asks[o] EXCEPT !.met = @ \/ o \in Rivals(r.id, q)]]
        /\ loose' = IF \E o \in Rivals(r.id, q) : asks[o].op = "update" THEN loose \cup {r.id} ELSE loose
        /\ UNCHANGED <<created, pages, part>>

Insert(q) ==
    LET r == asks[q]
    IN  /\ r.pc = "write" /\ r.op = "create" /\ created < MaxUsers
        /\ \A id \in Live : users[id].name # r.body.name
        /\ users' = [users EXCEPT ![created + 1] =
              [name |-> r.body.name, role |-> r.body.role, active |-> TRUE,
               type |-> r.body.type, pass |-> r.body.pass, totp |-> "off"]]
        /\ created' = created + 1
        /\ Step(q, "done")
        /\ UNCHANGED <<loose, pages, part>>

\* The account's session, shifts and memberships go with it.
DeleteUser(q) ==
    /\ asks[q].pc = "write" /\ asks[q].op = "delete"
    /\ users' = [users EXCEPT ![asks[q].id] = Null]
    /\ asks' = [asks EXCEPT ![q].pc = "done", ![q].saw = Null]
    /\ UNCHANGED <<created, loose, pages, part>>

SetTotp(id, totp) == users' = IF users[id] = Null THEN users ELSE [users EXCEPT ![id].totp = totp]

SwitchFactorOff(q) ==
    /\ asks[q].pc = "write" /\ asks[q].op = "totp"
    /\ SetTotp(asks[q].id, "codes")
    /\ Step(q, "codes")
    /\ UNCHANGED <<created, loose, pages, part>>

DeleteCodes(q) ==
    /\ asks[q].pc = "codes"
    /\ SetTotp(asks[q].id, "off")
    /\ asks' = [asks EXCEPT ![q].pc = "done", ![q].saw = Null]
    /\ UNCHANGED <<created, loose, pages, part>>

-----------------------------------------------------------------------------
(* Answers.                                                                *)

Closed(p, kinds) == IF pages[p].dialog # Null /\ pages[p].dialog.kind \in kinds THEN Null ELSE pages[p].dialog

\* The answer to a form closes whatever dialog of its kind is open by now; the
\* one to the removal of a second factor only the dialog that asked for it.
Succeed(q) ==
    LET r == asks[q]
        p == r.by
    IN  /\ r.pc = "done"
        /\ pages' = [pages EXCEPT ![p].dialog =
              CASE r.op = "totp" -> IF @ # Null /\ q \in @.asked THEN Null ELSE @
                [] r.form = "edit" /\ r.op = "update" -> Closed(p, {"edit", "totp"})
                [] r.form = "list" -> @
                [] OTHER -> Closed(p, {r.form})]
        /\ asks' = [asks EXCEPT ![q] = [Unsent EXCEPT !.pc = "settled"]]
        /\ UNCHANGED <<users, created, loose, part>>

\* A request is refused, breaks off at any statement or loses its answer.
Fail(q) ==
    LET r == asks[q]
        p == r.by
    IN  /\ Pending(q)
        /\ pages' = [pages EXCEPT ![p].dialog =
              CASE r.op = "totp" -> IF @ # Null /\ @.kind = "totp" /\ q \in @.asked THEN [@ EXCEPT !.kind = "edit"] ELSE @
                [] r.op = "delete" -> Closed(p, {"delete"})
                [] OTHER -> @]
        /\ loose' = IF r.pc = "write" /\ r.op = "update" /\ r.body.type = "dummy" THEN loose \cup {r.id} ELSE loose
        /\ asks' = [asks EXCEPT ![q] = [Unsent EXCEPT !.pc = "settled"]]
        /\ UNCHANGED <<users, created, part>>

-----------------------------------------------------------------------------
Init ==
    /\ users = [id \in Ids |-> IF id <= Len(InitUsers) THEN InitUsers[id] ELSE Null]
    /\ created = Len(InitUsers)
    /\ loose = {}
    /\ part \in InUse
    /\ pages = [p \in Admins |-> [view |-> IF "views" \in part.uses THEN NoView ELSE [NoView EXCEPT !.hide = FALSE],
                                  list |-> Unloaded, dialog |-> Null]]
    /\ asks = [q \in Requests |-> Unsent]

Look(p) ==
    \/ \E term \in Typed \cup {Null} : Search(p, term)
    \/ \E role \in Roles \cup {Null}, type \in Types \cup {Null}, hide \in BOOLEAN : Filter(p, role, type, hide)
    \/ NextPage(p) \/ PreviousPage(p) \/ Refresh(p)

OnRow(p, row) ==
    \/ OpenEdit(p, row) \/ AskDelete(p, row)
    \/ \E q \in Requests, role \in Assigned : ChooseRole(p, q, row, role)
    \/ \E q \in Requests : ToggleActive(p, q, row)

InDialog(p) ==
    \/ OpenCreate(p) \/ Close(p) \/ AskTotp(p)
    \/ \E q \in Requests :
          \/ ConfirmSelf(p, q) \/ ConfirmDelete(p, q) \/ ConfirmTotp(p, q)
          \/ \E name \in Names, type \in Types, pass \in BOOLEAN : SubmitEdit(p, q, name, type, pass)
          \/ \E name \in Typed, type \in Types, role \in Assigned : SubmitCreate(p, q, name, type, role)

Serve(q) ==
    \/ Admit(q) \/ ReadTarget(q) \/ CheckName(q) \/ WritePassword(q) \/ ClearPassword(q)
    \/ WriteFields(q) \/ Insert(q) \/ DeleteUser(q) \/ SwitchFactorOff(q) \/ DeleteCodes(q)

Next ==
    \/ \E p \in part.by : Look(p) \/ InDialog(p) \/ \E row \in Shown(p) : OnRow(p, row)
    \/ \E q \in Requests : Serve(q) \/ Succeed(q) \/ Fail(q)

Spec == Init /\ [][Next]_vars

-----------------------------------------------------------------------------
(* Properties.                                                             *)

View == [search : Names \cup {Null}, role : Roles \cup {Null}, type : Types \cup {Null},
         hide : BOOLEAN, page : Nat]
List == [rows : {Null} \cup SUBSET Row, total : Nat]
Dialogs == {d \in [kind : {"create", "edit", "totp", "delete", "selfRole", "selfDeactivate"},
                   row : Row \cup {Null}, role : Roles \cup {Null}, asked : SUBSET Requests] :
               d.kind # "create" => d.row # Null}
Page == [view : View, list : List, dialog : Dialogs \cup {Null}]

\* The statements an operation comes to.
Reaches(op, pc) ==
    /\ pc = "read" => op # "create"
    /\ pc \in {"name", "password", "clear"} => op \in {"update", "create"}

Body == [name : Names \cup {Null}, role : Roles \cup {Null}, active : BOOLEAN \cup {Null},
         type : Types \cup {Null}, pass : BOOLEAN]
Ask == {r \in [pc : Statements \cup {"unsent", "done", "settled"}, by : Admins \cup {Null},
               op : Ops \cup {Null},
               form : {"list", "edit", "create", "delete", Null}, id : Ids \cup {Null},
               body : Body, warned : BOOLEAN, saw : Account \cup {Null}, met : BOOLEAN] :
           /\ r.op \in Ops \ {"create"} => r.id # Null
           /\ r.op = "create" => r.body.name # Null /\ r.body.role # Null /\ r.body.type # Null
           /\ r.op = Null <=> r.pc \in {"unsent", "settled"}
           /\ r.by = Null <=> r.op = Null
           /\ Reaches(r.op, r.pc)}

\* The table, the pages and the requests have their types: what is edited or
\* deleted is an account, and what is created has a name, a role and a type.
TypeOK ==
    /\ users \in [Ids -> Account \cup {Null}]
    /\ created \in 0 .. MaxUsers
    /\ loose \subseteq Ids
    /\ pages \in [Admins -> Page]
    /\ asks \in [Requests -> Ask]
    /\ part \in InUse

\* Those who can sign in and administer.
Administrators ==
    {id \in Live : users[id].role = "super_admin" /\ users[id].active /\ users[id].type # "dummy"}

\* The installation does not lose its last administrator by mistake: whoever
\* takes the last one away was warned, or lost the right to do so while the
\* request was under way.
LastAdminGoesKnowingly ==
    [][Administrators # {} /\ Administrators' = {} =>
          \E q \in Requests :
              /\ asks[q].pc = "write" /\ asks'[q].pc = "done"
              /\ asks[q].warned \/ asks[q].by \notin Administrators]_vars

\* An account is deleted as a dummy only, however old the list is in which its
\* button was: one that is none any more was converted after the deletion had
\* looked at it.
OnlyDummiesAreDeleted ==
    [][\A id \in Ids : users[id] # Null /\ users'[id] = Null =>
          \/ users[id].type = "dummy"
          \/ \E q \in Requests : asks[q].op = "delete" /\ asks[q].id = id /\ asks[q].met]_vars

\* Whoever can sign in by a password has one, although the password and the
\* type are written by statements of their own: without one there is an update
\* of the account under way, one that broke off, or two that overlapped.
LocalsHavePasswords ==
    \A id \in Live : users[id].type = "local" /\ ~users[id].pass =>
        \/ id \in loose
        \/ \E q \in Requests : Underway(q) /\ asks[q].op = "update" /\ asks[q].id = id

\* As long as nobody changes the accounts, no page past the first is empty.
PagesAreFilled ==
    (\A q \in Requests : asks[q] = Unsent) =>
        \A p \in Admins : pages[p].list.rows = {} /\ pages[p].view.search = Null => pages[p].view.page = 0

=============================================================================
