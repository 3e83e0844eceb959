-------------------------- MODULE UserManagementProofs --------------------------
(***************************************************************************)
(* The administration of accounts, for any number of administrators,       *)
(* accounts and requests: its types, that nothing but a dummy is deleted,  *)
(* that the last administrator goes knowingly, that no page past the end   *)
(* of the list is shown, and that whoever signs in by a password has one.  *)
(***************************************************************************)
EXTENDS UserManagement, FiniteSetTheorems, WellFoundedInduction, TLAPS

-----------------------------------------------------------------------------
(* Types.                                                                  *)

LEMMA UnsentType == Unsent \in Ask
<1>1. Null \notin Ops
  BY UserManagementAssumption
<1>2. Nothing \in Body
  BY DEF Nothing, Body
<1> QED  BY <1>1, <1>2 DEF Unsent, Ask, Statements, Ops, Reaches

\* What is listed are accounts, and how many match is a number.
LEMMA ListType ==
    ASSUME TypeOK, NEW view \in View
    PROVE  [rows |-> Rows(view), total |-> Total(view)] \in List
<1>1. Rows(view) \subseteq Row
  <2>1. \A id \in Live : [id |-> id, user |-> users[id]] \in Row
    BY DEF Row, TypeOK, Live
  <2> QED  BY <2>1 DEF Rows
<1>2. IsFiniteSet(Ids)
  <2>1. MaxUsers \in Nat
    BY UserManagementAssumption
  <2> QED  BY <2>1, FS_Interval DEF Ids
<1>3. IsFiniteSet({id \in Live : Matches(users[id], view)})
  BY <1>2, FS_Subset DEF Live
<1>4. Total(view) \in Nat
  BY <1>3, FS_CardinalityType DEF Total
<1> QED  BY <1>1, <1>4 DEF List

\* Turning to another view, opening, filling and sending keep the types.
LEMMA LookKeepsTypes ==
    ASSUME TypeOK, NEW p \in Admins, Look(p)
    PROVE  TypeOK'
<1>1. ASSUME NEW view \in View, Turn(p, view)  PROVE TypeOK'
  <2>1. [view |-> view, list |-> Unloaded, dialog |-> Null] \in Page
    BY DEF Page, Unloaded, List
  <2> QED  BY <1>1, <2>1 DEF Turn, TypeOK
<1>2. pages[p] \in Page /\ pages[p].view \in View
  BY DEF TypeOK, Page
<1>3. CASE \E term \in Typed \cup {Null} : Search(p, term)
  <2>1. PICK term \in Typed \cup {Null} : Search(p, term)
    BY <1>3
  <2>2. [pages[p].view EXCEPT !.search = term] \in View
    BY <1>2, UserManagementAssumption DEF View
  <2> QED  BY <1>1, <2>1, <2>2 DEF Search
<1>4. CASE \E role \in Roles \cup {Null}, type \in Types \cup {Null}, hide \in BOOLEAN : Filter(p, role, type, hide)
  <2>1. PICK role \in Roles \cup {Null}, type \in Types \cup {Null}, hide \in BOOLEAN : Filter(p, role, type, hide)
    BY <1>4
  <2>2. [pages[p].view EXCEPT !.role = role, !.type = type, !.hide = hide, !.page = 0] \in View
    BY <1>2 DEF View
  <2> QED  BY <1>1, <2>1, <2>2 DEF Filter
<1>5. CASE NextPage(p)
  <2>1. [pages[p].view EXCEPT !.page = @ + 1] \in View
    BY <1>2 DEF View
  <2> QED  BY <1>1, <1>5, <2>1 DEF NextPage
<1>6. CASE PreviousPage(p)
  <2>1. [pages[p].view EXCEPT !.page = @ - 1] \in View
    BY <1>2, <1>6 DEF View, PreviousPage
  <2> QED  BY <1>1, <1>6, <2>1 DEF PreviousPage
<1>7. CASE Refresh(p)
  <2>1. [rows |-> Rows(pages[p].view), total |-> Total(pages[p].view)] \in List
    BY <1>2, ListType
  <2> QED  BY <1>7, <2>1 DEF Refresh, TypeOK, Page
<1> QED  BY <1>3, <1>4, <1>5, <1>6, <1>7 DEF Look

\* A dialog opens over the page.
LEMMA OpenKeepsTypes ==
    ASSUME TypeOK, NEW p \in Admins, NEW dialog \in Dialogs, Open(p, dialog)
    PROVE  TypeOK'
BY DEF Open, TypeOK, Page

\* A request is sent, with a dialog or without one.
LEMMA SendKeepsTypes ==
    ASSUME TypeOK, NEW p \in Admins, NEW q \in Requests, NEW op \in Ops, NEW form, NEW id,
           NEW body \in Body, NEW warned \in BOOLEAN, NEW dialog \in Dialogs \cup {Null},
           form \in {"list", "edit", "create", "delete"},
           id \in Ids \cup {Null}, op # "create" => id # Null,
           op = "create" => body.name # Null /\ body.role # Null /\ body.type # Null,
           Send(p, q, op, form, id, body, warned, dialog)
    PROVE  TypeOK'
<1> DEFINE r == [Unsent EXCEPT !.pc = "admit", !.by = p, !.op = op, !.form = form,
                               !.id = id, !.body = body, !.warned = warned]
           d == IF dialog = Null THEN Null ELSE [dialog EXCEPT !.asked = @ \cup {q}]
<1>1. p # Null /\ op # Null
  BY UserManagementAssumption DEF Ids
<1>2. r \in Ask
  BY <1>1 DEF Unsent, Ask, Statements, Nothing, Reaches
<1>3. d \in Dialogs \cup {Null}
  BY DEF Dialogs
<1>4. asks' \in [Requests -> Ask]
  BY <1>2 DEF Send, TypeOK
<1>5. pages' \in [Admins -> Page]
  BY <1>3, ZenonT(60) DEF Send, TypeOK, Page
<1> QED  BY <1>4, <1>5 DEF Send, TypeOK

LEMMA DialogType ==
    ASSUME NEW kind \in {"create", "edit", "totp", "delete", "selfRole", "selfDeactivate"},
           NEW row \in Row \cup {Null}, NEW role \in Roles \cup {Null}, kind # "create" => row # Null
    PROVE  Dialog(kind, row, role) \in Dialogs
BY DEF Dialog, Dialogs

LEMMA BodyTypes ==
    /\ Nothing \in Body
    /\ \A role \in Roles \cup {Null} : RoleOf(role) \in Body
    /\ \A active \in BOOLEAN : ActiveOf(active) \in Body
BY DEF Nothing, Body, RoleOf, ActiveOf

\* The buttons of a row of the list.
LEMMA OnRowKeepsTypes ==
    ASSUME TypeOK, NEW p \in Admins, NEW row \in Shown(p), OnRow(p, row)
    PROVE  TypeOK'
<1>1. row \in Row /\ row # Null
  <2>1. row \in Row
    BY DEF TypeOK, Page, List, Shown
  <2> QED  BY <2>1, UserManagementAssumption
<1>2. row.id \in Ids /\ row.id # Null /\ row.user \in Account /\ row.user.active \in BOOLEAN
  BY <1>1, UserManagementAssumption DEF Row, Account
<1>3. CASE OpenEdit(p, row)
  BY <1>1, <1>3, DialogType, OpenKeepsTypes DEF OpenEdit
<1>4. CASE AskDelete(p, row)
  BY <1>1, <1>4, DialogType, OpenKeepsTypes DEF AskDelete
<1>5. CASE \E q \in Requests, role \in Assigned : ChooseRole(p, q, row, role)
  <2>1. PICK q \in Requests, role \in Assigned : ChooseRole(p, q, row, role)
    BY <1>5
  <2>2. role \in Roles
    BY UserManagementAssumption
  <2>3. CASE row.id = p
    BY <1>1, <2>1, <2>2, <2>3, DialogType, OpenKeepsTypes DEF ChooseRole
  <2>4. CASE row.id # p
    <3>1. Send(p, q, "update", "list", row.id, RoleOf(role), FALSE, Null)
      BY <2>1, <2>4 DEF ChooseRole
    <3> QED  BY <1>2, <2>2, <3>1, BodyTypes, SendKeepsTypes DEF Ops
  <2> QED  BY <2>3, <2>4
<1>6. CASE \E q \in Requests : ToggleActive(p, q, row)
  <2>1. PICK q \in Requests : ToggleActive(p, q, row)
    BY <1>6
  <2>2. CASE row.id = p /\ row.user.active
    BY <1>1, <2>1, <2>2, DialogType, OpenKeepsTypes DEF ToggleActive
  <2>3. CASE ~(row.id = p /\ row.user.active)
    <3>1. Send(p, q, "update", "list", row.id, ActiveOf(~row.user.active), FALSE, Null)
      BY <2>1, <2>3 DEF ToggleActive
    <3>2. ActiveOf(~row.user.active) \in Body
      BY <1>2, BodyTypes
    <3> QED  BY <1>2, <3>1, <3>2, SendKeepsTypes DEF Ops
  <2> QED  BY <2>2, <2>3
<1> QED  BY <1>3, <1>4, <1>5, <1>6 DEF OnRow

\* The dialogs.
LEMMA InDialogKeepsTypes ==
    ASSUME TypeOK, NEW p \in Admins, InDialog(p)
    PROVE  TypeOK'
<1> DEFINE d == pages[p].dialog
<1>1. d \in Dialogs \cup {Null}
  BY DEF TypeOK, Page
<1>2. ASSUME d # Null, d.kind # "create"
      PROVE  d.row \in Row /\ d.row.id \in Ids /\ d.row.id # Null /\ d.row.user \in Account
  BY <1>1, <1>2, UserManagementAssumption DEF Dialogs, Row
<1>3. CASE OpenCreate(p)
  BY <1>3, DialogType, OpenKeepsTypes DEF OpenCreate
<1>4. CASE Close(p)
  <2>1. (IF d.kind = "totp" THEN [d EXCEPT !.kind = "edit"] ELSE Null) \in Dialogs \cup {Null}
    BY <1>1, <1>4 DEF Close, Dialogs
  <2> QED  BY <1>4, <2>1 DEF Close, TypeOK, Page
<1>5. CASE AskTotp(p)
  <2>1. [d EXCEPT !.kind = "totp"] \in Dialogs
    BY <1>1, <1>5 DEF AskTotp, Dialogs
  <2> QED  BY <1>5, <2>1 DEF AskTotp, TypeOK, Page
<1>6. ASSUME NEW q \in Requests, ConfirmSelf(p, q)  PROVE TypeOK'
  <2>1. d # Null /\ d.kind # "create"
    BY <1>6 DEF ConfirmSelf
  <2> DEFINE body == IF d.kind = "selfRole" THEN RoleOf(d.role) ELSE ActiveOf(~d.row.user.active)
  <2>2. d.role \in Roles \cup {Null} /\ d.row.user.active \in BOOLEAN
    BY <1>1, <1>2, <2>1 DEF Dialogs, Account
  <2>3. body \in Body
    BY <2>2, BodyTypes
  <2>4. Send(p, q, "update", "list", d.row.id, body, TRUE, Null)
    BY <1>6 DEF ConfirmSelf
  <2> QED  BY <1>2, <2>1, <2>3, <2>4, SendKeepsTypes DEF Ops
<1>7. ASSUME NEW q \in Requests, ConfirmDelete(p, q)  PROVE TypeOK'
  <2>1. d # Null /\ d.kind # "create" /\ Send(p, q, "delete", "delete", d.row.id, Nothing, TRUE, d)
    BY <1>7 DEF ConfirmDelete
  <2> QED  BY <1>1, <1>2, <2>1, BodyTypes, SendKeepsTypes DEF Ops
<1>8. ASSUME NEW q \in Requests, ConfirmTotp(p, q)  PROVE TypeOK'
  <2>1. d # Null /\ d.kind # "create" /\ Send(p, q, "totp", "edit", d.row.id, Nothing, FALSE, d)
    BY <1>8 DEF ConfirmTotp
  <2> QED  BY <1>1, <1>2, <2>1, BodyTypes, SendKeepsTypes DEF Ops
<1>9. ASSUME NEW q \in Requests, NEW name \in Names, NEW type \in Types, NEW pass \in BOOLEAN,
             SubmitEdit(p, q, name, type, pass)
      PROVE  TypeOK'
  <2> DEFINE body == [name |-> IF name = d.row.user.name THEN Null ELSE name, role |-> Null, active |-> Null,
                      type |-> IF type = d.row.user.type THEN Null ELSE type, pass |-> pass]
  <2>1. d # Null /\ d.kind # "create" /\ Send(p, q, "update", "edit", d.row.id, body, type = "dummy", d)
    BY <1>9 DEF SubmitEdit
  <2>2. body \in Body
    BY DEF Body
  <2>3. (type = "dummy") \in BOOLEAN
    OBVIOUS
  <2> QED  BY <1>1, <1>2, <2>1, <2>2, <2>3, SendKeepsTypes DEF Ops
<1>10. ASSUME NEW q \in Requests, NEW name \in Typed, NEW type \in Types, NEW role \in Assigned,
              SubmitCreate(p, q, name, type, role)
       PROVE  TypeOK'
  <2> DEFINE body == [name |-> name, role |-> role, active |-> Null, type |-> type, pass |-> type = "local"]
  <2>1. Send(p, q, "create", "create", Null, body, FALSE, d)
    BY <1>10 DEF SubmitCreate
  <2>2. name \in Names /\ role \in Roles /\ name # Null /\ role # Null /\ type # Null
    BY UserManagementAssumption
  <2>3. body \in Body
    BY <2>2 DEF Body
  <2> QED  BY <1>1, <2>1, <2>2, <2>3, SendKeepsTypes DEF Ops
<1> QED  BY <1>3, <1>4, <1>5, <1>6, <1>7, <1>8, <1>9, <1>10 DEF InDialog

\* The statements of the server.
LEMMA ServeKeepsTypes ==
    ASSUME TypeOK, NEW q \in Requests, Serve(q)
    PROVE  TypeOK'
<1> DEFINE r == asks[q]
<1>1. r \in Ask
  BY DEF TypeOK
<1>2. r.pc \in Statements => r.op \in Ops
  BY <1>1 DEF Ask, Statements
<1>3. r.op \in Ops \ {"create"} => r.id \in Ids
  BY <1>1 DEF Ask
<1>4. ASSUME NEW pc \in Statements \cup {"done"}, r.pc \in Statements, Reaches(r.op, pc)
      PROVE  [r EXCEPT !.pc = pc] \in Ask
  BY <1>1, <1>4 DEF Ask, Statements
<1>5. ASSUME NEW pc \in Statements \cup {"done"}, NEW saw \in Account \cup {Null}, r.pc \in Statements,
             Reaches(r.op, pc)
      PROVE  [r EXCEPT !.pc = pc, !.saw = saw] \in Ask
  <2>1. [r EXCEPT !.pc = pc] \in Ask
    BY <1>4, <1>5
  <2>2. \A x \in Ask : [x EXCEPT !.saw = saw] \in Ask
    BY DEF Ask
  <2>3. [r EXCEPT !.pc = pc, !.saw = saw] = [[r EXCEPT !.pc = pc] EXCEPT !.saw = saw]
    BY <1>1 DEF Ask
  <2> QED  BY <2>1, <2>2, <2>3
<1>6. \A saw : /\ AfterPassword(r, saw) \in Statements \ {"read"}
               /\ AfterName(r, saw) \in Statements \ {"read"}
               /\ AfterRead(r, saw) \in Statements \ {"read"}
  BY DEF AfterPassword, AfterName, AfterRead, Statements
<1>7. CASE Admit(q)
  <2>1. asks' \in [Requests -> Ask]
    BY <1>4, <1>7, SMTT(60) DEF Admit, Step, TypeOK, Statements, Reaches, Ask
  <2> QED  BY <1>7, <2>1 DEF Admit, TypeOK
<1>8. CASE ReadTarget(q)
  <2>1. users[r.id] \in Account
    BY <1>1, <1>2, <1>3, <1>8 DEF ReadTarget, TypeOK, Ask, Statements
  <2> DEFINE pc == IF r.op = "update" THEN AfterRead(r, users[r.id]) ELSE "write"
  <2>2. pc \in Statements /\ Reaches(r.op, pc) /\ r.pc \in Statements
    BY <1>6, <1>8 DEF ReadTarget, Statements, Reaches
  <2>3. asks' \in [Requests -> Ask]
    <3>1. asks' = [asks EXCEPT ![q] = [r EXCEPT !.pc = pc, !.saw = users[r.id]]]
      BY <1>8 DEF ReadTarget, TypeOK
    <3> QED  BY <1>5, <2>1, <2>2, <3>1 DEF TypeOK
  <2> QED  BY <1>8, <2>3 DEF ReadTarget, TypeOK
<1>9. CASE CheckName(q)
  <2>1. asks' \in [Requests -> Ask]
    BY <1>4, <1>6, <1>9, SMTT(60) DEF CheckName, Step, TypeOK, Statements, Reaches, Ask
  <2> QED  BY <1>9, <2>1 DEF CheckName, TypeOK
<1>10. ASSUME NEW id, NEW pass \in BOOLEAN, SetPass(id, pass)
       PROVE  users' \in [Ids -> Account \cup {Null}]
  BY <1>10 DEF SetPass, TypeOK, Account
<1>11. ASSUME NEW id, NEW totp \in Factors, SetTotp(id, totp)
       PROVE  users' \in [Ids -> Account \cup {Null}]
  BY <1>11 DEF SetTotp, TypeOK, Account
<1>12. CASE WritePassword(q)
  <2>1. asks' \in [Requests -> Ask]
    BY <1>4, <1>6, <1>12, SMTT(60) DEF WritePassword, Step, TypeOK, Statements, Reaches, Ask
  <2> QED  BY <1>10, <1>12, <2>1 DEF WritePassword, TypeOK
<1>13. CASE ClearPassword(q)
  <2>1. asks' \in [Requests -> Ask]
    BY <1>4, <1>13 DEF ClearPassword, Step, TypeOK, Statements, Reaches, Ask
  <2> QED  BY <1>10, <1>13, <2>1 DEF ClearPassword, TypeOK
<1>14. CASE WriteFields(q)
  <2> DEFINE row == users[r.id]
             New(f) == IF r.body[f] = Null THEN row[f] ELSE r.body[f]
             written == [row EXCEPT !.name = New("name"), !.role = New("role"),
                                    !.active = New("active"), !.type = New("type")]
  <2>1. r.id \in Ids /\ row \in Account /\ r.body \in Body /\ r.pc \in Statements
    BY <1>1, <1>3, <1>14 DEF WriteFields, TypeOK, Ask, Ops, Statements
  <2>2. New("name") \in Names /\ New("role") \in Roles /\ New("active") \in BOOLEAN /\ New("type") \in Types
    BY <2>1 DEF Body, Account
  <2>3. written \in Account
    BY <2>1, <2>2 DEF Account
  <2>4. users' \in [Ids -> Account \cup {Null}]
    BY <1>14, <2>3 DEF WriteFields, TypeOK
  <2>5. asks' \in [Requests -> Ask]
    <3>1. [r EXCEPT !.pc = "done", !.saw = Null] \in Ask
      BY <1>1, <2>1 DEF Ask, Statements, Reaches
    <3>2. \A x \in Ask, met \in BOOLEAN : [x EXCEPT !.met = met] \in Ask
      BY DEF Ask
    <3>3. \A o \in Requests : (asks[o].met \/ o \in Rivals(r.id, q)) \in BOOLEAN
      OBVIOUS
    <3>4. \A o \in Requests : [asks[o] EXCEPT !.met = @ \/ o \in Rivals(r.id, q)] \in Ask
      BY <3>2, <3>3 DEF TypeOK
    <3> QED  BY <1>14, <3>1, <3>4 DEF WriteFields
  <2>6. loose' \subseteq Ids
    BY <1>14, <2>1 DEF WriteFields, TypeOK
  <2> QED  BY <1>14, <2>4, <2>5, <2>6 DEF WriteFields, TypeOK
<1>15. CASE Insert(q)
  <2> DEFINE new == [name |-> r.body.name, role |-> r.body.role, active |-> TRUE,
                     type |-> r.body.type, pass |-> r.body.pass, totp |-> "off"]
  <2>1. r.body \in Body /\ r.body.name # Null /\ r.body.role # Null /\ r.body.type # Null
    BY <1>1, <1>15 DEF Insert, Ask
  <2>2. new \in Account
    BY <2>1 DEF Body, Account, Factors
  <2>3. users' \in [Ids -> Account \cup {Null}]
    BY <1>15, <2>2 DEF Insert, TypeOK
  <2>4. asks' \in [Requests -> Ask]
    BY <1>4, <1>15 DEF Insert, Step, TypeOK, Statements, Reaches, Ask
  <2>5. created' \in 0 .. MaxUsers
    BY <1>15, UserManagementAssumption DEF Insert, TypeOK
  <2> QED  BY <1>15, <2>3, <2>4, <2>5 DEF Insert, TypeOK
<1>16. CASE DeleteUser(q)
  <2>1. asks' \in [Requests -> Ask]
    <3>1. asks' = [asks EXCEPT ![q] = [r EXCEPT !.pc = "done", !.saw = Null]] /\ r.pc \in Statements
      BY <1>16 DEF DeleteUser, TypeOK, Statements
    <3>2. Reaches(r.op, "done")
      BY DEF Reaches
    <3> QED  BY <1>5, <3>1, <3>2 DEF TypeOK
  <2> QED  BY <1>16, <2>1 DEF DeleteUser, TypeOK
<1>17. CASE SwitchFactorOff(q)
  <2>1. asks' \in [Requests -> Ask]
    BY <1>4, <1>17 DEF SwitchFactorOff, Step, TypeOK, Statements, Reaches, Ask
  <2> QED  BY <1>11, <1>17, <2>1 DEF SwitchFactorOff, TypeOK, Factors
<1>18. CASE DeleteCodes(q)
  <2>1. asks' \in [Requests -> Ask]
    <3>1. asks' = [asks EXCEPT ![q] = [r EXCEPT !.pc = "done", !.saw = Null]] /\ r.pc \in Statements
      BY <1>18 DEF DeleteCodes, TypeOK, Statements
    <3>2. Reaches(r.op, "done")
      BY DEF Reaches
    <3> QED  BY <1>5, <3>1, <3>2 DEF TypeOK
  <2> QED  BY <1>11, <1>18, <2>1 DEF DeleteCodes, TypeOK, Factors
<1> QED  BY <1>7, <1>8, <1>9, <1>12, <1>13, <1>14, <1>15, <1>16, <1>17, <1>18 DEF Serve

\* Answers arrive, or do not.
LEMMA AnswerKeepsTypes ==
    ASSUME TypeOK, NEW q \in Requests, Succeed(q) \/ Fail(q)
    PROVE  TypeOK'
<1> DEFINE r == asks[q]
<1>1. r \in Ask
  BY DEF TypeOK
<1>2. r.by \in Admins
  BY <1>1 DEF Succeed, Fail, Pending, Underway, Statements, Ask
<1> DEFINE d == pages[r.by].dialog
<1>3. d \in Dialogs \cup {Null}
  BY <1>2 DEF TypeOK, Page
<1>4. [Unsent EXCEPT !.pc = "settled"] \in Ask
  BY UnsentType DEF Unsent, Ask, Statements, Reaches
<1>5. asks' \in [Requests -> Ask]
  BY <1>4 DEF Succeed, Fail, TypeOK
<1>6. \A kinds : Closed(r.by, kinds) \in Dialogs \cup {Null}
  BY <1>3 DEF Closed
<1>7. ASSUME NEW e \in Dialogs \cup {Null}, pages' = [pages EXCEPT ![r.by].dialog = e]
      PROVE  pages' \in [Admins -> Page]
  BY <1>7 DEF TypeOK, Page
<1>8. CASE Succeed(q)
  <2> DEFINE e == CASE r.op = "totp" -> IF d # Null /\ q \in d.asked THEN Null ELSE d
                    [] r.form = "edit" /\ r.op = "update" -> Closed(r.by, {"edit", "totp"})
                    [] r.form = "list" -> d
                    [] OTHER -> Closed(r.by, {r.form})
  <2>1. e \in Dialogs \cup {Null}
    BY <1>3, <1>6
  <2>2. pages' = [pages EXCEPT ![r.by].dialog = e]
    BY <1>8, SMTT(60) DEF Succeed
  <2> QED  BY <1>5, <1>7, <1>8, <2>1, <2>2 DEF Succeed, TypeOK
<1>9. CASE Fail(q)
  <2> DEFINE e == CASE r.op = "totp" -> IF d # Null /\ d.kind = "totp" /\ q \in d.asked
                                        THEN [d EXCEPT !.kind = "edit"] ELSE d
                    [] r.op = "delete" -> Closed(r.by, {"delete"})
                    [] OTHER -> d
  <2>1. e \in Dialogs \cup {Null}
    <3>1. CASE r.op = "totp" /\ d # Null /\ d.kind = "totp" /\ q \in d.asked
      <4>1. [d EXCEPT !.kind = "edit"] \in Dialogs
        BY <1>3, <3>1 DEF Dialogs
      <4> QED  BY <3>1, <4>1
    <3> QED  BY <1>3, <1>6, <3>1
  <2>2. pages' = [pages EXCEPT ![r.by].dialog = e]
    BY <1>9 DEF Fail
  <2>3. loose' \subseteq Ids
    <3>1. r.op = "update" => r.id \in Ids
      BY <1>1 DEF Ask, Ops
    <3> QED  BY <1>9, <3>1 DEF Fail, TypeOK
  <2> QED  BY <1>5, <1>7, <1>9, <2>1, <2>2, <2>3 DEF Fail, TypeOK
<1> QED  BY <1>8, <1>9

\* TypeCorrect: in every state the table, the pages and the requests have
\* their types, so that no request is sent for an account nobody chose and no
\* account is stored without a name, a role and a type.
THEOREM TypeCorrect == Spec => []TypeOK
<1>1. Init => TypeOK
  <2> SUFFICES ASSUME Init  PROVE TypeOK
    OBVIOUS
  <2>1. users \in [Ids -> Account \cup {Null}]
    <3>1. \A id \in Ids : id <= Len(InitUsers) => InitUsers[id] \in Account
      BY UserManagementAssumption DEF Ids
    <3> QED  BY <3>1 DEF Init
  <2>2. created \in 0 .. MaxUsers
    BY UserManagementAssumption DEF Init
  <2>3. \A p \in Admins : pages[p] \in Page
    <3>1. NoView \in View /\ [NoView EXCEPT !.hide = FALSE] \in View
      BY DEF NoView, View
    <3>2. Unloaded \in List
      BY DEF Unloaded, List
    <3> QED  BY <3>1, <3>2 DEF Init, Page
  <2>4. pages \in [Admins -> Page] /\ asks \in [Requests -> Ask]
    BY <2>3, UnsentType DEF Init
  <2> QED  BY <2>1, <2>2, <2>4 DEF Init, TypeOK
<1>2. TypeOK /\ [Next]_vars => TypeOK'
  <2> SUFFICES ASSUME TypeOK, [Next]_vars  PROVE TypeOK'
    OBVIOUS
  <2>1. ASSUME NEW p \in part.by, Look(p) \/ InDialog(p) \/ \E row \in Shown(p) : OnRow(p, row)
        PROVE  TypeOK'
    <3>1. p \in Admins
      BY UserManagementAssumption DEF TypeOK
    <3> QED  BY <2>1, <3>1, LookKeepsTypes, InDialogKeepsTypes, OnRowKeepsTypes
  <2>2. ASSUME NEW q \in Requests, Serve(q) \/ Succeed(q) \/ Fail(q)
        PROVE  TypeOK'
    BY <2>2, ServeKeepsTypes, AnswerKeepsTypes
  <2>3. CASE UNCHANGED vars
    BY <2>3 DEF vars, TypeOK
  <2> QED  BY <2>1, <2>2, <2>3 DEF Next
<1> QED  BY <1>1, <1>2, PTL DEF Spec

-----------------------------------------------------------------------------
(* Deletions.                                                              *)

\* Accounts are numbered as they are created, and a deletion that is past its
\* look at the account has one before it that is still a dummy, was deleted by
\* another, or was written to since.
Sighted ==
    /\ \A id \in Ids : users[id] # Null => id <= created
    /\ \A q \in Requests :
          LET r == asks[q]
          IN  r.op = "delete" /\ r.pc = "write" =>
                  /\ r.saw # Null /\ r.id <= created
                  /\ \/ users[r.id] = Null
                     \/ users[r.id].type = "dummy"
                     \/ r.met

\* Pages do not touch what the server knows about a deletion.
LEMMA PageStepIsBlind ==
    ASSUME TypeOK, Sighted, NEW p \in Admins,
           Look(p) \/ InDialog(p) \/ \E row \in Shown(p) : OnRow(p, row)
    PROVE  Sighted' /\ users' = users
<1>1. ASSUME NEW q \in Requests, NEW op, NEW form, NEW id, NEW body, NEW warned, NEW dialog,
             Send(p, q, op, form, id, body, warned, dialog)
      PROVE  Sighted' /\ users' = users
  BY <1>1 DEF Send, Sighted, TypeOK, Unsent
<1>2. ASSUME UNCHANGED <<users, created, asks>>
      PROVE  Sighted' /\ users' = users
  <2>1. users' = users /\ created' = created /\ asks' = asks
    BY <1>2, ZenonT(60)
  <2> QED  BY <2>1, ZenonT(60) DEF Sighted
<1>3. CASE Look(p)
  BY <1>2, <1>3 DEF Look, Search, Filter, NextPage, PreviousPage, Turn, Refresh
<1>4. CASE InDialog(p)
  <2>1. CASE OpenCreate(p) \/ Close(p) \/ AskTotp(p)
    BY <1>2, <2>1 DEF OpenCreate, Close, AskTotp, Open
  <2>2. ASSUME NEW q \in Requests, ConfirmSelf(p, q)  PROVE Sighted' /\ users' = users
    BY <1>1, <2>2 DEF ConfirmSelf
  <2>3. ASSUME NEW q \in Requests, ConfirmDelete(p, q)  PROVE Sighted' /\ users' = users
    BY <1>1, <2>3 DEF ConfirmDelete
  <2>4. ASSUME NEW q \in Requests, ConfirmTotp(p, q)  PROVE Sighted' /\ users' = users
    BY <1>1, <2>4 DEF ConfirmTotp
  <2>5. ASSUME NEW q \in Requests, NEW name \in Names, NEW type \in Types, NEW pass \in BOOLEAN,
               SubmitEdit(p, q, name, type, pass)
        PROVE  Sighted' /\ users' = users
    BY <1>1, <2>5 DEF SubmitEdit
  <2>6. ASSUME NEW q \in Requests, NEW name \in Typed, NEW type \in Types, NEW role \in Assigned,
               SubmitCreate(p, q, name, type, role)
        PROVE  Sighted' /\ users' = users
    BY <1>1, <2>6 DEF SubmitCreate
  <2> QED  BY <1>4, <2>1, <2>2, <2>3, <2>4, <2>5, <2>6 DEF InDialog
<1>5. CASE \E row \in Shown(p) : OnRow(p, row)
  <2>1. PICK row \in Shown(p) : OnRow(p, row)
    BY <1>5
  <2>2. CASE OpenEdit(p, row) \/ AskDelete(p, row)
    BY <1>2, <2>2 DEF OpenEdit, AskDelete, Open
  <2>3. ASSUME NEW q \in Requests, NEW role \in Assigned, ChooseRole(p, q, row, role)
        PROVE  Sighted' /\ users' = users
    <3>1. CASE row.id = p
      BY <1>2, <2>3, <3>1 DEF ChooseRole, Open
    <3>2. CASE row.id # p
      BY <1>1, <2>3, <3>2 DEF ChooseRole
    <3> QED  BY <3>1, <3>2
  <2>4. ASSUME NEW q \in Requests, ToggleActive(p, q, row)
        PROVE  Sighted' /\ users' = users
    <3>1. CASE row.id = p /\ row.user.active
      BY <1>2, <2>4, <3>1 DEF ToggleActive, Open
    <3>2. CASE ~(row.id = p /\ row.user.active)
      BY <1>1, <2>4, <3>2 DEF ToggleActive
    <3> QED  BY <3>1, <3>2
  <2> QED  BY <2>1, <2>2, <2>3, <2>4 DEF OnRow
<1> QED  BY <1>3, <1>4, <1>5

\* A statement of the server leaves every deletion that is past its look in
\* the same situation, or brings one there that saw a dummy.
LEMMA ServeKeepsSight ==
    ASSUME TypeOK, Sighted, NEW q \in Requests, Serve(q)
    PROVE  Sighted'
<1> DEFINE r == asks[q]
<1>1. r \in Ask /\ asks \in [Requests -> Ask] /\ users \in [Ids -> Account \cup {Null}] /\ created \in 0 .. MaxUsers
  BY DEF TypeOK
<1>2. /\ \A id \in Ids : users[id] # Null => id <= created
      /\ \A o \in Requests : asks[o].op = "delete" /\ asks[o].pc = "write" =>
            /\ asks[o].saw # Null /\ asks[o].id <= created
            /\ users[asks[o].id] = Null \/ users[asks[o].id].type = "dummy" \/ asks[o].met
  BY DEF Sighted
<1>3. \A o \in Requests : asks[o].op = "delete" => asks[o].id \in Ids
  BY <1>1 DEF Ask, Ops
<1>4. ASSUME \A id \in Ids : users'[id] = Null \/ (users[id] # Null /\ users'[id].type = users[id].type),
             created' = created,
             \A o \in Requests \ {q} : asks'[o] = asks[o],
             asks'[q].op = "delete" => asks'[q].pc # "write"
      PROVE  Sighted'
  BY <1>1, <1>2, <1>3, <1>4 DEF Sighted
<1>5. ASSUME NEW id, NEW pass, SetPass(id, pass)
      PROVE  \A i \in Ids : users'[i] = Null \/ (users[i] # Null /\ users'[i].type = users[i].type)
  BY <1>1, <1>5 DEF SetPass, Account
<1>6. ASSUME NEW id, NEW totp, SetTotp(id, totp)
      PROVE  \A i \in Ids : users'[i] = Null \/ (users[i] # Null /\ users'[i].type = users[i].type)
  BY <1>1, <1>6 DEF SetTotp, Account
<1>7. CASE Admit(q)
  BY <1>1, <1>4, <1>7, SMTT(60) DEF Admit, Step
<1>8. CASE ReadTarget(q)
  BY <1>1, <1>2, <1>3, <1>8, UserManagementAssumption DEF ReadTarget, Sighted, Ask
<1>9. CASE CheckName(q)
  BY <1>1, <1>4, <1>9 DEF CheckName, Step, AfterName, AfterPassword, Ask, Reaches
<1>10. CASE WritePassword(q)
  <2>1. asks'[q].op = r.op /\ r.op # "delete"
    BY <1>1, <1>10 DEF WritePassword, Step, Ask, Reaches
  <2> QED  BY <1>1, <1>4, <1>5, <1>10, <2>1 DEF WritePassword, Step
<1>11. CASE ClearPassword(q)
  <2>1. asks'[q].op = r.op /\ r.op # "delete"
    BY <1>1, <1>11 DEF ClearPassword, Step, Ask, Reaches
  <2> QED  BY <1>1, <1>4, <1>5, <1>11, <2>1 DEF ClearPassword, Step
<1>12. CASE SwitchFactorOff(q)
  <2>1. asks'[q].op = r.op /\ r.op # "delete"
    BY <1>1, <1>12 DEF SwitchFactorOff, Step, Ask
  <2> QED  BY <1>1, <1>4, <1>6, <1>12, <2>1 DEF SwitchFactorOff, Step
<1>13. CASE DeleteCodes(q)
  <2>1. asks'[q].pc = "done" /\ \A o \in Requests \ {q} : asks'[o] = asks[o]
    BY <1>1, <1>13 DEF DeleteCodes, Ask
  <2> QED  BY <1>4, <1>6, <1>13, <2>1 DEF DeleteCodes
<1>14. CASE DeleteUser(q)
  <2>1. asks'[q].pc = "done" /\ \A o \in Requests \ {q} : asks'[o] = asks[o]
    BY <1>1, <1>14 DEF DeleteUser, Ask
  <2>2. \A i \in Ids : users'[i] = Null \/ (users[i] # Null /\ users'[i].type = users[i].type)
    BY <1>1, <1>14 DEF DeleteUser
  <2> QED  BY <1>4, <1>14, <2>1, <2>2 DEF DeleteUser
<1>15. CASE Insert(q)
  <2>1. \A id \in Ids : id <= created => users'[id] = users[id]
    BY <1>1, <1>15 DEF Insert
  <2>2. \A id \in Ids : users'[id] # Null => id <= created'
    BY <1>1, <1>2, <1>15 DEF Insert, Ids
  <2>3. \A o \in Requests \ {q} : asks'[o] = asks[o]
    BY <1>1, <1>15 DEF Insert, Step
  <2>4. asks'[q].pc = "done" /\ created' = created + 1
    BY <1>1, <1>15 DEF Insert, Step, Ask
  <2>5. \A o \in Requests : asks[o].op = "delete" /\ asks[o].id <= created => asks[o].id <= created'
    BY <1>1, <1>3, <2>4 DEF Ids
  <2> QED  BY <1>2, <1>3, <2>1, <2>2, <2>3, <2>4, <2>5 DEF Sighted
<1>16. CASE WriteFields(q)
  <2>1. r.id \in Ids /\ users[r.id] # Null /\ created' = created
    BY <1>1, <1>16 DEF WriteFields, Ask, Ops
  <2>2. \A id \in Ids \ {r.id} : users'[id] = users[id]
    BY <1>1, <1>16 DEF WriteFields
  <2>3. asks'[q].pc = "done"
    BY <1>1, <1>16 DEF WriteFields, Ask
  <2>4. \A o \in Requests \ {q} :
            /\ asks'[o].op = asks[o].op /\ asks'[o].pc = asks[o].pc
            /\ asks'[o].id = asks[o].id /\ asks'[o].saw = asks[o].saw
            /\ asks'[o].met = (asks[o].met \/ o \in Rivals(r.id, q))
    BY <1>1, <1>16 DEF WriteFields, Ask
  <2>5. \A o \in Requests \ {q} : asks[o].id = r.id /\ asks[o].saw # Null /\ asks[o].pc = "write"
            => o \in Rivals(r.id, q)
    BY DEF Rivals, Underway, Statements
  <2>6. \A id \in Ids : users'[id] # Null => id <= created'
    BY <1>2, <2>1, <2>2
  <2>7. ASSUME NEW o \in Requests, asks'[o].op = "delete", asks'[o].pc = "write"
        PROVE  /\ asks'[o].saw # Null /\ asks'[o].id <= created'
               /\ users'[asks'[o].id] = Null \/ users'[asks'[o].id].type = "dummy" \/ asks'[o].met
    <3>1. o # q
      BY <2>3, <2>7
    <3>2. asks[o].op = "delete" /\ asks[o].pc = "write" /\ asks[o].id \in Ids
      BY <1>3, <2>4, <2>7, <3>1
    <3>3. CASE asks[o].id = r.id
      BY <1>2, <2>1, <2>4, <2>5, <3>1, <3>2, <3>3, ZenonT(60)
    <3>4. CASE asks[o].id # r.id
      <4>1. users'[asks[o].id] = users[asks[o].id]
        BY <2>2, <3>2, <3>4
      <4>2. /\ asks[o].saw # Null /\ asks[o].id <= created
            /\ users[asks[o].id] = Null \/ users[asks[o].id].type = "dummy" \/ asks[o].met
        BY <1>2, <3>2
      <4>3. /\ asks'[o].id = asks[o].id /\ asks'[o].saw = asks[o].saw
            /\ asks[o].met => asks'[o].met
        BY <2>4, <3>1
      <4> QED  BY <2>1, <4>1, <4>2, <4>3
    <3> QED  BY <3>3, <3>4
  <2> QED  BY <2>6, <2>7 DEF Sighted
<1> QED  BY <1>7, <1>8, <1>9, <1>10, <1>11, <1>12, <1>13, <1>14, <1>15, <1>16 DEF Serve

\* An answer ends a request and touches no account.
LEMMA AnswerIsBlind ==
    ASSUME TypeOK, Sighted, NEW q \in Requests, Succeed(q) \/ Fail(q)
    PROVE  Sighted' /\ users' = users
<1>1. users' = users /\ created' = created /\ asks' = [asks EXCEPT ![q] = [Unsent EXCEPT !.pc = "settled"]]
  BY DEF Succeed, Fail
<1> QED  BY <1>1 DEF Sighted, TypeOK, Unsent

\* A statement makes a row Null by a deletion of it only.
LEMMA ServeDeletesDummies ==
    ASSUME TypeOK, Sighted, NEW q \in Requests, Serve(q), NEW id \in Ids, users[id] # Null, users'[id] = Null
    PROVE  users[id].type = "dummy" \/ (asks[q].op = "delete" /\ asks[q].id = id /\ asks[q].met)
<1>1. users \in [Ids -> Account \cup {Null}] /\ created \in 0 .. MaxUsers /\ asks[q] \in Ask
  BY DEF TypeOK
<1>2. CASE DeleteUser(q)
  <2>1. asks[q].op = "delete" /\ asks[q].pc = "write" /\ asks[q].id = id
    BY <1>1, <1>2 DEF DeleteUser
  <2> QED  BY <2>1 DEF Sighted
<1>3. CASE Admit(q) \/ ReadTarget(q) \/ CheckName(q)
  BY <1>3 DEF Admit, ReadTarget, CheckName
<1>4. CASE WritePassword(q) \/ ClearPassword(q)
  <2>1. \A pass \in BOOLEAN : [users[id] EXCEPT !.pass = pass] \in Account
    BY <1>1 DEF Account
  <2>2. \E pass \in BOOLEAN : users'[id] \in {users[id], [users[id] EXCEPT !.pass = pass]}
    BY <1>1, <1>4 DEF WritePassword, ClearPassword, SetPass
  <2>3. Null \notin Account
    BY UserManagementAssumption
  <2> QED  BY <1>1, <2>1, <2>2, <2>3
<1>5. CASE SwitchFactorOff(q) \/ DeleteCodes(q)
  <2>1. \A totp \in Factors : [users[id] EXCEPT !.totp = totp] \in Account
    BY <1>1 DEF Account
  <2>2. \E totp \in Factors : users'[id] \in {users[id], [users[id] EXCEPT !.totp = totp]}
    BY <1>1, <1>5 DEF SwitchFactorOff, DeleteCodes, SetTotp, Factors
  <2>3. Null \notin Account
    BY UserManagementAssumption
  <2> QED  BY <1>1, <2>1, <2>2, <2>3
<1>6. CASE WriteFields(q) \/ Insert(q)
  <2>1. CASE WriteFields(q)
    <3> DEFINE r == asks[q]
               row == users[r.id]
               New(f) == IF r.body[f] = Null THEN row[f] ELSE r.body[f]
               written == [row EXCEPT !.name = New("name"), !.role = New("role"),
                                      !.active = New("active"), !.type = New("type")]
    <3>1. r.id \in Ids /\ r.body \in Body /\ row \in Account
      BY <1>1, <2>1 DEF WriteFields, Ask, Ops
    <3>2. New("name") \in Names /\ New("role") \in Roles /\ New("active") \in BOOLEAN /\ New("type") \in Types
      BY <3>1 DEF Body, Account
    <3>3. written \in Account
      BY <3>1, <3>2 DEF Account
    <3>4. users' = [users EXCEPT ![r.id] = written]
      BY <2>1 DEF WriteFields
    <3> QED  BY <1>1, <3>1, <3>3, <3>4, UserManagementAssumption
  <2>2. CASE Insert(q)
    <3>1. id # created + 1
      BY <1>1 DEF Sighted, Ids
    <3> QED  BY <1>1, <2>2, <3>1 DEF Insert
  <2> QED  BY <1>6, <2>1, <2>2
<1> QED  BY <1>2, <1>3, <1>4, <1>5, <1>6 DEF Serve

LEMMA StaysSighted == Spec => []Sighted
<1>1. Init => Sighted
  BY UserManagementAssumption DEF Init, Sighted, Unsent, Ids
<1>2. TypeOK /\ Sighted /\ [Next]_vars => Sighted'
  <2> SUFFICES ASSUME TypeOK, Sighted, [Next]_vars  PROVE Sighted'
    OBVIOUS
  <2>1. ASSUME NEW p \in part.by, Look(p) \/ InDialog(p) \/ \E row \in Shown(p) : OnRow(p, row)
        PROVE  Sighted'
    <3>1. p \in Admins
      BY UserManagementAssumption DEF TypeOK
    <3> QED  BY <2>1, <3>1, PageStepIsBlind
  <2>2. ASSUME NEW q \in Requests, Serve(q) \/ Succeed(q) \/ Fail(q)
        PROVE  Sighted'
    BY <2>2, ServeKeepsSight, AnswerIsBlind
  <2>3. CASE UNCHANGED vars
    BY <2>3 DEF vars, Sighted
  <2> QED  BY <2>1, <2>2, <2>3 DEF Next
<1> QED  BY <1>1, <1>2, TypeCorrect, PTL DEF Spec

\* DeletedWereDummies: however old the page is whose button was pressed and
\* whatever other administrators do meanwhile, an account is deleted as a
\* dummy, or was written to between the look at it and its deletion.
THEOREM DeletedWereDummies == Spec => OnlyDummiesAreDeleted
<1> DEFINE Deletes == \A id \in Ids : users[id] # Null /\ users'[id] = Null =>
                         \/ users[id].type = "dummy"
                         \/ \E q \in Requests : asks[q].op = "delete" /\ asks[q].id = id /\ asks[q].met
<1>1. TypeOK /\ Sighted /\ [Next]_vars => [Deletes]_vars
  <2> SUFFICES ASSUME TypeOK, Sighted, Next  PROVE Deletes
    OBVIOUS
  <2>1. ASSUME NEW p \in part.by, Look(p) \/ InDialog(p) \/ \E row \in Shown(p) : OnRow(p, row)
        PROVE  Deletes
    <3>1. p \in Admins
      BY UserManagementAssumption DEF TypeOK
    <3> QED  BY <2>1, <3>1, PageStepIsBlind
  <2>2. ASSUME NEW q \in Requests, Serve(q) \/ Succeed(q) \/ Fail(q)
        PROVE  Deletes
    BY <2>2, ServeDeletesDummies, AnswerIsBlind
  <2> QED  BY <2>1, <2>2 DEF Next
<1>2. Spec => [][Deletes]_vars
  BY <1>1, TypeCorrect, StaysSighted, PTL DEF Spec
<1> QED  BY <1>2 DEF OnlyDummiesAreDeleted

-----------------------------------------------------------------------------
(* Requests as the pages send them.                                        *)

\* What the page's dialogs make sure of: a deletion was warned of, an update
\* of one's own account takes no right away without a warning, and whoever is
\* to sign in by a password is sent one.
Meant(by, op, id, body, warned) ==
    /\ op = "delete" => warned
    /\ op = "update" /\ id = by /\ ~warned =>
          body.role = Null /\ body.active # FALSE /\ body.type # "dummy"
    /\ op \in {"update", "create"} /\ body.type = "local" => body.pass

WellMeant(r) == Meant(r.by, r.op, r.id, r.body, r.warned)

PageStep(p) == Look(p) \/ InDialog(p) \/ \E row \in Shown(p) : OnRow(p, row)

\* A well-meant request that is new.
Fresh(q) ==
    /\ asks[q] = Unsent /\ asks' = [asks EXCEPT ![q] = asks'[q]]
    /\ asks'[q].pc = "admit" /\ WellMeant(asks'[q])

LEMMA SendIsFresh ==
    ASSUME TypeOK, NEW p, NEW q \in Requests, NEW op, NEW form, NEW id, NEW body, NEW warned, NEW dialog,
           Send(p, q, op, form, id, body, warned, dialog), Meant(p, op, id, body, warned)
    PROVE  Fresh(q)
<1> DEFINE r == [Unsent EXCEPT !.pc = "admit", !.by = p, !.op = op, !.form = form,
                               !.id = id, !.body = body, !.warned = warned]
<1>1. asks[q] = Unsent /\ asks' = [asks EXCEPT ![q] = r] /\ asks'[q] = r
  BY DEF Send, TypeOK
<1>2. r.pc = "admit" /\ r.by = p /\ r.op = op /\ r.id = id /\ r.body = body /\ r.warned = warned
  BY DEF Unsent
<1> HIDE DEF r
<1>3. WellMeant(r)
  BY <1>2, Zenon DEF WellMeant
<1>4. asks' = [asks EXCEPT ![q] = asks'[q]]
  BY <1>1
<1> QED  BY <1>1, <1>2, <1>3, <1>4 DEF Fresh

\* A page changes no account; it sends a well-meant request, or none.
LEMMA PagesMeanWell ==
    ASSUME TypeOK, NEW p \in Admins, PageStep(p)
    PROVE  /\ users' = users /\ created' = created /\ loose' = loose
           /\ asks' = asks \/ \E q \in Requests : Fresh(q)
<1> DEFINE d == pages[p].dialog
           Goal == /\ users' = users /\ created' = created /\ loose' = loose
                   /\ asks' = asks \/ \E q \in Requests : Fresh(q)
<1>1. ASSUME UNCHANGED <<users, created, loose, asks, part>>
      PROVE  Goal
  BY <1>1
<1>2. ASSUME NEW q \in Requests, NEW op, NEW form, NEW id, NEW body, NEW warned, NEW dialog,
             Send(p, q, op, form, id, body, warned, dialog), Fresh(q)
      PROVE  Goal
  BY <1>2 DEF Send
<1>3. d \in Dialogs \cup {Null}
  BY DEF TypeOK, Page
<1>4. ASSUME d # Null, d.kind # "create"
      PROVE  d.row.user \in Account
  BY <1>3, <1>4, UserManagementAssumption DEF Dialogs, Row
<1>5. \A row \in Shown(p) : row.user \in Account
  BY DEF TypeOK, Page, List, Shown, Row
<1>6. Null \notin BOOLEAN /\ Null \notin Types /\ Null \notin Roles
  BY UserManagementAssumption
<1>7. CASE Look(p)
  BY <1>1, <1>7 DEF Look, Search, Filter, NextPage, PreviousPage, Turn, Refresh
<1>8. CASE InDialog(p)
  <2>1. CASE OpenCreate(p) \/ Close(p) \/ AskTotp(p)
    BY <1>1, <2>1 DEF OpenCreate, Close, AskTotp, Open
  <2>2. ASSUME NEW q \in Requests, ConfirmSelf(p, q)  PROVE Goal
    <3> DEFINE body == IF d.kind = "selfRole" THEN RoleOf(d.role) ELSE ActiveOf(~d.row.user.active)
    <3>1. Send(p, q, "update", "list", d.row.id, body, TRUE, Null)
      BY <2>2 DEF ConfirmSelf
    <3>2. body.type # "local"
      BY <1>6 DEF RoleOf, ActiveOf, Nothing, Types
    <3> HIDE DEF body
    <3>3. Meant(p, "update", d.row.id, body, TRUE)
      BY <3>2 DEF Meant
    <3>4. Fresh(q)
      BY <3>1, <3>3, SendIsFresh
    <3> QED  BY <1>2, <3>1, <3>4
  <2>3. ASSUME NEW q \in Requests, ConfirmDelete(p, q)  PROVE Goal
    <3>1. Send(p, q, "delete", "delete", d.row.id, Nothing, TRUE, d)
      BY <2>3 DEF ConfirmDelete
    <3>2. Meant(p, "delete", d.row.id, Nothing, TRUE)
      BY DEF Meant
    <3>3. Fresh(q)
      BY <3>1, <3>2, SendIsFresh
    <3> QED  BY <1>2, <3>1, <3>3
  <2>4. ASSUME NEW q \in Requests, ConfirmTotp(p, q)  PROVE Goal
    <3>1. Send(p, q, "totp", "edit", d.row.id, Nothing, FALSE, d)
      BY <2>4 DEF ConfirmTotp
    <3>2. Meant(p, "totp", d.row.id, Nothing, FALSE)
      BY DEF Meant
    <3>3. Fresh(q)
      BY <3>1, <3>2, SendIsFresh
    <3> QED  BY <1>2, <3>1, <3>3
  <2>5. ASSUME NEW q \in Requests, NEW name \in Names, NEW type \in Types, NEW pass \in BOOLEAN,
               SubmitEdit(p, q, name, type, pass)
        PROVE  Goal
    <3> DEFINE was == d.row.user
               body == [name |-> IF name = was.name THEN Null ELSE name, role |-> Null, active |-> Null,
                        type |-> IF type = was.type THEN Null ELSE type, pass |-> pass]
    <3>1. /\ Send(p, q, "update", "edit", d.row.id, body, type = "dummy", d)
          /\ d # Null /\ d.kind = "edit"
          /\ (type = "oauth") = (was.type = "oauth")
          /\ type = "local" /\ was.type = "dummy" => pass
      BY <2>5 DEF SubmitEdit
    <3>2. was.type \in Types
      BY <1>4, <3>1 DEF Account
    <3>3. body.type = "local" => body.pass
      BY <1>6, <3>1, <3>2 DEF Types
    <3>4. type # "dummy" => body.type # "dummy"
      BY <1>6 DEF Types
    <3>5. body.role = Null /\ body.active # FALSE
      BY <1>6
    <3> HIDE DEF body
    <3>6. Meant(p, "update", d.row.id, body, type = "dummy")
      BY <3>3, <3>4, <3>5 DEF Meant
    <3>7. Fresh(q)
      BY <3>1, <3>6, SendIsFresh
    <3> QED  BY <1>2, <3>1, <3>7
  <2>6. ASSUME NEW q \in Requests, NEW name \in Typed, NEW type \in Types, NEW role \in Assigned,
               SubmitCreate(p, q, name, type, role)
        PROVE  Goal
    <3> DEFINE body == [name |-> name, role |-> role, active |-> Null, type |-> type, pass |-> type = "local"]
    <3>1. Send(p, q, "create", "create", Null, body, FALSE, d)
      BY <2>6 DEF SubmitCreate
    <3>2. body.type = "local" => body.pass
      OBVIOUS
    <3> HIDE DEF body
    <3>3. Meant(p, "create", Null, body, FALSE)
      BY <3>2 DEF Meant
    <3>4. Fresh(q)
      BY <3>1, <3>3, SendIsFresh
    <3> QED  BY <1>2, <3>1, <3>4
  <2> QED  BY <1>8, <2>1, <2>2, <2>3, <2>4, <2>5, <2>6 DEF InDialog
<1>9. CASE \E row \in Shown(p) : OnRow(p, row)
  <2>1. PICK row \in Shown(p) : OnRow(p, row)
    BY <1>9
  <2>2. CASE OpenEdit(p, row) \/ AskDelete(p, row)
    BY <1>1, <2>2 DEF OpenEdit, AskDelete, Open
  <2>3. ASSUME NEW q \in Requests, NEW role \in Assigned, ChooseRole(p, q, row, role)
        PROVE  Goal
    <3>1. CASE row.id = p
      BY <1>1, <2>3, <3>1 DEF ChooseRole, Open
    <3>2. CASE row.id # p
      <4>1. Send(p, q, "update", "list", row.id, RoleOf(role), FALSE, Null)
        BY <2>3, <3>2 DEF ChooseRole
      <4>2. RoleOf(role).type # "local"
        BY <1>6 DEF RoleOf, Nothing, Types
      <4>3. Meant(p, "update", row.id, RoleOf(role), FALSE)
        BY <3>2, <4>2 DEF Meant
      <4>4. Fresh(q)
        BY <4>1, <4>3, SendIsFresh
      <4> QED  BY <1>2, <4>1, <4>4
    <3> QED  BY <3>1, <3>2
  <2>4. ASSUME NEW q \in Requests, ToggleActive(p, q, row)
        PROVE  Goal
    <3>1. CASE row.id = p /\ row.user.active
      BY <1>1, <2>4, <3>1 DEF ToggleActive, Open
    <3>2. CASE ~(row.id = p /\ row.user.active)
      <4> DEFINE body == ActiveOf(~row.user.active)
      <4>1. Send(p, q, "update", "list", row.id, body, FALSE, Null)
        BY <2>4, <3>2 DEF ToggleActive
      <4>2. body.type # "local" /\ body.type # "dummy" /\ body.role = Null /\ body.active = ~row.user.active
        BY <1>6 DEF ActiveOf, Nothing, Types
      <4>3. row.id = p => body.active # FALSE
        BY <1>5, <3>2, <4>2 DEF Account
      <4> HIDE DEF body
      <4>4. Meant(p, "update", row.id, body, FALSE)
        BY <4>2, <4>3 DEF Meant
      <4>5. Fresh(q)
        BY <4>1, <4>4, SendIsFresh
      <4> QED  BY <1>2, <4>1, <4>5
    <3> QED  BY <3>1, <3>2
  <2> QED  BY <2>1, <2>2, <2>3, <2>4 DEF OnRow
<1> QED  BY <1>7, <1>8, <1>9 DEF PageStep

\* A statement leaves what is asked as it is, and the other requests where
\* they are.
LEMMA ServeKeepsRequests ==
    ASSUME TypeOK, NEW q \in Requests, Serve(q)
    PROVE  /\ \A o \in Requests :
                 /\ asks'[o].op = asks[o].op /\ asks'[o].by = asks[o].by /\ asks'[o].id = asks[o].id
                 /\ asks'[o].body = asks[o].body /\ asks'[o].warned = asks[o].warned
           /\ \A o \in Requests \ {q} : asks'[o].pc = asks[o].pc /\ asks'[o].saw = asks[o].saw
           /\ asks'[q].pc # "unsent"
<1> DEFINE r == asks[q]
<1>1. asks \in [Requests -> Ask] /\ r \in Ask
  BY DEF TypeOK
<1>2. ASSUME NEW pc, pc # "unsent", Step(q, pc)
      PROVE  /\ \A o \in Requests :
                   /\ asks'[o].op = asks[o].op /\ asks'[o].by = asks[o].by /\ asks'[o].id = asks[o].id
                   /\ asks'[o].body = asks[o].body /\ asks'[o].warned = asks[o].warned
             /\ \A o \in Requests \ {q} : asks'[o].pc = asks[o].pc /\ asks'[o].saw = asks[o].saw
             /\ asks'[q].pc # "unsent"
  BY <1>1, <1>2 DEF Step, Ask
<1>3. ASSUME NEW pc, NEW saw, pc # "unsent", asks' = [asks EXCEPT ![q].pc = pc, ![q].saw = saw]
      PROVE  /\ \A o \in Requests :
                   /\ asks'[o].op = asks[o].op /\ asks'[o].by = asks[o].by /\ asks'[o].id = asks[o].id
                   /\ asks'[o].body = asks[o].body /\ asks'[o].warned = asks[o].warned
             /\ \A o \in Requests \ {q} : asks'[o].pc = asks[o].pc /\ asks'[o].saw = asks[o].saw
             /\ asks'[q].pc # "unsent"
  BY <1>1, <1>3 DEF Ask
<1>4. \A saw : AfterPassword(r, saw) # "unsent" /\ AfterName(r, saw) # "unsent" /\ AfterRead(r, saw) # "unsent"
  BY DEF AfterPassword, AfterName, AfterRead
<1>5. CASE Admit(q)
  BY <1>2, <1>5 DEF Admit
<1>6. CASE ReadTarget(q)
  <2> DEFINE row == users[r.id]
             pc == IF r.op = "update" THEN AfterRead(r, row) ELSE "write"
  <2>1. asks' = [asks EXCEPT ![q].pc = pc, ![q].saw = row]
    BY <1>6 DEF ReadTarget
  <2>2. pc # "unsent"
    BY <1>4
  <2> HIDE DEF pc, row
  <2> QED  BY <1>3, <2>1, <2>2
<1>7. CASE CheckName(q)
  BY <1>2, <1>4, <1>7 DEF CheckName
<1>8. CASE WritePassword(q)
  BY <1>2, <1>4, <1>8 DEF WritePassword
<1>9. CASE ClearPassword(q)
  BY <1>2, <1>9 DEF ClearPassword
<1>10. CASE WriteFields(q)
  BY <1>1, <1>10 DEF WriteFields, Ask
<1>11. CASE Insert(q)
  BY <1>2, <1>11 DEF Insert
<1>12. CASE DeleteUser(q)
  BY <1>3, <1>12 DEF DeleteUser
<1>13. CASE SwitchFactorOff(q)
  BY <1>2, <1>13 DEF SwitchFactorOff
<1>14. CASE DeleteCodes(q)
  BY <1>3, <1>14 DEF DeleteCodes
<1> QED  BY <1>5, <1>6, <1>7, <1>8, <1>9, <1>10, <1>11, <1>12, <1>13, <1>14 DEF Serve

\* Requests stay as they were meant.
LEMMA RequestsMeanWell == Spec => [](\A q \in Requests : WellMeant(asks[q]))
<1> DEFINE Inv == \A q \in Requests : WellMeant(asks[q])
<1>1. WellMeant(Unsent) /\ WellMeant([Unsent EXCEPT !.pc = "settled"])
  BY UserManagementAssumption DEF WellMeant, Meant, Unsent, Ops
<1>2. Init => Inv
  BY <1>1 DEF Init
<1>3. TypeOK /\ Inv /\ [Next]_vars => Inv'
  <2> SUFFICES ASSUME TypeOK, Inv, [Next]_vars  PROVE Inv'
    OBVIOUS
  <2>1. ASSUME NEW p \in part.by, PageStep(p)  PROVE Inv'
    <3>1. p \in Admins
      BY UserManagementAssumption DEF TypeOK
    <3> QED  BY <2>1, <3>1, PagesMeanWell DEF Fresh, TypeOK
  <2>2. ASSUME NEW q \in Requests, Serve(q)  PROVE Inv'
    BY <2>2, ServeKeepsRequests DEF WellMeant
  <2>3. ASSUME NEW q \in Requests, Succeed(q) \/ Fail(q)  PROVE Inv'
    <3>1. asks' = [asks EXCEPT ![q] = [Unsent EXCEPT !.pc = "settled"]]
      BY <2>3 DEF Succeed, Fail
    <3> QED  BY <1>1, <3>1 DEF TypeOK
  <2>4. CASE UNCHANGED vars
    BY <2>4 DEF vars
  <2> QED  BY <2>1, <2>2, <2>3, <2>4 DEF Next, PageStep
<1> QED  BY <1>2, <1>3, TypeCorrect, PTL DEF Spec

-----------------------------------------------------------------------------
(* The last administrator.                                                 *)

AllMeant == \A q \in Requests : WellMeant(asks[q])

LEMMA LastOneWasWarned ==
    ASSUME TypeOK, Sighted, AllMeant, NEW q \in Requests, Serve(q),
           Administrators # {}, Administrators' = {}
    PROVE  /\ asks[q].pc = "write" /\ asks'[q].pc = "done"
           /\ asks[q].warned \/ asks[q].by \notin Administrators
<1> DEFINE r == asks[q]
           Administers(u) == u \in Account /\ u.role = "super_admin" /\ u.active /\ u.type # "dummy"
<1>1. /\ users \in [Ids -> Account \cup {Null}] /\ created \in 0 .. MaxUsers
      /\ asks \in [Requests -> Ask] /\ r \in Ask /\ WellMeant(r)
  BY DEF TypeOK, AllMeant
<1>2. PICK a \in Ids : a \in Administrators
  BY DEF Administrators, Live
<1>3. \A id \in Administrators : id \in Ids /\ users[id] # Null /\ Administers(users[id])
  BY <1>1 DEF Administrators, Live
<1>4. \A id \in Ids : ~Administers(users'[id])
  BY UserManagementAssumption DEF Administrators, Live
<1>5. CASE Admit(q) \/ ReadTarget(q) \/ CheckName(q)
  <2>1. users' = users
    BY <1>5 DEF Admit, ReadTarget, CheckName
  <2> QED  BY <1>2, <1>3, <1>4, <2>1
<1>6. CASE WritePassword(q) \/ ClearPassword(q)
  <2>1. \A pass \in BOOLEAN : Administers([users[a] EXCEPT !.pass = pass])
    BY <1>2, <1>3 DEF Account
  <2>2. \E pass \in BOOLEAN : users'[a] \in {users[a], [users[a] EXCEPT !.pass = pass]}
    BY <1>1, <1>2, <1>6 DEF WritePassword, ClearPassword, SetPass
  <2> HIDE DEF Administers
  <2> QED  BY <1>2, <1>3, <1>4, <2>1, <2>2, Zenon
<1>7. CASE SwitchFactorOff(q) \/ DeleteCodes(q)
  <2>1. \A totp \in Factors : Administers([users[a] EXCEPT !.totp = totp])
    BY <1>2, <1>3 DEF Account
  <2>2. \E totp \in Factors : users'[a] \in {users[a], [users[a] EXCEPT !.totp = totp]}
    BY <1>1, <1>2, <1>7 DEF SwitchFactorOff, DeleteCodes, SetTotp, Factors
  <2> HIDE DEF Administers
  <2> QED  BY <1>2, <1>3, <1>4, <2>1, <2>2, Zenon
<1>8. CASE Insert(q)
  <2>1. a # created + 1
    BY <1>1, <1>2, <1>3 DEF Sighted, Ids
  <2>2. users'[a] = users[a]
    BY <1>1, <1>2, <1>8, <2>1 DEF Insert
  <2> QED  BY <1>2, <1>3, <1>4, <2>2
<1>9. CASE DeleteUser(q)
  <2>1. r.pc = "write" /\ asks'[q].pc = "done" /\ r.op = "delete"
    BY <1>1, <1>9 DEF DeleteUser, Ask
  <2> QED  BY <1>1, <2>1 DEF WellMeant, Meant
<1>10. CASE WriteFields(q)
  <2> DEFINE row == users[r.id]
             New(f) == IF r.body[f] = Null THEN row[f] ELSE r.body[f]
             written == [row EXCEPT !.name = New("name"), !.role = New("role"),
                                    !.active = New("active"), !.type = New("type")]
  <2>1. r.pc = "write" /\ asks'[q].pc = "done" /\ r.op = "update"
    BY <1>1, <1>10 DEF WriteFields, Ask
  <2>2. r.id \in Ids /\ r.body \in Body /\ row \in Account
    BY <1>1, <1>10 DEF WriteFields, Ask, Ops
  <2>3. users' = [users EXCEPT ![r.id] = written]
    BY <1>10 DEF WriteFields
  <2>4. SUFFICES ASSUME ~r.warned, r.by \in Administrators  PROVE FALSE
    BY <2>1
  <2>5. CASE r.id # r.by
    <3>1. users'[r.by] = users[r.by]
      BY <1>1, <2>3, <2>5
    <3> QED  BY <1>3, <1>4, <2>4, <3>1
  <2>6. CASE r.id = r.by
    <3>1. r.body.role = Null /\ r.body.active # FALSE /\ r.body.type # "dummy"
      BY <1>1, <2>1, <2>4, <2>6 DEF WellMeant, Meant
    <3>2. row.role = "super_admin" /\ row.active /\ row.type # "dummy"
      BY <1>3, <2>4, <2>6
    <3>3. /\ New("name") \in Names /\ New("role") = "super_admin"
          /\ New("active") \in BOOLEAN /\ New("active") /\ New("type") \in Types \ {"dummy"}
      BY <2>2, <3>1, <3>2 DEF Body, Account
    <3>4. /\ written \in Account /\ written.role = "super_admin"
          /\ written.active /\ written.type # "dummy"
      BY <2>2, <3>3 DEF Account, Roles
    <3> QED  BY <1>1, <1>4, <2>2, <2>3, <3>4
  <2> QED  BY <2>5, <2>6
<1> QED  BY <1>5, <1>6, <1>7, <1>8, <1>9, <1>10 DEF Serve

\* The installation loses its last administrator knowingly only: whichever
\* administrators change, disable or delete whom at the same time, the request
\* that leaves none was warned of, or its sender is no administrator any more.
THEOREM LastAdminWasWarned == Spec => LastAdminGoesKnowingly
<1> DEFINE Goes == Administrators # {} /\ Administrators' = {} =>
                      \E q \in Requests :
                          /\ asks[q].pc = "write" /\ asks'[q].pc = "done"
                          /\ asks[q].warned \/ asks[q].by \notin Administrators
<1>1. TypeOK /\ Sighted /\ AllMeant /\ [Next]_vars => [Goes]_vars
  <2> SUFFICES ASSUME TypeOK, Sighted, AllMeant, Next  PROVE Goes
    OBVIOUS
  <2>1. ASSUME users' = users  PROVE Administrators' = Administrators
    BY <2>1 DEF Administrators, Live
  <2>2. ASSUME NEW p \in part.by, PageStep(p)  PROVE Goes
    <3>1. p \in Admins
      BY UserManagementAssumption DEF TypeOK
    <3> QED  BY <2>1, <2>2, <3>1, PagesMeanWell
  <2>3. ASSUME NEW q \in Requests, Serve(q)  PROVE Goes
    BY <2>3, LastOneWasWarned
  <2>4. ASSUME NEW q \in Requests, Succeed(q) \/ Fail(q)  PROVE Goes
    BY <2>1, <2>4, AnswerIsBlind
  <2> QED  BY <2>2, <2>3, <2>4 DEF Next, PageStep
<1>2. Spec => []AllMeant
  BY RequestsMeanWell DEF AllMeant
<1>3. Spec => [][Goes]_vars
  BY <1>1, <1>2, TypeCorrect, StaysSighted, PTL DEF Spec
<1> QED  BY <1>3 DEF LastAdminGoesKnowingly

-----------------------------------------------------------------------------
(* The pages of the list.                                                  *)

\* Every set of naturals that is not empty has a least element.
LEMMA Least ==
    ASSUME NEW S, S \subseteq Nat, S # {}
    PROVE  \E x \in S : \A y \in S : x <= y
<1> DEFINE R == OpToRel(<, Nat)
<1>1. IsWellFoundedOn(R, Nat)
  BY NatLessThanWellFounded
<1>2. R = {ss \in Nat \X Nat : ss[1] < ss[2]}
  BY DEF OpToRel
<1> HIDE DEF R
<1>3. PICK x \in S : \A y \in S : ~ (<<y, x>> \in R)
  BY <1>1, WFMin
<1>4. \A y \in S : <<y, x>> \in Nat \X Nat /\ <<y, x>>[1] = y /\ <<y, x>>[2] = x
  OBVIOUS
<1>5. \A y \in S : ~ (y < x)
  BY <1>2, <1>3, <1>4
<1> QED  BY <1>5

\* A set of accounts that is not empty has a newest one.
LEMMA Newest ==
    ASSUME NEW S, S \subseteq Ids, S # {}
    PROVE  \E x \in S : \A y \in S : y <= x
<1> DEFINE T == {MaxUsers - x : x \in S}
<1>1. MaxUsers \in Nat /\ S \subseteq 1 .. MaxUsers
  BY UserManagementAssumption DEF Ids
<1>2. \A x \in S : MaxUsers - x \in Nat
  BY <1>1
<1>3. T \subseteq Nat /\ T # {}
  BY <1>2
<1>4. \A y \in S : MaxUsers - y \in T
  OBVIOUS
<1>5. \A z \in T : \E x \in S : z = MaxUsers - x
  OBVIOUS
<1> HIDE DEF T
<1>6. PICK z \in T : \A y \in T : z <= y
  BY <1>3, Least
<1>7. PICK x \in S : z = MaxUsers - x
  BY <1>5
<1>8. ASSUME NEW y \in S  PROVE y <= x
  <2>1. z <= MaxUsers - y
    BY <1>4, <1>6
  <2> QED  BY <1>1, <1>7, <2>1
<1> QED  BY <1>8

\* Of accounts in the order of their creation, every place from the newest on
\* is taken by one: the list has no holes.
LEMMA PlaceTaken ==
    ASSUME NEW S, S \subseteq Ids, NEW k \in Nat, k < Cardinality(S)
    PROVE  \E id \in S : Before(id, S) = k
<1>1. S \subseteq Nat /\ IsFiniteSet(S)
  <2>1. Ids \subseteq Nat /\ IsFiniteSet(Ids)
    BY FS_Interval, UserManagementAssumption DEF Ids
  <2> QED  BY <2>1, FS_Subset
<1>2. \A id : IsFiniteSet({j \in S : j > id}) /\ Before(id, S) \in Nat
  BY <1>1, FS_Subset, FS_CardinalityType DEF Before
<1> DEFINE D == {id \in S : Before(id, S) <= k}
<1>3. D # {}
  <2>1. S # {}
    BY FS_EmptySet
  <2>2. PICK g \in S : \A y \in S : y <= g
    BY <2>1, Newest
  <2>3. {j \in S : j > g} = {}
    <3>1. \A j \in S : ~(j > g)
      BY <1>1, <2>2
    <3> QED  BY <3>1
  <2>4. Before(g, S) = 0
    BY <2>3, FS_EmptySet DEF Before
  <2> QED  BY <2>4
<1>4. D \subseteq Nat
  BY <1>1
<1>5. PICK m \in D : \A y \in D : m <= y
  BY <1>3, <1>4, Least
<1>6. SUFFICES ASSUME Before(m, S) # k  PROVE FALSE
  BY <1>5
<1> DEFINE T == {j \in S : j > m}
           Older == {j \in S : j < m}
<1>7. IsFiniteSet(T) /\ Cardinality(T) = Before(m, S) /\ m \notin T
  BY <1>1, <1>2 DEF Before
<1>8. Cardinality(T \cup {m}) = Before(m, S) + 1 /\ Before(m, S) + 1 <= k
  <2>1. Cardinality(T \cup {m}) = Cardinality(T) + 1
    BY <1>7, FS_AddElement
  <2>2. Before(m, S) \in Nat /\ Before(m, S) <= k /\ Before(m, S) # k
    BY <1>2, <1>5, <1>6
  <2> QED  BY <1>7, <2>1, <2>2
<1>9. S # T \cup {m}
  <2>1. k < Cardinality(S) /\ Before(m, S) \in Nat
    BY <1>2
  <2> HIDE DEF T
  <2>2. Cardinality(T \cup {m}) <= k
    BY <1>8
  <2>3. ASSUME S = T \cup {m}  PROVE FALSE
    <3>1. Cardinality(S) \in Nat
      BY <1>1, FS_CardinalityType
    <3> QED  BY <2>1, <2>2, <2>3, <3>1
  <2> QED  BY <2>3
<1>10. Older # {}
  <2>1. PICK x \in S : x \notin T \cup {m}
    BY <1>5, <1>9
  <2>2. x < m
    BY <1>1, <2>1
  <2> QED  BY <2>2
<1>11. PICK h \in Older : \A y \in Older : y <= h
  <2>1. Older \subseteq Ids
    OBVIOUS
  <2> QED  BY <1>10, <2>1, Newest
<1>12. {j \in S : j > h} = T \cup {m}
  <2>1. h < m
    OBVIOUS
  <2>2. ASSUME NEW j \in S  PROVE j > h <=> (j > m \/ j = m)
    <3>1. j < m => j <= h
      BY <1>11
    <3>2. j \in Nat /\ m \in Nat /\ h \in Nat
      BY <1>1
    <3> QED  BY <2>1, <3>1, <3>2
  <2> QED  BY <1>5, <2>2
<1>13. Before(h, S) <= k
  BY <1>8, <1>12 DEF Before
<1>14. h \in D /\ h < m
  BY <1>11, <1>13
<1> QED  BY <1>1, <1>4, <1>5, <1>14

\* A page that begins before the end of the list shows somebody.
LEMMA PageHasRows ==
    ASSUME TypeOK, NEW view \in View, view.search = Null, view.page * PageSize < Total(view)
    PROVE  Rows(view) # {}
<1> DEFINE matching == {id \in Live : Matches(users[id], view)}
           first == view.page * PageSize
<1>1. matching \subseteq Ids
  BY DEF Live
<1>2. PageSize \in Nat \ {0} /\ view.page \in Nat /\ first \in Nat
  BY UserManagementAssumption DEF View
<1>3. first < Cardinality(matching)
  BY DEF Total
<1>4. PICK id \in matching : Before(id, matching) = first
  <2> HIDE DEF matching, first
  <2> QED  BY <1>1, <1>2, <1>3, PlaceTaken
<1>5. Before(id, matching) \in first .. first + PageSize - 1
  BY <1>2, <1>4
<1>6. [id |-> id, user |-> users[id]] \in Rows(view)
  BY <1>4, <1>5 DEF Rows
<1> QED  BY <1>6

Untouched == \A q \in Requests : asks[q] = Unsent
Listed(p) == [rows |-> Rows(pages[p].view), total |-> Total(pages[p].view)]

\* As long as nobody changes the accounts, a list that is shown is the list of
\* its view, and the view is on a page that the list has.
Steady ==
    Untouched => \A p \in Admins :
        /\ pages[p].list \in {Unloaded, Listed(p)}
        /\ pages[p].view.page > 0 => pages[p].view.page * PageSize < Listed(p).total

LEMMA TotalOfFilters ==
    ASSUME NEW v, NEW w, v.role = w.role, v.type = w.type, v.hide = w.hide
    PROVE  Total(v) = Total(w)
BY DEF Total, Matches

LEMMA SameUsersSameList ==
    ASSUME users' = users, NEW p
    PROVE  Listed(p)' = [rows |-> Rows(pages'[p].view), total |-> Total(pages'[p].view)]
BY DEF Listed, Rows, Total, Matches, Live

\* Turning a page, typing a search and filtering end on a page of the list.
LEMMA TurnKeepsSteady ==
    ASSUME TypeOK, Steady, Untouched, NEW p \in Admins, NEW view \in View, Turn(p, view),
           view.page > 0 => view.page * PageSize < Total(view)
    PROVE  Steady'
<1>1. /\ pages' = [pages EXCEPT ![p] = [view |-> view, list |-> Unloaded, dialog |-> Null]]
      /\ users' = users
  BY DEF Turn
<1>2. \A o \in Admins : pages'[o] = IF o = p THEN [view |-> view, list |-> Unloaded, dialog |-> Null] ELSE pages[o]
  BY <1>1 DEF TypeOK
<1>3. ASSUME NEW o \in Admins
      PROVE  /\ pages'[o].list \in {Unloaded, Listed(o)'}
             /\ pages'[o].view.page > 0 => pages'[o].view.page * PageSize < Listed(o)'.total
  <2>1. Listed(o)' = [rows |-> Rows(pages'[o].view), total |-> Total(pages'[o].view)]
    BY <1>1, SameUsersSameList
  <2>2. CASE o = p
    BY <1>2, <2>1, <2>2
  <2>3. CASE o # p
    BY <1>2, <2>1, <2>3 DEF Steady, Listed
  <2> QED  BY <2>2, <2>3
<1> QED  BY <1>3 DEF Steady, Unloaded

LEMMA LookKeepsSteady ==
    ASSUME TypeOK, Steady, Untouched, NEW p \in Admins, Look(p)
    PROVE  Steady'
<1> DEFINE page == pages[p]
           view == page.view
<1>1. page \in Page /\ view \in View /\ view.page \in Nat /\ PageSize \in Nat \ {0}
  BY UserManagementAssumption DEF TypeOK, Page, View
<1>2. /\ page.list \in {Unloaded, Listed(p)}
      /\ view.page > 0 => view.page * PageSize < Total(view)
  BY DEF Steady, Listed
<1>3. ASSUME NEW term \in Typed \cup {Null}, Search(p, term)
      PROVE  Steady'
  <2> DEFINE v == [view EXCEPT !.search = term]
  <2>1. v \in View /\ v.role = view.role /\ v.type = view.type /\ v.hide = view.hide /\ v.page = view.page
    BY <1>1, UserManagementAssumption DEF View
  <2>2. Total(v) = Total(view)
    BY <2>1, TotalOfFilters
  <2>3. Turn(p, v)
    BY <1>3 DEF Search
  <2> HIDE DEF v
  <2> QED  BY <1>2, <2>1, <2>2, <2>3, TurnKeepsSteady
<1>4. ASSUME NEW role \in Roles \cup {Null}, NEW type \in Types \cup {Null}, NEW hide \in BOOLEAN,
             Filter(p, role, type, hide)
      PROVE  Steady'
  <2> DEFINE v == [view EXCEPT !.role = role, !.type = type, !.hide = hide, !.page = 0]
  <2>1. v \in View /\ v.page = 0
    BY <1>1 DEF View
  <2>2. Turn(p, v)
    BY <1>4 DEF Filter
  <2> HIDE DEF v
  <2> QED  BY <2>1, <2>2, TurnKeepsSteady
<1>5. CASE NextPage(p)
  <2> DEFINE v == [view EXCEPT !.page = @ + 1]
  <2>1. v \in View /\ v.role = view.role /\ v.type = view.type /\ v.hide = view.hide /\ v.page = view.page + 1
    BY <1>1 DEF View
  <2>2. Total(v) = Total(view)
    BY <2>1, TotalOfFilters
  <2>3. Turn(p, v) /\ v.page * PageSize < page.list.total
    BY <1>5, <2>1 DEF NextPage
  <2>4. v.page * PageSize \in Nat
    BY <1>1, <2>1
  <2>5. page.list.total = Total(view)
    BY <1>2, <2>3, <2>4 DEF Unloaded, Listed
  <2> HIDE DEF v
  <2> QED  BY <2>1, <2>2, <2>3, <2>5, TurnKeepsSteady
<1>6. CASE PreviousPage(p)
  <2> DEFINE v == [view EXCEPT !.page = @ - 1]
  <2>1. view.page > 0 /\ Turn(p, v)
    BY <1>6 DEF PreviousPage
  <2>2. v \in View /\ v.role = view.role /\ v.type = view.type /\ v.hide = view.hide /\ v.page = view.page - 1
    BY <1>1, <2>1 DEF View
  <2>3. Total(v) = Total(view)
    BY <2>2, TotalOfFilters
  <2>4. v.page * PageSize < Total(v)
    <3>1. (view.page - 1) * PageSize = view.page * PageSize - PageSize /\ view.page * PageSize \in Nat
      BY <1>1
    <3>2. view.page * PageSize < Total(view)
      BY <1>2, <2>1
    <3>3. [rows |-> Rows(view), total |-> Total(view)] \in List
      BY <1>1, ListType
    <3>4. Total(view) \in Nat
      BY <3>3 DEF List
    <3> HIDE DEF v
    <3> QED  BY <1>1, <2>2, <2>3, <3>1, <3>2, <3>4
  <2> HIDE DEF v
  <2> QED  BY <2>1, <2>2, <2>4, TurnKeepsSteady
<1>7. CASE Refresh(p)
  <2>1. /\ pages' = [pages EXCEPT ![p].list = [rows |-> Rows(view), total |-> Total(view)]]
        /\ users' = users
    BY <1>7 DEF Refresh
  <2>2. ASSUME NEW o \in Admins
        PROVE  /\ pages'[o].list \in {Unloaded, Listed(o)'}
               /\ pages'[o].view.page > 0 => pages'[o].view.page * PageSize < Listed(o)'.total
    <3>1. Listed(o)' = [rows |-> Rows(pages'[o].view), total |-> Total(pages'[o].view)]
      BY <2>1, SameUsersSameList
    <3>2. CASE o = p
      <4>1. pages'[p].list = [rows |-> Rows(view), total |-> Total(view)] /\ pages'[p].view = view
        BY <1>1, <2>1 DEF TypeOK, Page
      <4> QED  BY <1>2, <3>1, <3>2, <4>1
    <3>3. CASE o # p
      BY <2>1, <3>1, <3>3 DEF Steady, Listed, TypeOK
    <3> QED  BY <3>2, <3>3
  <2> QED  BY <2>2 DEF Steady, Unloaded
<1> QED  BY <1>3, <1>4, <1>5, <1>6, <1>7 DEF Look

\* Dialogs and what they send leave the lists and their views as they are.
LEMMA DialogsKeepLists ==
    ASSUME TypeOK, NEW p \in Admins, InDialog(p) \/ \E row \in Shown(p) : OnRow(p, row)
    PROVE  \A o \in Admins : pages'[o].view = pages[o].view /\ pages'[o].list = pages[o].list
<1> DEFINE Kept == \A o \in Admins : pages'[o].view = pages[o].view /\ pages'[o].list = pages[o].list
<1>1. ASSUME NEW dialog, pages' = [pages EXCEPT ![p].dialog = dialog]  PROVE Kept
  BY <1>1 DEF TypeOK, Page
<1>2. ASSUME NEW dialog, Open(p, dialog)  PROVE Kept
  BY <1>1, <1>2 DEF Open
<1>3. ASSUME NEW q, NEW op, NEW form, NEW id, NEW body, NEW warned, NEW dialog,
             Send(p, q, op, form, id, body, warned, dialog)
      PROVE  Kept
  BY <1>1, <1>3 DEF Send
<1>4. CASE InDialog(p)
  <2>1. CASE OpenCreate(p) \/ Close(p) \/ AskTotp(p)
    <3>1. CASE OpenCreate(p)
      BY <1>2, <3>1 DEF OpenCreate
    <3>2. CASE Close(p)
      BY <3>2 DEF Close, TypeOK, Page
    <3>3. CASE AskTotp(p)
      BY <3>3 DEF AskTotp, TypeOK, Page
    <3> QED  BY <2>1, <3>1, <3>2, <3>3
  <2>2. ASSUME NEW q \in Requests, ConfirmSelf(p, q)  PROVE Kept
    BY <1>3, <2>2 DEF ConfirmSelf
  <2>3. ASSUME NEW q \in Requests, ConfirmDelete(p, q)  PROVE Kept
    BY <1>3, <2>3 DEF ConfirmDelete
  <2>4. ASSUME NEW q \in Requests, ConfirmTotp(p, q)  PROVE Kept
    BY <1>3, <2>4 DEF ConfirmTotp
  <2>5. ASSUME NEW q \in Requests, NEW name \in Names, NEW type \in Types, NEW pass \in BOOLEAN,
               SubmitEdit(p, q, name, type, pass)
        PROVE  Kept
    BY <1>3, <2>5 DEF SubmitEdit
  <2>6. ASSUME NEW q \in Requests, NEW name \in Typed, NEW type \in Types, NEW role \in Assigned,
               SubmitCreate(p, q, name, type, role)
        PROVE  Kept
    BY <1>3, <2>6 DEF SubmitCreate
  <2> QED  BY <1>4, <2>1, <2>2, <2>3, <2>4, <2>5, <2>6 DEF InDialog
<1>5. CASE \E row \in Shown(p) : OnRow(p, row)
  <2>1. PICK row \in Shown(p) : OnRow(p, row)
    BY <1>5
  <2>2. CASE OpenEdit(p, row) \/ AskDelete(p, row)
    BY <1>2, <2>2 DEF OpenEdit, AskDelete
  <2>3. ASSUME NEW q \in Requests, NEW role \in Assigned, ChooseRole(p, q, row, role)
        PROVE  Kept
    <3>1. CASE row.id = p
      BY <1>2, <2>3, <3>1 DEF ChooseRole
    <3>2. CASE row.id # p
      BY <1>3, <2>3, <3>2 DEF ChooseRole
    <3> QED  BY <3>1, <3>2
  <2>4. ASSUME NEW q \in Requests, ToggleActive(p, q, row)
        PROVE  Kept
    <3>1. CASE row.id = p /\ row.user.active
      BY <1>2, <2>4, <3>1 DEF ToggleActive
    <3>2. CASE ~(row.id = p /\ row.user.active)
      BY <1>3, <2>4, <3>2 DEF ToggleActive
    <3> QED  BY <3>1, <3>2
  <2> QED  BY <2>1, <2>2, <2>3, <2>4 DEF OnRow
<1> QED  BY <1>4, <1>5

\* Who turns the pages of a list that nobody changes always gets to see
\* somebody: neither a filter nor the buttons lead past its end, for any
\* number of accounts and any size of a page.
THEOREM PagesStayFilled == Spec => []PagesAreFilled
<1>1. Init => Steady
  <2> SUFFICES ASSUME Init, NEW p \in Admins
               PROVE  pages[p].list = Unloaded /\ pages[p].view.page = 0
    BY DEF Steady
  <2> QED  BY DEF Init, NoView
<1>2. TypeOK /\ Steady /\ [Next]_vars => Steady'
  <2> SUFFICES ASSUME TypeOK, Steady, [Next]_vars  PROVE Steady'
    OBVIOUS
  <2>1. ASSUME users' = users, Untouched' => Untouched,
               \A o \in Admins : pages'[o].view = pages[o].view /\ pages'[o].list = pages[o].list
        PROVE  Steady'
    <3>1. SUFFICES ASSUME Untouched, NEW o \in Admins
                   PROVE  /\ pages'[o].list \in {Unloaded, Listed(o)'}
                          /\ pages'[o].view.page > 0 => pages'[o].view.page * PageSize < Listed(o)'.total
      BY <2>1 DEF Steady, Unloaded
    <3>2. Listed(o)' = Listed(o)
      BY <2>1, SameUsersSameList DEF Listed
    <3> QED  BY <2>1, <3>1, <3>2 DEF Steady
  <2>2. ASSUME NEW p \in part.by, PageStep(p)  PROVE Steady'
    <3>1. p \in Admins
      BY UserManagementAssumption DEF TypeOK
    <3>2. users' = users /\ (asks' = asks \/ \E q \in Requests : Fresh(q))
      BY <2>2, <3>1, PagesMeanWell
    <3>3. Untouched' => Untouched
      <4>1. \A q \in Requests : Fresh(q) => asks'[q] # Unsent
        BY DEF Fresh, Unsent
      <4>2. Unsent' = Unsent
        BY DEF Unsent, Nothing
      <4> QED  BY <3>2, <4>1, <4>2 DEF Untouched
    <3>4. CASE Look(p)
      <4>1. CASE Untouched
        BY <3>1, <3>4, <4>1, LookKeepsSteady
      <4>2. CASE ~Untouched
        BY <3>3, <4>2 DEF Steady
      <4> QED  BY <4>1, <4>2
    <3>5. CASE InDialog(p) \/ \E row \in Shown(p) : OnRow(p, row)
      BY <2>1, <3>1, <3>2, <3>3, <3>5, DialogsKeepLists
    <3> QED  BY <2>2, <3>4, <3>5 DEF PageStep
  <2>3. ASSUME NEW q \in Requests, Serve(q) \/ Succeed(q) \/ Fail(q)  PROVE Steady'
    <3>1. CASE Serve(q)
      BY <3>1, ServeKeepsRequests DEF Steady, Untouched, Unsent
    <3>2. CASE Succeed(q) \/ Fail(q)
      <4>1. asks'[q] = [Unsent EXCEPT !.pc = "settled"]
        BY <3>2 DEF Succeed, Fail, TypeOK
      <4> QED  BY <4>1 DEF Steady, Untouched, Unsent
    <3> QED  BY <2>3, <3>1, <3>2
  <2>4. CASE UNCHANGED vars
    BY <2>1, <2>4 DEF vars, Untouched, Unsent
  <2> QED  BY <2>2, <2>3, <2>4 DEF Next, PageStep
<1>3. TypeOK /\ Steady => PagesAreFilled
  <2> SUFFICES ASSUME TypeOK, Steady, Untouched, NEW p \in Admins,
                      pages[p].list.rows = {}, pages[p].view.search = Null
               PROVE  pages[p].view.page = 0
    BY DEF PagesAreFilled, Untouched
  <2>1. pages[p].view \in View /\ pages[p].view.page \in Nat
    BY DEF TypeOK, Page, View
  <2>2. pages[p].list # Unloaded
    BY UserManagementAssumption DEF Unloaded
  <2>3. Rows(pages[p].view) = {} /\ (pages[p].view.page > 0 => pages[p].view.page * PageSize < Total(pages[p].view))
    BY <2>2 DEF Steady, Listed
  <2> QED  BY <2>1, <2>3, PageHasRows
<1> QED  BY <1>1, <1>2, <1>3, TypeCorrect, PTL DEF Spec

-----------------------------------------------------------------------------
(* Passwords.                                                              *)

\* An update that took the password, or may have, and did not write the type yet.
Clearing(q) ==
    asks[q].op = "update" /\ asks[q].pc = "write" /\ asks[q].body.type = "dummy" /\ asks[q].saw # Null

Excused(id) == id \in loose \/ \E q \in Requests : asks[q].id = id /\ Clearing(q)

Past(r) == r.op = "update" /\ r.pc \in {"name", "password", "clear", "write"}

\* What an update is up to: it has looked at an account, it clears a password
\* for a dummy only, and before it makes an account one that signs in by a
\* password there is one, unless another update takes it again.
Knows(r) ==
    /\ r.pc \in {"password", "clear"} => r.op = "update"
    /\ r.pc = "clear" => r.body.type = "dummy"
    /\ r.pc = "codes" => r.op = "totp"
    /\ Past(r) => r.saw # Null /\ r.id <= created

Backed(id) == users[id] # Null => users[id].pass \/ Excused(id)

PassInv ==
    /\ \A id \in Ids : users[id] # Null /\ users[id].type = "local" => Backed(id)
    /\ \A q \in Requests :
          LET r == asks[q]
          IN  /\ Knows(r)
              /\ r.op = "update" /\ r.pc = "write" /\ r.body.type = "local" => Backed(r.id)

\* Excuses are lost by the step of the update itself only.
LEMMA ExcusesStay ==
    ASSUME NEW q \in Requests, loose \subseteq loose',
           \A o \in Requests \ {q} : /\ asks'[o].op = asks[o].op /\ asks'[o].id = asks[o].id
                                     /\ asks'[o].body = asks[o].body
                                     /\ asks'[o].pc = asks[o].pc /\ asks'[o].saw = asks[o].saw,
           Clearing(q) => (Clearing(q)' /\ asks'[q].id = asks[q].id) \/ asks[q].id \in loose',
           NEW id, Excused(id)
    PROVE  Excused(id)'
BY DEF Excused, Clearing

\* What a step of one request has to see to.
LEMMA StepKeepsPasswords ==
    ASSUME TypeOK, PassInv, NEW q \in Requests,
           loose \subseteq loose', created' = created,
           \A id \in Ids : users'[id] # Null =>
              /\ users[id] # Null
              /\ users'[id].type = "local" /\ users[id].type # "local" => Backed(id)'
              /\ users[id].pass => users'[id].pass \/ Excused(id)',
           \A o \in Requests \ {q} : /\ asks'[o].op = asks[o].op /\ asks'[o].id = asks[o].id
                                     /\ asks'[o].body = asks[o].body
                                     /\ asks'[o].pc = asks[o].pc /\ asks'[o].saw = asks[o].saw,
           Clearing(q) => asks[q].id \in loose',
           Knows(asks[q])',
           asks'[q].op = "update" /\ asks'[q].pc = "write" /\ asks'[q].body.type = "local" => Backed(asks[q].id)'
    PROVE  PassInv'
<1>1. \A id : Excused(id) => Excused(id)'
  BY ExcusesStay
<1>2. ASSUME NEW id \in Ids, Backed(id)  PROVE Backed(id)'
  BY <1>1, <1>2 DEF Backed
<1>3. ASSUME NEW id \in Ids, users'[id] # Null, users'[id].type = "local"  PROVE Backed(id)'
  BY <1>2, <1>3 DEF PassInv
<1>4. ASSUME NEW o \in Requests
      PROVE  /\ Knows(asks[o])'
             /\ asks'[o].op = "update" /\ asks'[o].pc = "write" /\ asks'[o].body.type = "local" => Backed(asks[o].id)'
  <2>1. CASE o = q
    BY <2>1
  <2>2. CASE o # q
    <3>1. asks[o].op = "update" => asks[o].id \in Ids
      BY DEF TypeOK, Ask, Ops
    <3>2. Knows(asks[o])'
      BY <2>2 DEF PassInv, Knows, Past
    <3>3. ASSUME asks'[o].op = "update", asks'[o].pc = "write", asks'[o].body.type = "local"
          PROVE  Backed(asks[o].id)'
      <4>1. Backed(asks[o].id) /\ asks[o].id \in Ids /\ asks'[o].id = asks[o].id
        BY <2>2, <3>1, <3>3 DEF PassInv
      <4> QED  BY <1>1, <4>1 DEF Backed
    <3> QED  BY <3>2, <3>3
  <2> QED  BY <2>1, <2>2
<1> QED  BY <1>3, <1>4 DEF PassInv

\* The fields of an account, its type among them: an update that another one
\* may have taken the password from leaves the account to history.
LEMMA WriteKeepsPasswords ==
    ASSUME TypeOK, PassInv, NEW q \in Requests, WriteFields(q)
    PROVE  PassInv'
<1> DEFINE r == asks[q]
           row == users[r.id]
           New(f) == IF r.body[f] = Null THEN row[f] ELSE r.body[f]
           written == [row EXCEPT !.name = New("name"), !.role = New("role"),
                                  !.active = New("active"), !.type = New("type")]
<1>1. /\ users \in [Ids -> Account \cup {Null}] /\ asks \in [Requests -> Ask] /\ r \in Ask
      /\ r.pc = "write" /\ r.op = "update" /\ r.id \in Ids /\ row \in Account /\ created' = created
  BY DEF TypeOK, WriteFields, Ask, Ops
<1>2. /\ users' = [users EXCEPT ![r.id] = written]
      /\ written.pass = row.pass /\ written.type = IF r.body.type = Null THEN row.type ELSE r.body.type
  BY <1>1 DEF WriteFields, Account
<1>3. /\ \A o \in Requests : /\ asks'[o].op = asks[o].op /\ asks'[o].id = asks[o].id
                             /\ asks'[o].body = asks[o].body
      /\ \A o \in Requests \ {q} : asks'[o].pc = asks[o].pc /\ asks'[o].saw = asks[o].saw
  BY ServeKeepsRequests DEF Serve
<1>4. asks'[q].pc = "done"
  BY <1>1 DEF WriteFields, Ask
<1>5. Knows(asks[q])'
  BY <1>4 DEF Knows, Past
<1>6. users'[r.id] = written /\ \A id \in Ids \ {r.id} : users'[id] = users[id]
  BY <1>1, <1>2
<1>7. Null # "dummy" /\ Null # "local"
  BY UserManagementAssumption DEF Types
<1> HIDE DEF written
<1>8. ASSUME NEW o \in Requests \ {q}, asks[o].op = "update", asks[o].pc = "write", asks[o].id = r.id
      PROVE  o \in Rivals(r.id, q)
  BY <1>8 DEF PassInv, Knows, Past, Rivals, Underway, Statements
<1>9. CASE \E o \in Rivals(r.id, q) : asks[o].op = "update"
  <2>1. loose' = loose \cup {r.id}
    BY <1>9 DEF WriteFields
  <2>2. ASSUME NEW id \in Ids, id = r.id  PROVE Excused(id)' /\ Backed(id)'
    BY <2>1, <2>2 DEF Excused, Backed
  <2>3. \A id \in Ids : users'[id] # Null =>
              /\ users[id] # Null
              /\ users'[id].type = "local" /\ users[id].type # "local" => Backed(id)'
              /\ users[id].pass => users'[id].pass \/ Excused(id)'
    <3>1. ASSUME NEW id \in Ids \ {r.id}  PROVE users'[id] = users[id]
      BY <1>6
    <3>2. row # Null
      BY DEF WriteFields
    <3> QED  BY <2>2, <3>1, <3>2
  <2> QED  BY <1>1, <1>3, <1>4, <1>5, <2>1, <2>3, StepKeepsPasswords
<1>10. CASE \A o \in Rivals(r.id, q) : asks[o].op # "update"
  <2>1. loose' = loose
    BY <1>10 DEF WriteFields
  <2>2. \A o \in Requests \ {q} : asks[o].op = "update" /\ asks[o].pc = "write" => asks[o].id # r.id
    BY <1>8, <1>10
  <2>3. ASSUME NEW id \in Ids \ {r.id}, Excused(id)  PROVE Excused(id)'
    BY <1>3, <2>1, <2>3 DEF Excused, Clearing
  <2>4. ASSUME NEW id \in Ids \ {r.id}, Backed(id)  PROVE Backed(id)'
    BY <1>6, <2>3, <2>4 DEF Backed
  <2>5. ASSUME written.type = "local"  PROVE Backed(r.id)'
    <3>1. r.body.type # "dummy"
      BY <1>2, <1>7, <2>5
    <3>2. row # Null
      BY DEF WriteFields
    <3>3. Backed(r.id)
      BY <1>1, <1>2, <1>7, <2>5, <3>2 DEF PassInv
    <3>4. Excused(r.id) => r.id \in loose
      BY <2>2, <3>1 DEF Excused, Clearing
    <3>5. row.pass \/ r.id \in loose
      BY <3>2, <3>3, <3>4 DEF Backed
    <3>6. users'[r.id].pass = row.pass /\ asks'[q].id = r.id
      BY <1>2, <1>3, <1>6
    <3> QED  BY <2>1, <3>5, <3>6 DEF Backed, Excused
  <2>6. ASSUME NEW id \in Ids, users'[id] # Null, users'[id].type = "local"  PROVE Backed(id)'
    <3>1. CASE id = r.id
      BY <1>3, <1>6, <2>5, <2>6, <3>1 DEF Backed
    <3>2. CASE id # r.id
      BY <1>6, <2>4, <2>6, <3>2 DEF PassInv
    <3> QED  BY <3>1, <3>2
  <2>7. ASSUME NEW o \in Requests
        PROVE  /\ Knows(asks[o])'
               /\ asks'[o].op = "update" /\ asks'[o].pc = "write" /\ asks'[o].body.type = "local" => Backed(asks[o].id)'
    <3>1. CASE o = q
      BY <1>4, <1>5, <3>1
    <3>2. CASE o # q
      <4>1. Knows(asks[o])'
        BY <1>1, <1>3, <3>2 DEF PassInv, Knows, Past
      <4>2. ASSUME asks'[o].op = "update", asks'[o].pc = "write", asks'[o].body.type = "local"
            PROVE  Backed(asks[o].id)'
        <5>1. asks[o].op = "update" /\ asks[o].pc = "write" /\ asks[o].body.type = "local" /\ asks'[o].id = asks[o].id
          BY <1>3, <3>2, <4>2
        <5>2. asks[o].id \in Ids \ {r.id}
          BY <1>1, <2>2, <3>2, <5>1 DEF Ask, Ops
        <5>3. Backed(asks[o].id)
          BY <5>1 DEF PassInv
        <5>4. Excused(asks[o].id) => Excused(asks[o].id)'
          BY <1>3, <2>1, <5>1, <5>2 DEF Excused, Clearing
        <5> QED  BY <1>6, <5>1, <5>2, <5>3, <5>4 DEF Backed
      <4> QED  BY <4>1, <4>2
    <3> QED  BY <3>1, <3>2
  <2> QED  BY <2>6, <2>7 DEF PassInv
<1> QED  BY <1>9, <1>10

\* An account that is created to sign in by a password has one.
LEMMA InsertKeepsPasswords ==
    ASSUME TypeOK, Sighted, AllMeant, PassInv, NEW q \in Requests, Insert(q)
    PROVE  PassInv'
<1> DEFINE r == asks[q]
<1>1. /\ users \in [Ids -> Account \cup {Null}] /\ asks \in [Requests -> Ask] /\ created \in 0 .. MaxUsers
      /\ r \in Ask /\ r.pc = "write" /\ r.op = "create" /\ created' = created + 1 /\ loose' = loose
  BY DEF TypeOK, Insert
<1>2. /\ \A o \in Requests : /\ asks'[o].op = asks[o].op /\ asks'[o].id = asks[o].id
                             /\ asks'[o].body = asks[o].body
      /\ \A o \in Requests \ {q} : asks'[o].pc = asks[o].pc /\ asks'[o].saw = asks[o].saw
  BY ServeKeepsRequests DEF Serve
<1>3. \A id \in Ids \ {created + 1} : users'[id] = users[id]
  BY <1>1 DEF Insert
<1>4. created + 1 \in Ids => users'[created + 1].type = r.body.type /\ users'[created + 1].pass = r.body.pass
  BY <1>1 DEF Insert
<1>5. asks'[q].op = "create"
  BY <1>1, <1>2
<1>6. \A id : Excused(id) => Excused(id)'
  BY <1>1, <1>2, <1>5 DEF Excused, Clearing
<1>7. ASSUME NEW id \in Ids, users'[id] # Null, users'[id].type = "local"  PROVE Backed(id)'
  <2>1. CASE id = created + 1
    BY <1>1, <1>4, <1>7, <2>1 DEF AllMeant, WellMeant, Meant, Backed
  <2>2. CASE id # created + 1
    BY <1>3, <1>6, <1>7, <2>2 DEF PassInv, Backed
  <2> QED  BY <2>1, <2>2
<1>8. ASSUME NEW o \in Requests
      PROVE  /\ Knows(asks[o])'
             /\ asks'[o].op = "update" /\ asks'[o].pc = "write" /\ asks'[o].body.type = "local" => Backed(asks[o].id)'
  <2>1. CASE o = q
    <3>1. asks'[q].pc = "done"
      BY <1>1 DEF Insert, Step, Ask
    <3> QED  BY <2>1, <3>1 DEF Knows, Past
  <2>2. CASE o # q
    <3>1. asks[o].op = "update" => asks[o].id \in Ids
      BY <1>1 DEF Ask, Ops
    <3>2. Knows(asks[o]) /\ (Past(asks[o]) => asks[o].id <= created)
      BY DEF PassInv, Knows
    <3>3. Knows(asks[o])'
      <4>1. Past(asks[o]) => asks[o].id <= created + 1 /\ asks[o].id # created + 1
        BY <1>1, <3>1, <3>2 DEF Past, Ids
      <4> QED  BY <1>1, <1>2, <2>2, <3>2, <4>1 DEF Knows, Past
    <3>4. ASSUME asks'[o].op = "update", asks'[o].pc = "write", asks'[o].body.type = "local"
          PROVE  Backed(asks[o].id)'
      <4>1. /\ asks[o].op = "update" /\ asks[o].pc = "write" /\ asks[o].body.type = "local"
            /\ asks'[o].id = asks[o].id
        BY <1>2, <2>2, <3>4
      <4>2. asks[o].id \in Ids \ {created + 1} /\ Backed(asks[o].id)
        BY <1>1, <3>1, <3>2, <4>1 DEF PassInv, Past, Ids
      <4> QED  BY <1>3, <1>6, <4>1, <4>2 DEF Backed
    <3> QED  BY <3>3, <3>4
  <2> QED  BY <2>1, <2>2
<1> QED  BY <1>7, <1>8 DEF PassInv

LEMMA ServeKeepsPasswords ==
    ASSUME TypeOK, Sighted, AllMeant, PassInv, NEW q \in Requests, Serve(q)
    PROVE  PassInv'
<1> DEFINE r == asks[q]
<1>1. /\ users \in [Ids -> Account \cup {Null}] /\ asks \in [Requests -> Ask] /\ r \in Ask
      /\ r.op \in {"update", "delete", "totp"} => r.id \in Ids
  BY DEF TypeOK, Ask, Ops
<1>2. /\ \A o \in Requests : /\ asks'[o].op = asks[o].op /\ asks'[o].id = asks[o].id
                             /\ asks'[o].body = asks[o].body
      /\ \A o \in Requests \ {q} : asks'[o].pc = asks[o].pc /\ asks'[o].saw = asks[o].saw
  BY ServeKeepsRequests
<1>3. Knows(r) /\ (r.op = "update" /\ r.body.type = "local" => r.body.pass)
  BY DEF PassInv, AllMeant, WellMeant, Meant
<1> DEFINE Settled == asks'[q].op = "update" /\ asks'[q].pc = "write" /\ asks'[q].body.type = "local"
<1>4. ASSUME users' = users, created' = created, loose' = loose, ~Clearing(q), Knows(asks[q])', ~Settled
      PROVE  PassInv'
  BY <1>2, <1>4, StepKeepsPasswords
<1>5. ASSUME NEW id \in Ids, NEW totp, SetTotp(id, totp)
      PROVE  \A i \in Ids : users'[i] # Null =>
                users[i] # Null /\ users'[i].type = users[i].type /\ users'[i].pass = users[i].pass
  BY <1>1, <1>5 DEF SetTotp, Account
<1>6. ASSUME NEW id \in Ids, NEW pass, SetPass(id, pass)
      PROVE  \A i \in Ids : users'[i] # Null =>
                /\ users[i] # Null /\ users'[i].type = users[i].type
                /\ users'[i].pass = IF i = id THEN pass ELSE users[i].pass
  BY <1>1, <1>6 DEF SetPass, Account
<1>7. CASE Admit(q)
  <2>1. asks'[q].pc = IF r.op = "create" THEN "name" ELSE "read"
    BY <1>1, <1>7 DEF Admit, Step, Ask
  <2>2. Knows(asks[q])' /\ ~Settled
    BY <1>2, <2>1 DEF Knows, Past
  <2>3. ~Clearing(q) /\ users' = users /\ created' = created /\ loose' = loose
    BY <1>7 DEF Admit, Clearing
  <2> QED  BY <1>4, <2>2, <2>3
<1>8. CASE ReadTarget(q)
  <2>1. /\ users[r.id] # Null /\ asks'[q].saw = users[r.id] /\ created' = created
        /\ asks'[q].pc = IF r.op = "update" THEN AfterRead(r, users[r.id]) ELSE "write"
    BY <1>1, <1>8 DEF ReadTarget, Ask
  <2>2. r.op = "update" => r.id <= created
    BY <1>1, <2>1 DEF Sighted
  <2>3. asks'[q].pc \in {"password", "clear"} => r.op = "update"
    BY <2>1
  <2>4. asks'[q].pc # "codes" /\ (asks'[q].pc = "clear" => r.body.type = "dummy")
    BY <2>1 DEF AfterRead, AfterName, AfterPassword
  <2>5. ~Settled
    BY <1>2, <1>3, <2>1 DEF AfterRead, AfterName
  <2>6. Knows(asks[q])'
    BY <1>2, <2>1, <2>2, <2>3, <2>4 DEF Knows, Past
  <2>7. ~Clearing(q) /\ users' = users /\ loose' = loose
    BY <1>8 DEF ReadTarget, Clearing
  <2> QED  BY <1>4, <2>1, <2>5, <2>6, <2>7
<1>9. CASE CheckName(q)
  <2>1. /\ r.pc = "name" /\ asks'[q].saw = r.saw /\ created' = created
        /\ asks'[q].pc = IF r.op = "create" THEN "write" ELSE AfterName(r, r.saw)
    BY <1>1, <1>9 DEF CheckName, Step, Ask
  <2>2. r.op \in {"create", "update"} /\ (r.op = "update" => r.saw # Null /\ r.id <= created)
    BY <1>1, <1>3, <2>1 DEF Knows, Past, Ask, Reaches
  <2>3. asks'[q].pc # "codes" /\ (asks'[q].pc = "clear" => r.body.type = "dummy")
    BY <2>1 DEF AfterName, AfterPassword
  <2>4. ~Settled
    BY <1>2, <1>3, <2>1 DEF AfterName
  <2>5. Knows(asks[q])'
    BY <1>2, <2>1, <2>2, <2>3 DEF Knows, Past
  <2>6. ~Clearing(q) /\ users' = users /\ loose' = loose
    BY <1>9 DEF CheckName, Clearing
  <2> QED  BY <1>4, <2>1, <2>4, <2>5, <2>6
<1>10. CASE WritePassword(q)
  <2>1. /\ r.pc = "password" /\ asks'[q].saw = r.saw /\ created' = created /\ loose' = loose
        /\ asks'[q].pc = AfterPassword(r, r.saw) /\ SetPass(r.id, TRUE)
    BY <1>1, <1>10 DEF WritePassword, Step, Ask
  <2>2. r.op = "update" /\ r.saw # Null /\ r.id <= created
    BY <1>3, <2>1 DEF Knows, Past
  <2>3. Knows(asks[q])'
    BY <1>2, <2>1, <2>2 DEF Knows, Past, AfterPassword
  <2>4. \A i \in Ids : users'[i] # Null =>
            /\ users[i] # Null /\ users'[i].type = users[i].type
            /\ users'[i].pass = IF i = r.id THEN TRUE ELSE users[i].pass
    BY <1>1, <1>6, <2>1, <2>2
  <2>5. Backed(asks[q].id)'
    BY <1>1, <1>2, <2>2, <2>4 DEF Backed
  <2>6. ~Clearing(q)
    BY <2>1 DEF Clearing
  <2> QED  BY <1>2, <2>1, <2>3, <2>4, <2>5, <2>6, StepKeepsPasswords
<1>11. CASE ClearPassword(q)
  <2>1. /\ r.pc = "clear" /\ asks'[q].saw = r.saw /\ created' = created /\ loose' = loose
        /\ asks'[q].pc = "write" /\ SetPass(r.id, FALSE)
    BY <1>1, <1>11 DEF ClearPassword, Step, Ask
  <2>2. r.op = "update" /\ r.saw # Null /\ r.id <= created /\ r.body.type = "dummy"
    BY <1>3, <2>1 DEF Knows, Past
  <2>3. Knows(asks[q])' /\ ~Settled /\ Clearing(q)'
    BY <1>2, <2>1, <2>2 DEF Knows, Past, Clearing
  <2>4. \A i \in Ids : users'[i] # Null =>
            /\ users[i] # Null /\ users'[i].type = users[i].type
            /\ users'[i].pass = IF i = r.id THEN FALSE ELSE users[i].pass
    BY <1>1, <1>6, <2>1, <2>2
  <2>5. \A i \in Ids : i = r.id => Excused(i)'
    BY <1>2, <2>3 DEF Excused
  <2>6. ~Clearing(q)
    BY <2>1 DEF Clearing
  <2> QED  BY <1>2, <2>1, <2>3, <2>4, <2>5, <2>6, StepKeepsPasswords
<1>12. CASE WriteFields(q)
  BY <1>12, WriteKeepsPasswords
<1>13. CASE Insert(q)
  BY <1>13, InsertKeepsPasswords
<1>14. ASSUME r.op # "update", created' = created, loose' = loose, asks'[q].pc \notin {"password", "clear"},
              asks'[q].pc = "codes" => r.op = "totp",
              \A i \in Ids : users'[i] # Null =>
                 users[i] # Null /\ users'[i].type = users[i].type /\ users'[i].pass = users[i].pass
       PROVE  PassInv'
  <2>1. ~Clearing(q) /\ ~Settled /\ Knows(asks[q])'
    BY <1>2, <1>14 DEF Clearing, Knows, Past
  <2> QED  BY <1>2, <1>14, <2>1, StepKeepsPasswords
<1>15. CASE DeleteUser(q)
  <2>1. r.op = "delete" /\ asks'[q].pc = "done" /\ created' = created /\ loose' = loose
    BY <1>1, <1>15 DEF DeleteUser, Ask
  <2>2. \A i \in Ids : users'[i] # Null => users'[i] = users[i]
    BY <1>1, <1>15 DEF DeleteUser
  <2> QED  BY <1>14, <2>1, <2>2
<1>16. CASE SwitchFactorOff(q)
  <2>1. r.op = "totp" /\ asks'[q].pc = "codes" /\ created' = created /\ loose' = loose /\ SetTotp(r.id, "codes")
    BY <1>1, <1>16 DEF SwitchFactorOff, Step, Ask
  <2> QED  BY <1>1, <1>5, <1>14, <2>1
<1>17. CASE DeleteCodes(q)
  <2>1. r.op = "totp" /\ asks'[q].pc = "done" /\ created' = created /\ loose' = loose /\ SetTotp(r.id, "off")
    BY <1>1, <1>3, <1>17 DEF DeleteCodes, Ask, Knows
  <2> QED  BY <1>1, <1>5, <1>14, <2>1
<1> QED  BY <1>7, <1>8, <1>9, <1>10, <1>11, <1>12, <1>13, <1>15, <1>16, <1>17 DEF Serve

\* An answer, or what takes its place: an update that breaks off after it
\* took the password leaves the account to history.
LEMMA AnswerKeepsPasswords ==
    ASSUME TypeOK, PassInv, NEW q \in Requests, Succeed(q) \/ Fail(q)
    PROVE  PassInv'
<1>1. /\ users' = users /\ created' = created /\ loose \subseteq loose'
      /\ asks' = [asks EXCEPT ![q] = [Unsent EXCEPT !.pc = "settled"]]
  BY DEF Succeed, Fail
<1>2. asks'[q].pc = "settled" /\ \A o \in Requests \ {q} : asks'[o] = asks[o]
  BY <1>1 DEF TypeOK, Unsent
<1>3. Clearing(q) => asks[q].id \in loose'
  BY DEF Clearing, Succeed, Fail
<1>4. Knows(asks[q])'
  BY <1>2 DEF Knows, Past
<1> QED  BY <1>1, <1>2, <1>3, <1>4, StepKeepsPasswords

\* Whoever can sign in by a password has one, unless updates of the account
\* got in each other's way or one of them broke off half way: the service
\* writes the password and the type one after the other, and this order is
\* right for every conversion.
THEOREM PasswordsAreThere == Spec => []LocalsHavePasswords
<1>1. Init => PassInv
  <2> SUFFICES ASSUME Init  PROVE PassInv
    OBVIOUS
  <2>1. ASSUME NEW id \in Ids, users[id] # Null, users[id].type = "local"  PROVE users[id].pass
    <3>1. id <= Len(InitUsers) /\ users[id] = InitUsers[id]
      BY <2>1 DEF Init
    <3>2. id \in 1 .. Len(InitUsers)
      BY <3>1, UserManagementAssumption DEF Ids
    <3> QED  BY <2>1, <3>1, <3>2, UserManagementAssumption
  <2>2. \A q \in Requests : asks[q].pc = "unsent"
    BY DEF Init, Unsent
  <2> QED  BY <2>1, <2>2 DEF PassInv, Backed, Knows, Past
<1>2. TypeOK /\ Sighted /\ AllMeant /\ PassInv /\ [Next]_vars => PassInv'
  <2> SUFFICES ASSUME TypeOK, Sighted, AllMeant, PassInv, [Next]_vars  PROVE PassInv'
    OBVIOUS
  <2>1. ASSUME users' = users, created' = created, loose' = loose, asks' = asks
        PROVE  PassInv'
    BY <2>1 DEF PassInv, Knows, Past, Backed, Excused, Clearing
  <2>2. ASSUME NEW p \in part.by, PageStep(p)  PROVE PassInv'
    <3>1. p \in Admins
      BY UserManagementAssumption DEF TypeOK
    <3>2. /\ users' = users /\ created' = created /\ loose' = loose
          /\ asks' = asks \/ \E q \in Requests : Fresh(q)
      BY <2>2, <3>1, PagesMeanWell
    <3>3. ASSUME NEW q \in Requests, Fresh(q)  PROVE PassInv'
      <4>1. asks[q].pc = "unsent" /\ asks'[q].pc = "admit" /\ \A o \in Requests \ {q} : asks'[o] = asks[o]
        BY <3>3 DEF Fresh, Unsent, TypeOK
      <4>2. ~Clearing(q) /\ Knows(asks[q])'
        BY <4>1 DEF Clearing, Knows, Past
      <4> QED  BY <3>2, <4>1, <4>2, StepKeepsPasswords
    <3> QED  BY <2>1, <3>2, <3>3
  <2>3. ASSUME NEW q \in Requests, Serve(q) \/ Succeed(q) \/ Fail(q)  PROVE PassInv'
    BY <2>3, ServeKeepsPasswords, AnswerKeepsPasswords
  <2>4. CASE UNCHANGED vars
    BY <2>1, <2>4 DEF vars
  <2> QED  BY <2>2, <2>3, <2>4 DEF Next, PageStep
<1>3. PassInv => LocalsHavePasswords
  BY DEF PassInv, Backed, Excused, Clearing, LocalsHavePasswords, Live, Underway, Statements
<1>4. Spec => []AllMeant
  BY RequestsMeanWell DEF AllMeant
<1> QED  BY <1>1, <1>2, <1>3, <1>4, TypeCorrect, StaysSighted, PTL DEF Spec

=============================================================================
