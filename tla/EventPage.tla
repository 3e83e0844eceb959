------------------------------ MODULE EventPage ------------------------------
(***************************************************************************)
(* The event page of the web client: the views of the grid, its keyboard,  *)
(* the dialogs opened over it, and the requests they send, while others    *)
(* change the shifts and the viewer's rights.  A handler of the server is  *)
(* one step here; ShiftService has its statements.                         *)
(***************************************************************************)
EXTENDS GridView

CONSTANTS
    Me,           \* the viewer
    Event,        \* [start, end, gran]
    Hidden,       \* the event's hidden ranges
    Teams,
    ShiftIds,     \* those of a table of shifts are its domain
    Requests,     \* Bound: the requests this page may send, each once
    InitRights,   \* the viewer's rights to begin with
    MaxChanges,   \* Bound: how often others interfere
    Sessions      \* Bound: by name, what is used in one behaviour: the table to begin with (tables), the views that
                  \* are opened or turned to (pages), the keys, requests and times picked (keys, requests,
                  \* instants), the slots a block is dragged by (deltas), and the rows and the
                  \* rights that others write (rewrites, demotions)

VARIABLES
    shifts, rights, changes,   \* the server: shifts, the viewer's rights, and how often others wrote
    grid,      \* the cached list of shifts, Null before it loads
    stale,     \* the cached list was invalidated and not fetched again yet
    seen,      \* the cached rights
    page,      \* the view, as in the address, and whether availability is shown
    focus,     \* Null, or the cell that the keyboard is at, counted from 0
    dialog,    \* Null, or the dialog over the page
    requests,
    session    \* Bound: the name of one of Sessions, fixed in Init

server == <<shifts, rights, changes>>
cached == <<grid, stale, seen>>
vars == <<server, cached, page, focus, dialog, requests, session>>

Use == Sessions[session]

Row == [team : Teams, user : Users, start : 0 .. Event.end, end : 0 .. Event.end]
Rights == [role : {"super_admin", "user", "read_only"}, admin : BOOLEAN, locked : BOOLEAN]

ASSUME EventPageAssumption ==
    /\ Event.start \in Nat /\ Event.end \in Nat /\ Event.gran \in Granularities /\ DayHours \in Nat \ {0}
    /\ Null \notin {"create", "update", "delete"} /\ Null \notin [left : Int, right : Int]
    /\ Coverage \in Seq([team : Teams, start : Nat, end : Nat, required : Nat])
    /\ Roster \in Seq(Users) /\ Me \in Users /\ Pinned \subseteq Users
    /\ \A i \in DOMAIN Availability : Availability[i].user \in Users
    /\ VisibleTeams \subseteq Teams /\ IsFiniteSet(VisibleTeams)
    /\ ShiftIds \in SUBSET Nat /\ IsFiniteSet(ShiftIds) /\ InitRights \subseteq Rights
    /\ \A x \in DOMAIN Sessions : LET s == Sessions[x] IN
          /\ \A t \in s.tables : DOMAIN t \subseteq ShiftIds /\ t \in [DOMAIN t -> {Null} \cup Row]
          /\ \A p \in s.pages : p.day \in Int \cup {Null}
          /\ s.keys \subseteq {"up", "down", "left", "right"} /\ s.requests \subseteq Requests
          /\ s.instants \cup s.deltas \subseteq Int /\ s.rewrites \subseteq Row /\ s.demotions \subseteq Rights

Manages(r) == r.role = "super_admin" \/ r.admin
CanEdit(r) == r.role # "read_only" /\ ~r.locked

\* ORDER BY start_time, username; the name is joined to the row, and no time
\* is in the browser's own notation.
ServerList ==
    LET live == {i \in DOMAIN shifts : shifts[i] # Null}
        Before(i, j) ==
            \/ shifts[i].start < shifts[j].start
            \/ /\ shifts[i].start = shifts[j].start
               /\ \/ Rank(shifts[i].user) < Rank(shifts[j].user)
                  \/ shifts[i].user = shifts[j].user /\ i < j
        ids == InOrder(live, {p \in live \X live : Before(p[1], p[2])})
        Cached(i) == [id |-> i, team |-> shifts[i].team, user |-> shifts[i].user, name |-> shifts[i].user,
                      start |-> shifts[i].start, end |-> shifts[i].end, own |-> {}]
    IN  [k \in DOMAIN ids |-> Cached(ids[k])]

-----------------------------------------------------------------------------
(* What is on the screen.                                                  *)

AllShifts == IF grid = Null THEN <<>> ELSE grid
Shown == FilteredShifts(AllShifts, page, Me)
ColumnsOf == [day \in {p.day : p \in UNION {Sessions[x].pages : x \in DOMAIN Sessions}} |-> Columns(Event, day, Hidden)]
GridSlots == ColumnsOf[page.day]
GridShown == grid # Null /\ ~ShowsList(page) /\ GridSlots # <<>>
DisplayedRows == GridRows(Shown, page.avail)

\* Mutant: the bars count the shifts of the view.
BarCellOfView(team, i) == CoverageCell(Shown, team, GridSlots, i)

BarCell(team, i) == CoverageCell(AllShifts, team, GridSlots, i)

\* The rows that the keyboard walks over.
GridUsers == GroupShiftsByUser(Shown)

-----------------------------------------------------------------------------
(* Views: the toolbar, as long as no dialog covers it.                     *)

Turn(p) ==
    /\ dialog = Null
    /\ p \in Use.pages /\ page' = p
    /\ focus' = IF p.view = "per_user" THEN Null ELSE focus
    /\ UNCHANGED <<server, cached, dialog, requests>>

\* Sub-selections that do not apply to the new view are cleared.
SetView(v) ==
    Turn([page EXCEPT !.view = v,
                      !.team = IF v = "by_team" THEN @ ELSE Null,
                      !.users = IF v = "per_user" THEN @ ELSE {}])

SetTeam(team) == page.view = "by_team" /\ Turn([page EXCEPT !.team = team])

ToggleUser(u) ==
    /\ page.view = "per_user" /\ u \in AllUsers(AllShifts)
    /\ Turn([page EXCEPT !.users = IF u \in @ THEN @ \ {u} ELSE @ \cup {u}])

\* The filter is there for events of more than one day.
SetDay(day) ==
    /\ Cardinality(EventDays(Event.start, Event.end)) > 1
    /\ day \in EventDays(Event.start, Event.end) \cup {Null}
    /\ Turn([page EXCEPT !.day = day])

ToggleAvailability == Turn([page EXCEPT !.avail = ~@])

-----------------------------------------------------------------------------
(* Dialogs open and close.                                                 *)

OpenDialog(d) ==
    /\ dialog = Null
    /\ dialog' = d
    /\ focus' = Null
    /\ UNCHANGED <<server, cached, page, requests>>

\* Mutant: a click that names no user leaves the field empty.
CreateDialogUnassigned(time, user) ==
    [kind |-> "create", base |-> Null, mode |-> "edit", pending |-> {},
     form |-> [team |-> Null, user |-> user,
               start |-> SnapToGranularity(time, Event.gran),
               end |-> SnapToGranularity(time + Event.gran, Event.gran)]]

\* A new shift begins where the click was and lasts one slot; whoever may
\* choose the user starts from the row, anyone else from themselves.
CreateDialog(time, user) ==
    [kind |-> "create", base |-> Null, mode |-> "edit", pending |-> {},
     form |-> [team |-> Null, user |-> IF Manages(seen) /\ user # Null THEN user ELSE Me,
               start |-> SnapToGranularity(time, Event.gran),
               end |-> SnapToGranularity(time + Event.gran, Event.gran)]]

DetailDialog(shift) ==
    [kind |-> "detail", base |-> shift, mode |-> "view", pending |-> {},
     form |-> [team |-> shift.team, user |-> shift.user,
               start |-> SnapToGranularity(shift.start, Event.gran),
               end |-> SnapToGranularity(shift.end, Event.gran)]]

\* On the grid.
ClickCell(row, col) ==
    /\ CanEdit(seen)
    /\ OpenDialog(CreateDialog(GridSlots[col], DisplayedRows[row].id))

ClickShift(shift) ==
    /\ Placed(shift, GridSlots) # Null
    /\ OpenDialog(DetailDialog(shift))

ClickCreate == CanEdit(seen) /\ OpenDialog(CreateDialog(Event.start, Null))

OpenAvailability ==
    /\ seen.role # "read_only"
    /\ OpenDialog([kind |-> "availability", base |-> Null, mode |-> "view", pending |-> {}, form |-> Null])

\* Escape, a click beside the dialog or its own button: requests go on.
CloseDialog ==
    /\ dialog # Null
    /\ dialog' = Null
    /\ UNCHANGED <<server, cached, page, focus, requests>>

-----------------------------------------------------------------------------
(* The keyboard.                                                           *)

Navigable == GridShown /\ dialog = Null /\ page.view # "per_user"

\* Without rows the lower bound is taken last, and the row becomes -1.
Moved(cell, key) ==
    CASE key = "up"    -> [cell EXCEPT !.row = Max({0, @ - 1})]
      [] key = "down"  -> [cell EXCEPT !.row = Min({Len(GridUsers) - 1, @ + 1})]
      [] key = "left"  -> [cell EXCEPT !.col = Max({0, @ - 1})]
      [] key = "right" -> [cell EXCEPT !.col = Min({Len(GridSlots) - 1, @ + 1})]

Arrow(key) ==
    /\ Navigable
    /\ focus' = Moved(IF focus = Null THEN [row |-> 0, col |-> 0] ELSE focus, key)
    /\ UNCHANGED <<server, cached, page, dialog, requests>>

EscapeKey ==
    /\ Navigable
    /\ focus' = Null
    /\ UNCHANGED <<server, cached, page, dialog, requests>>

EnterKey ==
    /\ Navigable /\ focus # Null /\ CanEdit(seen)
    /\ focus.row + 1 \in DOMAIN GridUsers /\ focus.col + 1 \in DOMAIN GridSlots
    /\ OpenDialog(CreateDialog(GridSlots[focus.col + 1], GridUsers[focus.row + 1].id))

-----------------------------------------------------------------------------
(* Requests.                                                               *)

Unsent == [pc |-> "unsent", op |-> Null, origin |-> Null, id |-> Null, body |-> Null,
           form |-> Null, base |-> Null, previous |-> Null]
Pending(q) == requests[q].pc \in {"sent", "accepted"}
Busy(op) == \E q \in dialog.pending : requests[q].op = op

\* Fields of the body replace those of the cached shift; its name stays.
Guess(s, body) ==
    [s EXCEPT !.team = IF body.team = Null THEN @ ELSE body.team,
              !.user = IF body.user = Null THEN @ ELSE body.user,
              !.start = IF body.start = Null THEN @ ELSE body.start,
              !.end = IF body.end = Null THEN @ ELSE body.end,
              !.own = @ \cup {f \in {"start", "end"} : body[f] # Null}]

\* The cache takes the change for granted, which counts as a fresh answer.
SendUpdate(q, origin, base, form, body) ==
    /\ requests[q] = Unsent
    /\ requests' = [requests EXCEPT ![q] =
          [pc |-> "sent", op |-> "update", origin |-> origin, id |-> base.id, body |-> body,
           form |-> form, base |-> base, previous |-> grid]]
    /\ grid' = IF grid = Null THEN Null
               ELSE [k \in DOMAIN grid |-> IF grid[k].id = base.id THEN Guess(grid[k], body) ELSE grid[k]]
    /\ stale' = (grid = Null /\ stale)
    /\ UNCHANGED <<server, seen, page>>

Body(team, user, start, end) == [team |-> team, user |-> user, start |-> start, end |-> end]
Unedited(shift) == Body(shift.team, shift.user, shift.start, shift.end)

Drag(q, shift, delta) ==
    LET start == shift.start + delta * Event.gran
        end == shift.end + delta * Event.gran
    IN  /\ CanEdit(seen) /\ Placed(shift, GridSlots) # Null
        /\ delta # 0
        /\ SendUpdate(q, "grid", shift, Unedited(shift), Body(Null, Null, start, end))
        /\ UNCHANGED <<focus, dialog>>

Resize(q, shift, delta) ==
    LET end == shift.end + delta * Event.gran
    IN  /\ CanEdit(seen) /\ Placed(shift, GridSlots) # Null
        /\ delta # 0 /\ end > shift.start
        /\ SendUpdate(q, "grid", shift, Unedited(shift), Body(Null, Null, Null, end))
        /\ UNCHANGED <<focus, dialog>>

-----------------------------------------------------------------------------
(* The dialogs' forms.                                                     *)

Editing == dialog # Null /\ dialog.kind # "availability" /\ dialog.mode = "edit"

Fill(form) ==
    /\ dialog' = [dialog EXCEPT !.form = form]
    /\ UNCHANGED <<server, cached, page, focus, requests>>

PickTeam(team) ==
    /\ Editing
    /\ dialog.kind = "create" => team \in VisibleTeams
    /\ Fill([dialog.form EXCEPT !.team = team])

PickUser(user) == Editing /\ Manages(seen) /\ Fill([dialog.form EXCEPT !.user = user])

PickTime(t) ==
    /\ Editing
    /\ \E f \in {"start", "end"} :
          t \in Picks(dialog.form[f], Event) /\ Fill([dialog.form EXCEPT ![f] = t])

\* The owner and whoever manages shifts may edit, whether or not the event is
\* locked; the buttons follow the rights as they change, an open form does not.
Mode(from, to) ==
    /\ dialog # Null /\ dialog.kind = "detail" /\ dialog.mode = from
    /\ dialog' = [dialog EXCEPT !.mode = to]
    /\ UNCHANGED <<server, cached, page, focus, requests>>

MayTouch == seen.role # "read_only" /\ (dialog.base.user = Me \/ Manages(seen))

StartEditing == Mode("view", "edit") /\ MayTouch
AskDelete == Mode("view", "confirm") /\ MayTouch
StepBack == Mode("edit", "view") \/ Mode("confirm", "view")

SubmitCreate(q) ==
    LET user == IF Manages(seen) THEN dialog.form.user ELSE Me
    IN  /\ Editing /\ dialog.kind = "create" /\ dialog.form.team # Null /\ ~Busy("create")
        /\ requests[q] = Unsent
        /\ requests' = [requests EXCEPT ![q] =
              [Unsent EXCEPT !.pc = "sent", !.op = "create", !.origin = "dialog",
                             !.body = [dialog.form EXCEPT !.user = user]]]
        /\ dialog' = [dialog EXCEPT !.pending = @ \cup {q}]
        /\ UNCHANGED <<server, cached, page, focus>>

\* Mutant: the form is sent as it is.
ChangesAll(form, base) == form

\* Fields that differ from the shift as it was when the dialog was opened;
\* times differ in notation already, unless they are this page's own guess.
Changes(form, base) ==
    LET Same(f) == f \in base.own /\ form[f] = base[f]
    IN  Body(IF form.team = base.team THEN Null ELSE form.team,
             IF form.user = base.user THEN Null ELSE form.user,
             IF Same("start") THEN Null ELSE form.start,
             IF Same("end") THEN Null ELSE form.end)

SubmitEdit(q) ==
    LET body == Changes(dialog.form, dialog.base)
    IN  /\ Editing /\ dialog.kind = "detail" /\ ~Busy("update")
        /\ IF body = Body(Null, Null, Null, Null)
              THEN dialog' = [dialog EXCEPT !.mode = "view"] /\ UNCHANGED <<server, cached, page, requests>>
              ELSE /\ SendUpdate(q, "dialog", dialog.base, dialog.form, body)
                   /\ dialog' = [dialog EXCEPT !.pending = @ \cup {q}]
        /\ UNCHANGED focus

ConfirmDelete(q) ==
    /\ dialog # Null /\ dialog.kind = "detail" /\ dialog.mode = "confirm" /\ ~Busy("delete")
    /\ requests[q] = Unsent
    /\ requests' = [requests EXCEPT ![q] =
          [Unsent EXCEPT !.pc = "sent", !.op = "delete", !.origin = "dialog",
                         !.id = dialog.base.id, !.base = dialog.base]]
    /\ dialog' = [dialog EXCEPT !.pending = @ \cup {q}]
    /\ UNCHANGED <<server, cached, page, focus>>

-----------------------------------------------------------------------------
(* The server.                                                             *)

Merged(body, row) ==
    LET Given(f) == IF body[f] = Null THEN row[f] ELSE body[f]
    IN  Body(Given("team"), Given("user"), Given("start"), Given("end"))
Valid(row) == row.start < row.end /\ Event.start <= row.start /\ row.end <= Event.end
Admitted == rights.role # "read_only" /\ (rights.locked => rights.role = "super_admin")

\* The row a request leaves behind, if the server accepts it.
Outcome(id, row) == shifts' = [shifts EXCEPT ![id] = row] /\ UNCHANGED <<rights, changes>>

Accept(q) ==
    LET r == requests[q]
        row == shifts[r.id]
        mine == row.user = Me \/ Manages(rights)
    IN  /\ r.pc = "sent" /\ Admitted
        /\ \/ /\ r.op = "create" /\ Valid(r.body)
              /\ r.body.user # Me => Manages(rights)
              /\ \E id \in DOMAIN shifts : shifts[id] = Null /\ Outcome(id, r.body)
           \/ /\ r.op = "update" /\ row # Null /\ mine
              /\ r.body.user \notin {Null, row.user} => Manages(rights)
              /\ Valid(Merged(r.body, row))
              /\ Outcome(r.id, Merged(r.body, row))
           \/ r.op = "delete" /\ row # Null /\ mine /\ Outcome(r.id, Null)
        /\ requests' = [requests EXCEPT ![q] =
              [Unsent EXCEPT !.pc = "accepted", !.op = r.op, !.origin = r.origin, !.previous = r.previous]]
        /\ UNCHANGED <<cached, page, focus, dialog>>

OthersWrite(id, row) ==
    /\ changes < MaxChanges /\ shifts[id] \notin {Null, row}
    /\ shifts' = [shifts EXCEPT ![id] = row]
    /\ changes' = changes + 1
    /\ UNCHANGED <<rights, cached, page, focus, dialog, requests>>

OthersSetRights(r) ==
    /\ changes < MaxChanges /\ rights # r
    /\ rights' = r
    /\ changes' = changes + 1
    /\ UNCHANGED <<shifts, cached, page, focus, dialog, requests>>

-----------------------------------------------------------------------------
(* Answers.                                                                *)

\* The shifts are fetched after an invalidation or an event of the stream, or
\* because the window got the focus.
RefreshGrid ==
    /\ grid' = ServerList
    /\ stale' = FALSE
    /\ UNCHANGED <<server, seen, page, focus, dialog, requests>>

RefreshRights ==
    /\ seen' = rights
    /\ UNCHANGED <<server, grid, stale, page, focus, dialog, requests>>

Closed(kind) == IF dialog # Null /\ dialog.kind = kind THEN Null ELSE dialog
Answered(q) == IF dialog = Null THEN Null ELSE [dialog EXCEPT !.pending = @ \ {q}]

Settled(q, pc) == requests' = [requests EXCEPT ![q] = [Unsent EXCEPT !.pc = pc]]

\* The dialog closes whatever dialog of its kind is open by now.  A warning
\* stays for a second and a half first.
Succeed(q) ==
    /\ requests[q].pc = "accepted"
    /\ stale' = TRUE
    /\ \/ /\ requests[q].op = "create" /\ dialog' = Closed("create") /\ Settled(q, "settled")
       \/ requests[q].op = "create" /\ dialog' = Answered(q) /\ Settled(q, "warned")
       \/ /\ requests[q].op # "create" /\ Settled(q, "settled")
          /\ dialog' = IF requests[q].origin = "dialog" THEN Closed("detail") ELSE dialog
    /\ UNCHANGED <<server, grid, seen, page, focus>>

WarningEnds(q) ==
    /\ requests[q].pc = "warned"
    /\ dialog' = Closed("create")
    /\ Settled(q, "settled")
    /\ UNCHANGED <<server, cached, page, focus>>

\* A request is not permitted, not valid, overbooked or lost on the way, or its
\* answer is.  An update puts back the list that was cached when it was sent,
\* guesses of that time included.
\* Mutant: the list is fetched again after a success only.
FailQuietly(q) ==
    /\ Pending(q)
    /\ grid' = IF requests[q].previous # Null THEN requests[q].previous ELSE grid
    /\ stale' = (stale /\ requests[q].previous = Null)
    /\ dialog' = Answered(q)
    /\ Settled(q, "settled")
    /\ UNCHANGED <<server, seen, page, focus>>

Fail(q) ==
    /\ Pending(q)
    /\ grid' = IF requests[q].previous # Null THEN requests[q].previous ELSE grid
    /\ stale' = (stale \/ requests[q].op = "update")
    /\ dialog' = Answered(q)
    /\ Settled(q, "settled")
    /\ UNCHANGED <<server, seen, page, focus>>

-----------------------------------------------------------------------------
Init ==
    /\ session \in DOMAIN Sessions /\ shifts \in Use.tables
    /\ rights \in InitRights
    /\ changes = 0
    /\ grid = Null /\ stale = FALSE /\ seen = rights
    /\ page \in Use.pages
    /\ focus = Null
    /\ dialog = Null
    /\ requests = [q \in Requests |-> Unsent]

Look ==
    \/ \E v \in Views : SetView(v)
    \/ \E team \in VisibleTeams \cup {Null} : SetTeam(team)
    \/ \E u \in Users : ToggleUser(u)
    \/ \E day \in EventDays(Event.start, Event.end) \cup {Null} : SetDay(day)
    \/ ToggleAvailability

Keyboard == EscapeKey \/ EnterKey \/ \E key \in Use.keys : Arrow(key)

OnGrid ==
    \/ \E row \in DOMAIN DisplayedRows, col \in DOMAIN GridSlots : ClickCell(row, col)
    \/ \E i \in DOMAIN Shown :
          \/ ClickShift(Shown[i])
          \/ \E q \in Use.requests, delta \in Use.deltas : Drag(q, Shown[i], delta) \/ Resize(q, Shown[i], delta)

Mouse ==
    \/ GridShown /\ dialog = Null /\ OnGrid
    \/ ClickCreate \/ OpenAvailability \/ CloseDialog

Typing ==
    \/ \E team \in Teams : PickTeam(team)
    \/ \E u \in Users : PickUser(u)
    \/ \E t \in Use.instants : PickTime(t)
    \/ StartEditing \/ AskDelete \/ StepBack
    \/ \E q \in Use.requests : SubmitCreate(q) \/ SubmitEdit(q) \/ ConfirmDelete(q)

Elsewhere ==
    \/ \E q \in Requests : Accept(q) \/ Succeed(q) \/ Fail(q) \/ WarningEnds(q)
    \/ \E id \in DOMAIN shifts, row \in Use.rewrites : OthersWrite(id, row)
    \/ \E r \in Use.demotions : OthersSetRights(r)
    \/ RefreshGrid \/ RefreshRights

Next == (Look \/ Keyboard \/ Mouse \/ Typing \/ Elsewhere) /\ UNCHANGED session

Spec == Init /\ [][Next]_vars

-----------------------------------------------------------------------------
(* Properties.                                                             *)

Form == [team : Teams \cup {Null}, user : Users, start : Int, end : Int]
CachedShift == [id : ShiftIds, team : Teams, user : Users, name : Users, start : Int, end : Int,
                own : SUBSET {"start", "end"}]
OneOf(S, x) == x = Null \/ x \in S

\* Tables, cached copies, dialogs and requests have their types.
TypeOK ==
    /\ DOMAIN shifts \subseteq ShiftIds /\ shifts \in [DOMAIN shifts -> {Null} \cup Row]
    /\ rights \in Rights /\ seen \in Rights
    /\ OneOf(Seq(CachedShift), grid)
    /\ stale \in BOOLEAN
    /\ focus # Null => focus.row \in -1 .. Len(Roster) - 1 /\ focus.col \in Nat
    /\ dialog # Null /\ dialog.kind # "availability" =>
          /\ dialog.form \in Form /\ OneOf(CachedShift, dialog.base)
          /\ dialog.mode \in {"view", "edit", "confirm"} /\ dialog.pending \subseteq Requests
    /\ \A q \in Requests :
          /\ requests[q].pc \in {"unsent", "sent", "accepted", "warned", "settled"}
          /\ OneOf({"create", "update", "delete"}, requests[q].op)
          /\ OneOf(Form, requests[q].form) /\ OneOf(CachedShift, requests[q].base)

\* A dialog leaves the grid below it as it is, and can always be closed: what
\* is said of the grid is said of it without one.
Uncovered == dialog = Null

\* A block covers a column, at least in part.
Covers(block, i) ==
    /\ block # Null
    /\ block.left < i * SlotDuration(GridSlots) /\ block.right > (i - 1) * SlotDuration(GridSlots)

\* The bars and the rows are computed apart, and say the same in every view:
\* the number under a column is that of the team's blocks which would stand
\* over it with all rows shown, and nobody is missed where a requirement is met.
BarsAgreeWithBlocks ==
    Uncovered => \A team \in BarTeams(Shown), i \in DOMAIN GridSlots :
        LET blocks == Cardinality({k \in DOMAIN AllShifts :
                          AllShifts[k].team = team /\ Covers(Placed(AllShifts[k], GridSlots), i)})
            cell == BarCell(team, i)
        IN  /\ cell.count = blocks
            /\ CoverageStatus(cell) = "understaffed" =>
                  \E c \in Range(Coverage) : c.team = team /\ c.required > blocks

\* A block is as wide as the part of its shift that is not hidden and lies in
\* the range shown, provided the first two columns follow each other.  (What
\* a dialog saved with its end before its start is drawn until it is refused.)
BlockWidthIsVisibleTime ==
    Uncovered /\ SlotDuration(GridSlots) = Event.gran =>
        \A k \in DOMAIN Shown :
            LET block == Placed(Shown[k], GridSlots)
                visible == {t \in Shown[k].start .. Shown[k].end - 1 :
                               \E slot \in Range(GridSlots) : slot <= t /\ t < slot + Event.gran}
            IN  block # Null /\ Shown[k].start < Shown[k].end => block.right - block.left = Cardinality(visible)

\* The tables under the grid add up: by team, by day and by user they come to
\* the total in shifts; in hours, every figure being rounded by itself, to no
\* less than the total shown and to at most half a tenth more for each row.
\* The list of a single user has the days of the table.
StatsAddUp ==
    LET stats == Stats(StatsShifts(Shown))
        AddsUp(g) ==
            /\ SumFunction([x \in DOMAIN g |-> g[x].count]) = stats.total.count
            /\ SumFunction([x \in DOMAIN g |-> g[x].hours]) - stats.total.hours
                  \in 0 .. Cardinality(DOMAIN g) \div 2
        listed == ShiftsByDay(Shown)
    IN  Uncovered =>
        /\ AddsUp(stats.perTeam) /\ AddsUp(stats.perDay) /\ AddsUp(stats.perUser)
        /\ ShowsList(page) => \A d \in DOMAIN stats.perDay :
              stats.perDay[d].count = Len(StatsShifts(listed[d]))

\* Who edits one thing does not undo what others did about another: a save
\* from a dialog that was opened before leaves the team and the user alone
\* unless they were changed in the dialog itself.  Times have no such promise.
SavesOnlyChangedPeople ==
    [][\A q \in Requests :
          LET r == requests[q]
          IN  r.op = "update" /\ r.pc = "sent" /\ requests'[q].pc = "accepted" =>
                  /\ r.form.team = r.base.team => shifts'[r.id].team = shifts[r.id].team
                  /\ r.form.user = r.base.user => shifts'[r.id].user = shifts[r.id].user]_vars

\* What this page took for granted and was refused does not stay: with all
\* answers in, a list that needs no fetching is free of guesses, in whatever
\* order updates were sent, failed and put back their lists.
NoGuessSurvives ==
    grid # Null /\ ~stale /\ (\A q \in Requests : ~Pending(q)) =>
        \A i \in DOMAIN grid : grid[i].own = {} /\ grid[i].name = grid[i].user

=============================================================================
