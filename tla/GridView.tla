------------------------------ MODULE GridView ------------------------------
(***************************************************************************)
(* What the web client draws of one event's grid, from the shifts it has   *)
(* cached: columns, rows, blocks, coverage bars, statistics.  A list is in *)
(* the order of the server's answer.  Lengths are in ticks: one column is  *)
(* as wide as a slot is long, whatever its width in pixels.                *)
(***************************************************************************)
EXTENDS TimeSlots, FiniteSetsExt, SequencesExt

CONSTANTS
    Roster,        \* the users, in the order of their names
    Pinned,        \* the users pinned to the event, as far as the viewer may see them
    EventTeams,    \* the event's teams: set of [team, visible]
    Coverage,      \* its requirements: list of [team, start, end, required]
    Availability,  \* its availability entries: list of [user, start, end]
    Null

Users == Range(Roster)
Rank(user) == CHOOSE i \in DOMAIN Roster : Roster[i] = user
VisibleTeams == {et.team : et \in {x \in EventTeams : x.visible}}

-----------------------------------------------------------------------------
(* Columns.                                                                *)

\* A day restricts the event's range to that calendar day; the day may come
\* from a shared link and lie outside the event.
EffectiveRange(event, day) ==
    IF day = Null THEN [start |-> event.start, end |-> event.end]
    ELSE [start |-> Max({day, event.start}), end |-> Min({day + DayTicks, event.end})]

Columns(event, day, hidden) ==
    LET r == EffectiveRange(event, day)
    IN  GenerateTimeSlots(r.start, r.end, event.gran, hidden)

\* The length of a slot is read off the first two columns.
SlotDuration(slots) == IF Len(slots) > 1 THEN slots[2] - slots[1] ELSE TicksPerHour

\* Something falls into a column.
Falls(x, slot, dur) == x.start < slot + dur /\ x.end > slot

-----------------------------------------------------------------------------
(* Blocks: from the first column that ends after the shift's start to the  *)
(* last one that begins before its end.                                    *)

\* Mutant: a block is as long as its shift, hidden hours or not.
PlacedByDuration(shift, slots) ==
    LET dur == SlotDuration(slots)
        first == {i \in DOMAIN slots : shift.start < slots[i] + dur}
        l == Min(first)
        left == (l - 1) * dur + Max({0, shift.start - slots[l]})
    IN  IF first = {} THEN Null ELSE [left |-> left, right |-> left + shift.end - shift.start]

Placed(shift, slots) ==
    LET dur == SlotDuration(slots)
        first == {i \in DOMAIN slots : shift.start < slots[i] + dur}
        last == {i \in DOMAIN slots : shift.end > slots[i]}
        l == Min(first)
        r == Max(last)
    IN  IF first = {} THEN Null
        ELSE [left |-> (l - 1) * dur + Max({0, shift.start - slots[l]}),
              right |-> IF last = {} THEN 0 ELSE (r - 1) * dur + Min({dur, shift.end - slots[r]})]

-----------------------------------------------------------------------------
(* Coverage bars.                                                          *)

\* How many of a team's shifts fall into a column, and the first requirement
\* that does.
CoverageCell(shifts, team, slots, i) ==
    LET dur == SlotDuration(slots)
        staff == {k \in DOMAIN shifts : shifts[k].team = team /\ Falls(shifts[k], slots[i], dur)}
        needs == {k \in DOMAIN Coverage : Coverage[k].team = team /\ Falls(Coverage[k], slots[i], dur)}
    IN  [count |-> Cardinality(staff), required |-> IF needs = {} THEN Null ELSE Coverage[Min(needs)].required]

CoverageStatus(cell) ==
    IF cell.required = Null THEN "none"
    ELSE CASE cell.count < cell.required -> "understaffed"
           [] cell.count = cell.required -> "satisfied"
           [] OTHER                      -> "overstaffed"

\* The bars under the grid: the event's teams, and those of the shifts shown.
BarTeams(shown) == {et.team : et \in EventTeams} \cup {shown[i].team : i \in DOMAIN shown}

-----------------------------------------------------------------------------
(* Rows.                                                                   *)

StableByName(rows) ==
    LET Before(i, j) == \/ Rank(rows[i].name) < Rank(rows[j].name)
                        \/ rows[i].name = rows[j].name /\ i < j
        order == InOrder(DOMAIN rows, {p \in (DOMAIN rows) \X DOMAIN rows : Before(p[1], p[2])})
    IN  [k \in DOMAIN rows |-> rows[order[k]]]

\* One row per user who has a shift, labelled as the first of them says.
GroupShiftsByUser(shifts) ==
    LET heads == Ascending({i \in DOMAIN shifts : \A j \in 1 .. i - 1 : shifts[j].user # shifts[i].user})
    IN  StableByName([k \in DOMAIN heads |-> [id |-> shifts[heads[k]].user, name |-> shifts[heads[k]].name]])

\* The grid adds pinned users, and those who only entered availability when
\* they are asked for.
GridRows(shown, withAvailability) ==
    LET base == GroupShiftsByUser(shown)
        free == {Availability[i].user : i \in DOMAIN Availability}
        extra == (Pinned \cup IF withAvailability THEN free ELSE {}) \ {base[k].id : k \in DOMAIN base}
        added == [k \in 1 .. Cardinality(extra) |->
                    LET u == SetToSeq(extra)[k] IN [id |-> u, name |-> u]]
    IN  IF extra = {} THEN base ELSE StableByName(base \o added)

\* The users that the per-user view lets one choose from.
AllUsers(shifts) == {shifts[i].user : i \in DOMAIN shifts} \cup {Availability[i].user : i \in DOMAIN Availability}

-----------------------------------------------------------------------------
(* Views.                                                                  *)

Views == {"everything", "by_team", "my_shifts", "per_user"}

\* The elements at some places of a list, in its order.
Picked(list, places) == LET at == Ascending(places) IN [k \in DOMAIN at |-> list[at[k]]]

FilteredShifts(shifts, page, me) ==
    Picked(shifts, {i \in DOMAIN shifts :
        /\ page.view = "by_team" /\ page.team # Null => shifts[i].team = page.team
        /\ page.view = "my_shifts" => shifts[i].user = me
        /\ page.view = "per_user" /\ page.users # {} => shifts[i].user \in page.users})

\* One chosen user is shown as a list of shifts and not as a grid.
ShowsList(page) == page.view = "per_user" /\ Cardinality(page.users) = 1

-----------------------------------------------------------------------------
(* Statistics of the teams that are not hidden, and the list of one user.  *)

StatsShifts(shown) == Picked(shown, {i \in DOMAIN shown : shown[i].team \in VisibleTeams})

Ticks(shifts) == [i \in DOMAIN shifts |-> shifts[i].end - shifts[i].start]
DayOf(t) == Day(t) * DayTicks

\* A figure of the tables is rounded by itself, to tenths of an hour.
TenthsFromTicks(ticks) == (20 * ticks + TicksPerHour) \div (2 * TicksPerHour)

\* One row: its shifts, and their hours in tenths.  (Users and averages are
\* left out.)
Group(shifts, P(_)) ==
    LET own == {i \in DOMAIN shifts : P(shifts[i])}
    IN  [hours |-> TenthsFromTicks(SumFunctionOnSet(Ticks(shifts), own)), count |-> Cardinality(own)]

\* Mutant: a shift across midnight counts on both days.
StatsBothDays(shifts) ==
    LET days == UNION {{DayOf(shifts[i].start), DayOf(shifts[i].end)} : i \in DOMAIN shifts}
        users == {shifts[i].user : i \in DOMAIN shifts}
    IN  [total |-> Group(shifts, LAMBDA s : TRUE),
         perTeam |-> [team \in VisibleTeams |-> Group(shifts, LAMBDA s : s.team = team)],
         perDay |-> [d \in days |-> Group(shifts, LAMBDA s : DayOf(s.start) = d \/ DayOf(s.end) = d)],
         perUser |-> [u \in users |-> Group(shifts, LAMBDA s : s.user = u)]]

Stats(shifts) ==
    LET days == {DayOf(shifts[i].start) : i \in DOMAIN shifts}
        users == {shifts[i].user : i \in DOMAIN shifts}
    IN  [total |-> Group(shifts, LAMBDA s : TRUE),
         perTeam |-> [team \in VisibleTeams |-> Group(shifts, LAMBDA s : s.team = team)],
         perDay |-> [d \in days |-> Group(shifts, LAMBDA s : DayOf(s.start) = d)],
         perUser |-> [u \in users |-> Group(shifts, LAMBDA s : s.user = u)]]

\* The list groups a user's shifts by the day they start on, in time order.
ShiftsByDay(shifts) ==
    [d \in {DayOf(shifts[i].start) : i \in DOMAIN shifts} |->
        LET own == {i \in DOMAIN shifts : DayOf(shifts[i].start) = d}
            Before(i, j) == \/ shifts[i].start < shifts[j].start
                            \/ shifts[i].start = shifts[j].start /\ i < j
            order == InOrder(own, {p \in own \X own : Before(p[1], p[2])})
        IN  [k \in DOMAIN order |-> shifts[order[k]]]]

-----------------------------------------------------------------------------
(* The date and time picker of the dialogs: one of day, hour and minute is *)
(* changed; a time typed on a phone is rounded within its hour.            *)

NativeTime(time, gran) ==
    LET minute == time % TicksPerHour
    IN  time - minute + ((((minute + gran \div 2) \div gran) * gran) % TicksPerHour)

Picks(value, event) ==
    LET time == value % DayTicks
        midnight == value - time
        minute == value % TicksPerHour
        times == {h * TicksPerHour + minute : h \in 0 .. DayHours - 1}
              \cup {time - minute + k * event.gran : k \in 0 .. (TicksPerHour \div event.gran) - 1}
              \cup {NativeTime(t, event.gran) : t \in 0 .. DayTicks - 1}
    IN  {SnapToGranularity(t, event.gran) :
            t \in {d + time : d \in EventDays(event.start, event.end)} \cup {midnight + x : x \in times}}

=============================================================================
