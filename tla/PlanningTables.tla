--------------------------- MODULE PlanningTables ---------------------------
(***************************************************************************)
(* The PostgreSQL tables one event owns, the SQL statements the services   *)
(* issue against them, and the HTTP requests in flight.                    *)
(*                                                                         *)
(* The services use no transaction: a request handler is a sequence of     *)
(* single statements, each atomic, with the values read by earlier ones    *)
(* held in local variables.  A request is therefore a record: "pc" names   *)
(* the statement it issues next, the other fields are the handler's input  *)
(* and locals.  Any number of handlers (Reqs) run at once.                 *)
(***************************************************************************)
EXTENDS Integers, FiniteSets, Sequences

CONSTANTS
    Users,          \* every account
    SuperAdmins,    \* accounts whose role is "super_admin"
    ReadOnlyUsers,  \* accounts whose role is "read_only"
    Teams,
    Reqs,           \* handler goroutines: the number of requests in flight
    MaxTime,        \* times are 0..MaxTime, the event's time slots
    MaxRequired,    \* bound on required_count
    MaxShifts,      \* bound on the number of shift rows ever inserted
    MaxCoverage,    \* bound on the number of coverage rows ever inserted
    Asked,          \* what clients ask for: operation, caller and input
    InitEvent,      \* the event, its admins and its coverage at the start
    InitAdmins,
    InitCoverage,
    Null

Times       == 0 .. MaxTime
ShiftIds    == 1 .. MaxShifts
CoverageIds == 1 .. MaxCoverage

ShiftRow    == [user : Users, team : Teams, start : Times, end : Times]
CoverageRow == [team : Teams, start : Times, end : Times, required : 1 .. MaxRequired]
EventRow    == [locked : BOOLEAN, start : Times, end : Times]

ShiftOps      == {"createShift", "updateShift", "deleteShift"}
CoverageOps   == {"createCoverage", "updateCoverage", "deleteCoverage", "deleteTeamCoverage"}
EventAdminOps == CoverageOps \cup {"updateEvent"}
SuperAdminOps == {"lock", "unlock", "deleteEvent", "addAdmin", "removeAdmin"}
AllOps        == ShiftOps \cup EventAdminOps \cup SuperAdminOps

ASSUME RolesAssumption ==
    /\ SuperAdmins \subseteq Users
    /\ ReadOnlyUsers \subseteq Users \ SuperAdmins

ASSUME BoundsAssumption ==
    /\ MaxTime \in Nat
    /\ MaxRequired \in Nat
    /\ MaxShifts \in Nat
    /\ MaxCoverage \in Nat
    /\ IsFiniteSet(Reqs)

ASSUME NullAssumption ==
    /\ Null \notin Users \cup Teams
    /\ Null \notin Times
    /\ Null \notin 1 .. MaxRequired
    /\ Null \notin ShiftRow
    /\ Null \notin CoverageRow
    /\ Null \notin EventRow

ASSUME InitAssumption ==
    /\ InitEvent \in EventRow
    /\ InitEvent.start < InitEvent.end
    /\ InitAdmins \subseteq Users
    /\ InitCoverage \in Seq(CoverageRow)
    /\ Len(InitCoverage) <= MaxCoverage

Input == [user     : Users \cup {Null},
          team     : Teams \cup {Null},
          start    : Times \cup {Null},
          end      : Times \cup {Null},
          required : (1 .. MaxRequired) \cup {Null}]

NoInput == [user |-> Null, team |-> Null, start |-> Null, end |-> Null, required |-> Null]

Inputs(users, teams, starts, ends, counts) ==
    [user : users, team : teams, start : starts, end : ends, required : counts]

\* What the HTTP handlers parse for each operation: creations carry every
\* field, edits any part of them (Null stands for a field left out).
InputsOf(op) ==
    CASE op = "createShift" -> Inputs(Users, Teams, Times, Times, {Null})
      [] op = "updateShift" -> Inputs(Users \cup {Null}, Teams \cup {Null},
                                      Times \cup {Null}, Times \cup {Null}, {Null})
      [] op \in {"createCoverage", "updateCoverage"} ->
                               Inputs({Null}, Teams, Times, Times, 1 .. MaxRequired)
      [] op = "deleteTeamCoverage" -> Inputs({Null}, Teams, {Null}, {Null}, {Null})
      [] op = "updateEvent" -> Inputs({Null}, {Null}, Times \cup {Null}, Times \cup {Null},
                                      {Null})
      [] op \in {"addAdmin", "removeAdmin"} -> Inputs(Users, {Null}, {Null}, {Null}, {Null})
      [] OTHER -> {NoInput}

ASSUME AskedAssumption ==
    /\ Asked \subseteq [op : AllOps, caller : Users, in : Input]
    /\ \A a \in Asked : a.in \in InputsOf(a.op)

Ops == {a.op : a \in Asked}

VARIABLES
    event,       \* the events row, or Null once deleted
    shifts,      \* the shifts table: id -> row, or Null
    coverage,    \* the coverage_requirements table
    admins,      \* the users the event_admins table lists
    shiftSeq,    \* shift ids 1..shiftSeq have been used: a UUID never comes back
    coverageSeq, \* likewise for coverage ids
    reqs,        \* the requests in flight
    gridStale    \* an open grid lacks a change that is already in the tables

tables == <<event, shifts, coverage, admins, shiftSeq, coverageSeq>>
vars   == <<tables, reqs, gridStale>>

-----------------------------------------------------------------------------
(* Roles, intervals, rows.                                                 *)

Role(u) ==
    IF u \in SuperAdmins THEN "super_admin"
    ELSE IF u \in ReadOnlyUsers THEN "read_only" ELSE "user"

Live(table) == {id \in DOMAIN table : table[id] # Null}

Ordered(iv) == iv.start < iv.end

Within(iv, outer) == iv.start >= outer.start /\ iv.end <= outer.end

\* The SQL predicate start_time < $4 AND end_time > $3.
Overlaps(iv, window) == iv.start < window.end /\ iv.end > window.start

\* COALESCE($n, column): a parameter that is NULL leaves the column alone.
Coalesce(param, column) == IF param = Null THEN column ELSE param

\* Mutant: user_id = $3, the COALESCE forgotten.
MergedShiftUserAsGiven(in, row) ==
    [row EXCEPT !.user = in.user]

MergedShift(in, row) ==
    [user  |-> Coalesce(in.user, row.user),
     team  |-> Coalesce(in.team, row.team),
     start |-> Coalesce(in.start, row.start),
     end   |-> Coalesce(in.end, row.end)]

MergedEvent(in, row) ==
    [row EXCEPT !.start = Coalesce(in.start, row.start),
                !.end   = Coalesce(in.end, row.end)]

\* CountShiftsInTimeRange: the rows of a team that overlap a window.
StaffOf(team, window) ==
    {id \in Live(shifts) : shifts[id].team = team /\ Overlaps(shifts[id], window)}

\* ListCoverageRequirementsByTeam, reduced to the requirements the loop in
\* Create does not skip.
RequirementsMet(in) ==
    {coverage[id] : id \in {c \in Live(coverage) :
                              /\ coverage[c].team = in.team
                              /\ Overlaps(in, coverage[c])}}

-----------------------------------------------------------------------------
(* Requests.                                                               *)

PCs == {"idle", "gate", "getShift", "getEvent", "isAdmin", "listCoverage",
        "count", "write", "announce"}

Request == [pc     : PCs,
            op     : AllOps \cup {Null},
            caller : Users \cup {Null},
            id     : ShiftIds \cup CoverageIds \cup {Null},
            in     : Input,
            old    : ShiftRow \cup {Null},       \* the row GetShiftByID returned
            ev     : EventRow \cup {Null},       \* the row GetEventBy... returned
            todo   : SUBSET CoverageRow]         \* requirements still to be counted

Idle == [pc |-> "idle", op |-> Null, caller |-> Null, id |-> Null, in |-> NoInput,
         old |-> Null, ev |-> Null, todo |-> {}]

At(r, op, pc) == reqs[r].op = op /\ reqs[r].pc = pc

\* The handler writes its response and returns.
Reply(r) == reqs' = [reqs EXCEPT ![r] = Idle]

\* The handler goes on to its next statement, keeping what it will use.
Continue(r, pc) == reqs' = [reqs EXCEPT ![r].pc = pc]

\* All reads and checks are done: what is left of the locals is the input.
Proceed(r, pc) ==
    reqs' = [reqs EXCEPT ![r].pc = pc, ![r].old = Null, ![r].ev = Null, ![r].todo = {}]

\* A statement that changes what GridData returns, and the step before its
\* announcement on the SSE channel.
Written(r) == Proceed(r, "announce") /\ gridStale' = TRUE

\* Broker.Publish: every open grid is invalidated and fetched again.
Publish(r) == Reply(r) /\ gridStale' = FALSE /\ UNCHANGED tables

\* A step that only reads.
ReadOnly == UNCHANGED <<tables, gridStale>>

=============================================================================
