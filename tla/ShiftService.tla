---------------------------- MODULE ShiftService ----------------------------
(***************************************************************************)
(* ShiftService: Create, Update and Delete of a shift, and the coverage    *)
(* requirement operations (service/shifts.go).  One action per statement.  *)
(* The overlap query of Create only feeds the warnings of the response and *)
(* has no step here.                                                       *)
(***************************************************************************)
EXTENDS PlanningTables

\* Mutant: the lock is not looked at.
OpenToAnyone(u, ev) == ev # Null

\* Locked event enforcement: only super-admin can modify locked events.
OpenTo(u, ev) == ev # Null /\ (ev.locked => Role(u) = "super_admin")

-----------------------------------------------------------------------------
(* Create                                                                  *)

CreateGetEvent(r) ==
    LET q == reqs[r]
        admitted == Role(q.caller) # "read_only" /\ OpenTo(q.caller, event)
        valid == Ordered(q.in) /\ Within(q.in, event)
    IN  /\ At(r, "createShift", "getEvent")
        /\ \/ ~admitted /\ Reply(r)
           \/ /\ admitted /\ Role(q.caller) = "user"
              /\ reqs' = [reqs EXCEPT ![r].pc = "isAdmin", ![r].ev = event]
           \/ admitted /\ Role(q.caller) # "user" /\ ~valid /\ Reply(r)
           \/ admitted /\ Role(q.caller) # "user" /\ valid /\ Proceed(r, "write")
        /\ ReadOnly

\* Users create their own shifts only, unless the event_admins row says more;
\* an event admin skips the overbooking check.
CreateIsAdmin(r) ==
    LET q == reqs[r]
        isAdmin == q.caller \in admins
        valid == /\ q.in.user # q.caller => isAdmin
                 /\ Ordered(q.in)
                 /\ Within(q.in, q.ev)
    IN  /\ At(r, "createShift", "isAdmin")
        /\ \/ ~valid /\ Reply(r)
           \/ valid /\ isAdmin /\ Proceed(r, "write")
           \/ valid /\ ~isAdmin /\ Proceed(r, "listCoverage")
        /\ ReadOnly

CreateListCoverage(r) ==
    LET todo == RequirementsMet(reqs[r].in)
    IN  /\ At(r, "createShift", "listCoverage")
        /\ \/ todo = {} /\ Continue(r, "write")
           \/ todo # {} /\ reqs' = [reqs EXCEPT ![r].pc = "count", ![r].todo = todo]
        /\ ReadOnly

\* Mutant: off by one.
OverStaffed(req) == Cardinality(StaffOf(req.team, req)) > req.required

\* Overbooking check: one count per requirement, in order of start time.
FullyStaffed(req) == Cardinality(StaffOf(req.team, req)) >= req.required

\* Mutant: the loop never moves on to the next requirement.
CreateCountForever(r) ==
    /\ At(r, "createShift", "count")
    /\ \E req \in reqs[r].todo :
          IF FullyStaffed(req) THEN Reply(r) ELSE Continue(r, "count")
    /\ ReadOnly

CreateCount(r) ==
    /\ At(r, "createShift", "count")
    /\ \E req \in reqs[r].todo :
          /\ \A other \in reqs[r].todo : req.start <= other.start
          /\ \/ FullyStaffed(req) /\ Reply(r)
             \/ /\ ~FullyStaffed(req) /\ reqs[r].todo # {req}
                /\ reqs' = [reqs EXCEPT ![r].todo = @ \ {req}]
             \/ ~FullyStaffed(req) /\ reqs[r].todo = {req} /\ Proceed(r, "write")
    /\ ReadOnly

\* INSERT fails when the event is gone (foreign key).
CreateInsert(r) ==
    LET in == reqs[r].in
        row == [user |-> in.user, team |-> in.team, start |-> in.start, end |-> in.end]
    IN  /\ At(r, "createShift", "write")
        /\ \/ event = Null /\ Reply(r) /\ ReadOnly
           \/ /\ event # Null /\ shiftSeq < MaxShifts
              /\ shiftSeq' = shiftSeq + 1
              /\ shifts' = [shifts EXCEPT ![shiftSeq + 1] = row]
              /\ reqs' = [reqs EXCEPT ![r].pc = "announce", ![r].id = shiftSeq + 1]
              /\ gridStale' = TRUE
              /\ UNCHANGED <<event, coverage, admins, coverageSeq>>

-----------------------------------------------------------------------------
(* Update and Delete                                                       *)

EditGetShift(r) ==
    LET q == reqs[r]
        row == shifts[q.id]
        accepted == row # Null /\ Role(q.caller) # "read_only"
    IN  /\ q.op \in {"updateShift", "deleteShift"} /\ q.pc = "getShift"
        /\ \/ ~accepted /\ Reply(r)
           \/ accepted /\ reqs' = [reqs EXCEPT ![r].pc = "getEvent", ![r].old = row]
        /\ ReadOnly

\* Mutant: only the end is held against the event's range.
UpdateValidEnd(q, ev, isAdmin) ==
    LET merged == MergedShift(q.in, q.old)
    IN  Ordered(merged) /\ merged.end <= ev.end

\* Only admins can reassign; the times that would result from merging the
\* input with the row read earlier must be in order and inside the event.
UpdateValid(q, ev, isAdmin) ==
    LET merged == MergedShift(q.in, q.old)
    IN  /\ q.in.user \notin {Null, q.old.user} => Role(q.caller) = "super_admin" \/ isAdmin
        /\ Ordered(merged)
        /\ Within(merged, ev)

NeedsAdmin(q) == Role(q.caller) = "user" /\ q.old.user # q.caller

UpdateGetEvent(r) ==
    LET q == reqs[r]
        admitted == OpenTo(q.caller, event)
        valid == UpdateValid(q, event, FALSE)
    IN  /\ At(r, "updateShift", "getEvent")
        /\ \/ ~admitted /\ Reply(r)
           \/ /\ admitted /\ NeedsAdmin(q)
              /\ reqs' = [reqs EXCEPT ![r].pc = "isAdmin", ![r].ev = event]
           \/ admitted /\ ~NeedsAdmin(q) /\ ~valid /\ Reply(r)
           \/ admitted /\ ~NeedsAdmin(q) /\ valid /\ Proceed(r, "write")
        /\ ReadOnly

UpdateIsAdmin(r) ==
    LET q == reqs[r]
        valid == q.caller \in admins /\ UpdateValid(q, q.ev, TRUE)
    IN  /\ At(r, "updateShift", "isAdmin")
        /\ \/ ~valid /\ Reply(r)
           \/ valid /\ Proceed(r, "write")
        /\ ReadOnly

\* Mutant: the table has no CHECK (end_time > start_time).
UpdateUnchecked(in, row) == row # Null

\* UPDATE ... COALESCE merges the input with the row as it is now; it fails
\* when the row is gone or the CHECK (end_time > start_time) does.
UpdateSucceeds(in, row) == row # Null /\ Ordered(MergedShift(in, row))

UpdateWrite(r) ==
    LET q == reqs[r]
        row == shifts[q.id]
    IN  /\ At(r, "updateShift", "write")
        /\ \/ ~UpdateSucceeds(q.in, row) /\ Reply(r) /\ ReadOnly
           \/ /\ UpdateSucceeds(q.in, row)
              /\ shifts' = [shifts EXCEPT ![q.id] = MergedShift(q.in, row)]
              /\ Written(r)
              /\ UNCHANGED <<event, coverage, admins, shiftSeq, coverageSeq>>

DeleteGetEvent(r) ==
    LET q == reqs[r]
        admitted == OpenTo(q.caller, event)
    IN  /\ At(r, "deleteShift", "getEvent")
        /\ \/ ~admitted /\ Reply(r)
           \/ admitted /\ NeedsAdmin(q) /\ Proceed(r, "isAdmin")
           \/ admitted /\ ~NeedsAdmin(q) /\ Proceed(r, "write")
        /\ ReadOnly

DeleteIsAdmin(r) ==
    /\ At(r, "deleteShift", "isAdmin")
    /\ \/ reqs[r].caller \notin admins /\ Reply(r)
       \/ reqs[r].caller \in admins /\ Continue(r, "write")
    /\ ReadOnly

\* DELETE of a row that is already gone is no error, and is announced too.
DeleteWrite(r) ==
    /\ At(r, "deleteShift", "write")
    /\ shifts' = [shifts EXCEPT ![reqs[r].id] = Null]
    /\ Written(r)
    /\ UNCHANGED <<event, coverage, admins, shiftSeq, coverageSeq>>

\* Mutant: Delete, too, publishes only what it can read again.
LostWhenGone(q) == q.op \in ShiftOps /\ shifts[q.id] = Null

\* Create and Update read the row again to build the message; when it has
\* been deleted meanwhile they answer with an error and publish nothing.
Lost(q) == q.op \in {"createShift", "updateShift"} /\ shifts[q.id] = Null

AnnounceShift(r) ==
    /\ reqs[r].op \in ShiftOps /\ reqs[r].pc = "announce"
    /\ \/ Lost(reqs[r]) /\ Reply(r) /\ ReadOnly
       \/ ~Lost(reqs[r]) /\ Publish(r)

-----------------------------------------------------------------------------
(* Coverage requirements: no lock check.  The event is looked up by slug   *)
(* and the write goes by id; nothing read is used by the write, so lookup  *)
(* and write are one step.                                                 *)

CreateCoverage(r) ==
    LET in == reqs[r].in
        row == [team |-> in.team, start |-> in.start, end |-> in.end, required |-> in.required]
        accepted == event # Null /\ Ordered(in)
    IN  /\ At(r, "createCoverage", "write")
        /\ \/ ~accepted /\ Reply(r) /\ ReadOnly
           \/ /\ accepted /\ coverageSeq < MaxCoverage
              /\ coverageSeq' = coverageSeq + 1
              /\ coverage' = [coverage EXCEPT ![coverageSeq + 1] = row]
              /\ Written(r)
              /\ UNCHANGED <<event, shifts, admins, shiftSeq>>

UpdateCoverage(r) ==
    LET q == reqs[r]
        row == [team |-> q.in.team, start |-> q.in.start, end |-> q.in.end,
                required |-> q.in.required]
        accepted == event # Null /\ Ordered(q.in) /\ coverage[q.id] # Null
    IN  /\ At(r, "updateCoverage", "write")
        /\ \/ ~accepted /\ Reply(r) /\ ReadOnly
           \/ /\ accepted
              /\ coverage' = [coverage EXCEPT ![q.id] = row]
              /\ Written(r)
              /\ UNCHANGED <<event, shifts, admins, shiftSeq, coverageSeq>>

DeleteCoverage(r) ==
    LET doomed == IF reqs[r].op = "deleteCoverage" THEN {reqs[r].id}
                  ELSE {c \in Live(coverage) : coverage[c].team = reqs[r].in.team}
    IN  /\ reqs[r].op \in {"deleteCoverage", "deleteTeamCoverage"} /\ reqs[r].pc = "write"
        /\ \/ event = Null /\ Reply(r) /\ ReadOnly
           \/ /\ event # Null
              /\ coverage' = [c \in CoverageIds |-> IF c \in doomed THEN Null ELSE coverage[c]]
              /\ Written(r)
              /\ UNCHANGED <<event, shifts, admins, shiftSeq, coverageSeq>>

AnnounceCoverage(r) ==
    /\ reqs[r].op \in CoverageOps /\ reqs[r].pc = "announce"
    /\ Publish(r)

ShiftServiceStep(r) ==
    \/ CreateGetEvent(r) \/ CreateIsAdmin(r) \/ CreateListCoverage(r)
    \/ CreateCount(r) \/ CreateInsert(r)
    \/ EditGetShift(r)
    \/ UpdateGetEvent(r) \/ UpdateIsAdmin(r) \/ UpdateWrite(r)
    \/ DeleteGetEvent(r) \/ DeleteIsAdmin(r) \/ DeleteWrite(r)
    \/ AnnounceShift(r)
    \/ CreateCoverage(r) \/ UpdateCoverage(r) \/ DeleteCoverage(r)
    \/ AnnounceCoverage(r)

=============================================================================
