---------------------------- MODULE EventService ----------------------------
(***************************************************************************)
(* The operations of EventService that the shift handlers depend on        *)
(* (service/events.go), and the two middlewares that guard the routes of   *)
(* event and coverage administration (server/middleware/auth.go).          *)
(***************************************************************************)
EXTENDS PlanningTables

-----------------------------------------------------------------------------
(* Middleware: RequireSuperAdmin and RequireEventAdminOrSuperAdmin.        *)

Allowed(q) ==
    \/ Role(q.caller) = "super_admin"
    \/ q.op \in EventAdminOps /\ q.caller \in admins

AfterGate(op) == IF op = "updateEvent" THEN "getEvent" ELSE "write"

Gate(r) ==
    /\ reqs[r].pc = "gate"
    /\ \/ ~Allowed(reqs[r]) /\ Reply(r)
       \/ Allowed(reqs[r]) /\ Continue(r, AfterGate(reqs[r].op))
    /\ ReadOnly

-----------------------------------------------------------------------------
(* Update                                                                  *)

\* The new range is checked against the row read here ...
UpdateEventGet(r) ==
    LET valid == event # Null /\ Ordered(MergedEvent(reqs[r].in, event))
    IN  /\ At(r, "updateEvent", "getEvent")
        /\ \/ ~valid /\ Reply(r)
           \/ valid /\ Continue(r, "write")
        /\ ReadOnly

\* ... and merged with the row as it is now.  The events table has no CHECK
\* on the range, and nothing is published.
UpdateEventWrite(r) ==
    /\ At(r, "updateEvent", "write")
    /\ Reply(r)
    /\ \/ event = Null /\ ReadOnly
       \/ /\ event # Null
          /\ event' = MergedEvent(reqs[r].in, event)
          /\ gridStale' = TRUE
          /\ UNCHANGED <<shifts, coverage, admins, shiftSeq, coverageSeq>>

-----------------------------------------------------------------------------
(* Operations that look the event up and write by its id: nothing the      *)
(* lookup returns is used by the write, so they are one step.              *)

SetLocked(r) ==
    /\ reqs[r].op \in {"lock", "unlock"} /\ reqs[r].pc = "write"
    /\ \/ event = Null /\ Reply(r) /\ ReadOnly
       \/ /\ event # Null
          /\ event' = [event EXCEPT !.locked = (reqs[r].op = "lock")]
          /\ Written(r)
          /\ UNCHANGED <<shifts, coverage, admins, shiftSeq, coverageSeq>>

AnnounceLocked(r) ==
    /\ reqs[r].op \in {"lock", "unlock"} /\ reqs[r].pc = "announce"
    /\ Publish(r)

\* ON DELETE CASCADE empties the tables that refer to the event.
DeleteEvent(r) ==
    /\ At(r, "deleteEvent", "write")
    /\ Reply(r)
    /\ \/ event = Null /\ ReadOnly
       \/ /\ event # Null
          /\ event' = Null
          /\ shifts' = [s \in ShiftIds |-> Null]
          /\ coverage' = [c \in CoverageIds |-> Null]
          /\ admins' = {}
          /\ UNCHANGED <<shiftSeq, coverageSeq, gridStale>>

AddAdmin(r) ==
    /\ At(r, "addAdmin", "write")
    /\ Reply(r)
    /\ \/ event = Null /\ UNCHANGED admins
       \/ event # Null /\ admins' = admins \cup {reqs[r].in.user}
    /\ UNCHANGED <<event, shifts, coverage, shiftSeq, coverageSeq, gridStale>>

RemoveAdmin(r) ==
    /\ At(r, "removeAdmin", "write")
    /\ Reply(r)
    /\ admins' = admins \ {reqs[r].in.user}
    /\ UNCHANGED <<event, shifts, coverage, shiftSeq, coverageSeq, gridStale>>

EventServiceStep(r) ==
    \/ Gate(r)
    \/ UpdateEventGet(r) \/ UpdateEventWrite(r)
    \/ SetLocked(r) \/ AnnounceLocked(r)
    \/ DeleteEvent(r)
    \/ AddAdmin(r) \/ RemoveAdmin(r)

=============================================================================
