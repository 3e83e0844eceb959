------------------------------ MODULE Planning ------------------------------
(***************************************************************************)
(* The planning core: shift, coverage and event requests of any number of  *)
(* clients against one event, interleaved statement by statement.          *)
(***************************************************************************)
EXTENDS ShiftService, EventService

-----------------------------------------------------------------------------
(* What clients send.                                                      *)

FirstStatement(op) ==
    CASE op = "createShift"                    -> "getEvent"
      [] op \in {"updateShift", "deleteShift"} -> "getShift"
      [] OTHER                                 -> "gate"

\* The rows a request can name: clients know the ids that have been inserted.
Targets(op) ==
    CASE op \in {"updateShift", "deleteShift"}       -> 1 .. shiftSeq
      [] op \in {"updateCoverage", "deleteCoverage"} -> 1 .. coverageSeq
      [] OTHER                                       -> {Null}

\* Bounds: a creation arrives only while its row still has an id to take.
Inserting(op) == {r \in Reqs : reqs[r].op = op /\ reqs[r].pc # "announce"}
RoomFor(op) ==
    /\ op = "createShift" => Cardinality(Inserting(op)) < MaxShifts - shiftSeq
    /\ op = "createCoverage" => Cardinality(Inserting(op)) < MaxCoverage - coverageSeq

Arrive(r) ==
    /\ reqs[r].pc = "idle"
    /\ \E ask \in Asked :
          /\ RoomFor(ask.op)
          /\ \E id \in Targets(ask.op) :
                reqs' = [reqs EXCEPT ![r] =
                           [Idle EXCEPT !.pc = FirstStatement(ask.op), !.op = ask.op,
                                        !.caller = ask.caller, !.id = id, !.in = ask.in]]
    /\ ReadOnly

-----------------------------------------------------------------------------

Init ==
    /\ event = InitEvent
    /\ shifts = [s \in ShiftIds |-> Null]
    /\ coverage = [c \in CoverageIds |-> IF c <= Len(InitCoverage) THEN InitCoverage[c] ELSE Null]
    /\ admins = InitAdmins
    /\ shiftSeq = 0
    /\ coverageSeq = Len(InitCoverage)
    /\ reqs = [r \in Reqs |-> Idle]
    /\ gridStale = FALSE

Handle(r) == ShiftServiceStep(r) \/ EventServiceStep(r)

Next == \E r \in Reqs : Arrive(r) \/ Handle(r)

Spec == Init /\ [][Next]_vars

\* A handler goroutine that has something to do is scheduled and its statement
\* answered; a client need never send another request.
FairSpec == Spec /\ \A r \in Reqs : WF_vars(Handle(r))

-----------------------------------------------------------------------------
(* Properties.                                                             *)

TypeOK ==
    /\ event \in EventRow \cup {Null}
    /\ shifts \in [ShiftIds -> ShiftRow \cup {Null}]
    /\ coverage \in [CoverageIds -> CoverageRow \cup {Null}]
    /\ admins \subseteq Users
    /\ shiftSeq \in 0 .. MaxShifts
    /\ coverageSeq \in 0 .. MaxCoverage
    /\ reqs \in [Reqs -> Request]
    /\ gridStale \in BOOLEAN

\* A shift never ends before it starts, although Update checks the range that
\* results from an older row and UPDATE merges with the current one: two edits
\* of one end each could cross.
ShiftsOrdered == \A s \in Live(shifts) : Ordered(shifts[s])

\* As long as nobody moves the event's own range, every shift stays inside it,
\* whatever single-ended edits interleave.
ShiftsWithinEvent == \A s \in Live(shifts) : Within(shifts[s], event)

\* Handlers that have passed the lock check but not written yet.
Admitted == {r \in Reqs : /\ reqs[r].op \in ShiftOps
                          /\ reqs[r].pc \in {"isAdmin", "listCoverage", "count", "write"}}

ByOrdinaryUsers(rs) == {r \in rs : Role(reqs[r].caller) # "super_admin"}

Locked == event # Null /\ event.locked

\* Locking takes full effect once the requests that were admitted before it
\* are gone.
Frozen == Locked /\ ByOrdinaryUsers(Admitted) = {}

\* From then on and until the lock is lifted, no further request of an ordinary
\* user is admitted and no shift changes but at the hand of a super-admin.
LockFreezesShifts ==
    [][Frozen /\ Locked' =>
          /\ Frozen'
          /\ shifts' # shifts =>
                \E r \in Admitted : reqs'[r] # reqs[r] /\ Role(reqs[r].caller) = "super_admin"
      ]_vars

\* Whenever an open grid misses a change, some handler is on its way to publish
\* and will not give up: no order of writes and announcements, and no
\* announcement given up because its row is gone, leaves the grid behind.
\* EventService.Update publishes nothing, so this is for clients that do not
\* ask for "updateEvent".
WillPublish(q) == q.pc = "announce" /\ ~Lost(q)

StaleGridIsAnnounced ==
    gridStale /\ event # Null => \E r \in Reqs : WillPublish(reqs[r])

\* The overbooking check reads the counts some statements before it inserts, so
\* it is no hard limit; but what slips through is bounded by the handlers that
\* can be between the two, whatever they do there.  For runs in which ordinary
\* users sign up and off and no requirement is added or raised.
BoundedOverbooking ==
    \A c \in Live(coverage) :
        Cardinality(StaffOf(coverage[c].team, coverage[c]))
            <= coverage[c].required + Cardinality(Reqs) - 1

\* "End time must be after start time", for the event itself.
EventOrdered == event # Null => Ordered(event)

\* Every request is answered: no handler waits for another.
EveryRequestAnswered == \A r \in Reqs : reqs[r].pc # "idle" ~> reqs[r].pc = "idle"

\* Once an event stays locked, the handlers admitted before the lock drain and
\* its shifts end up frozen, however many requests keep arriving.
LockEventuallyFreezes == <>[]Locked => <>[]Frozen

=============================================================================
