------------------------ MODULE PlanningSafetyProofs ------------------------
(***************************************************************************)
(* Safety of Planning, on top of its type invariant: ranges of shifts,     *)
(* announcements, what a lock freezes, and how far sign-ups can overbook.  *)
(***************************************************************************)
EXTENDS PlanningProofs, FiniteSetTheorems

-----------------------------------------------------------------------------
(* Frames: what a handler's step leaves alone.                             *)

Step(r) == Arrive(r) \/ Handle(r)

\* One request before and after a step of its handler that does not reply.
SameAsk(q, p) ==
    p.op = q.op /\ p.caller = q.caller /\ p.in = q.in /\ p.pc \notin {"idle", "gate"}

\* A handler's step touches no other handler's record.
LEMMA OthersWait ==
    ASSUME TypeInv, NEW r \in Reqs, Step(r), NEW x \in Reqs, x # r
    PROVE  reqs'[x] = reqs[x]
<1> USE DEF TypeInv, TypeOK
<1>1. CASE Arrive(r)
  BY <1>1, SMTT(60) DEF Arrive
<1>2. CASE ShiftServiceStep(r)
  BY <1>2 DEF ShiftServiceStep, CreateGetEvent, CreateIsAdmin, CreateListCoverage, CreateCount,
     CreateInsert, EditGetShift, UpdateGetEvent, UpdateIsAdmin, UpdateWrite, DeleteGetEvent,
     DeleteIsAdmin, DeleteWrite, AnnounceShift, CreateCoverage, UpdateCoverage, DeleteCoverage,
     AnnounceCoverage, Reply, Continue, Proceed, Written, Publish
<1>3. CASE EventServiceStep(r)
  BY <1>3 DEF EventServiceStep, Gate, UpdateEventGet, UpdateEventWrite, SetLocked,
     AnnounceLocked, DeleteEvent, AddAdmin, RemoveAdmin, Reply, Continue, Proceed, Written, Publish
<1> QED
  BY <1>1, <1>2, <1>3 DEF Step, Handle

\* A handler that goes on keeps its operation, caller and input; one that
\* replies is idle.
LEMMA OwnRequest ==
    ASSUME TypeInv, NEW r \in Reqs, Handle(r)
    PROVE  /\ reqs[r].pc # "idle"
           /\ reqs'[r] = Idle \/ SameAsk(reqs[r], reqs'[r])
<1> USE DEF At, SameAsk
<1>1. reqs \in [Reqs -> Request]
  BY DEF TypeInv, TypeOK
<1>2. Reply(r) => reqs'[r] = Idle
  BY <1>1 DEF Reply
<1>3. ASSUME NEW pc \in PCs \ {"idle", "gate"}, Continue(r, pc) \/ Proceed(r, pc)
      PROVE  SameAsk(reqs[r], reqs'[r])
  BY <1>1, <1>3 DEF Continue, Proceed, Request
<1>4. Publish(r) => Reply(r)
  BY DEF Publish
<1>5. Written(r) => Proceed(r, "announce")
  BY DEF Written
<1>6. CASE CreateGetEvent(r)
  BY <1>1, <1>2, <1>3, <1>6 DEF CreateGetEvent, PCs, Request
<1>7. CASE CreateIsAdmin(r)
  BY <1>2, <1>3, <1>7 DEF CreateIsAdmin, PCs
<1>8. CASE CreateListCoverage(r)
  BY <1>1, <1>2, <1>3, <1>8 DEF CreateListCoverage, PCs, Request
<1>9. CASE CreateCount(r)
  BY <1>1, <1>2, <1>3, <1>9 DEF CreateCount, PCs, Request
<1>10. CASE CreateInsert(r)
  BY <1>1, <1>2, <1>10 DEF CreateInsert, Request
<1>11. CASE EditGetShift(r)
  BY <1>1, <1>2, <1>11 DEF EditGetShift, Request
<1>12. CASE UpdateGetEvent(r)
  <2>1. /\ reqs[r].pc # "idle"
        /\ \/ Reply(r) \/ Proceed(r, "write")
           \/ reqs' = [reqs EXCEPT ![r].pc = "isAdmin", ![r].ev = event]
    BY <1>12 DEF UpdateGetEvent
  <2> QED
    BY <1>1, <1>2, <1>3, <2>1 DEF PCs, Request
<1>13. CASE UpdateIsAdmin(r) \/ DeleteGetEvent(r) \/ DeleteIsAdmin(r)
  BY <1>2, <1>3, <1>13 DEF UpdateIsAdmin, DeleteGetEvent, DeleteIsAdmin, PCs
<1>14. CASE UpdateWrite(r) \/ DeleteWrite(r) \/ AnnounceShift(r)
  BY <1>2, <1>3, <1>4, <1>5, <1>14 DEF UpdateWrite, DeleteWrite, AnnounceShift, PCs
<1>15. CASE \/ CreateCoverage(r) \/ UpdateCoverage(r) \/ DeleteCoverage(r)
            \/ AnnounceCoverage(r)
  BY <1>2, <1>3, <1>4, <1>5, <1>15
     DEF CreateCoverage, UpdateCoverage, DeleteCoverage, AnnounceCoverage, PCs
<1>16. CASE EventServiceStep(r)
  BY <1>2, <1>3, <1>4, <1>5, <1>16, SMTT(60)
     DEF EventServiceStep, Gate, AfterGate, UpdateEventGet, UpdateEventWrite, SetLocked,
         AnnounceLocked, DeleteEvent, AddAdmin, RemoveAdmin, PCs
<1> QED
  BY <1>6, <1>7, <1>8, <1>9, <1>10, <1>11, <1>12, <1>13, <1>14, <1>15, <1>16
     DEF Handle, ShiftServiceStep

\* The three statements that write a shift, and the cascade.
LEMMA ShiftsWritten ==
    ASSUME TypeInv, NEW r \in Reqs, Step(r), shifts' # shifts
    PROVE  CreateInsert(r) \/ UpdateWrite(r) \/ DeleteWrite(r) \/ DeleteEvent(r)
  BY DEF Step, Arrive, Handle, ShiftServiceStep, CreateGetEvent, CreateIsAdmin,
     CreateListCoverage, CreateCount, EditGetShift, UpdateGetEvent, UpdateIsAdmin,
     DeleteGetEvent, DeleteIsAdmin, AnnounceShift, CreateCoverage, UpdateCoverage,
     DeleteCoverage, AnnounceCoverage, EventServiceStep, Gate, UpdateEventGet,
     UpdateEventWrite, SetLocked, AnnounceLocked, AddAdmin, RemoveAdmin, Publish, ReadOnly, tables

-----------------------------------------------------------------------------
(* Control: which operations pass the gate.                                *)

Gated == \A r \in Reqs : reqs[r].pc = "gate" => reqs[r].op \notin ShiftOps

ControlInv == TypeInv /\ Gated

LEMMA ControlNext == ControlInv /\ [Next]_vars => ControlInv'
<1> SUFFICES ASSUME ControlInv, [Next]_vars PROVE ControlInv'
  OBVIOUS
<1>1. TypeInv'
  BY TypeNext DEF ControlInv
<1>2. CASE UNCHANGED vars
  BY <1>1, <1>2 DEF vars, tables, ControlInv, Gated
<1>3. ASSUME NEW r \in Reqs, Step(r)
      PROVE  Gated'
  <2>1. \A x \in Reqs \ {r} : reqs'[x] = reqs[x]
    BY <1>3, OthersWait DEF ControlInv
  <2>2. CASE Handle(r)
    <3>1. reqs'[r].pc # "gate"
      BY <2>2, OwnRequest DEF ControlInv, SameAsk, Idle
    <3> QED
      BY <2>1, <3>1 DEF ControlInv, Gated
  <2>3. CASE Arrive(r)
    <3>1. PICK ask \in Asked : \E id \in Targets(ask.op) :
             reqs' = [reqs EXCEPT ![r] =
                        [Idle EXCEPT !.pc = FirstStatement(ask.op), !.op = ask.op,
                                     !.caller = ask.caller, !.id = id, !.in = ask.in]]
      BY <2>3 DEF Arrive
    <3>2. reqs'[r].pc = FirstStatement(ask.op) /\ reqs'[r].op = ask.op
      BY <3>1 DEF Idle, ControlInv, TypeInv, TypeOK
    <3>3. reqs'[r].pc = "gate" => reqs'[r].op \notin ShiftOps
      BY <3>2 DEF FirstStatement, ShiftOps
    <3> QED
      BY <2>1, <3>3 DEF ControlInv, Gated
  <2> QED
    BY <1>3, <2>2, <2>3 DEF Step
<1> QED
  BY <1>1, <1>2, <1>3 DEF Next, Step, ControlInv

LEMMA ControlInvariant == Spec => []ControlInv
<1>1. Init => Gated
  BY DEF Init, Gated, Idle
<1> QED
  BY <1>1, TypeInit, ControlNext, PTL DEF Spec, ControlInv

-----------------------------------------------------------------------------
(* Locking.                                                                *)

PastLock(q) == q.op \in ShiftOps /\ q.pc \in {"isAdmin", "listCoverage", "count", "write"}

\* A handler gets past the lock only when the event is open to its caller.
LEMMA Admission ==
    ASSUME ControlInv, NEW r \in Reqs, Handle(r), ~PastLock(reqs[r]), PastLock(reqs'[r])
    PROVE  OpenTo(reqs[r].caller, event)
<1> USE DEF At, PastLock
<1>1. reqs \in [Reqs -> Request]
  BY DEF ControlInv, TypeInv, TypeOK
<1>2. ~Reply(r)
  BY <1>1 DEF Reply, Idle
<1>3. reqs[r].op \in ShiftOps
  BY OwnRequest DEF ControlInv, SameAsk, Idle
<1>4. CASE ShiftServiceStep(r)
  <2>1. \/ CreateGetEvent(r) \/ UpdateGetEvent(r) \/ DeleteGetEvent(r) \/ EditGetShift(r)
        \/ AnnounceShift(r)
    BY <1>3, <1>4 DEF ShiftServiceStep, ShiftOps, CoverageOps, CreateIsAdmin,
       CreateListCoverage, CreateCount, CreateInsert, UpdateIsAdmin, UpdateWrite,
       DeleteIsAdmin, DeleteWrite, CreateCoverage, UpdateCoverage, DeleteCoverage,
       AnnounceCoverage
  <2>2. ~AnnounceShift(r)
    BY <1>2 DEF AnnounceShift, Publish
  <2>3. ~EditGetShift(r)
    BY <1>1, <1>2 DEF EditGetShift, Request
  <2> QED
    BY <1>2, <2>1, <2>2, <2>3 DEF CreateGetEvent, UpdateGetEvent, DeleteGetEvent
<1>5. CASE EventServiceStep(r)
  BY <1>2, <1>3, <1>5 DEF EventServiceStep, Gate, UpdateEventGet, UpdateEventWrite, SetLocked,
     AnnounceLocked, DeleteEvent, AddAdmin, RemoveAdmin, ShiftOps, ControlInv, Gated
<1> QED
  BY <1>4, <1>5 DEF Handle

LEMMA FrozenNext ==
    ASSUME ControlInv, [Next]_vars, Frozen, Locked'
    PROVE  /\ Frozen'
           /\ shifts' # shifts =>
                 \E r \in Admitted : reqs'[r] # reqs[r] /\ Role(reqs[r].caller) = "super_admin"
<1>1. \A x \in Reqs : PastLock(reqs[x]) => Role(reqs[x].caller) = "super_admin"
  BY DEF Frozen, ByOrdinaryUsers, Admitted, PastLock
<1>2. SUFFICES /\ \A x \in Reqs : PastLock(reqs'[x]) => Role(reqs'[x].caller) = "super_admin"
               /\ shifts' # shifts =>
                     \E r \in Reqs : PastLock(reqs[r]) /\ reqs'[r] # reqs[r]
  BY <1>1 DEF Frozen, ByOrdinaryUsers, Admitted, PastLock
<1>3. CASE UNCHANGED vars
  BY <1>1, <1>3 DEF vars, tables
<1>4. ASSUME NEW r \in Reqs, Step(r)
      PROVE  \A x \in Reqs : PastLock(reqs'[x]) => Role(reqs'[x].caller) = "super_admin"
  <2> SUFFICES ASSUME NEW x \in Reqs, PastLock(reqs'[x])
               PROVE  Role(reqs'[x].caller) = "super_admin"
    OBVIOUS
  <2>1. CASE x # r
    BY <1>1, <1>4, <2>1, OthersWait DEF ControlInv
  <2>2. CASE x = r /\ Arrive(r)
    <3>1. reqs'[r].pc \in {"getEvent", "getShift", "gate"}
      BY <2>2 DEF Arrive, FirstStatement, Idle, ControlInv, TypeInv, TypeOK
    <3> QED
      BY <2>2, <3>1 DEF PastLock
  <2>3. CASE x = r /\ Handle(r)
    <3>1. SameAsk(reqs[r], reqs'[r])
      BY <2>3, OwnRequest DEF ControlInv, PastLock, Idle
    <3>2. PastLock(reqs[r]) \/ OpenTo(reqs[r].caller, event)
      BY <2>3, Admission
    <3>3. event.locked
      BY DEF Frozen, Locked
    <3> QED
      BY <1>1, <2>3, <3>1, <3>2, <3>3 DEF OpenTo, SameAsk
  <2> QED
    BY <1>4, <2>1, <2>2, <2>3 DEF Step
<1>5. ASSUME NEW r \in Reqs, Step(r), shifts' # shifts
      PROVE  PastLock(reqs[r]) /\ reqs'[r] # reqs[r]
  <2>1. ~DeleteEvent(r)
    BY <1>5 DEF DeleteEvent, Locked, Frozen, ReadOnly, tables
  <2>2. CreateInsert(r) \/ UpdateWrite(r) \/ DeleteWrite(r)
    BY <1>5, <2>1, ShiftsWritten DEF ControlInv
  <2>3. PastLock(reqs[r]) /\ reqs[r].pc = "write"
    BY <2>2 DEF CreateInsert, UpdateWrite, DeleteWrite, At, PastLock, ShiftOps
  <2>4. reqs'[r].pc \in {"announce", "idle"}
    BY <2>2 DEF CreateInsert, UpdateWrite, DeleteWrite, Written, Proceed, Reply, Idle,
       ControlInv, TypeInv, TypeOK, Request
  <2> QED
    BY <2>3, <2>4
<1> QED
  BY <1>1, <1>3, <1>4, <1>5 DEF Next, Step

\* Once an event is locked and the edits admitted before the lock are through,
\* no handler of an ordinary user gets past the check of Create, Update and
\* Delete, and shifts change only at the hand of a super-admin, until the lock
\* is lifted.
THEOREM LockFreezes == Spec => LockFreezesShifts
<1>1. ControlInv /\ [Next]_vars =>
        [Frozen /\ Locked' =>
           /\ Frozen'
           /\ shifts' # shifts =>
                \E r \in Admitted : reqs'[r] # reqs[r] /\ Role(reqs[r].caller) = "super_admin"
        ]_vars
  BY FrozenNext
<1> QED
  BY <1>1, ControlInvariant, PTL DEF Spec, LockFreezesShifts

-----------------------------------------------------------------------------
(* Ranges of shifts.                                                       *)

PastRange(q) == q.op = "createShift" /\ q.pc \in {"listCoverage", "count", "write"}

RangesInv ==
    /\ ControlInv
    /\ ShiftsOrdered
    /\ \A r \in Reqs : PastRange(reqs[r]) => Ordered(reqs[r].in)

\* Create gets past its checks of the range with a range that is in order, and
\* inside the event as the handler read it.
LEMMA RangeChecked ==
    ASSUME ControlInv, NEW r \in Reqs, Handle(r), ~PastRange(reqs[r]), PastRange(reqs'[r])
    PROVE  /\ Ordered(reqs[r].in)
           /\ \/ event # Null /\ Within(reqs[r].in, event)
              \/ At(r, "createShift", "isAdmin") /\ Within(reqs[r].in, reqs[r].ev)
<1> USE DEF At, PastRange
<1>1. reqs \in [Reqs -> Request]
  BY DEF ControlInv, TypeInv, TypeOK
<1>2. ~Reply(r)
  BY <1>1 DEF Reply, Idle
<1>3. reqs[r].op = "createShift"
  BY OwnRequest DEF ControlInv, SameAsk, Idle
<1>4. CASE ShiftServiceStep(r)
  <2>1. CreateGetEvent(r) \/ CreateIsAdmin(r) \/ AnnounceShift(r)
    BY <1>3, <1>4 DEF ShiftServiceStep, ShiftOps, CoverageOps, EditGetShift,
       CreateListCoverage, CreateCount, CreateInsert, UpdateGetEvent, UpdateIsAdmin,
       UpdateWrite, DeleteGetEvent, DeleteIsAdmin, DeleteWrite, CreateCoverage,
       UpdateCoverage, DeleteCoverage, AnnounceCoverage
  <2>2. ~AnnounceShift(r)
    BY <1>2 DEF AnnounceShift, Publish
  <2>3. CASE CreateGetEvent(r)
    <3>1. reqs'[r].pc # "isAdmin"
      OBVIOUS
    <3> QED
      BY <1>1, <1>2, <2>3, <3>1 DEF CreateGetEvent, OpenTo, Request
  <2>4. CASE CreateIsAdmin(r)
    BY <1>2, <2>4 DEF CreateIsAdmin
  <2> QED
    BY <2>1, <2>2, <2>3, <2>4
<1>5. CASE EventServiceStep(r)
  BY <1>2, <1>3, <1>5 DEF EventServiceStep, Gate, UpdateEventGet, UpdateEventWrite, SetLocked,
     AnnounceLocked, DeleteEvent, AddAdmin, RemoveAdmin, ShiftOps, ControlInv, Gated
<1> QED
  BY <1>4, <1>5 DEF Handle

\* What a step of r leaves in row s, if anything: the row as it was, the input
\* of Create, or the row merged with the input of Update.
RowKept(s) == s \in Live(shifts) /\ shifts'[s] = shifts[s]

RowCreated(r, s) ==
    /\ PastRange(reqs[r]) /\ event # Null
    /\ shifts'[s] = [user |-> reqs[r].in.user, team |-> reqs[r].in.team,
                     start |-> reqs[r].in.start, end |-> reqs[r].in.end]

RowMerged(r, s) ==
    /\ At(r, "updateShift", "write") /\ s \in Live(shifts)
    /\ shifts'[s] = MergedShift(reqs[r].in, shifts[s])
    /\ Ordered(shifts'[s])

LEMMA RowsWritten ==
    ASSUME ControlInv, NEW r \in Reqs, Step(r), NEW s \in ShiftIds, shifts'[s] # Null
    PROVE  RowKept(s) \/ RowCreated(r, s) \/ RowMerged(r, s)
<1> USE DEF RowKept, RowCreated, RowMerged
<1>1. shifts \in [ShiftIds -> ShiftRow \cup {Null}]
  BY DEF ControlInv, TypeInv, TypeOK
<1>3. s \in ShiftIds /\ shifts'[s] # Null
  OBVIOUS
<1>4. CASE shifts' = shifts
  BY <1>1, <1>3, <1>4 DEF Live
<1>5. CASE CreateInsert(r)
  <2>1. CASE ReadOnly
    BY <1>4, <2>1 DEF ReadOnly, tables
  <2>2. CASE ~ReadOnly
    <3> DEFINE row == [user |-> reqs[r].in.user, team |-> reqs[r].in.team,
                       start |-> reqs[r].in.start, end |-> reqs[r].in.end]
    <3>1. shifts' = [shifts EXCEPT ![shiftSeq + 1] = row] /\ event # Null /\ PastRange(reqs[r])
      BY <1>5, <2>2 DEF CreateInsert, At, PastRange
    <3> HIDE DEF row
    <3>2. shifts'[s] = shifts[s] \/ shifts'[s] = row
      BY <1>1, <1>3, <3>1
    <3> QED
      BY <1>1, <1>3, <3>1, <3>2 DEF Live, row
  <2> QED
    BY <2>1, <2>2
<1>6. CASE UpdateWrite(r)
  <2>1. CASE ReadOnly
    BY <1>4, <2>1 DEF ReadOnly, tables
  <2>2. CASE ~ReadOnly
    <3> DEFINE id == reqs[r].id
    <3>1. /\ shifts' = [shifts EXCEPT ![id] = MergedShift(reqs[r].in, shifts[id])]
          /\ shifts[id] # Null /\ Ordered(MergedShift(reqs[r].in, shifts[id]))
          /\ At(r, "updateShift", "write")
      BY <1>6, <2>2 DEF UpdateWrite, UpdateSucceeds
    <3>2. CASE s # id
      BY <1>1, <1>3, <3>1, <3>2 DEF Live
    <3>3. CASE s = id
      BY <1>1, <1>3, <3>1, <3>3 DEF Live
    <3> QED
      BY <3>2, <3>3
  <2> QED
    BY <2>1, <2>2
<1>7. CASE DeleteWrite(r)
  BY <1>1, <1>3, <1>7 DEF DeleteWrite, Live
<1>8. CASE DeleteEvent(r)
  <2>1. CASE ReadOnly
    BY <1>4, <2>1 DEF ReadOnly, tables
  <2>2. CASE ~ReadOnly
    BY <1>3, <1>8, <2>2 DEF DeleteEvent
  <2> QED
    BY <2>1, <2>2
<1> QED
  BY <1>4, <1>5, <1>6, <1>7, <1>8, ShiftsWritten DEF ControlInv

\* A request that has just arrived is past no check.
LEMMA ArrivesUnchecked ==
    ASSUME TypeInv, NEW r \in Reqs, Arrive(r)
    PROVE  /\ reqs'[r].pc \in {"getEvent", "getShift", "gate"}
           /\ reqs'[r].op \in Ops /\ reqs'[r].ev = Null
  BY DEF Arrive, FirstStatement, Idle, TypeInv, TypeOK, Ops

LEMMA RangesNext == RangesInv /\ [Next]_vars => RangesInv'
<1> SUFFICES ASSUME RangesInv, [Next]_vars PROVE RangesInv'
  OBVIOUS
<1> USE DEF RangesInv
<1>1. ControlInv'
  BY ControlNext
<1>2. CASE UNCHANGED vars
  BY <1>1, <1>2 DEF vars, tables, ShiftsOrdered, Live, Ordered, PastRange
<1>3. ASSUME NEW r \in Reqs, Step(r)
      PROVE  ShiftsOrdered' /\ \A x \in Reqs : PastRange(reqs'[x]) => Ordered(reqs'[x].in)
  <2>1. ASSUME NEW s \in ShiftIds, shifts'[s] # Null
        PROVE  Ordered(shifts'[s])
    <3>1. RowKept(s) \/ RowCreated(r, s) \/ RowMerged(r, s)
      BY <1>3, <2>1, RowsWritten
    <3> QED
      BY <3>1 DEF ShiftsOrdered, Ordered, RowKept, RowCreated, RowMerged
  <2>2. ASSUME NEW x \in Reqs, PastRange(reqs'[x])
        PROVE  Ordered(reqs'[x].in)
    <3>1. CASE x # r
      BY <1>3, <2>2, <3>1, OthersWait DEF ControlInv
    <3>2. CASE x = r /\ Arrive(r)
      BY <2>2, <3>2, ArrivesUnchecked DEF PastRange, ControlInv
    <3>3. CASE x = r /\ Handle(r)
      <4>1. SameAsk(reqs[r], reqs'[r])
        BY <2>2, <3>3, OwnRequest DEF ControlInv, PastRange, Idle
      <4> QED
        BY <2>2, <3>3, <4>1, RangeChecked DEF SameAsk
    <3> QED
      BY <1>3, <3>1, <3>2, <3>3 DEF Step
  <2> QED
    BY <1>1, <2>1, <2>2 DEF ShiftsOrdered, Live, ControlInv, TypeInv, TypeOK
<1> QED
  BY <1>1, <1>2, <1>3 DEF Next, Step

LEMMA RangesInvariant == Spec => []RangesInv
<1>1. Init => ShiftsOrdered /\ \A r \in Reqs : PastRange(reqs[r]) => Ordered(reqs[r].in)
  BY DEF Init, ShiftsOrdered, Live, PastRange, Idle
<1>2. Init => ControlInv
  BY TypeInit DEF Init, ControlInv, Gated, Idle
<1> QED
  BY <1>1, <1>2, RangesNext, PTL DEF Spec, RangesInv

\* No order of creations and of edits of one end or both leaves a shift that
\* ends before it starts: Create checks the range it inserts, and what Update
\* merges with a row that has changed since is stopped by the CHECK.
THEOREM ShiftsStayOrdered == Spec => []ShiftsOrdered
<1>1. RangesInv => ShiftsOrdered
  BY DEF RangesInv
<1> QED
  BY <1>1, RangesInvariant, PTL

-----------------------------------------------------------------------------
(* Shifts stay inside an event whose range nobody moves.                   *)

SameRange(ev) == ev.start = InitEvent.start /\ ev.end = InitEvent.end

EndsInside(in) ==
    /\ in.start # Null => in.start >= InitEvent.start
    /\ in.end # Null => in.end <= InitEvent.end

RequestInside(q) ==
    /\ q.pc # "idle" => q.op # "updateEvent"
    /\ q.op \in {"createShift", "updateShift"} /\ q.pc = "isAdmin" => SameRange(q.ev)
    /\ PastRange(q) => Within(q.in, InitEvent)
    /\ q.op = "updateShift" /\ q.pc = "write" => EndsInside(q.in)

InsideInv ==
    /\ RangesInv
    /\ event # Null => SameRange(event)
    /\ event = Null => Live(shifts) = {}
    /\ \A s \in Live(shifts) : Within(shifts[s], InitEvent)
    /\ \A r \in Reqs : RequestInside(reqs[r])

\* The event a handler holds while it asks for the admin right is the event as
\* it was when the handler read it.
LEMMA EventCaptured ==
    ASSUME ControlInv, NEW r \in Reqs, Handle(r),
           reqs'[r].op \in {"createShift", "updateShift"}, reqs'[r].pc = "isAdmin"
    PROVE  event # Null /\ reqs'[r].ev = event
<1> USE DEF At
<1>1. reqs \in [Reqs -> Request]
  BY DEF ControlInv, TypeInv, TypeOK
<1>2. ~Reply(r) /\ ~Proceed(r, "write") /\ ~Proceed(r, "listCoverage")
  BY <1>1 DEF Reply, Idle, Proceed, Request
<1>3. reqs[r].op \in {"createShift", "updateShift"} /\ reqs[r].pc # "gate"
  BY OwnRequest DEF ControlInv, SameAsk, Idle, Gated, ShiftOps
<1>4. CASE ShiftServiceStep(r)
  <2>1. \/ CreateGetEvent(r) \/ CreateIsAdmin(r) \/ CreateListCoverage(r) \/ CreateCount(r)
        \/ CreateInsert(r) \/ EditGetShift(r) \/ UpdateGetEvent(r) \/ UpdateIsAdmin(r)
        \/ UpdateWrite(r) \/ AnnounceShift(r)
    BY <1>3, <1>4 DEF ShiftServiceStep, CoverageOps, DeleteGetEvent, DeleteIsAdmin,
       DeleteWrite, CreateCoverage, UpdateCoverage, DeleteCoverage, AnnounceCoverage
  <2>2. ~CreateIsAdmin(r) /\ ~UpdateIsAdmin(r)
    BY <1>2 DEF CreateIsAdmin, UpdateIsAdmin
  <2>3. ~AnnounceShift(r) /\ ~UpdateWrite(r)
    BY <1>1, <1>2 DEF AnnounceShift, UpdateWrite, Publish, Written, Proceed, Request
  <2>4. ~CreateListCoverage(r) /\ ~CreateCount(r) /\ ~CreateInsert(r) /\ ~EditGetShift(r)
    BY <1>1, <1>2 DEF CreateListCoverage, CreateCount, CreateInsert, EditGetShift, Continue,
       Request
  <2>5. CASE CreateGetEvent(r)
    BY <1>1, <1>2, <2>5 DEF CreateGetEvent, OpenTo, Request
  <2>6. CASE UpdateGetEvent(r)
    BY <1>1, <1>2, <2>6 DEF UpdateGetEvent, OpenTo, Request
  <2> QED
    BY <2>1, <2>2, <2>3, <2>4, <2>5, <2>6
<1>5. CASE EventServiceStep(r)
  BY <1>2, <1>3, <1>5 DEF EventServiceStep, Gate, UpdateEventGet, UpdateEventWrite, SetLocked,
     AnnounceLocked, DeleteEvent, AddAdmin, RemoveAdmin
<1> QED
  BY <1>4, <1>5 DEF Handle

\* Update reaches its write only with a range that was valid for the row and the
\* event it has read.
LEMMA EndsChecked ==
    ASSUME ControlInv, NEW r \in Reqs, Handle(r),
           reqs'[r].op = "updateShift", reqs'[r].pc = "write"
    PROVE  LET merged == MergedShift(reqs[r].in, reqs[r].old)
           IN  \/ event # Null /\ Within(merged, event)
               \/ At(r, "updateShift", "isAdmin") /\ Within(merged, reqs[r].ev)
<1> USE DEF At
<1>1. reqs \in [Reqs -> Request]
  BY DEF ControlInv, TypeInv, TypeOK
<1>2. ~Reply(r)
  BY <1>1 DEF Reply, Idle
<1>3. reqs[r].op = "updateShift" /\ reqs[r].pc # "gate"
  BY OwnRequest DEF ControlInv, SameAsk, Idle, Gated, ShiftOps
<1>4. CASE ShiftServiceStep(r)
  <2>1. \/ EditGetShift(r) \/ UpdateGetEvent(r) \/ UpdateIsAdmin(r) \/ UpdateWrite(r)
        \/ AnnounceShift(r)
    BY <1>3, <1>4 DEF ShiftServiceStep, CoverageOps, CreateGetEvent, CreateIsAdmin,
       CreateListCoverage, CreateCount, CreateInsert, DeleteGetEvent, DeleteIsAdmin,
       DeleteWrite, CreateCoverage, UpdateCoverage, DeleteCoverage, AnnounceCoverage
  <2>2. ~AnnounceShift(r) /\ ~UpdateWrite(r)
    BY <1>1, <1>2 DEF AnnounceShift, UpdateWrite, Publish, Written, Proceed, Request
  <2>3. ~EditGetShift(r)
    BY <1>1, <1>2 DEF EditGetShift, Request
  <2>4. CASE UpdateGetEvent(r)
    <3>1. reqs' # [reqs EXCEPT ![r].pc = "isAdmin", ![r].ev = event]
      BY <1>1 DEF Request
    <3> QED
      BY <1>2, <2>4, <3>1 DEF UpdateGetEvent, OpenTo, UpdateValid
  <2>5. CASE UpdateIsAdmin(r)
    BY <1>2, <2>5 DEF UpdateIsAdmin, UpdateValid
  <2> QED
    BY <2>1, <2>2, <2>3, <2>4, <2>5
<1>5. CASE EventServiceStep(r)
  BY <1>2, <1>3, <1>5 DEF EventServiceStep, Gate, UpdateEventGet, UpdateEventWrite, SetLocked,
     AnnounceLocked, DeleteEvent, AddAdmin, RemoveAdmin
<1> QED
  BY <1>4, <1>5 DEF Handle

\* Besides EventService.Update, only a lock and the deletion write the event.
LEMMA EventWritten ==
    ASSUME TypeInv, NEW r \in Reqs, Step(r), event' # event, ~At(r, "updateEvent", "write")
    PROVE  \/ event # Null /\ \E b \in BOOLEAN : event' = [event EXCEPT !.locked = b]
           \/ event' = Null /\ Live(shifts') = {}
<1>1. SetLocked(r) \/ DeleteEvent(r)
  BY DEF Step, Arrive, Handle, ShiftServiceStep, CreateGetEvent, CreateIsAdmin,
     CreateListCoverage, CreateCount, CreateInsert, EditGetShift, UpdateGetEvent, UpdateIsAdmin,
     UpdateWrite, DeleteGetEvent, DeleteIsAdmin, DeleteWrite, AnnounceShift, CreateCoverage,
     UpdateCoverage, DeleteCoverage, AnnounceCoverage, EventServiceStep, Gate, UpdateEventGet,
     UpdateEventWrite, AnnounceLocked, AddAdmin, RemoveAdmin, Publish, ReadOnly, tables
<1>2. CASE SetLocked(r)
  BY <1>2 DEF SetLocked, ReadOnly, tables, TypeInv, TypeOK, EventRow
<1>3. CASE DeleteEvent(r)
  BY <1>3 DEF DeleteEvent, ReadOnly, tables, Live
<1> QED
  BY <1>1, <1>2, <1>3, SMTT(60)

\* What the request of a handler that takes a step knows of the range.
LEMMA RequestStaysInside ==
    ASSUME InsideInv, "updateEvent" \notin Ops, NEW r \in Reqs, Step(r)
    PROVE  RequestInside(reqs'[r])
<1> DEFINE q == reqs[r]
           p == reqs'[r]
<1> USE DEF InsideInv, RangesInv
<1>1. CASE Arrive(r)
  <2>1. p.pc \in {"getEvent", "getShift", "gate"} /\ p.op \in Ops
    BY <1>1, ArrivesUnchecked DEF ControlInv
  <2> QED
    BY <2>1 DEF RequestInside, PastRange
<1>2. CASE Handle(r) /\ p = Idle
  BY <1>2 DEF RequestInside, PastRange, Idle
<1>3. CASE Handle(r) /\ SameAsk(q, p)
  <2>1. q.pc # "idle" /\ p.op = q.op /\ p.in = q.in /\ RequestInside(q)
    BY <1>3, OwnRequest DEF SameAsk, ControlInv
  <2>2. p.op # "updateEvent"
    BY <2>1 DEF RequestInside
  <2>3. ASSUME p.op \in {"createShift", "updateShift"}, p.pc = "isAdmin"
        PROVE  SameRange(p.ev)
    BY <1>3, <2>3, EventCaptured
  <2>4. ASSUME PastRange(p)
        PROVE  Within(p.in, InitEvent)
    <3>1. CASE PastRange(q)
      BY <2>1, <3>1 DEF RequestInside
    <3>2. CASE ~PastRange(q)
      BY <1>3, <2>1, <2>4, <3>2, RangeChecked DEF RequestInside, At, Within, SameRange
    <3> QED
      BY <3>1, <3>2
  <2>5. ASSUME p.op = "updateShift", p.pc = "write"
        PROVE  EndsInside(p.in)
    <3> DEFINE merged == MergedShift(q.in, q.old)
    <3>1. \/ event # Null /\ Within(merged, event)
          \/ At(r, "updateShift", "isAdmin") /\ Within(merged, q.ev)
      BY <1>3, <2>5, EndsChecked
    <3>2. Within(merged, InitEvent)
      BY <2>1, <3>1 DEF RequestInside, At, Within, SameRange
    <3> QED
      BY <2>1, <3>2 DEF EndsInside, Within, MergedShift, Coalesce
  <2> QED
    BY <2>2, <2>3, <2>4, <2>5 DEF RequestInside
<1> QED
  BY <1>1, <1>2, <1>3, OwnRequest DEF Step, ControlInv

LEMMA InsideNext ==
    ASSUME "updateEvent" \notin Ops, InsideInv, [Next]_vars
    PROVE  InsideInv'
<1> USE DEF InsideInv
<1>1. RangesInv'
  BY RangesNext
<1>2. CASE UNCHANGED vars
  BY <1>1, <1>2 DEF vars, tables, SameRange, Live, Within, RequestInside, PastRange, EndsInside
<1>3. ASSUME NEW r \in Reqs, Step(r)
      PROVE  InsideInv'
  <2>1. ASSUME NEW x \in Reqs
        PROVE  RequestInside(reqs'[x])
    <3>1. CASE x # r
      BY <1>3, <3>1, OthersWait DEF RangesInv, ControlInv
    <3>2. CASE x = r
      BY <1>3, <3>2, RequestStaysInside
    <3> QED
      BY <3>1, <3>2
  <2>2. ASSUME NEW s \in ShiftIds, shifts'[s] # Null
        PROVE  Within(shifts'[s], InitEvent) /\ event # Null
    <3>1. RowKept(s) \/ RowCreated(r, s) \/ RowMerged(r, s)
      BY <1>3, <2>2, RowsWritten DEF RangesInv
    <3>2. CASE RowKept(s)
      BY <3>2 DEF RowKept
    <3>3. CASE RowCreated(r, s)
      BY <3>3 DEF RowCreated, RequestInside, Within
    <3>4. CASE RowMerged(r, s)
      <4>1. EndsInside(reqs[r].in) /\ Within(shifts[s], InitEvent) /\ event # Null
        BY <3>4 DEF RowMerged, RequestInside, At
      <4>2. shifts'[s] = MergedShift(reqs[r].in, shifts[s])
        BY <3>4 DEF RowMerged
      <4> QED
        BY <4>1, <4>2 DEF EndsInside, Within, MergedShift, Coalesce
    <3> QED
      BY <3>1, <3>2, <3>3, <3>4
  <2>3. DOMAIN shifts' = ShiftIds
    BY <1>1 DEF RangesInv, ControlInv, TypeInv, TypeOK
  <2>4. /\ event' # Null => SameRange(event')
        /\ event' = Null => Live(shifts') = {}
    <3>1. ~At(r, "updateEvent", "write")
      BY DEF RequestInside, At
    <3>2. CASE event' = event
      BY <2>2, <2>3, <3>2 DEF Live
    <3>3. CASE event' # event
      <4>1. \/ event # Null /\ \E b \in BOOLEAN : event' = [event EXCEPT !.locked = b]
            \/ event' = Null /\ Live(shifts') = {}
        BY <1>3, <3>1, <3>3, EventWritten DEF RangesInv, ControlInv
      <4>2. event \in EventRow \cup {Null}
        BY DEF RangesInv, ControlInv, TypeInv, TypeOK
      <4>3. CASE event' = Null /\ Live(shifts') = {}
        BY <4>3
      <4>4. CASE event # Null /\ \E b \in BOOLEAN : event' = [event EXCEPT !.locked = b]
        <5>1. event' \in EventRow /\ SameRange(event')
          BY <4>2, <4>4 DEF EventRow, SameRange
        <5> QED
          BY <5>1, NullAssumption
      <4> QED
        BY <4>1, <4>3, <4>4
    <3> QED
      BY <3>2, <3>3
  <2>5. \A s \in Live(shifts') : Within(shifts'[s], InitEvent)
    BY <2>2, <2>3 DEF Live
  <2> QED
    BY <1>1, <2>1, <2>4, <2>5 DEF SameRange, Live, Within, RequestInside, PastRange, EndsInside
<1> QED
  BY <1>2, <1>3 DEF Next, Step

LEMMA InsideInvariant ==
    ASSUME "updateEvent" \notin Ops
    PROVE  Spec => []InsideInv
<1>1. Init => InsideInv
  <2> SUFFICES ASSUME Init PROVE InsideInv
    OBVIOUS
  <2>1. RangesInv
    BY TypeInit DEF Init, RangesInv, ControlInv, Gated, ShiftsOrdered, Live, PastRange, Idle
  <2>2. event # Null /\ SameRange(event) /\ Live(shifts) = {}
    BY InitAssumption, NullAssumption DEF Init, SameRange, Live
  <2>3. \A r \in Reqs : RequestInside(reqs[r])
    BY DEF Init, RequestInside, PastRange, Idle
  <2> QED
    BY <2>1, <2>2, <2>3 DEF InsideInv
<1>2. InsideInv /\ [Next]_vars => InsideInv'
  BY InsideNext
<1> QED
  BY <1>1, <1>2, PTL DEF Spec

\* As long as nobody moves the event's own range, every shift is inside it:
\* Create and Update check ranges against the event as they have read it, and
\* merging the checked ends with a row changed since cannot leave it.
THEOREM ShiftsStayInside ==
    ASSUME "updateEvent" \notin Ops
    PROVE  Spec => []ShiftsWithinEvent
<1>1. InsideInv => ShiftsWithinEvent
  BY DEF InsideInv, ShiftsWithinEvent, SameRange, Within
<1> QED
  BY <1>1, InsideInvariant, PTL

-----------------------------------------------------------------------------
(* Announcements.                                                          *)

\* What a step does to the grid: it publishes; or it writes, and its handler
\* will publish; or it leaves the grid and the shifts alone, and its handler
\* was not one to rely on.
LEMMA GridStep ==
    ASSUME TypeInv, NEW r \in Reqs, Step(r), ~At(r, "updateEvent", "write"), event' # Null
    PROVE  \/ gridStale' = FALSE
           \/ WillPublish(reqs[r])'
           \/ gridStale' = gridStale /\ shifts' = shifts /\ ~WillPublish(reqs[r])
<1> USE DEF At
<1> DEFINE q == reqs[r]
           aside == gridStale' = gridStale /\ shifts' = shifts /\ ~WillPublish(q)
<1>1. reqs \in [Reqs -> Request] /\ shifts \in [ShiftIds -> ShiftRow \cup {Null}]
  BY DEF TypeInv, TypeOK
<1>2. ReadOnly /\ q.pc # "announce" => aside
  BY DEF ReadOnly, tables, WillPublish
<1>3. Publish(r) => gridStale' = FALSE
  BY DEF Publish
<1>4. ASSUME Written(r), q.op \notin {"createShift", "updateShift"}
      PROVE  WillPublish(reqs[r])'
  BY <1>1, <1>4 DEF Written, Proceed, Request, WillPublish, Lost
<1>5. CASE Arrive(r)
  BY <1>2, <1>5 DEF Arrive
<1>6. CASE CreateInsert(r)
  <2>1. CASE ReadOnly
    BY <1>2, <1>6, <2>1 DEF CreateInsert
  <2>2. CASE ~ReadOnly
    <3> DEFINE row == [user |-> q.in.user, team |-> q.in.team,
                       start |-> q.in.start, end |-> q.in.end]
    <3>1. /\ shifts' = [shifts EXCEPT ![shiftSeq + 1] = row] /\ shiftSeq < MaxShifts
          /\ reqs' = [reqs EXCEPT ![r].pc = "announce", ![r].id = shiftSeq + 1]
          /\ q.op = "createShift" /\ q.pc = "write"
      BY <1>6, <2>2 DEF CreateInsert
    <3>2. row \in ShiftRow
      BY <3>1, InputFacts DEF TypeInv, RequestOK, ShiftRow
    <3>3. shiftSeq + 1 \in ShiftIds
      BY <3>1, BoundsAssumption DEF TypeInv, TypeOK, ShiftIds
    <3> HIDE DEF row
    <3>4. reqs'[r].pc = "announce" /\ reqs'[r].id = shiftSeq + 1
      BY <1>1, <3>1 DEF Request
    <3>5. shifts'[shiftSeq + 1] # Null
      BY <1>1, <3>1, <3>2, <3>3, NullAssumption
    <3> QED
      BY <3>4, <3>5 DEF WillPublish, Lost
  <2> QED
    BY <2>1, <2>2
<1>7. CASE UpdateWrite(r)
  <2>1. CASE ReadOnly
    BY <1>2, <1>7, <2>1 DEF UpdateWrite
  <2>2. CASE ~ReadOnly
    <3> DEFINE row == MergedShift(q.in, shifts[q.id])
    <3>1. /\ shifts' = [shifts EXCEPT ![q.id] = row] /\ shifts[q.id] # Null
          /\ Written(r) /\ q.op = "updateShift" /\ q.pc = "write"
      BY <1>7, <2>2 DEF UpdateWrite, UpdateSucceeds
    <3>2. q.id \in ShiftIds /\ q.in \in Input
      BY <1>1, <3>1 DEF TypeInv, RequestOK, Request
    <3>3. row \in ShiftRow
      BY <1>1, <3>1, <3>2, MergedShiftType
    <3> HIDE DEF row
    <3>4. reqs'[r].pc = "announce" /\ reqs'[r].id = q.id
      BY <1>1, <3>1 DEF Written, Proceed, Request
    <3>5. shifts'[q.id] # Null
      BY <1>1, <3>1, <3>2, <3>3, NullAssumption
    <3> QED
      BY <3>4, <3>5 DEF WillPublish, Lost
  <2> QED
    BY <2>1, <2>2
<1>8. CASE AnnounceShift(r)
  BY <1>3, <1>8 DEF AnnounceShift, ReadOnly, tables, WillPublish
<1>9. CASE DeleteWrite(r)
  BY <1>4, <1>9 DEF DeleteWrite
<1>10. CASE \/ CreateCoverage(r) \/ UpdateCoverage(r) \/ DeleteCoverage(r)
            \/ AnnounceCoverage(r)
  BY <1>2, <1>3, <1>4, <1>10
     DEF CreateCoverage, UpdateCoverage, DeleteCoverage, AnnounceCoverage
<1>11. CASE \/ CreateGetEvent(r) \/ CreateIsAdmin(r) \/ CreateListCoverage(r) \/ CreateCount(r)
            \/ EditGetShift(r) \/ UpdateGetEvent(r) \/ UpdateIsAdmin(r) \/ DeleteGetEvent(r)
            \/ DeleteIsAdmin(r)
  BY <1>2, <1>11 DEF CreateGetEvent, CreateIsAdmin, CreateListCoverage, CreateCount,
     EditGetShift, UpdateGetEvent, UpdateIsAdmin, DeleteGetEvent, DeleteIsAdmin
<1>12. CASE EventServiceStep(r)
  <2>1. ~UpdateEventWrite(r)
    BY DEF UpdateEventWrite
  <2>2. CASE SetLocked(r)
    BY <1>2, <1>4, <2>2 DEF SetLocked
  <2>3. CASE AddAdmin(r) \/ RemoveAdmin(r) \/ DeleteEvent(r)
    BY <1>2, <2>3 DEF AddAdmin, RemoveAdmin, DeleteEvent, WillPublish
  <2>4. CASE Gate(r) \/ UpdateEventGet(r) \/ AnnounceLocked(r)
    BY <1>2, <1>3, <2>4 DEF Gate, UpdateEventGet, AnnounceLocked
  <2> QED
    BY <1>12, <2>1, <2>2, <2>3, <2>4 DEF EventServiceStep
<1> QED
  BY <1>5, <1>6, <1>7, <1>8, <1>9, <1>10, <1>11, <1>12 DEF Step, Handle, ShiftServiceStep

AnnouncedInv == InsideInv /\ StaleGridIsAnnounced

LEMMA AnnouncedNext ==
    ASSUME "updateEvent" \notin Ops, AnnouncedInv, [Next]_vars
    PROVE  AnnouncedInv'
<1> USE DEF AnnouncedInv, InsideInv, RangesInv, ControlInv
<1>1. InsideInv'
  BY InsideNext
<1>2. CASE UNCHANGED vars
  BY <1>1, <1>2 DEF vars, tables, StaleGridIsAnnounced, WillPublish, Lost
<1>3. ASSUME NEW r \in Reqs, Step(r), gridStale', event' # Null
      PROVE  \E x \in Reqs : WillPublish(reqs[x])'
  <2>1. ~At(r, "updateEvent", "write")
    BY DEF RequestInside, At
  <2>2. event # Null
    BY <1>3, <2>1, EventWritten
  <2>3. \/ WillPublish(reqs[r])'
        \/ gridStale /\ shifts' = shifts /\ ~WillPublish(reqs[r])
    BY <1>3, <2>1, GridStep
  <2>4. CASE gridStale /\ shifts' = shifts /\ ~WillPublish(reqs[r])
    <3>1. PICK x \in Reqs : WillPublish(reqs[x])
      BY <2>2, <2>4 DEF StaleGridIsAnnounced
    <3>2. reqs'[x] = reqs[x]
      BY <1>3, <2>4, <3>1, OthersWait
    <3> QED
      BY <2>4, <3>1, <3>2 DEF WillPublish, Lost
  <2> QED
    BY <2>3, <2>4
<1> QED
  BY <1>1, <1>2, <1>3 DEF Next, Step, StaleGridIsAnnounced

\* For clients that do not move the event itself, an open grid never misses a
\* change for good: as long as it is out of date some handler is about to
\* publish, though handlers whose shift has been deleted publish nothing.
THEOREM ChangesAreAnnounced ==
    ASSUME "updateEvent" \notin Ops
    PROVE  Spec => []StaleGridIsAnnounced
<1>1. Init => StaleGridIsAnnounced
  BY DEF Init, StaleGridIsAnnounced
<1>2. InsideInv /\ StaleGridIsAnnounced /\ [Next]_vars => StaleGridIsAnnounced'
  BY AnnouncedNext DEF AnnouncedInv
<1> QED
  BY <1>1, <1>2, InsideInvariant, PTL DEF Spec

-----------------------------------------------------------------------------
(* How far ordinary sign-ups can overbook a coverage requirement: the      *)
(* check in Create counts first and inserts later, so what holds is a      *)
(* bound on the staff together with the handlers that are in between.      *)

\* Ordinary users sign up and sign off; nobody is an admin of the event.
SignupsOnly ==
    /\ \A a \in Asked : /\ a.op \in {"createShift", "deleteShift"}
                        /\ Role(a.caller) # "super_admin"
    /\ InitAdmins = {}

\* The shifts that count against requirement c ...
Staff(c) == StaffOf(coverage[c].team, coverage[c])

\* ... and the handlers that have counted them, or will not count them any
\* more, and go on to insert one.
Claims(q, c) ==
    /\ q.op = "createShift"
    /\ q.in.team = coverage[c].team /\ Overlaps(q.in, coverage[c])
    /\ \/ q.pc = "write"
       \/ q.pc = "count" /\ coverage[c] \notin q.todo

Claimants(c) == {r \in Reqs : Claims(reqs[r], c)}

Ordinary(q) ==
    q.pc # "idle" => /\ q.op \in {"createShift", "deleteShift"}
                     /\ Role(q.caller) # "super_admin"

SignupInv ==
    /\ ControlInv
    /\ admins = {}
    /\ \A r \in Reqs : Ordinary(reqs[r])
    /\ \A c \in Live(coverage) :
          Cardinality(Staff(c)) + Cardinality(Claimants(c))
              <= coverage[c].required + Cardinality(Reqs) - 1

-----------------------------------------------------------------------------

\* There are only so many shifts, and a requirement asks for at least one.
LEMMA StaffFinite ==
    ASSUME TypeInv, NEW c \in Live(coverage)
    PROVE  IsFiniteSet(Staff(c))
<1>1. IsFiniteSet(ShiftIds)
  BY BoundsAssumption, FS_Interval DEF ShiftIds
<1>2. Staff(c) \subseteq ShiftIds
  BY DEF Staff, StaffOf, Live, TypeInv, TypeOK
<1> QED
  BY <1>1, <1>2, FS_Subset

LEMMA LiveCoverage ==
    ASSUME TypeInv, NEW c \in Live(coverage)
    PROVE  coverage[c].required \in Nat /\ coverage[c].required >= 1
  BY BoundsAssumption DEF Live, TypeInv, TypeOK, CoverageRow

\* All that can happen is signing up and signing off.
LEMMA SignupSteps ==
    ASSUME SignupInv, NEW r \in Reqs, Handle(r)
    PROVE  \/ CreateGetEvent(r) \/ CreateIsAdmin(r) \/ CreateListCoverage(r)
           \/ CreateCount(r) \/ CreateInsert(r)
           \/ EditGetShift(r) \/ DeleteGetEvent(r) \/ DeleteIsAdmin(r) \/ DeleteWrite(r)
           \/ AnnounceShift(r)
<1>1. reqs[r].op \in {"createShift", "deleteShift"} /\ reqs[r].pc # "gate"
  BY OwnRequest DEF SignupInv, ControlInv, Gated, Ordinary, ShiftOps
<1> QED
  BY <1>1 DEF Handle, ShiftServiceStep, EventServiceStep, UpdateGetEvent, UpdateIsAdmin,
     UpdateWrite, CreateCoverage, UpdateCoverage, DeleteCoverage, AnnounceCoverage, CoverageOps,
     Gate, UpdateEventGet, UpdateEventWrite, SetLocked, AnnounceLocked, DeleteEvent, AddAdmin,
     RemoveAdmin, At

LEMMA OrdinaryNext ==
    ASSUME SignupsOnly, SignupInv, NEW r \in Reqs, Step(r)
    PROVE  coverage' = coverage /\ admins' = {} /\ \A x \in Reqs : Ordinary(reqs'[x])
<1> USE DEF SignupInv
<1>1. CASE Arrive(r)
  <2>1. PICK ask \in Asked : \E id \in Targets(ask.op) :
           reqs' = [reqs EXCEPT ![r] =
                      [Idle EXCEPT !.pc = FirstStatement(ask.op), !.op = ask.op,
                                   !.caller = ask.caller, !.id = id, !.in = ask.in]]
    BY <1>1 DEF Arrive
  <2>2. reqs'[r].op = ask.op /\ reqs'[r].caller = ask.caller
    BY <2>1 DEF Idle, ControlInv, TypeInv, TypeOK
  <2>3. Ordinary(reqs'[r])
    BY <2>2 DEF Ordinary, SignupsOnly
  <2>4. \A x \in Reqs \ {r} : reqs'[x] = reqs[x]
    BY <1>1, OthersWait DEF Step, ControlInv
  <2> QED
    BY <1>1, <2>3, <2>4 DEF Arrive, ReadOnly, tables
<1>2. CASE Handle(r)
  <2>1. coverage' = coverage /\ admins' = {}
    BY <1>2, SignupSteps DEF CreateGetEvent, CreateIsAdmin, CreateListCoverage, CreateCount,
       CreateInsert, EditGetShift, DeleteGetEvent, DeleteIsAdmin, DeleteWrite, AnnounceShift,
       Publish, ReadOnly, tables
  <2>2. Ordinary(reqs'[r])
    BY <1>2, OwnRequest DEF ControlInv, Ordinary, SameAsk, Idle
  <2>3. \A x \in Reqs \ {r} : reqs'[x] = reqs[x]
    BY <1>2, OthersWait DEF Step, ControlInv
  <2> QED
    BY <2>1, <2>2, <2>3
<1> QED
  BY <1>1, <1>2 DEF Step

\* A handler comes to claim a place only where its last count left one free.
LEMMA ClaimChecked ==
    ASSUME SignupInv, NEW r \in Reqs, Handle(r), NEW c \in Live(coverage),
           coverage' = coverage, ~Claims(reqs[r], c), Claims(reqs[r], c)'
    PROVE  shifts' = shifts /\ Cardinality(Staff(c)) < coverage[c].required
<1> USE DEF At
<1> DEFINE q == reqs[r]
           p == reqs'[r]
<1>1. reqs \in [Reqs -> Request]
  BY DEF SignupInv, ControlInv, TypeInv, TypeOK
<1>2. ~Reply(r)
  BY <1>1 DEF Reply, Idle, Claims
<1>3. q.op = "createShift" /\ p.in = q.in /\ Role(q.caller) # "super_admin"
  BY OwnRequest DEF SignupInv, ControlInv, Ordinary, SameAsk, Idle, Claims
<1>4. ~Publish(r) /\ ~CreateInsert(r)
  BY <1>1, <1>2, <1>3 DEF Publish, CreateInsert, Claims, Request
<1>5. ~CreateGetEvent(r)
  BY <1>1, <1>2, <1>3 DEF CreateGetEvent, Role, Claims, Request
<1>6. ~CreateIsAdmin(r)
  BY <1>1, <1>2, <1>3 DEF CreateIsAdmin, SignupInv, Proceed, Claims, Request
<1>7. /\ coverage[c].team = q.in.team /\ Overlaps(q.in, coverage[c])
      /\ \/ p.pc = "write"
         \/ p.pc = "count" /\ coverage[c] \notin p.todo
  BY <1>3 DEF Claims, Overlaps
<1>8. ~CreateListCoverage(r)
  <2> SUFFICES ASSUME CreateListCoverage(r) PROVE FALSE
    OBVIOUS
  <2> DEFINE todo == RequirementsMet(q.in)
  <2>1. coverage[c] \in todo
    BY <1>7 DEF RequirementsMet
  <2>2. reqs' = [reqs EXCEPT ![r].pc = "count", ![r].todo = todo]
    BY <2>1 DEF CreateListCoverage
  <2> HIDE DEF todo
  <2> QED
    BY <1>1, <1>7, <2>1, <2>2 DEF Request
<1>9. CASE CreateCount(r)
  <2>1. coverage[c] \in q.todo
    BY <1>3, <1>7, <1>9 DEF CreateCount, Claims
  <2>2. PICK req \in q.todo :
           /\ ~FullyStaffed(req)
           /\ \/ reqs' = [reqs EXCEPT ![r].todo = @ \ {req}] /\ q.pc = "count"
              \/ q.todo = {req}
    BY <1>2, <1>9 DEF CreateCount
  <2>3. req = coverage[c]
    BY <1>1, <1>7, <2>1, <2>2 DEF Request
  <2>4. ~(Cardinality(Staff(c)) >= coverage[c].required)
    BY <2>2, <2>3 DEF FullyStaffed, Staff
  <2>5. Cardinality(Staff(c)) \in Nat
    BY StaffFinite, FS_CardinalityType DEF SignupInv, ControlInv
  <2>6. coverage[c].required \in Nat
    BY LiveCoverage DEF SignupInv, ControlInv
  <2> QED
    BY <1>9, <2>4, <2>5, <2>6 DEF CreateCount, ReadOnly, tables
<1> QED
  BY <1>2, <1>3, <1>4, <1>5, <1>6, <1>8, <1>9, SignupSteps DEF EditGetShift, DeleteGetEvent,
     DeleteIsAdmin, DeleteWrite, AnnounceShift

\* What a step does to the staff of c and to those who claim a place in it: it
\* adds to neither; or one more handler claims a place, and there is one; or a
\* claimant turns into a shift.
LEMMA ClaimStep ==
    ASSUME SignupInv, NEW r \in Reqs, Step(r), NEW c \in Live(coverage), coverage' = coverage
    PROVE  \/ Staff(c)' \subseteq Staff(c) /\ Claimants(c)' \subseteq Claimants(c)
           \/ Staff(c)' = Staff(c) /\ Cardinality(Staff(c)) < coverage[c].required
           \/ /\ r \in Claimants(c) /\ Claimants(c)' \subseteq Claimants(c) \ {r}
              /\ \E s : Staff(c)' \subseteq Staff(c) \cup {s}
<1> DEFINE q == reqs[r]
<1>1. /\ reqs \in [Reqs -> Request] /\ reqs' \in [Reqs -> Request]
      /\ shifts \in [ShiftIds -> ShiftRow \cup {Null}]
  BY TypeNext DEF SignupInv, ControlInv, TypeInv, TypeOK, Next, Step
<1>2. \A x \in Reqs \ {r} : Claims(reqs[x], c)' <=> Claims(reqs[x], c)
  BY OthersWait DEF SignupInv, ControlInv, Claims
<1>3. ASSUME shifts' = shifts
      PROVE  Staff(c)' = Staff(c)
  BY <1>3 DEF Staff, StaffOf, Live
<1>4. CASE Claims(reqs[r], c)' /\ ~Claims(reqs[r], c)
  <2>1. Handle(r)
    BY <1>4, ArrivesUnchecked DEF Step, SignupInv, ControlInv, Claims
  <2> QED
    BY <1>3, <1>4, <2>1, ClaimChecked
<1>5. CASE ~Claims(reqs[r], c)' \/ Claims(reqs[r], c)
  <2>1. Claimants(c)' \subseteq Claimants(c)
    BY <1>2, <1>5 DEF Claimants
  <2>2. CASE shifts' = shifts
    BY <1>3, <2>1, <2>2
  <2>3. CASE DeleteWrite(r)
    BY <1>1, <2>1, <2>3 DEF DeleteWrite, Staff, StaffOf, Live
  <2>4. CASE CreateInsert(r) /\ shifts' # shifts
    <3> DEFINE row == [user |-> q.in.user, team |-> q.in.team,
                       start |-> q.in.start, end |-> q.in.end]
    <3>1. /\ shifts' = [shifts EXCEPT ![shiftSeq + 1] = row]
          /\ reqs' = [reqs EXCEPT ![r].pc = "announce", ![r].id = shiftSeq + 1]
          /\ q.op = "createShift" /\ q.pc = "write"
      BY <2>4 DEF CreateInsert, At, ReadOnly, tables
    <3>2. CASE Claims(reqs[r], c)
      <4>1. Claimants(c)' \subseteq Claimants(c) \ {r}
        BY <1>1, <2>1, <3>1 DEF Claimants, Claims, Request
      <4>2. Staff(c)' \subseteq Staff(c) \cup {shiftSeq + 1}
        BY <1>1, <3>1 DEF Staff, StaffOf, Live
      <4> QED
        BY <3>2, <4>1, <4>2 DEF Claimants
    <3>3. CASE ~Claims(reqs[r], c)
      <4>1. ~(row.team = coverage[c].team /\ Overlaps(row, coverage[c]))
        BY <3>1, <3>3 DEF Claims, Overlaps
      <4> HIDE DEF row
      <4>2. Staff(c)' \subseteq Staff(c)
        BY <1>1, <3>1, <4>1 DEF Staff, StaffOf, Live
      <4> QED
        BY <2>1, <4>2
    <3> QED
      BY <3>2, <3>3
  <2>5. ~UpdateWrite(r) /\ ~DeleteEvent(r)
    BY DEF UpdateWrite, DeleteEvent, At, SignupInv, Ordinary
  <2> QED
    BY <2>2, <2>3, <2>4, <2>5, ShiftsWritten DEF SignupInv, ControlInv
<1> QED
  BY <1>4, <1>5

\* From now on it is arithmetic.
LEMMA SignupNext == SignupsOnly /\ SignupInv /\ [Next]_vars => SignupInv'
<1> SUFFICES ASSUME SignupsOnly, SignupInv, [Next]_vars PROVE SignupInv'
  OBVIOUS
<1>1. ControlInv'
  BY ControlNext DEF SignupInv
<1>2. CASE UNCHANGED vars
  BY <1>1, <1>2 DEF vars, tables, SignupInv, Ordinary, Live, Staff, StaffOf, Claimants, Claims
<1>3. ASSUME NEW r \in Reqs, Step(r)
      PROVE  SignupInv'
  <2>1. coverage' = coverage /\ admins' = {} /\ \A x \in Reqs : Ordinary(reqs'[x])
    BY <1>3, OrdinaryNext
  <2>2. ASSUME NEW c \in Live(coverage)
        PROVE  Cardinality(Staff(c)') + Cardinality(Claimants(c)')
                   <= coverage[c].required + Cardinality(Reqs) - 1
    <3> DEFINE S == Staff(c)
               C == Claimants(c)
               T == Staff(c)'
               D == Claimants(c)'
    <3>1. Cardinality(S) + Cardinality(C) <= coverage[c].required + Cardinality(Reqs) - 1
      BY DEF SignupInv
    <3>2. C \subseteq Reqs /\ D \subseteq Reqs /\ IsFiniteSet(Reqs)
      BY BoundsAssumption DEF Claimants
    <3>3. IsFiniteSet(S) /\ coverage[c].required \in Nat
      BY StaffFinite, LiveCoverage DEF SignupInv, ControlInv
    <3>4. \/ T \subseteq S /\ D \subseteq C
          \/ T = S /\ Cardinality(S) < coverage[c].required
          \/ r \in C /\ D \subseteq C \ {r} /\ \E s : T \subseteq S \cup {s}
      BY <1>3, <2>1, ClaimStep
    <3> HIDE DEF S, C, T, D
    <3>5. IsFiniteSet(C) /\ Cardinality(C) \in Nat
      BY <3>2, FS_Subset, FS_CardinalityType
    <3>6. Cardinality(D) \in Nat /\ Cardinality(Reqs) \in Nat /\ Cardinality(D) <= Cardinality(Reqs)
      BY <3>2, FS_Subset, FS_CardinalityType
    <3>7. Cardinality(S) \in Nat
      BY <3>3, FS_CardinalityType
    <3>8. CASE T \subseteq S /\ D \subseteq C
      <4>1. /\ Cardinality(T) \in Nat /\ Cardinality(T) <= Cardinality(S)
            /\ Cardinality(D) <= Cardinality(C)
        BY <3>3, <3>5, <3>8, FS_Subset, FS_CardinalityType
      <4> QED
        BY <3>1, <3>3, <3>5, <3>6, <3>7, <4>1 DEF S, C, T, D
    <3>9. CASE T = S /\ Cardinality(S) < coverage[c].required
      BY <3>3, <3>6, <3>7, <3>9 DEF S, C, T, D
    <3>10. CASE r \in C /\ D \subseteq C \ {r} /\ \E s : T \subseteq S \cup {s}
      <4>1. PICK s : T \subseteq S \cup {s}
        BY <3>10
      <4>2. /\ IsFiniteSet(S \cup {s})
            /\ Cardinality(S \cup {s}) = IF s \in S THEN Cardinality(S) ELSE Cardinality(S) + 1
        BY <3>3, FS_AddElement
      <4>3. Cardinality(T) \in Nat /\ Cardinality(T) <= Cardinality(S \cup {s})
        BY <4>1, <4>2, FS_Subset, FS_CardinalityType
      <4>4. IsFiniteSet(C \ {r}) /\ Cardinality(C \ {r}) = Cardinality(C) - 1
        BY <3>5, <3>10, FS_RemoveElement
      <4>5. Cardinality(D) <= Cardinality(C) - 1
        BY <3>10, <4>4, FS_Subset
      <4> QED
        BY <3>1, <3>3, <3>5, <3>6, <3>7, <4>2, <4>3, <4>5 DEF S, C, T, D
    <3> QED
      BY <3>4, <3>8, <3>9, <3>10
  <2> QED
    BY <1>1, <2>1, <2>2 DEF SignupInv, Live, Ordinary
<1> QED
  BY <1>2, <1>3 DEF Next, Step

\* Sign-ups can exceed a requirement, but by no more than the handlers that run
\* at once, less one: whoever got past a count when there was a place, and
\* inserts later, is one of them.
THEOREM OverbookingIsBounded ==
    ASSUME SignupsOnly
    PROVE  Spec => []BoundedOverbooking
<1>1. Init => SignupInv
  <2> SUFFICES ASSUME Init PROVE SignupInv
    OBVIOUS
  <2>1. ControlInv
    BY TypeInit DEF Init, ControlInv, Gated, Idle
  <2>2. admins = {} /\ \A r \in Reqs : Ordinary(reqs[r])
    BY DEF Init, SignupsOnly, Ordinary, Idle
  <2>3. ASSUME NEW c \in Live(coverage)
        PROVE  Cardinality(Staff(c)) + Cardinality(Claimants(c))
                   <= coverage[c].required + Cardinality(Reqs) - 1
    <3>1. Staff(c) = {} /\ Claimants(c) = {}
      BY DEF Init, Staff, StaffOf, Live, Claimants, Claims, Idle
    <3>2. coverage[c].required \in Nat /\ coverage[c].required >= 1
      BY <2>1, LiveCoverage DEF ControlInv
    <3>3. Cardinality(Reqs) \in Nat
      BY BoundsAssumption, FS_CardinalityType
    <3> QED
      BY <3>1, <3>2, <3>3, FS_EmptySet
  <2> QED
    BY <2>1, <2>2, <2>3 DEF SignupInv
<1>2. SignupInv => BoundedOverbooking
  <2> SUFFICES ASSUME SignupInv, NEW c \in Live(coverage)
               PROVE  Cardinality(Staff(c)) <= coverage[c].required + Cardinality(Reqs) - 1
    BY DEF BoundedOverbooking, Staff
  <2>1. IsFiniteSet(Staff(c)) /\ IsFiniteSet(Claimants(c)) /\ IsFiniteSet(Reqs)
    BY BoundsAssumption, StaffFinite, FS_Subset DEF Claimants, SignupInv, ControlInv
  <2>2. Cardinality(Staff(c)) \in Nat /\ Cardinality(Claimants(c)) \in Nat
        /\ Cardinality(Reqs) \in Nat /\ coverage[c].required \in Nat
    BY <2>1, FS_CardinalityType, LiveCoverage DEF SignupInv, ControlInv
  <2> QED
    BY <2>2 DEF SignupInv
<1> QED
  BY <1>1, <1>2, SignupNext, PTL DEF Spec

=============================================================================
