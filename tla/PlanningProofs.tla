--------------------------- MODULE PlanningProofs ---------------------------
(***************************************************************************)
(* Theorems about Planning, for any number of handlers, users, shifts and  *)
(* times.                                                                  *)
(***************************************************************************)
EXTENDS Planning, TLAPS

\* What a handler holds, by operation: the part of the type invariant that
\* TypeOK leaves out and that its preservation needs.
RequestOK(q) ==
    /\ q.pc # "idle" => q.op \in AllOps /\ q.in \in InputsOf(q.op) /\ q.caller \in Users
    /\ q.pc # "idle" /\ q.op \in {"updateShift", "deleteShift"} => q.id \in ShiftIds
    /\ q.pc # "idle" /\ q.op = "updateCoverage" => q.id \in CoverageIds

TypeInv == TypeOK /\ \A r \in Reqs : RequestOK(reqs[r])

-----------------------------------------------------------------------------
(* Operators.                                                              *)

\* Every operation's input is an Input; creations carry every field.
LEMMA InputFacts ==
    ASSUME NEW op \in AllOps, NEW in \in InputsOf(op)
    PROVE  /\ in \in Input
           /\ op = "createShift" =>
                 in.user \in Users /\ in.team \in Teams /\ in.start \in Times /\ in.end \in Times
           /\ op \in {"createCoverage", "updateCoverage"} =>
                 /\ in.team \in Teams /\ in.start \in Times /\ in.end \in Times
                 /\ in.required \in 1 .. MaxRequired
           /\ op \in {"addAdmin", "removeAdmin"} => in.user \in Users
  BY DEF InputsOf, Inputs, Input, NoInput, AllOps, ShiftOps, EventAdminOps, CoverageOps,
         SuperAdminOps

\* Merging an input into a row yields a row.
LEMMA MergedShiftType ==
    ASSUME NEW in \in Input, NEW row \in ShiftRow
    PROVE  MergedShift(in, row) \in ShiftRow
  BY DEF MergedShift, Coalesce, Input, ShiftRow

LEMMA MergedEventType ==
    ASSUME NEW in \in Input, NEW row \in EventRow
    PROVE  MergedEvent(in, row) \in EventRow
  BY DEF MergedEvent, Coalesce, Input, EventRow

LEMMA IdleType == Idle \in Request /\ RequestOK(Idle)
  BY DEF Idle, Request, RequestOK, NoInput, Input, PCs

-----------------------------------------------------------------------------
(* A handler's step on its own record.                                     *)

\* Whatever a handler does next, its operation, caller, target and input stay:
\* a step that only moves pc and the locals keeps the record well formed.
LEMMA SameRequest ==
    ASSUME NEW q \in Request, RequestOK(q), q.pc # "idle",
           NEW p \in Request, p.op = q.op, p.caller = q.caller, p.in = q.in,
           p.id = q.id
    PROVE  RequestOK(p)
  BY DEF RequestOK

LEMMA ReplyType ==
    ASSUME TypeInv, NEW r \in Reqs, Reply(r)
    PROVE  reqs' \in [Reqs -> Request] /\ \A x \in Reqs : RequestOK(reqs'[x])
  BY IdleType DEF TypeInv, TypeOK, Reply

LEMMA ContinueType ==
    ASSUME TypeInv, NEW r \in Reqs, reqs[r].pc # "idle", NEW pc \in PCs, Continue(r, pc)
    PROVE  reqs' \in [Reqs -> Request] /\ \A x \in Reqs : RequestOK(reqs'[x])
<1>1. reqs[r] \in Request
  BY DEF TypeInv, TypeOK
<1>2. [reqs[r] EXCEPT !.pc = pc] \in Request
  BY <1>1 DEF Request
<1>3. RequestOK([reqs[r] EXCEPT !.pc = pc])
  BY <1>1, <1>2, SameRequest DEF TypeInv, Request
<1> QED
  BY <1>2, <1>3 DEF TypeInv, TypeOK, Continue

LEMMA ProceedType ==
    ASSUME TypeInv, NEW r \in Reqs, reqs[r].pc # "idle", NEW pc \in PCs, Proceed(r, pc)
    PROVE  reqs' \in [Reqs -> Request] /\ \A x \in Reqs : RequestOK(reqs'[x])
<1> DEFINE p == [reqs[r] EXCEPT !.pc = pc, !.old = Null, !.ev = Null, !.todo = {}]
<1>1. reqs[r] \in Request
  BY DEF TypeInv, TypeOK
<1>2. p \in Request
  BY <1>1 DEF Request
<1>3. p.op = reqs[r].op /\ p.caller = reqs[r].caller /\ p.in = reqs[r].in /\ p.id = reqs[r].id
  BY <1>1 DEF Request
<1>4. RequestOK(p)
  BY <1>1, <1>2, <1>3, SameRequest DEF TypeInv
<1>5. reqs' = [reqs EXCEPT ![r] = p]
  BY DEF Proceed, TypeInv, TypeOK
<1> HIDE DEF p
<1> QED
  BY <1>2, <1>4, <1>5 DEF TypeInv, TypeOK

\* The general form, for the steps that also fill a local.
LEMMA LocalsType ==
    ASSUME TypeInv, NEW r \in Reqs, reqs[r].pc # "idle",
           NEW p \in Request, p.op = reqs[r].op, p.caller = reqs[r].caller,
           p.in = reqs[r].in, p.id = reqs[r].id, reqs' = [reqs EXCEPT ![r] = p]
    PROVE  reqs' \in [Reqs -> Request] /\ \A x \in Reqs : RequestOK(reqs'[x])
<1>1. RequestOK(p)
  BY SameRequest DEF TypeInv, TypeOK
<1> QED
  BY <1>1 DEF TypeInv, TypeOK

\* A step that writes no table keeps the invariant when the requests stay
\* well formed.
LEMMA ReadOnlyType ==
    ASSUME TypeInv, ReadOnly,
           reqs' \in [Reqs -> Request] /\ \A x \in Reqs : RequestOK(reqs'[x])
    PROVE  TypeInv'
  BY DEF TypeInv, TypeOK, ReadOnly, tables

LEMMA PublishType ==
    ASSUME TypeInv, NEW r \in Reqs, Publish(r)
    PROVE  TypeInv'
<1>1. Reply(r) /\ gridStale' = FALSE /\ UNCHANGED tables
  BY DEF Publish
<1> QED
  BY <1>1, ReplyType DEF TypeInv, TypeOK, tables

-----------------------------------------------------------------------------
(* ShiftService keeps the types.                                           *)

LEMMA CreateType ==
    ASSUME TypeInv, NEW r \in Reqs,
           \/ CreateGetEvent(r) \/ CreateIsAdmin(r) \/ CreateListCoverage(r)
           \/ CreateCount(r) \/ CreateInsert(r)
    PROVE  TypeInv'
<1> DEFINE q == reqs[r]
<1>1. q \in Request /\ RequestOK(q)
  BY DEF TypeInv, TypeOK
<1>2. CASE CreateGetEvent(r)
  <2>1. q.pc # "idle" /\ ReadOnly
    BY <1>2 DEF CreateGetEvent, At
  <2>2. CASE Reply(r)
    BY <2>1, <2>2, ReplyType, ReadOnlyType
  <2>3. CASE Proceed(r, "write")
    BY <2>1, <2>3, ProceedType, ReadOnlyType DEF PCs
  <2>4. CASE event # Null /\ reqs' = [reqs EXCEPT ![r].pc = "isAdmin", ![r].ev = event]
    <3> DEFINE p == [q EXCEPT !.pc = "isAdmin", !.ev = event]
    <3>1. p \in Request /\ p.op = q.op /\ p.caller = q.caller /\ p.in = q.in /\ p.id = q.id
      BY <1>1 DEF Request, PCs, TypeInv, TypeOK
    <3>2. reqs' = [reqs EXCEPT ![r] = p]
      BY <2>4 DEF TypeInv, TypeOK
    <3> HIDE DEF p
    <3> QED
      BY <2>1, <3>1, <3>2, LocalsType, ReadOnlyType
  <2> QED
    BY <1>2, <2>2, <2>3, <2>4 DEF CreateGetEvent, OpenTo
<1>3. CASE CreateIsAdmin(r)
  <2>1. q.pc # "idle" /\ ReadOnly
    BY <1>3 DEF CreateIsAdmin, At
  <2> QED
    BY <1>3, <2>1, ReplyType, ProceedType, ReadOnlyType DEF CreateIsAdmin, PCs
<1>4. CASE CreateListCoverage(r)
  <2>1. q.pc # "idle" /\ ReadOnly
    BY <1>4 DEF CreateListCoverage, At
  <2>2. CASE Continue(r, "write")
    BY <2>1, <2>2, ContinueType, ReadOnlyType DEF PCs
  <2>3. CASE reqs' = [reqs EXCEPT ![r].pc = "count", ![r].todo = RequirementsMet(q.in)]
    <3> DEFINE p == [q EXCEPT !.pc = "count", !.todo = RequirementsMet(q.in)]
    <3>1. RequirementsMet(q.in) \subseteq CoverageRow
      BY DEF RequirementsMet, Live, TypeInv, TypeOK
    <3>2. p \in Request /\ p.op = q.op /\ p.caller = q.caller /\ p.in = q.in /\ p.id = q.id
      BY <1>1, <3>1 DEF Request, PCs
    <3>3. reqs' = [reqs EXCEPT ![r] = p]
      BY <2>3 DEF TypeInv, TypeOK
    <3> HIDE DEF p
    <3> QED
      BY <2>1, <3>2, <3>3, LocalsType, ReadOnlyType
  <2> QED
    BY <1>4, <2>2, <2>3 DEF CreateListCoverage
<1>5. CASE CreateCount(r)
  <2>1. q.pc # "idle" /\ ReadOnly
    BY <1>5 DEF CreateCount, At
  <2>2. ASSUME NEW req \in q.todo, reqs' = [reqs EXCEPT ![r].todo = @ \ {req}]
        PROVE  TypeInv'
    <3> DEFINE p == [q EXCEPT !.todo = @ \ {req}]
    <3>1. p \in Request /\ p.op = q.op /\ p.caller = q.caller /\ p.in = q.in /\ p.id = q.id
      BY <1>1 DEF Request
    <3>2. reqs' = [reqs EXCEPT ![r] = p]
      BY <2>2 DEF TypeInv, TypeOK
    <3> HIDE DEF p
    <3> QED
      BY <2>1, <3>1, <3>2, LocalsType, ReadOnlyType
  <2> QED
    BY <1>5, <2>1, <2>2, ReplyType, ProceedType, ReadOnlyType DEF CreateCount, PCs
<1>6. CASE CreateInsert(r)
  <2>1. q.pc # "idle" /\ q.op = "createShift"
    BY <1>6 DEF CreateInsert, At
  <2>2. CASE Reply(r) /\ ReadOnly
    BY <2>2, ReplyType, ReadOnlyType
  <2>3. CASE ~(Reply(r) /\ ReadOnly)
    <3> DEFINE row == [user |-> q.in.user, team |-> q.in.team,
                       start |-> q.in.start, end |-> q.in.end]
               p == [q EXCEPT !.pc = "announce", !.id = shiftSeq + 1]
    <3>1. /\ shiftSeq < MaxShifts
          /\ shiftSeq' = shiftSeq + 1
          /\ shifts' = [shifts EXCEPT ![shiftSeq + 1] = row]
          /\ reqs' = [reqs EXCEPT ![r].pc = "announce", ![r].id = shiftSeq + 1]
          /\ gridStale' = TRUE
          /\ UNCHANGED <<event, coverage, admins, coverageSeq>>
      BY <1>6, <2>3 DEF CreateInsert
    <3>2. row \in ShiftRow
      BY <1>1, <2>1, InputFacts DEF RequestOK, ShiftRow
    <3>3. shiftSeq + 1 \in ShiftIds /\ shiftSeq' \in 0 .. MaxShifts
      BY <3>1, BoundsAssumption DEF TypeInv, TypeOK, ShiftIds
    <3>4. p \in Request /\ RequestOK(p)
      BY <1>1, <2>1, <3>3 DEF Request, PCs, RequestOK
    <3>5. reqs' = [reqs EXCEPT ![r] = p]
      BY <3>1 DEF TypeInv, TypeOK
    <3> HIDE DEF p, row
    <3> QED
      BY <3>1, <3>2, <3>3, <3>4, <3>5 DEF TypeInv, TypeOK
  <2> QED
    BY <2>2, <2>3
<1> QED
  BY <1>2, <1>3, <1>4, <1>5, <1>6

LEMMA WrittenType ==
    ASSUME TypeInv, NEW r \in Reqs, reqs[r].pc # "idle", Written(r)
    PROVE  /\ reqs' \in [Reqs -> Request] /\ \A x \in Reqs : RequestOK(reqs'[x])
           /\ gridStale' \in BOOLEAN
<1>1. Proceed(r, "announce") /\ gridStale' = TRUE
  BY DEF Written
<1> QED
  BY <1>1, ProceedType DEF PCs

LEMMA EditType ==
    ASSUME TypeInv, NEW r \in Reqs,
           \/ EditGetShift(r)
           \/ UpdateGetEvent(r) \/ UpdateIsAdmin(r) \/ UpdateWrite(r)
           \/ DeleteGetEvent(r) \/ DeleteIsAdmin(r) \/ DeleteWrite(r)
           \/ AnnounceShift(r)
    PROVE  TypeInv'
<1> DEFINE q == reqs[r]
<1>1. q \in Request /\ RequestOK(q)
  BY DEF TypeInv, TypeOK
<1>2. CASE EditGetShift(r)
  <2>1. q.pc # "idle" /\ ReadOnly /\ q.id \in ShiftIds
    BY <1>1, <1>2 DEF EditGetShift, RequestOK
  <2>2. CASE Reply(r)
    BY <2>1, <2>2, ReplyType, ReadOnlyType
  <2>3. CASE shifts[q.id] # Null /\ reqs' = [reqs EXCEPT ![r].pc = "getEvent", ![r].old = shifts[q.id]]
    <3> DEFINE p == [q EXCEPT !.pc = "getEvent", !.old = shifts[q.id]]
    <3>1. p \in Request /\ p.op = q.op /\ p.caller = q.caller /\ p.in = q.in /\ p.id = q.id
      BY <1>1, <2>1 DEF Request, PCs, TypeInv, TypeOK
    <3>2. reqs' = [reqs EXCEPT ![r] = p]
      BY <2>3 DEF TypeInv, TypeOK
    <3> HIDE DEF p
    <3> QED
      BY <2>1, <3>1, <3>2, LocalsType, ReadOnlyType
  <2> QED
    BY <1>2, <2>2, <2>3 DEF EditGetShift
<1>3. CASE UpdateGetEvent(r)
  <2>1. q.pc # "idle" /\ ReadOnly
    BY <1>3 DEF UpdateGetEvent, At
  <2>2. CASE Reply(r)
    BY <2>1, <2>2, ReplyType, ReadOnlyType
  <2>3. CASE Proceed(r, "write")
    BY <2>1, <2>3, ProceedType, ReadOnlyType DEF PCs
  <2>4. CASE event # Null /\ reqs' = [reqs EXCEPT ![r].pc = "isAdmin", ![r].ev = event]
    <3> DEFINE p == [q EXCEPT !.pc = "isAdmin", !.ev = event]
    <3>1. p \in Request /\ p.op = q.op /\ p.caller = q.caller /\ p.in = q.in /\ p.id = q.id
      BY <1>1 DEF Request, PCs, TypeInv, TypeOK
    <3>2. reqs' = [reqs EXCEPT ![r] = p]
      BY <2>4 DEF TypeInv, TypeOK
    <3> HIDE DEF p
    <3> QED
      BY <2>1, <3>1, <3>2, LocalsType, ReadOnlyType
  <2> QED
    BY <1>3, <2>2, <2>3, <2>4 DEF UpdateGetEvent, OpenTo
<1>4. CASE UpdateIsAdmin(r)
  <2>1. q.pc # "idle" /\ ReadOnly
    BY <1>4 DEF UpdateIsAdmin, At
  <2> QED
    BY <1>4, <2>1, ReplyType, ProceedType, ReadOnlyType DEF UpdateIsAdmin, PCs
<1>5. CASE UpdateWrite(r)
  <2>1. q.pc # "idle" /\ q.op = "updateShift"
    BY <1>5 DEF UpdateWrite, At
  <2>2. CASE Reply(r) /\ ReadOnly
    BY <2>2, ReplyType, ReadOnlyType
  <2>3. CASE ~(Reply(r) /\ ReadOnly)
    <3> DEFINE row == MergedShift(q.in, shifts[q.id])
    <3>1. /\ shifts[q.id] # Null
          /\ shifts' = [shifts EXCEPT ![q.id] = row]
          /\ Written(r)
          /\ UNCHANGED <<event, coverage, admins, shiftSeq, coverageSeq>>
      BY <1>5, <2>3 DEF UpdateWrite, UpdateSucceeds
    <3>2. row \in ShiftRow
      BY <1>1, <2>1, <3>1, MergedShiftType DEF RequestOK, Request, TypeInv, TypeOK
    <3> HIDE DEF row
    <3> QED
      BY <2>1, <3>1, <3>2, WrittenType DEF TypeInv, TypeOK
  <2> QED
    BY <2>2, <2>3
<1>6. CASE DeleteGetEvent(r)
  <2>1. q.pc # "idle" /\ ReadOnly
    BY <1>6 DEF DeleteGetEvent, At
  <2> QED
    BY <1>6, <2>1, ReplyType, ProceedType, ReadOnlyType DEF DeleteGetEvent, PCs
<1>7. CASE DeleteIsAdmin(r)
  <2>1. q.pc # "idle" /\ ReadOnly
    BY <1>7 DEF DeleteIsAdmin, At
  <2> QED
    BY <1>7, <2>1, ReplyType, ContinueType, ReadOnlyType DEF DeleteIsAdmin, PCs
<1>8. CASE DeleteWrite(r)
  <2>1. q.pc # "idle"
    BY <1>8 DEF DeleteWrite, At
  <2> QED
    BY <1>8, <2>1, WrittenType DEF DeleteWrite, TypeInv, TypeOK
<1>9. CASE AnnounceShift(r)
  BY <1>9, ReplyType, ReadOnlyType, PublishType DEF AnnounceShift
<1> QED
  BY <1>2, <1>3, <1>4, <1>5, <1>6, <1>7, <1>8, <1>9

LEMMA CoverageType ==
    ASSUME TypeInv, NEW r \in Reqs,
           CreateCoverage(r) \/ UpdateCoverage(r) \/ DeleteCoverage(r) \/ AnnounceCoverage(r)
    PROVE  TypeInv'
<1> DEFINE q == reqs[r]
           row == [team |-> q.in.team, start |-> q.in.start, end |-> q.in.end,
                   required |-> q.in.required]
<1>1. q \in Request /\ RequestOK(q)
  BY DEF TypeInv, TypeOK
<1>2. CASE Reply(r) /\ ReadOnly
  BY <1>2, ReplyType, ReadOnlyType
<1>3. CASE CreateCoverage(r) /\ ~(Reply(r) /\ ReadOnly)
  <2>1. /\ q.pc # "idle" /\ q.op = "createCoverage" /\ coverageSeq < MaxCoverage
        /\ coverageSeq' = coverageSeq + 1
        /\ coverage' = [coverage EXCEPT ![coverageSeq + 1] = row]
        /\ Written(r)
        /\ UNCHANGED <<event, shifts, admins, shiftSeq>>
    BY <1>3 DEF CreateCoverage, At
  <2>2. row \in CoverageRow
    BY <1>1, <2>1, InputFacts DEF RequestOK, CoverageRow
  <2>3. coverageSeq' \in 0 .. MaxCoverage
    BY <2>1, BoundsAssumption DEF TypeInv, TypeOK
  <2> HIDE DEF row
  <2> QED
    BY <2>1, <2>2, <2>3, WrittenType DEF TypeInv, TypeOK
<1>4. CASE UpdateCoverage(r) /\ ~(Reply(r) /\ ReadOnly)
  <2>1. /\ q.pc # "idle" /\ q.op = "updateCoverage"
        /\ coverage' = [coverage EXCEPT ![q.id] = row]
        /\ Written(r)
        /\ UNCHANGED <<event, shifts, admins, shiftSeq, coverageSeq>>
    BY <1>4 DEF UpdateCoverage, At
  <2>2. row \in CoverageRow
    BY <1>1, <2>1, InputFacts DEF RequestOK, CoverageRow
  <2> HIDE DEF row
  <2> QED
    BY <2>1, <2>2, WrittenType DEF TypeInv, TypeOK
<1>5. CASE DeleteCoverage(r) /\ ~(Reply(r) /\ ReadOnly)
  <2>1. PICK doomed : coverage' = [c \in CoverageIds |-> IF c \in doomed THEN Null ELSE coverage[c]]
    BY <1>5 DEF DeleteCoverage
  <2>2. /\ q.pc # "idle" /\ Written(r)
        /\ UNCHANGED <<event, shifts, admins, shiftSeq, coverageSeq>>
    BY <1>5 DEF DeleteCoverage
  <2> QED
    BY <2>1, <2>2, WrittenType DEF TypeInv, TypeOK
<1>6. CASE AnnounceCoverage(r)
  BY <1>6, PublishType DEF AnnounceCoverage
<1> QED
  BY <1>2, <1>3, <1>4, <1>5, <1>6

-----------------------------------------------------------------------------
(* EventService keeps the types, and so do arriving requests.              *)

LEMMA EventServiceType ==
    ASSUME TypeInv, NEW r \in Reqs, EventServiceStep(r)
    PROVE  TypeInv'
<1> DEFINE q == reqs[r]
<1>1. q \in Request /\ RequestOK(q)
  BY DEF TypeInv, TypeOK
<1>2. CASE Gate(r)
  <2>1. q.pc # "idle" /\ ReadOnly /\ AfterGate(q.op) \in PCs
    BY <1>2 DEF Gate, AfterGate, PCs
  <2> QED
    BY <1>2, <2>1, ReplyType, ContinueType, ReadOnlyType DEF Gate
<1>3. CASE UpdateEventGet(r)
  <2>1. q.pc # "idle" /\ ReadOnly
    BY <1>3 DEF UpdateEventGet, At
  <2> QED
    BY <1>3, <2>1, ReplyType, ContinueType, ReadOnlyType DEF UpdateEventGet, PCs
<1>4. CASE UpdateEventWrite(r)
  <2>1. CASE ReadOnly
    BY <1>4, <2>1, ReplyType, ReadOnlyType DEF UpdateEventWrite
  <2>2. CASE ~ReadOnly
    <3>1. /\ Reply(r) /\ event # Null
          /\ event' = MergedEvent(q.in, event) /\ gridStale' = TRUE
          /\ UNCHANGED <<shifts, coverage, admins, shiftSeq, coverageSeq>>
      BY <1>4, <2>2 DEF UpdateEventWrite
    <3>2. event' \in EventRow
      BY <1>1, <3>1, MergedEventType DEF Request, TypeInv, TypeOK
    <3> QED
      BY <3>1, <3>2, ReplyType DEF TypeInv, TypeOK
  <2> QED
    BY <2>1, <2>2
<1>5. CASE SetLocked(r)
  <2>1. CASE Reply(r) /\ ReadOnly
    BY <2>1, ReplyType, ReadOnlyType
  <2>2. CASE ~(Reply(r) /\ ReadOnly)
    <3>1. /\ q.pc # "idle" /\ event # Null /\ Written(r)
          /\ event' = [event EXCEPT !.locked = (q.op = "lock")]
          /\ UNCHANGED <<shifts, coverage, admins, shiftSeq, coverageSeq>>
      BY <1>5, <2>2 DEF SetLocked
    <3>2. event' \in EventRow
      BY <3>1 DEF EventRow, TypeInv, TypeOK
    <3> QED
      BY <3>1, <3>2, WrittenType DEF TypeInv, TypeOK
  <2> QED
    BY <2>1, <2>2
<1>6. CASE AnnounceLocked(r)
  BY <1>6, PublishType DEF AnnounceLocked
<1>7. CASE DeleteEvent(r)
  <2>1. CASE ReadOnly
    BY <1>7, <2>1, ReplyType, ReadOnlyType DEF DeleteEvent
  <2>2. CASE ~ReadOnly
    BY <1>7, <2>2, ReplyType DEF DeleteEvent, TypeInv, TypeOK
  <2> QED
    BY <2>1, <2>2
<1>8. CASE AddAdmin(r)
  <2>1. q.in.user \in Users
    BY <1>1, <1>8, InputFacts DEF AddAdmin, At, RequestOK
  <2> QED
    BY <1>8, <2>1, ReplyType DEF AddAdmin, TypeInv, TypeOK
<1>9. CASE RemoveAdmin(r)
  BY <1>9, ReplyType DEF RemoveAdmin, TypeInv, TypeOK
<1> QED
  BY <1>2, <1>3, <1>4, <1>5, <1>6, <1>7, <1>8, <1>9 DEF EventServiceStep

LEMMA ArriveType ==
    ASSUME TypeInv, NEW r \in Reqs, Arrive(r)
    PROVE  TypeInv'
<1>1. PICK ask \in Asked : \E id \in Targets(ask.op) :
          reqs' = [reqs EXCEPT ![r] =
                     [Idle EXCEPT !.pc = FirstStatement(ask.op), !.op = ask.op,
                                  !.caller = ask.caller, !.id = id, !.in = ask.in]]
  BY DEF Arrive
<1>2. PICK id \in Targets(ask.op) :
          reqs' = [reqs EXCEPT ![r] =
                     [Idle EXCEPT !.pc = FirstStatement(ask.op), !.op = ask.op,
                                  !.caller = ask.caller, !.id = id, !.in = ask.in]]
  BY <1>1
<1> DEFINE p == [Idle EXCEPT !.pc = FirstStatement(ask.op), !.op = ask.op,
                             !.caller = ask.caller, !.id = id, !.in = ask.in]
<1>3. ask.op \in AllOps /\ ask.caller \in Users /\ ask.in \in Input /\ ask.in \in InputsOf(ask.op)
  BY AskedAssumption
<1>4. FirstStatement(ask.op) \in PCs
  BY DEF FirstStatement, PCs
<1>5. /\ id \in ShiftIds \cup CoverageIds \cup {Null}
      /\ ask.op \in {"updateShift", "deleteShift"} => id \in ShiftIds
      /\ ask.op = "updateCoverage" => id \in CoverageIds
  BY BoundsAssumption DEF Targets, ShiftIds, CoverageIds, TypeInv, TypeOK
<1>6. p \in Request
  BY <1>3, <1>4, <1>5, IdleType DEF Request
<1>7. /\ p.op = ask.op /\ p.caller = ask.caller /\ p.id = id /\ p.in = ask.in
  BY IdleType DEF Request
<1>8. RequestOK(p)
  BY <1>3, <1>5, <1>7 DEF RequestOK
<1>9. ReadOnly /\ reqs' = [reqs EXCEPT ![r] = p]
  BY <1>2 DEF Arrive
<1> HIDE DEF p
<1> QED
  BY <1>6, <1>8, <1>9, ReadOnlyType DEF TypeInv, TypeOK

-----------------------------------------------------------------------------

LEMMA TypeInit == Init => TypeInv
<1> SUFFICES ASSUME Init PROVE TypeInv
  OBVIOUS
<1>1. coverage \in [CoverageIds -> CoverageRow \cup {Null}]
  BY InitAssumption DEF Init, CoverageIds
<1>2. coverageSeq \in 0 .. MaxCoverage
  BY InitAssumption, BoundsAssumption DEF Init
<1>3. shiftSeq \in 0 .. MaxShifts
  BY BoundsAssumption DEF Init
<1>4. reqs \in [Reqs -> Request] /\ \A r \in Reqs : RequestOK(reqs[r])
  BY IdleType DEF Init
<1> QED
  BY <1>1, <1>2, <1>3, <1>4, InitAssumption DEF Init, TypeInv, TypeOK

LEMMA TypeNext == TypeInv /\ [Next]_vars => TypeInv'
<1> SUFFICES ASSUME TypeInv, [Next]_vars PROVE TypeInv'
  OBVIOUS
<1>1. CASE UNCHANGED vars
  BY <1>1 DEF vars, tables, TypeInv, TypeOK
<1>2. ASSUME NEW r \in Reqs, Arrive(r) \/ Handle(r)
      PROVE  TypeInv'
  BY <1>2, ArriveType, CreateType, EditType, CoverageType, EventServiceType
     DEF Handle, ShiftServiceStep
<1> QED
  BY <1>1, <1>2 DEF Next

\* The tables and the handlers' locals always hold what their types say: in
\* particular no COALESCE ever stores a NULL and no handler writes a row built
\* from a field its request does not carry.
THEOREM TypeCorrect == Spec => []TypeOK
<1>1. TypeInv => TypeOK
  BY DEF TypeInv
<1> QED
  BY <1>1, TypeInit, TypeNext, PTL DEF Spec

=============================================================================
