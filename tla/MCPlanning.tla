----------------------------- MODULE MCPlanning -----------------------------
(* Instances of Planning for TLC: what clients ask for in each run.        *)
EXTENDS Planning, TLC

CONSTANTS alice, bob, root, guest, crew, r1, r2, r3

WholeEvent == [locked |-> FALSE, start |-> 0, end |-> MaxTime]

Seat(s, e, n) == [team |-> crew, start |-> s, end |-> e, required |-> n]

Ask(ops, callers, inputs) == [op : ops, caller : callers, in : inputs]

Nothing == {NoInput}

NoCoverage == <<>>
OneSeat == <<Seat(0, MaxTime, 1)>>

AnyOrder == Permutations(Reqs)

OnlyTeam == Inputs({Null}, {crew}, {Null}, {Null}, {Null})
OnlyUser(users) == Inputs(users, {Null}, {Null}, {Null}, {Null})
OnlyTimes(starts, ends) == Inputs({Null}, {Null}, starts, ends, {Null})

SignUp(users, starts, ends) == Inputs(users, {crew}, starts, ends, {Null})
Staffing(starts, ends, counts) == Inputs({Null}, {crew}, starts, ends, counts)

-----------------------------------------------------------------------------
(* Locking: bob is the event's admin to begin with, alice may become one.  *)
(* They sign up, hand shifts over and sign off, and edit the coverage,     *)
(* while a super-admin locks, unlocks and finally deletes the event.       *)

LockAsked ==
    Ask({"createShift"}, {alice, root, guest}, SignUp({alice}, {1}, {MaxTime}))
    \cup Ask({"updateShift"}, {alice, bob, root}, OnlyUser({bob}))
    \cup Ask({"updateShift"}, {alice}, OnlyTeam)
    \cup Ask({"deleteShift"}, {alice, bob, guest}, Nothing)
    \cup Ask({"lock", "unlock", "deleteEvent"}, {root}, Nothing)
    \cup Ask({"addAdmin", "removeAdmin"}, {root}, OnlyUser({alice}))
    \cup Ask({"deleteTeamCoverage"}, {alice, bob}, OnlyTeam)
    \cup Ask({"createCoverage", "updateCoverage"}, {bob}, Staffing({0}, {MaxTime}, {1}))
    \cup Ask({"deleteCoverage"}, {bob}, Nothing)

-----------------------------------------------------------------------------
(* Edits of times: a shift that fills the event, or would begin before it, *)
(* and edits that move one end of it to the middle or out of the event.    *)

InnerEvent == [locked |-> FALSE, start |-> 1, end |-> MaxTime]

EditAsked ==
    Ask({"createShift"}, {alice}, SignUp({alice}, {0}, {MaxTime}))
    \cup Ask({"updateShift"}, {alice}, OnlyTimes({0, 2, Null}, {2, Null}))
    \cup Ask({"updateShift"}, {root}, OnlyTimes({2}, {Null}))

SafetyAsked == LockAsked \cup EditAsked

-----------------------------------------------------------------------------

\* Two event admins move one end of the event each.
RangeAsked == Ask({"updateEvent"}, {alice, bob}, OnlyTimes(Times \cup {Null}, Times \cup {Null}))

-----------------------------------------------------------------------------
(* Liveness: alice signs up, again and again, against two requirements, one *)
(* of them for a single seat, while the event is shortened, locked, opened  *)
(* or deleted and the requirements are dropped.                             *)

TwoWindows == <<Seat(0, MaxTime, 2), Seat(0, 1, 1)>>

LiveAsked ==
    Ask({"createShift"}, {alice}, SignUp({alice}, {0}, {MaxTime}))
    \cup Ask({"updateShift", "deleteShift"}, {alice}, Nothing)
    \cup Ask({"deleteTeamCoverage"}, {bob}, OnlyTeam)
    \cup Ask({"updateEvent"}, {bob}, OnlyTimes({Null}, {1}))
    \cup Ask({"lock", "unlock", "deleteEvent"}, {root}, Nothing)

=============================================================================
