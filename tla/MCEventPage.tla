----------------------------- MODULE MCEventPage -----------------------------
(* Instances of EventPage for TLC: two days of four hours, the last hour of *)
(* the day hidden.                                                          *)
EXTENDS EventPage

CONSTANTS alice, bob, bar, door, q1, q2

TwoUsers == <<alice, bob>>
TwoDays == [start |-> 4, end |-> 24, gran |-> 4]
LastHour == {[from |-> 3, to |-> 4]}
BothTeams == {[team |-> bar, visible |-> TRUE], [team |-> door, visible |-> FALSE]}
TwoNeeded == <<[team |-> bar, start |-> 4, end |-> 20, required |-> 2]>>
BobIsFree == <<[user |-> bob, start |-> 4, end |-> 8]>>

Shift(team, user, start, end) == [team |-> team, user |-> user, start |-> start, end |-> end]
Table(s, t) == <<s, t>>

\* Across the hidden hour and midnight, off the hour, within the hidden hour,
\* past the last column that is shown.
Times == {<<8, 20>>, <<6, 14>>, <<13, 15>>, <<4, 24>>, <<18, 21>>}
Tables == {Table(Shift(team, alice, a[1], a[2]), Shift(bar, bob, b[1], b[2])) :
              team \in {bar, door}, a \in Times, b \in Times}
       \cup {Table(Null, Shift(bar, bob, b[1], b[2])) : b \in Times}
OneTable == {<<Shift(bar, alice, 4, 8)>>}

Page(view, team, users, day, avail) ==
    [view |-> view, team |-> team, users |-> users, day |-> day, avail |-> avail]
FirstDay == {Page("everything", Null, {}, 0, FALSE)}
AllPages ==
    {p \in [view : Views, team : {bar, Null}, users : {{}, {bob}, {alice, bob}}, day : {Null, 0, 16},
            avail : BOOLEAN] :
        /\ p.team # Null => p.view = "by_team"
        /\ p.users # {} => p.view = "per_user"}

Admin == [role |-> "user", admin |-> TRUE, locked |-> FALSE]
Helper == [role |-> "user", admin |-> FALSE, locked |-> FALSE]
EventAdmin == {Admin}

Viewing == [tables |-> Tables, pages |-> AllPages, keys |-> {"up", "down", "left", "right"},
            requests |-> {}, instants |-> {8}, deltas |-> {}, rewrites |-> {}, demotions |-> {}]
Rewritten == [tables |-> OneTable, pages |-> FirstDay, keys |-> {}, requests |-> Requests,
              instants |-> {}, deltas |-> {1}, rewrites |-> {Shift(door, bob, 4, 8)}, demotions |-> {}]
Demoted == [Rewritten EXCEPT !.deltas = {}, !.rewrites = {}, !.demotions = {Helper}]
EachInTurn == [views |-> Viewing, edits |-> Rewritten, rights |-> Demoted]

AnyOrder == Permutations(Requests)

=============================================================================
