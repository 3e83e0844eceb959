--------------------------- MODULE MCEventSettings ---------------------------
(* Instances of EventSettings for TLC.                                     *)
EXTENDS EventSettings

CONSTANTS root, eve, q1, q2

\* root is a super admin, eve an admin of the event; one team is listed and one
\* requirement, and the night is hidden.
Stored ==
    [event |-> [name |-> "camp", slug |-> "s1", description |-> ""],
     locked |-> FALSE, public |-> FALSE,
     teams |-> ("bar" :> TRUE), admins |-> {eve}, pinned |-> {},
     hidden |-> <<[lo |-> 0, hi |-> 6]>>,
     coverage |-> {[id |-> "n1", team |-> "bar", need |-> "two"]}]

\* The second is refused: it is sent as 3 to 0.
SoundAndNot == {<<Empty, 3>>, <<3, Empty>>}

AnyOrder == Permutations(Requests)

=============================================================================
