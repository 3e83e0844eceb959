---------------------------- MODULE MCAvailability ----------------------------
(* Instances of Availability for TLC.                                      *)
EXTENDS Availability, TLC

CONSTANTS t1, s1, s2, available, unavailable

\* The user has an entry to begin with.  The event ends in the middle of its
\* third slot: a save that paints that slot is refused.
Earlier == {{[start |-> 0, end |-> Gran, status |-> s]} : s \in Statuses}

\* Saves are interchangeable, and so are the statuses.
AnyOrder == Permutations(Saves) \cup Permutations(Statuses)

=============================================================================
