----------------------------- MODULE MCLiveGrid -----------------------------
(* Instances of LiveGrid for TLC.                                          *)
EXTENDS LiveGrid, TLC

AnyOrder == Permutations(Instances) \cup Permutations(Conns) \cup Permutations(Edits)

\* What may happen where the liveness properties hold: no server stops and no
\* request for the grid fails.
Calm == {"drop", "publishFails", "edit"}

=============================================================================
