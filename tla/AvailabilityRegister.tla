------------------------- MODULE AvailabilityRegister -------------------------
(***************************************************************************)
(* What "replace all availability of a user" promises when saves of one    *)
(* user overlap and may break off: a save is acknowledged only when what   *)
(* is stored comes from it or from a save that was under way together with *)
(* it.  Nothing older comes through.                                       *)
(***************************************************************************)
CONSTANT Saves

VARIABLES
    writers,      \* saves that have begun and are neither acknowledged nor given up
    acknowledged, \* saves that were reported as done
    stored,       \* saves of which something is stored
    rivals        \* rivals[s]: the saves that were under way together with s

Begin(s) ==
    /\ s \notin writers
    /\ writers' = writers \cup {s}
    /\ rivals' = [r \in Saves |-> CASE r = s       -> writers
                                    [] r \in writers -> rivals[r] \cup {s}
                                    [] OTHER       -> rivals[r]]
    /\ UNCHANGED <<acknowledged, stored>>

\* A save under way may remove anything, and leaves nothing but its own.
Write(s) ==
    /\ s \in writers
    /\ stored' \subseteq stored \cup {s}
    /\ UNCHANGED <<writers, acknowledged, rivals>>

Acknowledge(s) ==
    /\ s \in writers
    /\ stored \subseteq {s} \cup rivals[s]
    /\ writers' = writers \ {s}
    /\ acknowledged' = acknowledged \cup {s}
    /\ UNCHANGED <<stored, rivals>>

GiveUp(s) ==
    /\ s \in writers
    /\ writers' = writers \ {s}
    /\ UNCHANGED <<acknowledged, stored, rivals>>

Init == writers = {} /\ acknowledged = {} /\ rivals = [s \in Saves |-> {}]

Next == \E s \in Saves : Begin(s) \/ Write(s) \/ Acknowledge(s) \/ GiveUp(s)

Spec == Init /\ [][Next]_<<writers, acknowledged, stored, rivals>>

=============================================================================
