---------------------------- MODULE ConfigStore ----------------------------
(* What the configuration journal promises: one stored configuration, which *)
(* a save replaces as a whole or not at all, and which only a save that     *)
(* finds the journal full may lose.                                         *)
EXTENDS Integers

CONSTANTS Bodies, Defaults, NoBody

VARIABLES stored,   \* what hk_config_load returns
          saving,   \* what the save in progress offers, or NoBody
          full      \* does the save in progress have to erase first?

Configs == Bodies \cup {Defaults}

Init == stored = Defaults /\ saving = NoBody /\ full = FALSE

Begin(b) == /\ saving = NoBody
            /\ saving' = b
            /\ full' \in BOOLEAN
            /\ UNCHANGED stored

Commit == /\ saving # NoBody
          /\ stored' = saving
          /\ UNCHANGED <<saving, full>>

\* The journal is erased to make room.
Lose == /\ full
        /\ stored' = Defaults /\ full' = FALSE
        /\ UNCHANGED saving

\* The save returns, or fails, or the power goes, after it has replaced the
\* configuration or not; an erase cut short may let an older one surface.
End == /\ saving # NoBody
       /\ saving' = NoBody /\ full' = FALSE
       /\ stored' \in IF full THEN Configs ELSE {stored, saving}

Next == Commit \/ Lose \/ End \/ \E b \in Bodies : Begin(b)

Spec == Init /\ [][Next]_<<stored, saving, full>>
=============================================================================
