----------------------------- MODULE AtomicRegister -----------------------------
(* What saving a record promises: the value kept changes only to the one being     *)
(* saved, a save that returns has kept it, and one that is cut short has kept it   *)
(* or not.                                                                         *)
CONSTANTS Value, None
VARIABLES kept,     \* the value a reader gets, whatever happens next
          saving,   \* the value being saved, or None
          up        \* whether the process runs

Init == kept \in Value /\ saving = None /\ up = TRUE

Ask == \E v \in Value : up /\ saving = None /\ saving' = v /\ UNCHANGED <<kept, up>>

Keep == up /\ saving # None /\ kept' = saving /\ UNCHANGED <<saving, up>>

Answer == up /\ saving = kept /\ saving' = None /\ UNCHANGED <<kept, up>>

Crash ==
    /\ up /\ up' = FALSE
    /\ kept' = kept \/ (saving # None /\ kept' = saving)
    /\ UNCHANGED saving

Restart == ~up /\ up' = TRUE /\ (saving' = saving \/ saving' = None) /\ UNCHANGED kept

Next == Ask \/ Keep \/ Answer \/ Crash \/ Restart

Spec == Init /\ [][Next]_<<kept, saving, up>>
=================================================================================
