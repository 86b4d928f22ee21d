--------------------------- MODULE AtomicPublication ---------------------------
(* What a publication promises to a reader: nothing is shown until all of it is,   *)
(* and what is shown never changes.                                                *)
CONSTANT Data    \* everything the publication consists of
VARIABLE shown   \* what a reader is shown

Init == shown = {}

Publish == shown = {} /\ shown' = Data

Spec == Init /\ [][Publish]_shown
================================================================================
