----------------------------- MODULE StageLedger -----------------------------
(***************************************************************************)
(* What readers of the bootstrap state file rely on: the recorded stages   *)
(* are an initial segment of the pipeline.  A stage is recorded only when  *)
(* every earlier one is, and dropping a record drops all later ones.       *)
(***************************************************************************)
EXTENDS Naturals

CONSTANT N  \* the number of stages

VARIABLE recorded  \* the stages that have a record

Init == recorded = {}

Record(k) ==
  /\ 1..(k - 1) \subseteq recorded
  /\ recorded' = recorded \cup {k}

DropFrom(k) == recorded' = recorded \ (k..N)

Next == \E k \in 1..N : Record(k) \/ DropFrom(k)

Spec == Init /\ [][Next]_recorded

-----------------------------------------------------------------------------
(* Property *)

\* No stage is recorded without those before it.  Nothing in the code checks this:
\* complete records whatever stage it is given, and the state file is read back
\* with any gap.  Its readers rely on it: invalidate_from drops the later stages of
\* an invalidated one, and an error is reported with the last recorded stage as the
\* one that was reached.
PrefixClosed == \A k \in recorded : 1..(k - 1) \subseteq recorded
=============================================================================
