---------------------------- MODULE MCWriterLock ----------------------------
(* Three processes contend for one lock path; who has recovered it is noted. *)
EXTENDS WriterLockHistory, TLC

CONSTANTS p1, p2, p3

OneHost == [p \in {p1, p2, p3} |-> "here"]
\* Processes of one host are alike, and so are lock files.
Alike == Permutations(Proc) \cup Permutations(Lock)
=============================================================================
