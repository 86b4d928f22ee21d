---------------------------- MODULE ExternalSort ----------------------------
(* Sorting more rows than memory holds, as split.py, shard.py and replay.py of *)
(* out_of_core do: rows are cut into sorted runs on disk, and the runs are     *)
(* merged a few at a time. An order is the sequence of the fields that the code *)
(* puts at the head of its tuples, to be compared one after the other.         *)
EXTENDS Integers, Sequences, SequencesExt

CONSTANT FanIn            \* merge_fan_in

SortAssumption == FanIn \in Nat /\ FanIn >= 2

Precedes(order, r, s) ==
  \E i \in DOMAIN order :
    /\ r[order[i]] < s[order[i]]
    /\ \A j \in 1 .. i - 1 : r[order[j]] = s[order[j]]

\* A buffer is sorted and written whenever it is full, and once more at the end.
SortedRuns(rows, size, order) ==
  [k \in 1 .. (Len(rows) + size - 1) \div size |->
     SortSeq(SubSeq(rows, (k - 1) * size + 1,
                    IF k * size < Len(rows) THEN k * size ELSE Len(rows)),
             LAMBDA r, s : Precedes(order, r, s))]

\* Of two runs the lesser head comes next, the first run's if they are equal.
MergedPair(s, t, order) ==
  LET from[i \in 1 .. Len(s) + 1, j \in 1 .. Len(t) + 1] ==
        IF i > Len(s) THEN SubSeq(t, j, Len(t))
        ELSE IF j > Len(t) THEN SubSeq(s, i, Len(s))
        ELSE IF Precedes(order, t[j], s[i]) THEN <<t[j]>> \o from[i, j + 1]
        ELSE <<s[i]>> \o from[i + 1, j]
  IN from[1, 1]

\* heapq.merge of sorted runs.
Merged(group, order) ==
  FoldLeft(LAMBDA s, t : MergedPair(s, t, order), <<>>, group)

\* One pass of _merge_runs: neighbours are merged FanIn at a time; a run left
\* alone is carried to the next pass as it is.
MergePass(current, order) ==
  [g \in 1 .. (Len(current) + FanIn - 1) \div FanIn |->
     Merged(SubSeq(current, (g - 1) * FanIn + 1,
                   IF g * FanIn < Len(current) THEN g * FanIn ELSE Len(current)), order)]

\* Passes go on until no more than enough runs are left.
Passes(paths, enough, order) ==
  LET after[n \in 0 .. Len(paths)] ==
        IF n = 0 THEN paths
        ELSE LET current == after[n - 1]
             IN IF Len(current) <= enough THEN current ELSE MergePass(current, order)
  IN after[Len(paths)]

\* _merge_runs streams the last merge, _collapse_runs leaves a single file.
MergeRuns(paths, order) == Merged(Passes(paths, FanIn, order), order)
Collapsed(paths, order) == Passes(paths, 1, order)[1]
=============================================================================
