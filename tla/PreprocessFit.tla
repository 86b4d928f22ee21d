---------------------------- MODULE PreprocessFit ----------------------------
(* StreamingFeaturePreprocessor of out_of_core/preprocess.py with the sketches  *)
(* of out_of_core/quantiles.py: the preprocessor is fitted in three passes over *)
(* the training rows, batch by batch, in bounded memory. The rows of every pass *)
(* are recorded in an audit table, and a pass counts only if it brought the     *)
(* rows of the first. A batch that is refused changes nothing, and the caller   *)
(* may offer it again, or another one. A value is the column of a row, none     *)
(* when the observation is missing; statistics are the bag of the rows they     *)
(* were fed.                                                                    *)
EXTENDS Integers, FiniteSets, Bags, SequencesExt

CONSTANTS Offered,        \* rows that somebody offers: uid, priority, label, value
          BatchRows,      \* greatest length of a batch
          Expected,       \* expected_train_rows
          Capacity,       \* quantile_capacity
          Benign, None

FitAssumption ==
  /\ Expected \in Nat \ {0} /\ Capacity \in Nat \ {0} /\ BatchRows \in Nat \ {0}

Passes == {1, 2, 3}

VARIABLES
  state,        \* _state
  audit,        \* the rows of each pass in the audit table
  phaseRows,    \* _phase_rows
  imputation, selected, benign,   \* sketches
  anova, moments                  \* bags of the rows that were added
fitVars == <<state, audit, phaseRows, imputation, selected, benign, anova, moments>>

-------------------------------------------------------------------------------
(* PriorityRowSketch: the rows of least key, and counts of all rows.           *)

Below(r, s) == r.priority < s.priority \/ (r.priority = s.priority /\ r.uid < s.uid)
Least(n, rows) == {r \in rows : Cardinality({s \in rows : Below(s, r)}) < n}
Finite(rows) == Cardinality({r \in rows : r.value # None})

EmptySketch == [kept |-> {}, total |-> 0, finite |-> 0]

\* _retention_action and _apply_retention: the worst row makes place.
RetainedWith(kept, row) ==
  IF Cardinality(kept) < Capacity THEN kept \cup {row}
  ELSE LET worst == CHOOSE r \in kept : \A s \in kept : ~ Below(r, s)
       IN IF Below(row, worst) THEN (kept \ {worst}) \cup {row} ELSE kept

Update(sketch, row) ==
  IF row \in sketch.kept THEN sketch
  ELSE [kept |-> RetainedWith(sketch.kept, row), total |-> sketch.total + 1,
        finite |-> sketch.finite + Finite({row})]

\* Rows that both have kept are counted once.
MergedSketches(s, t) ==
  LET overlap == s.kept \cap t.kept
  IN [kept |-> Least(Capacity, s.kept \cup t.kept),
      total |-> s.total + t.total - Cardinality(overlap),
      finite |-> s.finite + t.finite - Finite(overlap)]

\* update_many of a new sketch, by way of a second one.
SketchOf(batch) == MergedSketches(EmptySketch, FoldLeft(Update, EmptySketch, batch))

-------------------------------------------------------------------------------
(* The builder.                                                                *)

RowsOf(batch) == {batch[i] : i \in DOMAIN batch}
UidsOf(rows) == {r.uid : r \in rows}

\* ClassSufficientStatistics and _MomentAccumulator: counts, means and squares are
\* functions of the bag of rows, and merging those of two bags is their union.
Fed(bag, batch) == bag (+) SetToBag(RowsOf(batch))

\* What _validate_batch lets through.
Batches == {b \in UNION {[1 .. n -> Offered] : n \in 1 .. BatchRows} :
              \A i, j \in DOMAIN b : i # j => b[i].uid # b[j].uid}

Init ==
  /\ state = "inspect"
  /\ audit = [p \in Passes |-> {}]
  /\ phaseRows = [p \in Passes |-> 0]
  /\ imputation = EmptySketch /\ selected = EmptySketch /\ benign = EmptySketch
  /\ anova = EmptyBag /\ moments = EmptyBag

\* The primary key of the table is the pass and the uid.
Insert(pass, batch) ==
  /\ UidsOf(audit[pass]) \cap UidsOf(RowsOf(batch)) = {}
  /\ audit' = [audit EXCEPT ![pass] = @ \cup RowsOf(batch)]

\* _commit_audited_batch, when the statistics follow the table.
Commit(pass, batch) ==
  /\ Insert(pass, batch)
  /\ phaseRows' = [phaseRows EXCEPT ![pass] = @ + Len(batch)]
  /\ UNCHANGED state

InspectBatch(batch) ==
  /\ state = "inspect"
  /\ Commit(1, batch)
  /\ imputation' = MergedSketches(imputation, SketchOf(batch))
  /\ UNCHANGED <<selected, benign, anova, moments>>

ActiveLabels == {r.label : r \in audit[1]}

AccumulateAnovaBatch(batch) ==
  /\ state = "anova"
  /\ {r.label : r \in RowsOf(batch)} \subseteq ActiveLabels
  /\ Commit(2, batch)
  /\ anova' = Fed(anova, batch)
  /\ UNCHANGED <<imputation, selected, benign, moments>>

CalibrateSelectedBatch(batch) ==
  /\ state = "calibration"
  /\ Commit(3, batch)
  /\ selected' = MergedSketches(selected, SketchOf(batch))
  /\ moments' = Fed(moments, batch)
  /\ benign' = MergedSketches(benign, SketchOf(SelectSeq(batch, LAMBDA r : r.label = Benign)))
  /\ UNCHANGED <<imputation, anova>>

PassOf == [inspect |-> 1, anova |-> 2, calibration |-> 3]

\* The statistics could not follow the table: the builder is of no more use.
ScienceFails(batch) ==
  /\ state \in DOMAIN PassOf
  /\ Insert(PassOf[state], batch)
  /\ state' = "failed"
  /\ UNCHANGED <<phaseRows, imputation, selected, benign, anova, moments>>

\* (a variant that trusts the comparison of the tables alone)
SameAsInspected(pass) == audit[pass] \ audit[1] = {}

\* _verify_phase. EXCEPT and UNION ALL of SQLite bind alike and to the left, so
\* the query yields rows of this pass that the first did not have, and no others.
Verified(pass) ==
  /\ phaseRows[pass] = Expected
  /\ ((audit[1] \ audit[pass]) \cup audit[pass]) \ audit[1] = {}

FinalizeImputation ==
  /\ state = "inspect"
  /\ phaseRows[1] = Expected
  /\ Cardinality(ActiveLabels) >= 2
  /\ imputation.finite > 0 /\ Finite(imputation.kept) > 0
  /\ state' = "anova"
  /\ UNCHANGED <<audit, phaseRows, imputation, selected, benign, anova, moments>>

FinalizeSelection ==
  /\ state = "anova"
  /\ Verified(2)
  /\ state' = "calibration"
  /\ UNCHANGED <<audit, phaseRows, imputation, selected, benign, anova, moments>>

\* The fitted preprocessor is there before the audit is removed; where that
\* fails, finalize may be called again and only removes it.
Finalize ==
  /\ \/ state = "calibration" /\ Verified(3) /\ benign.total > 0
     \/ state = "cleanup_pending"
  /\ state' \in {"finalized", "cleanup_pending"}
  /\ UNCHANGED <<audit, phaseRows, imputation, selected, benign, anova, moments>>

\* A batch or a call that is refused.
Refused == UNCHANGED fitVars

Next ==
  \/ \E b \in Batches : \/ InspectBatch(b) \/ AccumulateAnovaBatch(b)
                        \/ CalibrateSelectedBatch(b) \/ ScienceFails(b)
  \/ FinalizeImputation \/ FinalizeSelection \/ Finalize \/ Refused

Spec == Init /\ [][Next]_fitVars

-------------------------------------------------------------------------------

ReferenceSketch(rows) ==
  [kept |-> Least(Capacity, rows), total |-> Cardinality(rows), finite |-> Finite(rows)]

\* Whatever the batches and their order, the sketches are those of all rows at
\* once, and every pass that was left had the rows of the first, each once.
FitIsReference ==
  LET rows == audit[1]
      Fitted == state \in {"cleanup_pending", "finalized"}
  IN /\ state # "failed" => imputation = ReferenceSketch(rows)
     /\ state = "calibration" \/ Fitted => anova = SetToBag(rows)
     /\ Fitted => /\ selected = ReferenceSketch(rows)
                  /\ moments = SetToBag(rows)
                  /\ benign = ReferenceSketch({r \in rows : r.label = Benign})
==============================================================================
