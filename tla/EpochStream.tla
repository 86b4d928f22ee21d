------------------------------ MODULE EpochStream -------------------------------
(* Training epochs over Parquet shards (src/bitguard_bnn/out_of_core/dataset.py and *)
(* trainer.py): loader workers read chunks, the parent puts them back in order,     *)
(* mixes the classes and cuts batches, and fit_neural_streaming applies each batch  *)
(* once, with checkpoints from which a later process goes on.                       *)
EXTENDS Naturals, SequencesExt

CONSTANTS None,
          Shards,        \* sequence of [label, groups]: the rows of each row group
          BatchSize, BufferRows,
          EpochLimit, Patience, CheckpointInterval,
          WorkerCounts,  \* how many loader workers a process may be told to use
          MaxStops       \* bound on the processes killed or told to stop

VARIABLES
    score,       \* how good validation finds the model after each epoch
    workers,     \* the workers of this process; None when no process runs
    arrived,     \* the chunks of this epoch that its workers delivered
    ordered,     \* how many of them were put in order
    taken,       \* how many rows were taken from them
    epoch, next, \* the cursor: the epoch and the number of its next batch,
    step,        \* and the optimizer steps so far
    phase, seen,
    model,       \* the batches applied to the model
    rate,        \* the steps of the learning-rate scheduler
    history, best, stale,
    checkpoint,
    stops

stream == <<arrived, ordered, taken>>
fit == <<epoch, next, step, phase, seen, model, rate, history, best, stale>>
streamVars == <<score, workers, stream, fit, checkpoint, stops>>
---------------------------------------------------------------------------------
(* How many rows each batch of an epoch has (_BatchLayout): a last batch of one row *)
(* takes a row from the one before it.                                              *)
RowCount == FoldSeq(LAMBDA s, n : n + FoldSeq(+, 0, s.groups), 0, Shards)
Quotient == RowCount \div BatchSize
Remainder == RowCount % BatchSize
BatchCount == Quotient + (IF Remainder > 0 THEN 1 ELSE 0)

(* The layout refuses rows that only a batch of one row could hold.                 *)
ASSUME BatchAssumption ==
    /\ BatchSize \in Nat \ {0, 1} /\ BufferRows \in Nat \ {0} /\ EpochLimit \in Nat
    /\ RowCount \in Nat \ {0}
    /\ Remainder = 1 => Quotient > 0 /\ BatchSize > 2

StartAt(i) ==
    IF i = BatchCount THEN RowCount
    ELSE IF Remainder = 1 /\ Quotient > 0 /\ BatchSize > 2 /\ i = Quotient
         THEN Quotient * BatchSize - 1
         ELSE i * BatchSize

SizeAt(i) ==
    IF Remainder # 1 THEN IF i < Quotient THEN BatchSize ELSE Remainder
    ELSE IF i < Quotient - 1 THEN BatchSize
    ELSE IF i = Quotient - 1 THEN BatchSize - 1 ELSE 2

(* The seeded permutations: some fixed order for each epoch.                        *)
Permuted(s, e) == IF e % 2 = 0 THEN s ELSE Reverse(s)

Labels == {Shards[i].label : i \in DOMAIN Shards}
LabelOrder(e) == Permuted(SetToSortSeq(Labels, <), e)

(* The shards of an epoch: the classes take turns (permuted_shards).                *)
ShardsOf(l, e) == Permuted(SelectSeq([i \in DOMAIN Shards |-> i], LAMBDA i : Shards[i].label = l), e)
ShardOrder(e) ==
    LET turn(k) == FoldSeq(LAMBDA l, out : IF k <= Len(ShardsOf(l, e))
                                          THEN Append(out, ShardsOf(l, e)[k]) ELSE out,
                          <<>>, LabelOrder(e))
    IN FlattenSeq([k \in DOMAIN Shards |-> turn(k)])

(* A shard is read in chunks of whole row groups (_iter_row_group_chunks).          *)
ChunkRows ==
    LET largest == Max(UNION {ToSet(Shards[i].groups) : i \in DOMAIN Shards})
        share == BufferRows \div Cardinality(Labels)
    IN Max({largest, share})
ChunksOf(s) ==
    FoldLeft(LAMBDA cs, rows :
                IF cs # <<>> /\ Last(cs) + rows <= ChunkRows
                THEN Append(Front(cs), Last(cs) + rows) ELSE Append(cs, rows),
             <<>>, Shards[s].groups)

(* The rows of a chunk, in the order of the epoch.                                  *)
ReadChunk(s, k, e) ==
    LET before == FoldSeq(+, 0, SubSeq(ChunksOf(s), 1, k - 1))
    IN Permuted([r \in 1..ChunksOf(s)[k] |-> <<s, before + r>>], e)

(* The chunks of an epoch: one of each shard in turn (_scheduled_chunks).           *)
Schedule == [e \in 1..EpochLimit |->
    LET turn(k) == FoldLeft(LAMBDA out, s : IF k <= Len(ChunksOf(s))
                                            THEN Append(out, ReadChunk(s, k, e)) ELSE out,
                            <<>>, ShardOrder(e))
    IN FlattenSeq([k \in 1..RowCount |-> turn(k)])]

(* Each place of a window goes to the class furthest behind its share               *)
(* (_fair_mixing_order).                                                            *)
LabelOf(row) == Shards[row[1]].label
FairlyMixed(rows, e) ==
    LET of(l) == Permuted(SelectSeq(rows, LAMBDA r : LabelOf(r) = l), e)
        mixed[k \in 0..Len(rows)] ==
            IF k = 0 THEN [taken |-> [l \in Labels |-> 0], credit |-> [l \in Labels |-> 0], out |-> <<>>]
            ELSE LET m == mixed[k - 1]
                     available == SelectSeq(LabelOrder(e), LAMBDA l : m.taken[l] < Len(of(l)))
                     credit == [l \in Labels |-> m.credit[l] + Len(of(l))]
                     first == CHOOSE i \in DOMAIN available :
                                /\ \A j \in DOMAIN available : credit[available[j]] <= credit[available[i]]
                                /\ \A j \in 1..(i - 1) : credit[available[j]] < credit[available[i]]
                     l == available[first]
                 IN [taken |-> [m.taken EXCEPT ![l] = @ + 1],
                     credit |-> [x \in Labels |-> IF x = l THEN credit[x] - Len(rows)
                                                  ELSE IF m.taken[x] < Len(of(x)) THEN credit[x]
                                                  ELSE m.credit[x]],
                     out |-> Append(m.out, of(l)[m.taken[l] + 1])]
    IN mixed[Len(rows)].out

(* The windows that ordered chunks fill; the last one may still grow                *)
(* (_mixed_chunks).                                                                 *)
Windows(chunks) ==
    FoldLeft(LAMBDA ws, c : IF ws # <<>> /\ Len(Last(ws)) + Len(c) <= BufferRows
                            THEN Append(Front(ws), Last(ws) \o c) ELSE Append(ws, c),
             <<>>, chunks)
Mixed(chunks, complete, e) ==
    LET ws == Windows(chunks)
        full == IF complete \/ ws = <<>> THEN ws ELSE Front(ws)
    IN FlattenSeq([i \in DOMAIN full |-> FairlyMixed(full[i], e)])
---------------------------------------------------------------------------------
NoFit == [epoch |-> 1, next |-> 0, step |-> 0, phase |-> "training", seen |-> 0, model |-> <<>>,
          rate |-> 0, history |-> <<>>, best |-> 0, stale |-> 0]

Fit == [epoch |-> epoch, next |-> next, step |-> step, phase |-> phase, seen |-> seen,
        model |-> model, rate |-> rate, history |-> history, best |-> best, stale |-> stale]

Become(f) ==
    /\ epoch' = f.epoch /\ next' = f.next /\ step' = f.step /\ phase' = f.phase
    /\ seen' = f.seen /\ model' = f.model /\ rate' = f.rate
    /\ history' = f.history /\ best' = f.best /\ stale' = f.stale

StreamInit ==
    /\ score \in [1..EpochLimit -> 0..1]
    /\ workers = None /\ arrived = {} /\ ordered = 0 /\ taken = 0
    /\ epoch = 1 /\ next = 0 /\ step = 0 /\ phase = "training" /\ seen = 0
    /\ model = <<>> /\ rate = 0 /\ history = <<>> /\ best = 0 /\ stale = 0
    /\ checkpoint = NoFit /\ stops = 0

Active == workers # None
StopsEarly == history # <<>> /\ stale >= Patience
Fitting == Active /\ epoch <= EpochLimit /\ ~StopsEarly

(* The best epoch is the first with the highest score; staleness counts those since *)
(* (_replayed_best_state).                                                          *)
BestIs(h, first, since) ==
    IF h = <<>> THEN first = 0 /\ since = 0
    ELSE /\ first \in DOMAIN h /\ since = Len(h) - first
         /\ \A e \in DOMAIN h : /\ h[e].score <= h[first].score
                                /\ e < first => h[e].score < h[first].score

(* A checkpoint must agree with itself and with the layout of the epoch             *)
(* (_load_streaming_checkpoint, _validate_dataset_checkpoint_state).  The loader    *)
(* also compares versions, digests, the configuration and the shapes of tensors,    *)
(* which are constant in a training.                                                *)
Acceptable(c) ==
    /\ c.epoch = Len(c.history) + 1 /\ c.epoch <= EpochLimit + 1
    /\ c.phase = "epoch_boundary" =>
         c.next = 0 /\ c.seen = 0 /\ c.step = Len(c.history) * BatchCount
    /\ c.phase # "epoch_boundary" =>
         /\ c.seen > 0 /\ c.seen = StartAt(c.next)
         /\ c.step = Len(c.history) * BatchCount + c.next
    /\ c.phase = "validation" => c.next = BatchCount /\ c.seen = RowCount
    /\ c.rate = IF c.phase = "validation" THEN c.epoch ELSE c.epoch - 1
    /\ BestIs(c.history, c.best, c.stale)

(* A process starts, with the last checkpoint if there is one; the rows before its  *)
(* cursor are passed over (_resume_layout).                                         *)
StartProcess(w) ==
    /\ ~Active /\ (checkpoint = NoFit \/ Acceptable(checkpoint))
    /\ workers' = w /\ arrived' = {} /\ ordered' = 0
    /\ taken' = StartAt(checkpoint.next)
    /\ Become([checkpoint EXCEPT !.phase = IF @ = "epoch_boundary" THEN "training" ELSE @])
    /\ UNCHANGED <<score, checkpoint, stops>>

(* The chunks that workers read ahead; the loader that hands them over is external: *)
(* it may do so in any order within its prefetch window.                            *)
PrefetchWindow == IF workers = 0 THEN 1 ELSE 2 * workers
ChunkArrives ==
    /\ Fitting /\ phase = "training" /\ next < BatchCount
    /\ \E c \in (ordered + 1)..Len(Schedule[epoch]) :
         /\ c <= ordered + PrefetchWindow /\ c \notin arrived
         /\ arrived' = arrived \cup {c}
         /\ ordered' = Max({k \in 0..Len(Schedule[epoch]) : 1..k \subseteq arrived'})
    /\ UNCHANGED <<score, workers, taken, fit, checkpoint, stops>>

(* A variant of OrderedChunks that takes chunks as they arrive.                     *)
ChunksAsArrived == [i \in 1..Cardinality(arrived) |-> Schedule[epoch][SetToSortSeq(arrived, <)[i]]]

(* The chunks whose turn it is, and the rows they have given so far.                *)
OrderedChunks == SubSeq(Schedule[epoch], 1, ordered)
Rows == Mixed(OrderedChunks, ordered = Len(Schedule[epoch]), epoch)

(* A batch is applied, and the cursor moves to the next; a checkpoint is saved at   *)
(* every interval, and when the process is told to stop after this step.            *)
TrainBatch ==
    /\ Fitting /\ phase = "training" /\ next < BatchCount
    /\ Len(Rows) >= taken + SizeAt(next)
    /\ LET batch == SubSeq(Rows, taken + 1, taken + SizeAt(next))
           f == [Fit EXCEPT !.model = Append(@, batch), !.seen = @ + Len(batch),
                            !.next = @ + 1, !.step = @ + 1] IN
       /\ Become(f)
       /\ \/ /\ checkpoint' = IF step' % CheckpointInterval = 0 THEN f ELSE checkpoint
             /\ UNCHANGED <<workers, stops>>
          \/ /\ stops < MaxStops /\ stops' = stops + 1
             /\ checkpoint' = f /\ workers' = None
    /\ taken' = taken + SizeAt(next)
    /\ UNCHANGED <<score, arrived, ordered>>

(* A variant of EndEpoch that saves the checkpoint before the scheduler's step.     *)
EndEpochBeforeRate ==
    /\ Fitting /\ phase = "training" /\ next = BatchCount /\ seen = RowCount
    /\ Become([Fit EXCEPT !.rate = @ + 1, !.phase = "validation"])
    /\ checkpoint' = [Fit EXCEPT !.phase = "validation", !.next = BatchCount]
    /\ UNCHANGED <<score, workers, stream, stops>>

(* When every row was seen, the scheduler steps and validation is due.              *)
EndEpoch ==
    /\ Fitting /\ phase = "training" /\ next = BatchCount /\ seen = RowCount
    /\ LET f == [Fit EXCEPT !.rate = @ + 1, !.phase = "validation"] IN
       Become(f) /\ checkpoint' = f
    /\ UNCHANGED <<score, workers, stream, stops>>

Validate ==
    /\ Fitting /\ phase = "validation"
    /\ LET better == history = <<>> \/ score[epoch] > score[best]
           f == [Fit EXCEPT !.history = Append(@, [score |-> score[epoch], rate |-> rate]),
                            !.best = IF better THEN epoch ELSE @,
                            !.stale = IF better THEN 0 ELSE @ + 1,
                            !.epoch = @ + 1, !.next = 0, !.seen = 0, !.phase = "epoch_boundary"] IN
       Become([f EXCEPT !.phase = "training"]) /\ checkpoint' = f
    /\ arrived' = {} /\ ordered' = 0 /\ taken' = 0
    /\ UNCHANGED <<score, workers, stops>>

(* The process may be killed at any point; a checkpoint is replaced atomically.     *)
KillProcess ==
    /\ Active /\ stops < MaxStops
    /\ stops' = stops + 1 /\ workers' = None
    /\ UNCHANGED <<score, stream, fit, checkpoint>>

(* Training has ended, or its checkpoint is refused.                                *)
Ended ==
    /\ IF Active THEN ~Fitting ELSE ~(checkpoint = NoFit \/ Acceptable(checkpoint))
    /\ UNCHANGED streamVars

StreamNext ==
    \/ \E w \in WorkerCounts : StartProcess(w)
    \/ ChunkArrives \/ TrainBatch \/ EndEpoch \/ Validate \/ KillProcess \/ Ended

StreamSpec == StreamInit /\ [][StreamNext]_streamVars
---------------------------------------------------------------------------------
(* All rows, and the order in which one process with no workers gives those of an   *)
(* epoch.                                                                           *)
AllRows == UNION {{<<s, r>> : r \in 1..FoldSeq(+, 0, Shards[s].groups)} : s \in DOMAIN Shards}
RowsOf == [e \in 1..EpochLimit |-> Mixed(Schedule[e], TRUE, e)]

(* What an epoch's permutations and mixing are for, whatever the shards: every row  *)
(* is given once, and the chunks that are in order so far give a beginning of that. *)
MixesInOrder ==
    \A e \in 1..EpochLimit :
        /\ Schedule[e] \in Seq(Seq(AllRows))
        /\ RowsOf[e] \in Seq(AllRows) /\ Len(RowsOf[e]) = RowCount
        /\ IsInjective(RowsOf[e]) /\ Range(RowsOf[e]) = AllRows
        /\ \A k \in 0..Len(Schedule[e]) :
             LET given == Mixed(SubSeq(Schedule[e], 1, k), k = Len(Schedule[e]), e)
             IN given = SubSeq(RowsOf[e], 1, Len(given)) /\ Len(given) \in 0..RowCount

(* The batches of an epoch that such a process trains on.                           *)
EpochBatches == [e \in 1..EpochLimit |-> [i \in 1..BatchCount |->
    SubSeq(RowsOf[e], StartAt(i - 1) + 1, StartAt(i - 1) + SizeAt(i - 1))]]

(* However many workers there are, in whatever order their chunks arrive, and       *)
(* wherever processes are stopped, the model has been given the same batches, in    *)
(* the same order and at the same learning rates (iter_ordered_batches,             *)
(* fit_neural_streaming).                                                           *)
TrainsAsUninterrupted ==
    Active =>
        /\ Len(model) = step /\ step <= EpochLimit * BatchCount
        /\ \A e \in 1..EpochLimit, i \in 1..BatchCount :
             LET n == (e - 1) * BatchCount + i IN n <= step => model[n] = EpochBatches[e][i]
        /\ \A e \in DOMAIN history : history[e] = [score |-> score[e], rate |-> e]

(* A finished epoch has given every row exactly once, and no batch of a single row  *)
(* (_BatchLayout, _take_rows).                                                      *)
EveryRowOnce ==
    Active /\ phase = "validation" =>
        LET batch(i) == model[Len(model) - BatchCount + i]
            places == {p \in (1..BatchCount) \X (1..RowCount) : p[2] <= Len(batch(p[1]))}
            given == [p \in places |-> batch(p[1])[p[2]]]
        IN /\ IsInjective(given) /\ Range(given) = AllRows
           /\ \A i \in 1..BatchCount : Len(batch(i)) >= 2

(* A process can always go on from the last checkpoint.                             *)
ResumeAccepted == ~Active => checkpoint = NoFit \/ Acceptable(checkpoint)

(* An epoch is every row once, in batches of two rows at least, and a process can   *)
(* go on from the last checkpoint.                                                  *)
EpochIsWhole == EveryRowOnce /\ ResumeAccepted
================================================================================
