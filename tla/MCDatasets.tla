------------------------------ MODULE MCDatasets ------------------------------
(* How a dataset becomes prepared data: its source is copied or downloaded,    *)
(* its split is planned, its preprocessor fitted, its shards are written, its  *)
(* artifacts published; and the metrics of a replay, which are drawn from rows *)
(* in the same way. The parts share no state in the code; each behaviour here  *)
(* is of one part, while the others stand still, so that one run checks all.   *)
EXTENDS SourceJournal, PreparedArtifacts, DownloadedArchive, TLC

CONSTANTS zip, csv, tree, v1, v2

OneTree == zip :> "file" @@ csv :> "file" @@ tree :> "directory"
TwoBlocks == <<1, 1>>
TwoLengths == v1 :> 2 @@ v2 :> 3

VARIABLES
  part,                                        \* the part of this behaviour
  remote, ranges, naming, partial, synced,
  finalSynced, call, troubles,                 \* Download
  request, phase, runs, held, membership,      \* SplitPlan
  build, stage, sorted, shards, manifest,      \* ShardContents
  state, audit, phaseRows, imputation,
  selected, benign, anova, moments,            \* PreprocessFit
  replayed, turn, chronological, episodes,
  tally, delays, output,                       \* OperationalMetrics
  raw, stat, preparing, edits, halved, leftover \* Preparation

copyVars == <<source, files, filesOnDisk, journal, journalOnDisk, run, changes>>
downloadVars == <<remote, pinned, ranges, naming, partial, synced,
                  final, finalSynced, call, cut, troubles, replaced>>
splitVars == <<request, phase, runs, held, membership>>
preparationVars == <<raw, stat, disk, durable, preparing, edits, halved, leftover>>
contentVars == <<build, stage, sorted, shards, manifest>>
fitVars == <<state, audit, phaseRows, imputation, selected, benign, anova, moments>>
metricVars == <<replayed, turn, chronological, episodes, tally, delays, output>>
rowVars == <<contentVars, fitVars, metricVars>>
all == <<part, vars, downloadVars, splitVars, preparationVars, rowVars>>

-------------------------------------------------------------------------------
(* The rows of the split: orders in which the first row comes first, among     *)
(* them a duplicate uid, a duplicate coordinate, no row and a row without time. *)

Row(uid, at, label, attack, device, time, priority) ==
  [uid |-> uid, at |-> at, label |-> label, attack |-> attack, device |-> device,
   time |-> time, priority |-> priority]
a == Row(1, 5, 0, 0, 1, 4, 2)
b == Row(2, 1, 0, 0, 2, 3, 1)
c == Row(3, 4, 1, 1, 2, 4, 3)
d == Row(4, 2, 1, 2, 1, 1, 2)
e == Row(5, 3, 1, 1, 1, 2, 1)
Injections(n) == {p \in [1 .. n -> 2 .. n + 1] : \A i, j \in 1 .. n : p[i] = p[j] => i = j}
Orders(rows) == {<<rows[1]>> \o [i \in 1 .. Len(rows) - 1 |-> rows[p[i]]] :
                   p \in Injections(Len(rows) - 1)}
FewRows == Orders(<<a, b, c, d, e>>) \cup Orders(<<e, d, c, b, a>>)
  \cup Orders(<<a, b, c, [a EXCEPT !.at = 6]>>) \cup Orders(<<[a EXCEPT !.uid = 6], d, a, b>>)
  \cup {<<>>, <<a, [d EXCEPT !.time = 0], e, c>>}
NoGroups == [devices |-> {}, attacks |-> {}]
Groups == {NoGroups, [devices |-> {2}, attacks |-> {1}]}

\* The rows of the shards: three of one bucket, from two files, in all orders, and
\* sources that do not fit the membership.
Stored(uid, file, sequence, label, attack) ==
  [uid |-> uid, file |-> file, sequence |-> sequence, split |-> 2, label |-> label,
   attack |-> attack]
Placed(uid, split, label) == [uid |-> uid, split |-> split, label |-> label]
f == Stored(1, 2, 1, 0, 0)
g == Stored(2, 1, 2, 0, 0)
h == Stored(3, 1, 1, 0, 0)
k == Stored(4, 2, 2, 0, 0)
l == Stored(5, 1, 3, 1, 1)
FewStored == Orders(<<f, g, h, k, l>>)
  \cup {<<>>, <<f, g, h, k>>, <<f, g, h, f, k, l>>, <<f, g, h, k, Stored(6, 1, 3, 1, 1)>>}
FewPlaced ==
  {<<Placed(1, 2, 0)>>,
   <<Placed(1, 2, 0), Placed(2, 2, 0), Placed(3, 2, 0), Placed(4, 1, 0), Placed(5, 1, 9)>>,
   <<Placed(1, 3, 0), Placed(2, 2, 0), Placed(3, 2, 0), Placed(4, 2, 0), Placed(5, 1, 1)>>}

\* The rows of the fit: one that somebody changes, one too many, one that lacks
\* its value, and two of one priority.
Fitted(uid, priority, label, value) ==
  [uid |-> uid, priority |-> priority, label |-> label, value |-> value]
FewFitted == {Fitted(1, 2, "benign", 1), Fitted(2, 1, "scan", 0), Fitted(2, 1, "scan", 2),
              Fitted(3, 1, "benign", 3), Fitted(4, 3, "scan", 1)}

\* A prediction, and four of them, the first of one device, the others of another:
\* in order of time, in another order, and with a time missing.
Prediction(device, attack, level, time, place) ==
  [source |-> 1, device |-> device, attack |-> attack, level |-> level, time |-> time,
   sequence |-> 5 - place, wall |-> TRUE, continuous |-> place # 3 \/ time # 4]
Outcomes == {<<TRUE, 1>>, <<TRUE, 2>>, <<TRUE, 3>>, <<FALSE, 1>>, <<FALSE, 3>>}
Times == {<<1, 2, 4, 8>>, <<8, 2, 1, 4>>, <<2, 0, 8, 4>>}
FewPredictions ==
  {<<Prediction(1, TRUE, 2, 1, 1)>>} \cup
  {[i \in 1 .. 4 |-> Prediction(IF i = 1 THEN 2 ELSE 1, outcomes[i][1], outcomes[i][2],
                                times[i], i)] :
     outcomes \in [1 .. 4 -> Outcomes], times \in Times}

D == INSTANCE Download WITH MaxTroubles <- MaxFaults, MaxReplaced <- 2
S == INSTANCE SplitPlan WITH
  Arrivals <- FewRows, RunSizes <- {1, 2}, FanIn <- 2, HeldOut <- Groups,
  Train <- 2, Validation <- 1, Whole <- 4, Benign <- 0, UnknownLike <- 9, NoTime <- 0
C == INSTANCE ShardContents WITH
  Arrivals <- FewStored, Memberships <- FewPlaced, RunSizes <- {1, 2}, TargetRows <- {1, 2},
  FanIn <- 2, HeldOutAttacks <- {1}, Splits <- {1, 2, 3}, Test <- 1, UnknownLike <- 9
F == INSTANCE PreprocessFit WITH
  Offered <- FewFitted, BatchRows <- 2, Expected <- 3, Capacity <- 2, Benign <- "benign",
  None <- 0
M == INSTANCE OperationalMetrics WITH
  FanIn <- 2, Predictions <- FewPredictions, RunRows <- {1}, NoTime <- 0
P == INSTANCE Preparation WITH
  Block <- {1, 2}, Version <- {1, 2}, MaxEdits <- 2, run <- preparing

ASSUME DatasetsAssumption ==
  /\ S!SplitAssumption /\ P!PreparationAssumption
  /\ C!ContentsAssumption /\ F!FitAssumption /\ M!MetricsAssumption

-------------------------------------------------------------------------------

\* A part that stands still is in one of its initial states.
NoCopy == Init /\ source = csv
NoDownload == D!DownloadInit /\ remote = v1 /\ pinned = Absent /\ ranges /\ naming = "same"
NoSplit ==
  /\ request = [rows |-> <<>>, strategy |-> "time", size |-> 1, configured |-> NoGroups]
  /\ S!Init
NoContents ==
  /\ build = [rows |-> <<>>, membership |-> <<Placed(1, 2, 0)>>, attacks |-> FALSE,
              size |-> 1, target |-> 1]
  /\ C!Init
NoMetrics ==
  /\ replayed = [rows |-> <<Prediction(1, TRUE, 2, 1, 1)>>, sequences |-> FALSE, size |-> 1]
  /\ M!Init

PartInit ==
  /\ part \in {"copy", "download", "split", "contents", "fit", "metrics", "preparation"}
  /\ IF part = "copy" THEN Init ELSE NoCopy
  /\ IF part = "download" THEN D!DownloadInit ELSE NoDownload
  /\ IF part = "split" THEN S!Init ELSE NoSplit
  /\ IF part = "contents" THEN C!Init ELSE NoContents
  /\ IF part = "metrics" THEN M!Init ELSE NoMetrics
  /\ F!Init /\ P!Init

\* Copies and preparation count the same faults.
Copying ==
  part = "copy" /\ UNCHANGED <<part, downloadVars, splitVars, rowVars, preparationVars>>
Downloading ==
  part = "download" /\ UNCHANGED <<part, vars, splitVars, rowVars, preparationVars>>
Splitting ==
  part = "split" /\ UNCHANGED <<part, vars, downloadVars, rowVars, preparationVars>>
Sharding ==
  /\ part = "contents"
  /\ UNCHANGED <<part, vars, downloadVars, splitVars, fitVars, metricVars, preparationVars>>
Fitting ==
  /\ part = "fit"
  /\ UNCHANGED <<part, vars, downloadVars, splitVars, contentVars, metricVars,
                 preparationVars>>
Measuring ==
  /\ part = "metrics"
  /\ UNCHANGED <<part, vars, downloadVars, splitVars, contentVars, fitVars, preparationVars>>
Preparing ==
  /\ part = "preparation"
  /\ UNCHANGED <<part, copyVars, downloadVars, splitVars, rowVars>>

PartNext ==
  \/ (Copying /\ Begin) \/ (Copying /\ EnsureDurable) \/ (Copying /\ Adopt)
  \/ (Copying /\ Refuse) \/ (Copying /\ TakeUp) \/ (Copying /\ Copy)
  \/ (Copying /\ FlushCandidate) \/ (Copying /\ WriteIntent)
  \/ (Copying /\ SyncIntent) \/ (Copying /\ Publish) \/ (Copying /\ SyncPublished)
  \/ (Copying /\ WriteCompleted) \/ (Copying /\ SyncCompleted)
  \/ (Copying /\ Finish) \/ (Copying /\ Crash) \/ (Copying /\ PowerLoss)
  \/ (Copying /\ ChangeSource) \/ (Downloading /\ D!Call)
  \/ (Downloading /\ D!Reuse) \/ (Downloading /\ D!Request)
  \/ (Downloading /\ D!Append206) \/ (Downloading /\ D!Restart200)
  \/ (Downloading /\ D!Unsatisfied416) \/ (Downloading /\ D!Receive)
  \/ (Downloading /\ D!EndBody) \/ (Downloading /\ D!Verify)
  \/ (Downloading /\ D!Link) \/ (Downloading /\ D!SyncName)
  \/ (Downloading /\ D!RetirePartial) \/ (Downloading /\ D!Return)
  \/ (Downloading /\ D!BadAnswer) \/ (Downloading /\ D!Kill)
  \/ (Downloading /\ D!LosePower) \/ (Downloading /\ D!ServeOther)
  \/ (Splitting /\ S!WriteInspectionRuns) \/ (Splitting /\ S!ValidateCoordinates)
  \/ (Splitting /\ S!InspectUidOrder) \/ (Splitting /\ S!PrepareStrategyRuns)
  \/ (Splitting /\ S!AssignStrategyRows) \/ (Splitting /\ S!WriteMembership)
  \/ (Splitting /\ S!Over) \/ (Sharding /\ C!WriteSourceRuns)
  \/ (Sharding /\ C!JoinMembership) \/ (Sharding /\ C!WriteStagedShards)
  \/ (Sharding /\ C!BuildManifest) \/ (Sharding /\ C!VerifyEntries)
  \/ (Sharding /\ C!VerifyUidCoverage) \/ (Sharding /\ C!Settled)
  \/ (\E batch \in F!Batches : Fitting /\ F!InspectBatch(batch))
  \/ (\E batch \in F!Batches : Fitting /\ F!AccumulateAnovaBatch(batch))
  \/ (\E batch \in F!Batches : Fitting /\ F!CalibrateSelectedBatch(batch))
  \/ (\E batch \in F!Batches : Fitting /\ F!ScienceFails(batch))
  \/ (Fitting /\ F!FinalizeImputation) \/ (Fitting /\ F!FinalizeSelection)
  \/ (Fitting /\ F!Finalize) \/ (Fitting /\ F!Refused)
  \/ (Measuring /\ M!SortPredictions) \/ (Measuring /\ M!ReplayRow)
  \/ (Measuring /\ M!Finalize) \/ (Measuring /\ M!RestoreStorageOrder)
  \/ (Measuring /\ M!Replayed) \/ (Preparing /\ P!Call) \/ (Preparing /\ P!Verify)
  \/ (Preparing /\ P!RefuseLeftover) \/ (Preparing /\ P!StartPass) \/ (Preparing /\ P!ReadBlock)
  \/ (Preparing /\ P!EndPass) \/ (Preparing /\ P!VerifyProof)
  \/ (Preparing /\ P!Link) \/ (Preparing /\ P!SyncDirectory)
  \/ (Preparing /\ P!Adopt) \/ (Preparing /\ P!VerifyShards)
  \/ (Preparing /\ P!ReplaceMembership) \/ (Preparing /\ P!ReplaceSplitManifest)
  \/ (Preparing /\ P!AdoptSplit) \/ (Preparing /\ P!RefuseSplit)
  \/ (Preparing /\ P!UndoSplitManifest) \/ (Preparing /\ P!UndoMembership)
  \/ (Preparing /\ P!SyncUndone) \/ (Preparing /\ P!Raise)
  \/ (Preparing /\ P!Kill) \/ (Preparing /\ P!PowerLoss)
  \/ (Preparing /\ P!EditRaw)

\* The fairness of each part is that of its own specification.
PartSpec ==
  /\ PartInit /\ [][PartNext]_all
  /\ WF_all(Copying /\ Advance)
  /\ WF_all(Downloading /\ D!Progress)
  /\ WF_all(Preparing /\ P!Step)

-------------------------------------------------------------------------------

\* What is made of rows in bounded memory, and published, is what a reference makes
\* of all rows at once, in whatever order, runs and batches they come: the split
\* with its quotas, the shards, the fitted preprocessor, the metrics of a replay.
\* A split is not made of rows that come twice.
RowsAreReference ==
  /\ part = "split" => S!MembershipIsReference /\ S!QuotasAreFair /\ S!DuplicatesRefused
  /\ part = "contents" => C!ShardsAreReference
  /\ part = "fit" => F!FitIsReference
  /\ part = "metrics" => M!MetricsAreReference

\* Preparation is refused only for the source, a half published split or, once all
\* else is published, what a call that was cut short has left of its shards; and shards
\* only for a source that does not fit its split, while they are built or verified.
RefusedForCause ==
  /\ part = "preparation" => P!RefusedForCause
  /\ part = "contents" => C!RejectedForMismatch

\* Once faults and changes have ended: a copy is acquired, a download ends, and
\* data gets prepared unless its source is bad, its split half published, or a call
\* that was cut short has left something of its shards that later calls refuse.
DataArrives ==
  /\ part = "copy" => AcquisitionFinishes
  /\ part = "download" => D!DownloadFinishes
  /\ part = "preparation" => P!PreparationFinishes
===============================================================================
