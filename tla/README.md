# BitGuard in TLA+

Models, model checks and proofs of the stateful part of BitGuard: the bootstrap
that turns raw IoT traffic archives into prepared data and trained runs, the
out-of-core pipeline underneath it, and the per-device state of the online
detector. The numerical part (models, losses, thresholds, plots) is not modelled.

Every definition is read off the source; `PROJECT.json` maps it to its lines.
Paths below are relative to `src/bitguard_bnn/` in the repository.

## 1. Inventory

| component | state | operations | what is hard |
|---|---|---|---|
| **writer lock** (`bootstrap/state.py`) | lock file with PID, host and nonce; quarantined files | acquire, recover a stale lock, discard a failed creation, release, restore | every file-system call and every probe of a PID races with other processes; crashes between them; reused PIDs; a truncated lock |
| **state store** (`bootstrap/state.py`) | `bootstrap-state.json`: a record per stage (signature, output digests) | complete, reusable, invalidate_from, persist | a write that fails before or after it is visible; records that no longer belong together |
| **bootstrap orchestrator** (`bootstrap/orchestrator.py`) | the artifacts, reports and journals of all stages, the preparation retry token | stage loop, reuse or run, restart, automatic recovery of lost prepared data | stopped anywhere, inputs changed and artifacts damaged between runs |
| **download** (`bootstrap/download.py`) | a partial file, a final name | request by range, receive, verify, link, retire | a remote file that changes under a resume, servers that ignore or refuse ranges, kills and power losses |
| **source journals** (`bootstrap/orchestrator.py`) | per dataset an intent/completed journal, a candidate, a final name | copy or adopt, flush, journal, publish, complete | crash and power loss between any two steps; what was flushed |
| **full-data preparation** (`out_of_core/prepare.py`, `source.py`) | immutable artifacts of a generation, a descriptor | read the pinned source in passes, prove each pass, publish, adopt, verify | a source that somebody edits; half published artifacts |
| **split planning** (`out_of_core/split.py`) | sorted runs, the membership | inspect, find duplicates, assign, publish | bounded memory: what decides a row lies in different runs |
| **preprocessing, quantiles** (`out_of_core/preprocess.py`, `quantiles.py`) | an audit database, counts, sketches | three passes over the rows, comparison of the passes | passes that saw different rows; sketches merged in any order |
| **shard writer** (`out_of_core/shard.py`) | output lock, journal with an anchor, work directory, private trash, shards, manifest | build, publish, verify, clean up, roll back, recover | a kill between any two calls of any of these, itself inside a recovery |
| **epoch stream, trainer** (`out_of_core/dataset.py`, `trainer.py`) | cursor, chunks of workers, checkpoint | order, batch, validate, resume | chunk arrival order, resuming exactly once |
| **train stage** (`bootstrap/orchestrator.py`, `out_of_core/run.py`) | `training.json`, the terminal-rejection index, run directories, checkpoints | keep, resume, refuse, reject, train, complete | reruns after kills, lost files, changed data, other devices |
| **calibration cache, validation routing** (`out_of_core/cache.py`, `calibrate.py`, `cascade.py`) | memory-mapped arrays, a journal, owners, router, temporal state | claim, commit, reopen, route, replay | torn pages, stale claims; the decision for a row depends on all rows before it |
| **evaluation and replay** (`out_of_core/evaluate.py`, `replay.py`) | predictions, metrics, transaction files; episodes and tallies | publish, recover; sort by time, count, restore the order | a publication cut anywhere, two processes at once; order and ties |
| **final report** (`bootstrap/orchestrator.py`) | a canonical report, fallbacks | write, reconcile, invalidate, fall back | writes that fail after being visible; runs that already gave up the lock |
| **temporal state** (`state.py`) | per device saturating counters, a clock, an LRU table | get, update, decay, suspicion, reset | saturation, remainders of intervals, late or missing times, eviction |
| **feature window** (`streaming.py`) | per device a window and its incremental statistics, LRU tables | update, expire, evict, reset | incremental decrements, every capacity limit, the window's edge |
| **extraction, inspection, manifests** (`bootstrap/extract.py`, `inspect.py`, `manifest.py`) | raw trees, manifests | extract, inspect | covered by the journals and the pipeline |
| in-memory training, RBC experiments, export, CLI, progress, cloud runners, scripts | none that lives across steps | | |

How they interact. The orchestrator holds the writer lock while it runs the
stages in `STAGE_ORDER` and writes the state store after each. Acquire downloads
or copies an archive into a candidate and publishes it through the source
journals, and so does extract. Shard calls the preparation, which plans the
split, fits the preprocessor and calls the shard writer, each time over the same
pinned source. Train opens the generation that validate verified and calls the
training run with a callback (`record_progress`) through which the run reports
its directory; the run streams epochs from the shards, calibrates through the
cache, whose routing phase drives the cascade router and its temporal state, and
evaluates. The final report is written after the lock was released.
`streaming.py` and `state.py` share the same LRU discipline.

What makes each correct:

* lock: at most one owner; nobody deletes the file of a live owner; a lock
  without metadata fails closed. The first fails (section 5), and what holds is
  that it takes a recoverer that moves aside another lock than it had read.
* ledger and pipeline: records form a prefix and tell one story; a finished run
  hands over data made from its inputs, whatever was left on disk; nothing is
  overwritten; lost data is rebuilt.
* download and journals: what is published is one whole version; a journal never
  claims what is not on disk; done means durable.
* preparation: artifacts are made from the source the manifest names; what is
  computed in bounded memory is what a reference computes of all rows; a call is
  refused only because of the source, a half published split, or what a call that
  was cut short has left of its shards.
* shard writer: readers see nothing or every shard; a call that returns leaves
  nothing behind but what crashed verifications left in their trash; its own
  interrupted work is a reason to refuse in the states of section 5 only.
* epochs: every row once; stopping and resuming changes nothing.
* train stage: completed means completed on the data in force; resuming takes
  the newest checkpoint; a rejection is terminal; rerunning finishes.
* routing: the outputs are those of an uninterrupted pass; the cache is not
  refused for what the code's own crashes leave.
* results: predictions and metrics appear together and stay; a caller that was
  told a result keeps it, if its commit intent was flushed.
* final report: no failure is told or reported next to a visible success of the
  same run; a run leaves the reports of others alone.
* temporal state and window: counters in range, time counted once, statistics
  equal to a recomputation, eviction by recency.

## 2. Modules

| module | models | state and actions in the code |
|---|---|---|
| `WriterLock` | `BootstrapWriterLock` | `pc[p]` is the place in `acquire`/`release`; `lockPath` and `aside` are directory entries, `writer` and `complete` what the file says. One action per file-system call and one per probe of a PID; `Crash` and `ReusePid` are the environment. |
| `WriterLockHistory` | the lock with its past | history variables: `recovered`, who has found a lock stale; `late`, whether such a lock was then no longer the one at the path; `mistaken`, whether a recoverer has moved aside another lock than it had read. |
| `StageLedger` | what readers of the state file rely on | abstract: `recorded` is a prefix of the stages. Nothing in the code checks it: `_validate_payload` knows the stages but accepts gaps. |
| `BootstrapPipeline` | `run_bootstrap --prepare-only`, the state store, preparation as generations | `ledger` is the state file, `run` the local variables of the stage loop, `report`, `acquired`, `raw`, `manifest`, `shards`, `descriptor` the artifacts by provenance: what they were made from, absent or damaged. |
| `Download` | `download_file` | `partial`/`final` are files as prefixes of versions, `synced`/`finalSynced` what of them a power loss leaves; `call` is the local state of a call; `remote`, `ranges` the server. |
| `DownloadedArchive` | what a download leaves under the archive's name, and what must be true of it | `final` and `pinned`, by themselves so that `MCDatasets` can share them. |
| `SourceJournal` | `run_acquire`, `run_extract` and their journals | `files`/`journal` are what a process sees, `filesOnDisk`/`journalOnDisk` what a power loss leaves at worst; a flush copies one to the other. |
| `Preparation` | `prepare_full_dataset`, `verify_prepared_dataset`, the publication of the split | `raw` and `stat` are the source, `disk`/`durable` the artifacts by the rows they were made of, `run` the call with the blocks its current pass has read; `leftover` stands for whatever the shard writer has left that it will itself refuse. |
| `PreparedArtifacts` | what a preparation leaves on disk, and what must be true of it | the source, the artifacts and the properties of `Preparation`, by themselves so that `MCDatasets` can share them. |
| `SplitPlan` | `build_split_plan` | `phase` names the function that comes next, `runs` the sorted runs on disk. |
| `ShardContents` | `write_parquet_shards` and `verify_shard_manifest`, as to rows | `stage` names the function that comes next; `shards` are rows with what the manifest claims of them. |
| `ExternalSort` | the writing of sorted runs, `_merge_runs` and `_collapse_runs` in `split.py`, `shard.py` and `replay.py` | operators; an order is the sequence of fields it compares. |
| `PreprocessFit` | `StreamingFeaturePreprocessor` | one action per batch and pass, and one per `finalize_*`; `phaseRows` is the audit database. |
| `OperationalMetrics` | the replay of predictions | `chronological` are the sorted rows, `episodes`, `tally` and `delays` the tables. |
| `ShardTransaction` | `write_parquet_shards` with its recovery | `fs` and `trash` are the entries there are, `jrn` the journal, `anc` its anchor, `debt` and `intent` the write-ahead records of a removal, `mode` who called: build, exception handler or recovery; `discarded` counts the directories in the trash of the verifications, of which no call removes what a crash has left. One action per file-system call or journal write. |
| `ShardJournal` | `_replace_shard_transaction`, `_write_lock_anchor` | two slots and a journal that is rewritten in place, each with what is on disk. |
| `AtomicRegister` | what they promise | abstract: a save happens or does not. |
| `ShardLock` | creation and locking of the output lock | `place` says where each file is, `bytes` what is in it, `flock` who holds it; `alone` and `movedBack` are history variables. |
| `AtomicPublication` | what shards and results promise a reader | abstract: nothing, then everything, for good. |
| `EpochStream` | `fit_neural_streaming` and `iter_ordered_batches` | `fit` is the local state of a process, with the chunks that have arrived and the batches the model has seen; `checkpoint` the file. |
| `TrainingStage` | `run_train` over many invocations | `report` is `training.json`, `index` the rejection index, `runs` the run directories, `inv` the local variables of an invocation. |
| `LruOrder` | the bounded `OrderedDict` | operators on sequences. |
| `TemporalMachine` | `TemporalSecurityStateMachine` as operators on a value | `Get`, `Update`, `Suspicion`, decay. |
| `TemporalReplay` | the life of one machine | rows, suspicion queries, resets; `heard` is a history variable. |
| `CascadeRouting` | `route_validation_cache`, `CascadeStreamRouter`, the routing phase of `CalibrationCache` | extends `TemporalMachine`: `router` is a machine; `cache`/`stored` and `journal` are the two views of the files. |
| `ResultTransaction` | publication of evaluations and replays | `now`/`disk` are the directory and what a power loss leaves of it, `work` the private directory, `removed` the one whose removal was last begun (nothing flushes it, so that a power loss takes any part of it back), `lock` the lock file, `call[p]` the place of each process. |
| `ResultArtifacts` | the results on disk, and what must be true of them | `disk` and `since` are the directories that a power loss may leave, `answered` what a caller was told and `unbacked` a history variable. |
| `ReportPublication` | `persist_report` and `_invalidate_published_json` | `target[r]` walks the canonical path and the fallbacks; `told[r]` is what the caller gets. |
| `StreamWindow` | `MicroSecurityFeatureProcessor` | `windows[d]` has the incremental fields; three of the code's counters that are updated alike stand for the others. |
| `*_proofs` | theorems about the module named | |
| `MC*` | instances for TLC | |

Composition. `BootstrapPipeline` implements `StageLedger`, `ShardJournal`
implements `AtomicRegister`, and `ShardTransaction` and `ResultTransaction`
implement `AtomicPublication` (`INSTANCE` with the abstract variable replaced by
an expression). `CascadeRouting` and `TemporalReplay` extend `TemporalMachine`,
which with `StreamWindow` uses `LruOrder`; `SplitPlan`, `ShardContents` and
`OperationalMetrics` extend `ExternalSort`. The other modules take each other's
results as atomic steps, and the modules below justify that: the pipeline takes
from the lock that runs exclude each other and from the journals and the
preparation that a publication is one step; the preparation takes the shards as
one step from `ShardTransaction`, and their rows from `ShardContents`;
`ShardTransaction` takes a save of its journal as one step from `ShardJournal`
and its caller as alone from `ShardLock` (until a lock is moved back, see section
5); `TrainingStage` takes an epoch as one
step from `EpochStream`.

Sum modules. Components that share no state are checked in one run: in
`MCDatasets`, `MCResults`, `MCShards` and `MCStreams` the initial state chooses a
`part`, only this part moves, and the others stand still in an initial state of
theirs. A behaviour is thus a behaviour of one component, with its own constants
and fairness, and a property is that of the component whose turn it is.

Operators whose comment starts with "a variant" are not part of the model. Each
is a plausible bug in the definition that follows it, kept to see that the
properties notice it.

## 3. Runs

| run | question | bounds, and why they are enough |
|---|---|---|
| `writer_lock` | does anybody delete a live lock, or a truncated one; does the lock exclude until a recoverer moves aside another lock than it had read, and what does that take? | three processes that may recover, three lock files: one owner, one that has read an old lock, one that creates in between; every process may die, be reused and come back |
| `lock_exclusion` | does it exclude in general? **violated** | as the first |
| `pipeline` | is the outcome current, and does lost data heal? | two sources of one size, two environments, two configurations; two faults (damages, stops, failed writes, restarts) and two changes of input: a fault of recovery on top of the fault it recovers from; two retry tokens |
| `datasets`, part copy | is the journal true, is done durable, does it finish? | three sources (two files, one tree), three faults, three changes: a source replaced, replaced again and put back |
| part download | is what is published one whole version, does it end? | versions of two and three blocks, so that a range can lie beyond the end of the other; with and without pin and range support |
| parts split, contents, metrics | is what is sorted and cut in bounded memory what a reference says? | five rows in all orders, runs of one and two rows, merges of two, so that there are two passes; four predictions of two devices, in order, out of order and with a missing time |
| part fit | is a fit made of one set of rows, and the reference's? | four rows and a changed one, three passes in batches of two in any order, sketches of two |
| part preparation | are artifacts and descriptor true and backed, is a call refused only over the source, half a split or leftovers of the shards, does it end? | two blocks in two versions, two edits, two faults: a kill in the recovery from a kill |
| `split_publication` | is a killed call resumed? **violated** | one kill |
| `shards`, part journal | is the journal an atomic register that is always accepted? | three values, three saves, three kills or power losses |
| part transaction | do readers see all or nothing, is the output clean but for the trash of verifications, is the writer refused over its own work, do calls end? | two shards in two directories, two calls, two crashes, one exception: a crash may cut the recovery from the crash or exception before it, and a candidate build meets what is published |
| part lock | do builders exclude each other, is a lone one refused, as long as no lock is moved back? | two processes, three calls, one kill |
| `shard_rollback` | is a rollback resumable? **violated** | as the transaction |
| `streams`, part epochs | is a resumed training the uninterrupted one, is an epoch whole? | two classes of three and four rows, batches of three, a buffer of four: neither is filled evenly; three epochs, none to two workers, two stops |
| part windows | do incremental statistics stay right at every limit? | three devices in a table of two, windows of three events and one tick, two of three destinations remembered, two ticks to a second: each limit is hit and left |
| part machine | is time counted once, does suspicion end? | times up to 8 with intervals of 3, so that there are remainders; two evictions |
| `results`, part routing | are resumed outputs those of one pass, is the cache accepted, does it end? | three rows out of three kinds, chunks of two, room for one device, so that batches are uneven and every other device evicts; two crashes or power losses |
| part results | do results appear together and stay, is a call refused only over a torn directory, do calls succeed? | two processes, two artifacts, two kills or power losses |
| part reports | do the reports of runs that prepare contradict each other? | two runs, two fallbacks; every write may fail |
| `report_of_training` | and of a run that trains? **violated** | one run |
| `training_reruns` | is what is reported completed so, is training resumed from the newest checkpoint, is a rejection final, does it finish? | two datasets, two devices, two epochs, two faults and one change: a kill and a lost file, or an error while handling one |
| `training_checkpoint` | does an error always keep the checkpoint? **violated** | one device, nothing lost, only errors |

The numbers that bound the state spaces are constants with `Max` or `Last` in
their names, and `RowCount`, `EpochLimit`, `Fallbacks`, `Lock` and the sets of rows
the sum modules name. The proofs hold for every value of them.

Symmetry is used only where no property is a liveness property. Deadlock is
checked unless the system may stop: when all reports are published, and when the
train stage is done and no fault is left. Modules of calls end in a step that
does nothing (`Stopped`, `Over`, `Settled`), so that a call that hangs would show.

**Fairness.** Weak fairness of the steps of a run or call: a started process goes
on unless it is killed; in `ResultTransaction` for each process separately. Weak
fairness of starting: the operator gives the command again, as the recovery
instructions of the repository ask. Faults, edits and changes are never fair and
are bounded, so that "the command is repeated after the last of them" is what the
liveness properties say. In `pipeline`, `BegunSpec` is the fair specification
with one of the two interchangeable sources, configurations and environments to
begin with.

Each liveness property names the states the code leaves for good: a publication
that the journal has forgotten, a download that the server or a wrong pin spoils,
a source that is not the manifest's, a half published split and leftovers of the
shards that the shard writer refuses (`DataArrives`),
lost data without a shard record (`LostDataHeals`), a torn work directory
(`ResultsArrive`), a rejected dataset or an index that cannot be trusted
(`TrainingFinishes`). `CallsEnd` only says that shard calls return or raise.

## 4. Proofs

Eight modules hold theorems, checked by TLAPS for every value of the constants
that the named assumptions allow. Most assumptions only keep the sentinels apart
from real values (`NoLockAssumption`, `RunAssumption`, `ResultAssumption`) or say
that bounds and lengths are natural numbers. The others are said below.

* `WriterLock_proofs`: `HeldLockSurvives` follows from `Custody`: an owner wrote
  the file it expects, and while it writes or holds it that file still has a
  name. Exclusion needs `PathIsOwned`: the path names the file of whoever owns.
  It is inductive only as long as no recoverer has moved aside another lock than
  it had read, and `HistoryOK` claims it that long. `ExcludesUntilOneMistake` adds
  what the mistake takes, for processes that may all recover: a second process
  that has found a lock stale, or a lock that was no longer at the path when its
  PID was probed. The lemma behind it is `StepKeepsRead`: a single recoverer whose
  lock was at the path when it found it stale still finds it there, since nobody
  else moves the lock of a dead process. `LoneRecovererExcludes` is the same with
  one recoverer by assumption, which leaves only the late probe.
  The run `lock_exclusion` shows that the condition is needed. `TruncatedLockStaysForever` is about one file: no
  owner and nobody who verifies expects it, so none of the renames, links and
  removals takes its last name away.
* `WriterLock_proofs`, about the lock of a shard output: a publisher that finds its
  own file changed after the rename moves the lock back to its private name while
  another builder may hold it, and from then on nothing is sure (section 5). For
  any number of builders, calls and kills `LockExcludesUntilMovedBack` proves
  `SoundUntilMovedBack`: before that first happens, they exclude each other, the
  holder finds its lock under its name, and a call that nobody else is awake in is
  refused only over an initializer that a kill left empty. The
  invariant ties what is in a file to where it is and to who is making it
  (`Contents`), the kernel's locks to the places of their processes (`Flocks`),
  and says that only the file with the lock's name has been written to or records a
  retirement, and that its record is about a file that is where it says (`Kept`).
  `AloneFinds` is what a call in which nobody else is awake relies on: there is no lock
  of another while it publishes, and its listing stays true. The assumption is
  that no process is the sentinel.
* `BootstrapPipeline_proofs`: type correctness needs `EnvironmentReady` (the
  report that a run reads its environment from is its own). `LedgerOrder` gives
  the refinement of `StageLedger`, and that there are no gaps (`NoGaps`), which
  nothing in the code checks and the order of its stage loop ensures. `RecordsAgree` is not inductive: it needs
  that signatures name the source and that an active run agrees with the records
  of the stages before it (`RunAgrees`). `NothingOverwritten` needs that the
  generation about to be published has no descriptor (`PublishesOnce`).
  `PreparedIsCurrent` and `RerunReusesAll` are both read off `PassedCurrent` at the
  end of a run: a run that nobody interfered with could reuse every stage it has
  passed, and what it validated still verifies.
* `SourceJournal_proofs`: the invariant says for each step what the two views of
  the disk have in common (`StepKnows`), and that whatever version of the journal
  survives is backed by both views of the files (`AnyLossHolds`). The same module
  proves `PublishedIsOneVersion` of `Download`, from `DownloadAssumption` (versions
  are not empty, the sentinel is none), which `MCDatasets` evaluates. What a pin
  promises and what the server's constancy promises are separate: with a pin, what
  was verified is the pinned version whatever the partial file held before
  (`PinHolds`); without one, as long as nothing was replaced and no body was cut
  off unnoticed, the partial file is a beginning of the version that is served, and
  the place in a body is the end of the file (`ServedWhole`).
* `Preparation_proofs`: the theorems assume `PreparationAssumption` (the
  manifest is one of the versions of the source, the sentinel is none), which
  `MCDatasets` evaluates. The invariant has three parts: `SourceKnown`, what a
  pass has read and whether it was proved to be what the manifest names;
  `InOrder`, which artifacts are there, and durable, at each step;
  `DescriptorIsLast`, that a descriptor stands on durable artifacts and after it
  nothing is published or taken back. `PublishedIsTrue` follows for
  every artifact, since none is published before its pass was proved. For
  `RefusalsHaveCause`, `HalfForCause` says that half a split is the work of a call
  that is still between its two names, or of a crash there, and `BlockedForCause`
  that the shards stand in the way only where something is left of them and
  everything before them is published.
* `Results_proofs`, about the report: `Story(r)` says where the reports of a run can be
  when it is at a target: a visible success is its only report, and nobody is told
  a failure beside it. `ReportsAgree` and
  `ToldTheTruth` need that runs end as `sources_verified`, `prepared` or `failed`,
  a hypothesis of the two theorems; the run `report_of_training` shows why.
* `Results_proofs`, about routing: for any rows, order and batch sizes and any
  number of kills and power losses, `RoutingSurvivesFaults` proves
  `RoutedAsUninterrupted`. `Uninterrupted`, `RouteBatch` and `ReplayBatch` are
  recursive functions, about which a proof has to induct: `UpTo` is induction up
  to a bound for a set of numbers, got from the library's theorem that the natural
  numbers are well-founded. With it a function that satisfies the recursion is
  shown to exist, and to be what the definition denotes (`PassIs`); a batch that
  starts where the pass is goes on like it (`BatchFollowsPass`), and so does a
  replay of what the pass has put out (`ReplayFollowsPass`). The invariant says that
  both versions of the journal are the pass up to a row (`JournalFollows`), that
  both views of the arrays hold it that far (`ArraysBack`) and what a run has in
  memory at each place (`RunKnows`). That no batch is refused over a stale claim is
  there: a row of the cache is owned by the one ordinal that the order gives it, and
  a run owns none beyond its own batch. The layout of the temporal machine, at most
  `MaxDevices` different devices with counters in range, is kept by every
  row (`UpdateKeeps`, `TouchIs`).
* `Results_proofs`, about the temporal counters: `CountersFollowTheClock` proves
  `CountersAreRight` for any rows, in any order of times, with evictions and resets
  between them. What has to be stronger to be inductive is said by `Tracks`, for one
  device: its time is a whole number of intervals after its first timestamp, which
  `WholeIntervals` and `MultipleOf` turn into the division and the remainder of the
  property; and a counter of an attack is zero or leaves room below `Top` for the
  decay of all quiet rows since, of which "cleared after enough of them" is the end.
  A row without evidence takes its decay whatever its time is (`RowWearsOff`), and an
  evicted device starts over with its history (`DeviceKeeps`).
* `TrainingStage_proofs`: `TypeOK` already says that the locators of every status
  lead to the right run. On top of it: the marks an invocation holds are those of
  the index, a restart reads no statuses, no marked dataset is trained
  (`MarksKnown`), and the datasets before the current one have completed runs on
  their prepared data (`DoneSoFar`). From these follow `CompletedIsTrue` and
  `RejectionStands`. `ResumesNewest` needs `NewestKnown`: no run of the
  dataset is newer than the one an open status names, wherever the status is kept,
  and none between that run and the one it resumed has a checkpoint left; a
  run resumes one of its own dataset and descriptor (`Linked`).
* `TrainingStage_proofs`, about `EpochStream`, for any number of rows, epochs,
  workers and stops. `CursorInv` says that the epoch, the number of the next batch,
  the step, the rows seen, the steps of the scheduler and the history agree, in the
  checkpoint and in the process, and that the best epoch and the count of stale
  ones, kept up to date epoch by epoch, are those of the history (`BestAfter`): what the loader checks is then a consequence, and
  `ResumesFromCheckpoint` needs nothing else. `Layout` and its neighbours are the
  arithmetic of `_BatchLayout`: batches follow each other without a gap to the last
  row, and none has a single row even when one would remain. `GivenInv` adds that
  a model was given the batches of the reference up to its cursor. The two results
  on the order of rows assume `MixesInOrder`: an epoch's mixing gives every row
  once, and given the first chunks it gives a beginning of what it gives in the
  end. That is induction over folds and sorts of the rows of all shards, see below;
  `MCStreams` evaluates it for its shards before the run. All the rest (workers,
  arrivals, checkpoints, kills) is proved.
* `ShardWriter_proofs`, about the journal: the invariant says, for each step of a
  save and for both views of the disk, which slots can be whole and which journal
  belongs to them. From it follow that every process that starts accepts what it
  finds (`NeverRefused`) and, with `AtomicRegister` told the newest whole anchor,
  the refinement.
* `ShardWriter_proofs`, about the transaction, for any number of shards,
  directories, crashes, exceptions and calls. `ShownInv` ties the place of the
  build, the state that the journal records, the phases of the anchor and the open
  intents to each other. It is enough for the types and for the refinement of
  `AtomicPublication`: a build gets to its manifest only over all shards
  (`AllStaged`), nothing is rolled back once the manifest has its name
  (`RollsBackUnseen`), and no retirement is ever about the manifest
  (`ManifestStays`). `TidyInv` relies on it and accounts for every entry: `Disk`
  says what there can be of the output, the work directory, the private files
  and the trash, given the records; `Places` says what is gone or there at each
  place of a build, a rollback and a recovery. At the return of a call it leaves
  nothing but the output (`CleanReturn`) and, in the trash of the verifications, at
  most one directory per crash: `TrashCounted` counts them. Every check of recovery but those of
  `CutShort` is a consequence of it, hence `RefusesOnlyCutShort`: the recorded
  progress of a cleanup is what is left of the work directory (`ProgressHolds` in
  `InventoryKnown`), the published shards are an initial segment (`ShardsKnown`),
  the directories a prefix of the recorded ones less those unmade
  (`DirectoriesKnown`), and the commit is settled before recovery goes on
  (`AtCommit`). That the cleanup always finds a deepest entry left
  (`DeepestThere`) and a rollback a last shard (`Greatest`) is the library's
  theorem that the natural numbers are well-founded, in the form that takes no
  operator.
* `ResultTransaction_proofs`: whoever is past the lock holds it (`Excluded`);
  every directory that a power loss may leave is one that recovery can finish or
  discard (`AllGood`), and all those that come after a flushed commit intent keep
  it and what it published (`Forward`); at each step of a call the directory is
  as the code expects (`InOrder`); what was answered is what the flushed intent
  names (`AnswerOnDisk`). `AllGood` and `Forward` speak of every unflushed
  directory at once, so a power loss is no special case. In the
  refinement of `AtomicPublication` every step then stutters except the one that
  brings the last artifact's name to the disk, by a flush or by a power loss.
  `TornForCause` says that only a removal that was interrupted, or that a power
  loss has taken back in part, leaves a work directory without its marker.

**An answer without a flush.** The first attempt to prove that an answered result
is kept failed, for a reason that no run showed. `_recover_transaction`
(`evaluate.py:544-584`) takes the names and the journal it finds for durable: an
artifact that already has its final name is not flushed again, and a journal that
is already committed is answered from as it is. Calls that are each interrupted
between a change and its flush (a directory flush that keeps raising is enough)
thus get past every change, and the last one answers although the disk still
holds the journal of a build: a power loss then loses the result. This takes a
fault for the commit intent, one for every artifact and one for the commit:
`UnbackedTakesFaults` proves that no fewer do, so the run, with two artifacts and
two faults, is far below. `unbacked` remembers that it happened, and `ToldIsKept` says
what the code owes in all other cases. No document promises more.

Only model-checked, and why:

* liveness (`LostDataHeals`, `DataArrives`, `ResultsArrive`, `TrainingFinishes`,
  `CallsEnd`): fairness and ENABLED are beyond the prover;
* comparisons with a recursive reference or a fold (`RowsAreReference`,
  `WindowsAreRight`) and `MixesInOrder`: they sort, fold or count, and the induction
  that routing needs (`UpTo`) is not enough for what the community modules'
  operators compute;
* `OnlyStaleOrSurplusLeaves`, which rests on the same windows.

## 5. What the runs found

1. **Two processes can own the data root** (`lock_exclusion`). A recoverer reads
   the lock of a live owner (`state.py:809`); before it probes the PID (813, 880)
   the owner releases the lock and exits, and another process creates its own; the
   probe finds the owner gone, and the recoverer moves aside what the path names
   by now (926), a live lock; before it puts it back a third process creates one. A single
   recovery is enough; with two recoverers the owner need not even release, it is enough
   that the lock was stale for both. The design document promises exclusion
   (`docs/superpowers/specs/2026-07-14-full-dataset-bootstrap-design.md:147`).
2. **A failed run that trained can leave a report of success**
   (`report_of_training`). The check before a fallback knows the statuses
   `sources_verified` and `prepared`, not `completed` (`orchestrator.py:2841`).
3. **An early error forgets the checkpoint** (`training_checkpoint`). An error
   before the new run directory exists replaces a status with locators by one
   without; the next ordinary run trains from nothing. The repository's README
   (line 244) says that the checkpoint is reopened.
4. **A rollback that is killed at one point blocks the output for good**
   (`shard_rollback`). On POSIX a published shard is unlinked before the journal
   says that it is gone; a kill in between leaves a state that every later call
   refuses (`shard.py:4324`). The test named
   `test_public_artifact_rollback_is_itself_crash_resumable` stops a process
   exactly there and expects the next one to succeed, which holds on Windows.
5. **A kill between membership and split manifest blocks the preparation for
   good** (`split_publication`). Only an exception takes the membership back
   (`split.py:1241-1274`); a kill leaves half of an "incomplete immutable split
   output", which every later call refuses, and no retry token is rotated for it.
   The design document asks that interrupted commands resume (`:189`, `:198`).

Other states that the model reaches and in which the code refuses for good are
listed in the properties that allow them, so that nothing else can hide behind
them:

* `RefusesOnlyCutShort` (`ShardTransaction`). A staged shard that the cleanup
  after a rollback has removed when the process is killed ("published shard is
  missing", `shard.py:4084`); a manifest that was published while the work
  directory was still there ("completed transaction owns private work", 4506); an
  entry in the trash that no record names; the scratch directory of a
  verification that was killed (`stale_work`, 6126). `NotAnchored` are refusals by
  design: something exists whose identity was not yet written down.
* `RefusedForCause` (`Preparation`) calls them `leftover` (`BlockedForCause`): seen
  from `prepare_full_dataset`, all of these make every later call raise, and so
  does a verification that was killed under a finished preparation. No retry token
  is rotated for them. `KilledCallsAreResumed`, the claim of item 5, fails over
  them as well; the trace TLC reports first is the shorter one of the split.
* Not refused, but never removed: a verification ends by moving its work into the
  trash of the verifications and then removes it (`shard.py:6084`, 6110). A kill in
  between leaves a directory there that no later call looks at (`CleanReturn`).
* `SoundUntilMovedBack` (`ShardLock`): an initializer that a kill left empty
  (`shard.py:1457`), and everything after a publisher has moved a live lock back to
  its private name (387-428), against the docstring at 399 that a replacement is
  never touched. The winner of the lock writes to its anchor between a
  publisher's rename and its check, the publisher takes the changed file for a
  replacement and renames it back, and a third builder finds no lock and makes
  its own: with three processes TLC finds two builders that hold the output at once
  (`OneHolder` as the invariant). The first is stopped by
  `_assert_lock_anchor_path` when it next writes to its anchor. With two it finds a
  holder whose lock has lost its name (`HolderKeepsName`).
* `RefusedOnlyTorn` (`ResultTransaction`): `shutil.rmtree` at `evaluate.py:436`
  may remove the owner marker first; a kill then leaves a directory that no later
  call removes. So does a power loss after the whole removal, since nothing flushes
  it and any part of it may come back; all this although the comment at 839 says that process loss is recoverable.
* A new candidate name for every acquisition (`orchestrator.py:3206`) means that
  the partial download of a killed run is not resumed but started over.

## 6. What is left out

* Formats, digests and parsing: a digest is its content, an artifact is what it
  was made from. Validation of paths, archives and schemas is input checking.
* Numbers: probabilities, losses, thresholds, percentiles and ratios. A row's
  scores are reduced to the kinds of evidence that reach a threshold; moments
  and percentiles to the bags they are computed from; strings that are only
  compared to numbers; float fractions to exact ones.
* In the pipeline: several datasets at once, disk preflights inside the shard
  stage, the train and summarize stages (the former has its own module). One
  archive shows every dependency between stages.
* In the train stage: an injected trainer, the summarize stage, a failing report
  write other than as a kill. A kill between writing the index and the report of
  a completion is covered as a kill before both.
* In `EpochStream`: the loader's comparison of versions, digests, configuration and
  tensor shapes, all constant in a training; the library that runs the workers is external, with chunks in
  any order within its prefetch window; patience is at least one; a crash between
  the last checkpoint and the progress table.
* In `Download`: retries are those of the caller; the exception of a body that
  does not match its pin says "remains resumable", and the model shows that it
  is only if the server changes back (`Spoilt`).
* In `SplitPlan`, `ShardContents`: resource tracking. Checksums are not
  recomputed: a shard that was altered is caught by them, so the verifier only
  ever runs on what was built.
* In `PreprocessFit`: one column; uids are unique within a pass, which the
  sketches document as their precondition.
* In `ShardTransaction`: entries that other users put into the output, and the
  removal through handles on Windows. In `ShardJournal` the kernel writes back
  what a killed process wrote before the next process writes.
* In `ResultTransaction`: changes of the output directory survive a power loss in
  the order they were made, those of a removal in any; foreign files in the output. Exceptions, kills and power
  losses share one bound.
* The inference phase of the calibration cache, which is a sequence of block
  commits without owners.
* Everything listed as not modelled in `PROJECT.json`, with its reason.

## 7. Plan

Done: all modules of section 2 and the eight proof modules.

Next, by weight:

1. `StateFile` (`bootstrap/state.py`): `_persist` in single steps, justifying
   `Persist` of the pipeline.
2. The inference phase of the cache, with `CascadeRouting` as the second phase.
3. The source snapshot of `out_of_core/source.py` in single files, and
   calibration inside a run (`out_of_core/run.py`, `calibrate.py`).
