--------------------------- MODULE BootstrapPipeline ---------------------------
(***************************************************************************)
(* run_bootstrap with --prepare-only for one dataset given as a local      *)
(* archive: the stages preflight ... validate, the state file that lets a  *)
(* run reuse what an earlier one did, and the artifacts on disk.           *)
(*                                                                         *)
(* Artifacts are abstracted to their provenance.  A content is the input   *)
(* it was made from, Absent, or Damaged; a digest is the content itself.   *)
(* A run stops at any step, by an exception or with its process.  Between  *)
(* runs artifacts may be damaged or deleted; while a run is active only    *)
(* the source archive and the configuration file may change (the writer    *)
(* lock keeps other runs away, and the reports' threat model assumes that  *)
(* nobody else writes the data root).                                      *)
(***************************************************************************)
EXTENDS Naturals

CONSTANTS
  Source,      \* contents the source archive may have
  SizeOf,      \* its size, all that the preflight stage looks at
  Compute,     \* what the compute resolver may select
  Config,      \* contents of the dataset's full configuration file
  MaxToken,    \* bounds the rotations of the preparation retry token
  MaxFaults,   \* bounds stops, failed state writes, damages and restarts
  MaxChanges,  \* bounds the user's changes of source, compute and config
  Absent, Damaged

ASSUME BoundsAssumption ==
  MaxToken \in Nat /\ MaxFaults \in Nat /\ MaxChanges \in Nat
ASSUME SentinelAssumption ==
  /\ Absent # Damaged
  /\ {Absent, Damaged} \cap (Source \cup Compute \cup Config) = {}

\* STAGE_ORDER, as far as a --prepare-only run goes.
Preflight == 1
Environment == 2
Acquire == 3
Extract == 4
Inspect == 5
Shard == 6
Validate == 7
Stage == 1..7

\* What names a prepared generation: preparation_signature of its inputs.
Gen == [src : Source, compute : Compute, config : Config, token : 0..MaxToken]

VARIABLES
  source, compute, config,  \* the user's inputs as they are now
  report,      \* preflight, environment, acquisition, extraction and
               \* preparation reports
  acquired, acquireJournal,  \* acquired archives, and whose journal is kept
  raw, extractJournal,       \* extracted trees, and whose journal is kept
  manifest,    \* source manifest and schema, per digest of the raw tree
  shards,      \* prepared data of a generation: the config it was made with
  descriptor,  \* prepared descriptor of a generation: the config it names
  retryToken,  \* the preparation retry token
  ledger,      \* bootstrap-state.json: a record for some of the stages
  run,         \* the active run
  faults, changes

inputs == <<source, compute, config>>
sources == <<acquired, acquireJournal, raw, extractJournal, manifest>>
prepared == <<shards, descriptor>>
vars == <<inputs, report, sources, prepared, retryToken, ledger, run,
          faults, changes>>

\* While no run is active, run has this value.
Off == [step |-> "off", stage |-> 1, src |-> Absent, compute |-> Absent,
        gen |-> Absent, untouched |-> TRUE]

Init ==
  /\ source \in Source /\ compute \in Compute /\ config \in Config
  /\ report = [preflight |-> Absent, environment |-> Absent,
               acquisition |-> Absent, extraction |-> Absent,
               preparation |-> Absent]
  /\ acquired = [s \in Source |-> Absent] /\ acquireJournal = Absent
  /\ raw = [s \in Source |-> Absent] /\ extractJournal = Absent
  /\ manifest = [s \in Source |-> Absent]
  /\ shards = [g \in Gen |-> Absent]
  /\ descriptor = [g \in Gen |-> Absent]
  /\ retryToken = 0
  /\ ledger = [k \in {} |-> Absent]
  /\ run = Off
  /\ faults = 0 /\ changes = 0

Spend == faults < MaxFaults /\ faults' = faults + 1

-----------------------------------------------------------------------------
(* The state file *)

\* The generation the inputs name now; its parts are the manifest of the raw
\* tree, the environment report, the configuration and the retry token.
GenNow == [src |-> run.src, compute |-> report.environment,
           config |-> config, token |-> retryToken]

GenAt(k) == IF k = Shard THEN GenNow ELSE run.gen

\* The input signature of stage k in the active run.
Signature(k) ==
  CASE k = Preflight -> SizeOf[run.src]
    [] k = Environment -> run.compute
    [] k = Acquire -> run.src
    [] k = Extract -> <<run.src, acquired[run.src], raw[run.src]>>
    [] k = Inspect -> <<run.src, raw[run.src]>>
    [] k = Shard -> GenNow
    [] k = Validate -> <<run.gen, descriptor[run.gen]>>

\* The outputs a record of stage k names, as they are now.  Shards and raw
\* trees are no outputs of a stage: their descriptor and their journal are.
Outputs(k, src, gen) ==
  CASE k = Preflight -> report.preflight
    [] k = Environment -> report.environment
    [] k = Acquire -> <<acquired[src], report.acquisition>>
    [] k = Extract -> report.extraction
    [] k = Inspect -> manifest[src]
    [] k = Shard -> descriptor[gen]
    [] k = Validate -> report.preparation

Recorded(k) == k \in DOMAIN ledger

\* (a variant that spares the source artifacts the rehashing)
ReusableUnhashed(k) ==
  /\ Recorded(k)
  /\ ledger[k].sig = Signature(k)
  /\ k \notin Acquire..Inspect =>
       ledger[k].outs = Outputs(k, ledger[k].src, ledger[k].gen)

Reusable(k) ==
  /\ Recorded(k)
  /\ ledger[k].sig = Signature(k)
  /\ ledger[k].outs = Outputs(k, ledger[k].src, ledger[k].gen)

\* (a variant that keeps the records of the later stages)
OnlyStageDropped(k) == [j \in DOMAIN ledger \ {k} |-> ledger[j]]

InvalidatedFrom(k) == [j \in DOMAIN ledger \ (k..Validate) |-> ledger[j]]

WithRecord(k, entry) ==
  [j \in DOMAIN ledger \cup {k} |-> IF j = k THEN entry ELSE ledger[j]]

\* _persist: the state file is replaced and the run goes on, or an error ends
\* the run, before or after the replacement became visible.
Persist(newLedger, next) ==
  \/ ledger' = newLedger /\ run' = next /\ UNCHANGED faults
  \/ Spend /\ ledger' \in {ledger, newLedger} /\ run' = Off

-----------------------------------------------------------------------------
(* The stage loop *)

\* The stage is over: on to the next, or the run is finished.
Following(k, gen) ==
  IF k = Validate
    THEN [run EXCEPT !.step = "finished"]
    ELSE [run EXCEPT !.step = "decide", !.stage = k + 1, !.gen = gen]

Begin ==
  /\ run.step = "off"
  /\ run' = [step |-> "decide", stage |-> Preflight, src |-> source,
             compute |-> compute, gen |-> Absent, untouched |-> TRUE]
  /\ UNCHANGED <<inputs, report, sources, prepared, retryToken, ledger,
                 faults, changes>>

\* --restart-stage NAME
BeginRestart ==
  /\ run.step = "off"
  /\ Spend
  /\ \E k \in Stage : ledger' = InvalidatedFrom(k)
  /\ run' = [step |-> "decide", stage |-> Preflight, src |-> source,
             compute |-> compute, gen |-> Absent, untouched |-> TRUE]
  /\ UNCHANGED <<inputs, report, sources, prepared, retryToken, changes>>

\* validate is the one stage here that runs even when it is reusable.
ReuseStage ==
  /\ run.step = "decide"
  /\ run.stage # Validate
  /\ Reusable(run.stage)
  /\ run' = Following(run.stage, GenAt(run.stage))
  /\ UNCHANGED <<inputs, report, sources, prepared, retryToken, ledger,
                 faults, changes>>

StartStage ==
  LET k == run.stage
      next == [run EXCEPT !.step = "work", !.gen = GenAt(k)]
  IN
  /\ run.step = "decide"
  /\ \/ /\ Reusable(k) /\ k = Validate
        /\ run' = next
        /\ UNCHANGED <<ledger, faults>>
     \/ ~ Reusable(k) /\ Persist(InvalidatedFrom(k), next)
  /\ UNCHANGED <<inputs, report, sources, prepared, retryToken, changes>>

\* The stage's outputs are fingerprinted and its record is persisted.  The
\* shard stage first checks that the inputs still name its generation.
SameInputs(k) == k = Shard => GenNow = run.gen

CompleteStage ==
  LET k == run.stage
      entry == [sig |-> Signature(k), src |-> run.src, gen |-> run.gen,
                outs |-> Outputs(k, run.src, run.gen)]
  IN
  /\ run.step = "complete"
  /\ \/ /\ SameInputs(k)
        /\ Persist(WithRecord(k, entry), Following(k, run.gen))
     \/ ~ SameInputs(k) /\ run' = Off /\ UNCHANGED <<ledger, faults>>
  /\ UNCHANGED <<inputs, report, sources, prepared, retryToken, changes>>

Finish ==
  /\ run.step = "finished"
  /\ run' = Off
  /\ UNCHANGED <<inputs, report, sources, prepared, retryToken, ledger,
                 faults, changes>>

\* An error no other action describes, or the end of the process.  A retry
\* token that cannot be rotated because its bound is reached ends the run like
\* one that cannot be written.
Stop ==
  /\ run.step # "off"
  /\ \/ Spend
     \/ run.step = "recover" /\ retryToken = MaxToken /\ UNCHANGED faults
  /\ run' = Off
  /\ UNCHANGED <<inputs, report, sources, prepared, retryToken, ledger, changes>>

-----------------------------------------------------------------------------
(* The stages *)

Working(k) == run.step = "work" /\ run.stage = k

Done == run' = [run EXCEPT !.step = "complete"]

Raise(files) ==
  /\ run' = Off
  /\ UNCHANGED files

RunPreflight ==
  /\ Working(Preflight)
  /\ report' = [report EXCEPT !.preflight = SizeOf[run.src]]
  /\ Done
  /\ UNCHANGED <<inputs, sources, prepared, retryToken, ledger, faults, changes>>

RunEnvironment ==
  /\ Working(Environment)
  /\ report' = [report EXCEPT !.environment = run.compute]
  /\ Done
  /\ UNCHANGED <<inputs, sources, prepared, retryToken, ledger, faults, changes>>

\* An existing archive is used only under the journal of this source and with
\* the journal's digest.  A missing one is published from the candidate that
\* the journal retains, or copied from a source that is still the same.
MayUse(content, journal) ==
  journal = run.src /\ content \notin {Absent, Damaged}

RunAcquire ==
  /\ Working(Acquire)
  /\ LET held == acquired[run.src] IN
     \/ /\ \/ MayUse(held, acquireJournal)
           \/ held = Absent /\ (acquireJournal = run.src \/ source = run.src)
        /\ acquired' = [acquired EXCEPT
                          ![run.src] = IF held = Absent THEN run.src ELSE held]
        /\ acquireJournal' = run.src
        /\ report' = [report EXCEPT !.acquisition = run.src]
        /\ Done
     \/ /\ ~ MayUse(held, acquireJournal)
        /\ held # Absent \/ source # run.src
        /\ Raise(<<acquired, acquireJournal, report>>)
  /\ UNCHANGED <<inputs, raw, extractJournal, manifest, prepared, retryToken,
                 ledger, faults, changes>>

\* Likewise for the tree extracted from the acquired archive.
RunExtract ==
  /\ Working(Extract)
  /\ LET held == raw[run.src] IN
     \/ /\ MayUse(held, extractJournal) \/ held = Absent
        /\ raw' = [raw EXCEPT
                     ![run.src] = IF held = Absent THEN acquired[run.src] ELSE held]
        /\ extractJournal' = run.src
        /\ report' = [report EXCEPT !.extraction = run.src]
        /\ Done
     \/ /\ ~ MayUse(held, extractJournal) /\ held # Absent
        /\ Raise(<<raw, extractJournal, report>>)
  /\ UNCHANGED <<inputs, acquired, acquireJournal, manifest, prepared,
                 retryToken, ledger, faults, changes>>

RunInspect ==
  /\ Working(Inspect)
  /\ manifest' = [manifest EXCEPT ![run.src] = raw[run.src]]
  /\ Done
  /\ UNCHANGED <<inputs, report, acquired, acquireJournal, raw, extractJournal,
                 prepared, retryToken, ledger, faults, changes>>

\* (a variant that does not compare the template)
VerifiesWithoutTemplate(g) ==
  /\ descriptor[g] \in Config
  /\ shards[g] = descriptor[g]
  /\ raw[g.src] = g.src

\* verify_prepared_dataset: the descriptor's template is the configuration of
\* today, the raw source is the one it was made from, and the data matches.
Verifies(g) ==
  /\ descriptor[g] \in Config
  /\ descriptor[g] = config
  /\ shards[g] = descriptor[g]
  /\ raw[g.src] = g.src

\* run_shard: a generation with a descriptor must verify and is kept.
KeepGeneration ==
  /\ Working(Shard)
  /\ descriptor[run.gen] # Absent
  /\ IF Verifies(run.gen) THEN Done ELSE run' = Off
  /\ UNCHANGED <<inputs, report, sources, prepared, retryToken, ledger,
                 faults, changes>>

\* (a variant that builds over a described generation)
RebuildShards ==
  /\ Working(Shard)
  /\ shards' = [shards EXCEPT ![run.gen] = config]
  /\ run' = [run EXCEPT !.step = "publish"]
  /\ UNCHANGED <<inputs, report, sources, descriptor, retryToken, ledger,
                 faults, changes>>

\* prepare_full_dataset builds the data from the configuration it reads now.
\* Data left by an interrupted build is taken up when it is this
\* configuration's; damaged parts are rebuilt or refused.
BuildShards ==
  /\ Working(Shard)
  /\ descriptor[run.gen] = Absent
  /\ \/ /\ shards[run.gen] \in {Absent, Damaged, config}
        /\ shards' = [shards EXCEPT ![run.gen] = config]
        /\ run' = [run EXCEPT !.step = "publish"]
     \/ /\ shards[run.gen] \notin {Absent, config}
        /\ Raise(shards)
  /\ UNCHANGED <<inputs, report, sources, descriptor, retryToken, ledger,
                 faults, changes>>

PublishDescriptor ==
  /\ run.step = "publish"
  /\ descriptor' = [descriptor EXCEPT ![run.gen] = shards[run.gen]]
  /\ Done
  /\ UNCHANGED <<inputs, report, sources, shards, retryToken, ledger,
                 faults, changes>>

\* run_validate; a verification error starts the automatic recovery.
RunValidate ==
  /\ Working(Validate)
  /\ \/ /\ Verifies(run.gen)
        /\ report' = [report EXCEPT !.preparation = run.gen]
        /\ Done
     \/ /\ ~ Verifies(run.gen)
        /\ run' = [run EXCEPT !.step = "recover"]
        /\ UNCHANGED report
  /\ UNCHANGED <<inputs, sources, prepared, retryToken, ledger, faults, changes>>

\* (a variant that keeps the retry token)
RotateNothing ==
  /\ run.step = "recover"
  /\ run' = [run EXCEPT !.step = "invalidate"]
  /\ UNCHANGED <<inputs, report, sources, prepared, retryToken, ledger, faults,
                 changes>>

\* rotate_preparation_retry_token, then invalidate_from("shard").
RotateToken ==
  /\ run.step = "recover"
  /\ retryToken < MaxToken
  /\ retryToken' = retryToken + 1
  /\ run' = [run EXCEPT !.step = "invalidate"]
  /\ UNCHANGED <<inputs, report, sources, prepared, ledger, faults, changes>>

InvalidateShard ==
  /\ run.step = "invalidate"
  /\ Persist(InvalidatedFrom(Shard), Off)
  /\ UNCHANGED <<inputs, report, sources, prepared, retryToken, changes>>

-----------------------------------------------------------------------------
(* The user and the disk *)

ChangeInputs ==
  /\ changes < MaxChanges /\ changes' = changes + 1
  /\ \/ source' \in Source \ {source} /\ UNCHANGED <<compute, config>>
     \/ compute' \in Compute \ {compute} /\ UNCHANGED <<source, config>>
     \/ config' \in Config \ {config} /\ UNCHANGED <<source, compute>>
  /\ run' = IF run.step = "off" THEN run ELSE [run EXCEPT !.untouched = FALSE]
  /\ UNCHANGED <<report, sources, prepared, retryToken, ledger, faults>>

Spoilt == {Absent, Damaged}

DamageReport ==
  /\ run.step = "off" /\ Spend
  /\ \E f \in DOMAIN report :
       /\ report[f] # Absent
       /\ report' \in {[report EXCEPT ![f] = c] : c \in Spoilt}
  /\ UNCHANGED <<inputs, sources, prepared, retryToken, ledger, run, changes>>

DamageSources ==
  /\ run.step = "off" /\ Spend
  /\ \E s \in Source, c \in Spoilt :
       \/ /\ acquired[s] # Absent /\ acquired' = [acquired EXCEPT ![s] = c]
          /\ UNCHANGED <<raw, manifest>>
       \/ /\ raw[s] # Absent /\ raw' = [raw EXCEPT ![s] = c]
          /\ UNCHANGED <<acquired, manifest>>
       \/ /\ manifest[s] # Absent /\ manifest' = [manifest EXCEPT ![s] = c]
          /\ UNCHANGED <<acquired, raw>>
  /\ UNCHANGED <<inputs, report, acquireJournal, extractJournal, prepared,
                 retryToken, ledger, run, changes>>

DamagePrepared ==
  /\ run.step = "off" /\ Spend
  /\ \E g \in Gen, c \in Spoilt :
       \/ /\ shards[g] # Absent /\ shards' = [shards EXCEPT ![g] = c]
          /\ UNCHANGED descriptor
       \/ /\ descriptor[g] # Absent /\ descriptor' = [descriptor EXCEPT ![g] = c]
          /\ UNCHANGED shards
  /\ UNCHANGED <<inputs, report, sources, retryToken, ledger, run, changes>>

-----------------------------------------------------------------------------

Work ==
  \/ RunPreflight \/ RunEnvironment \/ RunAcquire \/ RunExtract \/ RunInspect
  \/ KeepGeneration \/ BuildShards \/ PublishDescriptor \/ RunValidate

Advance ==
  \/ ReuseStage \/ StartStage \/ Work \/ CompleteStage
  \/ RotateToken \/ InvalidateShard \/ Finish

Environs == ChangeInputs \/ DamageReport \/ DamageSources \/ DamagePrepared

Next == Begin \/ BeginRestart \/ Advance \/ Stop \/ Environs

Spec == Init /\ [][Next]_vars

\* A run that was begun goes on, and the user keeps invoking the command.
FairSpec == Spec /\ WF_vars(Begin) /\ WF_vars(Advance)

-----------------------------------------------------------------------------
(* Properties *)

Step == {"off", "decide", "work", "publish", "complete", "recover",
         "invalidate", "finished"}

InputsOK == source \in Source /\ compute \in Compute /\ config \in Config

ReportOK ==
  report \in [preflight : {SizeOf[s] : s \in Source} \cup Spoilt,
              environment : Compute \cup Spoilt,
              acquisition : Source \cup Spoilt,
              extraction : Source \cup Spoilt,
              preparation : Gen \cup Spoilt]

SourcesOK ==
  /\ acquired \in [Source -> Source \cup Spoilt]
  /\ raw \in [Source -> Source \cup Spoilt]
  /\ manifest \in [Source -> Source \cup Spoilt]
  /\ acquireJournal \in Source \cup {Absent}
  /\ extractJournal \in Source \cup {Absent}

PreparedOK ==
  /\ shards \in [Gen -> Config \cup Spoilt]
  /\ descriptor \in [Gen -> Config \cup Spoilt]
  /\ retryToken \in 0..MaxToken

\* A run knows its source and environment, and from the shard stage on its
\* generation; the recovery and the end belong to the last stage.
RunOK ==
  /\ run \in [step : Step, stage : Stage, src : Source \cup {Absent},
              compute : Compute \cup {Absent}, gen : Gen \cup {Absent},
              untouched : BOOLEAN]
  /\ run.step # "off" => run.src \in Source /\ run.compute \in Compute
  /\ run.stage = Validate \/ (run.stage = Shard /\ run.step # "decide") =>
       run.gen \in Gen
  /\ run.step = "publish" => run.stage = Shard
  /\ run.step \in {"recover", "invalidate", "finished"} => run.stage = Validate

TypeOK ==
  /\ InputsOK /\ ReportOK /\ SourcesOK /\ PreparedOK /\ RunOK
  /\ DOMAIN ledger \subseteq Stage
  /\ faults \in 0..MaxFaults /\ changes \in 0..MaxChanges

\* bootstrap-state.json implements the abstract ledger: no interleaving of
\* reuse, invalidation, failed writes and stops ever leaves a record of a
\* stage without the records of all earlier stages.
Ledger == INSTANCE StageLedger
            WITH N <- Validate, recorded <- DOMAIN ledger

LedgerRefines == Ledger!Spec

\* The records of one ledger tell one story: they are about one source, the
\* validated generation is the recorded one, and that generation was made for
\* the recorded environment.  A changed input invalidates all its dependants,
\* and no stale record of a later stage survives.
RecordsAgree ==
  /\ \A j, k \in Acquire..Validate :
       Recorded(j) /\ Recorded(k) => ledger[j].src = ledger[k].src
  /\ Recorded(Shard) =>
       /\ ledger[Shard].sig = ledger[Shard].gen
       /\ ledger[Shard].gen.src = ledger[Shard].src
       /\ ledger[Environment].sig = ledger[Shard].gen.compute
  /\ Recorded(Validate) => ledger[Validate].gen = ledger[Shard].gen

\* A run that finishes as "prepared", and whose inputs nobody changed in the
\* meantime, hands over data made from its own source, environment and
\* configuration, whatever earlier runs, stops and damages left on disk.
PreparedIsCurrent ==
  run.step = "finished" /\ run.untouched =>
    /\ raw[run.src] = run.src
    /\ run.gen = [src |-> run.src, compute |-> run.compute,
                  config |-> config, token |-> retryToken]
    /\ descriptor[run.gen] = config
    /\ shards[run.gen] = config

\* After such a run the same command would find every stage reusable.
RerunReusesAll ==
  run.step = "finished" /\ run.untouched =>
    \A k \in Stage :
      /\ Recorded(k)
      /\ ledger[k].sig = Signature(k)
      /\ ledger[k].outs = Outputs(k, ledger[k].src, ledger[k].gen)

\* A run never writes over an archive, a tree or a described generation that
\* exists, not even a damaged one: it is kept for inspection.
NothingOverwritten ==
  [][run.step # "off" =>
       /\ \A s \in Source :
            /\ acquired[s] # Absent => acquired'[s] = acquired[s]
            /\ raw[s] # Absent => raw'[s] = raw[s]
       /\ \A g \in Gen : descriptor[g] # Absent =>
            descriptor'[g] = descriptor[g] /\ shards'[g] = shards[g]]_vars

\* Damage to prepared data heals by itself: when nothing else is spoilt and
\* the shard record is still there, rerunning the command rotates the retry
\* token, builds a new generation and finishes.
DataLost ==
  /\ run.step = "off" /\ faults = MaxFaults /\ changes = MaxChanges
  /\ retryToken < MaxToken
  /\ Recorded(Shard)
  /\ LET g == ledger[Shard].gen IN
       /\ g = [src |-> source, compute |-> compute, config |-> config,
               token |-> retryToken]
       /\ shards[g] \in Spoilt /\ descriptor[g] = config
       /\ acquired[g.src] = g.src /\ acquireJournal = g.src
       /\ raw[g.src] = g.src /\ extractJournal = g.src
       /\ manifest[g.src] = g.src
       /\ report.preflight = SizeOf[g.src] /\ report.environment = g.compute
       /\ report.acquisition = g.src /\ report.extraction = g.src

LostDataHeals == DataLost ~> run.step = "finished"
=============================================================================
