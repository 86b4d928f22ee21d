----------------------- MODULE BootstrapPipeline_proofs -----------------------
(***************************************************************************)
(* Theorems about the bootstrap pipeline, for any inputs and bounds.       *)
(***************************************************************************)
EXTENDS BootstrapPipeline, TLAPS

-----------------------------------------------------------------------------
(* Which actions change which part of the state *)

LEMMA InputsFrame == [Next]_vars => inputs' = inputs \/ ChangeInputs
BY DEF Next, vars, Advance, Work, Environs, Begin, BeginRestart, ReuseStage,
  StartStage, CompleteStage, RotateToken, InvalidateShard, Finish, Stop,
  RunPreflight, RunEnvironment, RunAcquire, RunExtract, RunInspect,
  KeepGeneration, BuildShards, PublishDescriptor, RunValidate,
  DamageReport, DamageSources, DamagePrepared

LEMMA ReportFrame ==
  [Next]_vars =>
    \/ report' = report
    \/ RunPreflight \/ RunEnvironment \/ RunAcquire \/ RunExtract
    \/ RunValidate \/ DamageReport
BY DEF Next, vars, Advance, Work, Environs, Begin, BeginRestart, ReuseStage,
  StartStage, CompleteStage, RotateToken, InvalidateShard, Finish, Stop,
  RunInspect, KeepGeneration, BuildShards, PublishDescriptor,
  ChangeInputs, DamageSources, DamagePrepared

LEMMA SourcesFrame ==
  [Next]_vars =>
    sources' = sources \/ RunAcquire \/ RunExtract \/ RunInspect \/ DamageSources
BY DEF Next, vars, Advance, Work, Environs, Begin, BeginRestart, ReuseStage,
  StartStage, CompleteStage, RotateToken, InvalidateShard, Finish, Stop,
  RunPreflight, RunEnvironment, KeepGeneration, BuildShards,
  PublishDescriptor, RunValidate, ChangeInputs, DamageReport, DamagePrepared

LEMMA PreparedFrame ==
  [Next]_vars =>
    \/ prepared' = prepared /\ retryToken' = retryToken
    \/ BuildShards \/ PublishDescriptor \/ RotateToken \/ DamagePrepared
BY DEF Next, vars, Advance, Work, Environs, Begin, BeginRestart, ReuseStage,
  StartStage, CompleteStage, InvalidateShard, Finish, Stop,
  RunPreflight, RunEnvironment, RunAcquire, RunExtract, RunInspect,
  KeepGeneration, RunValidate, ChangeInputs, DamageReport, DamageSources

LEMMA LedgerFrame ==
  [Next]_vars =>
    \/ ledger' = ledger
    \/ BeginRestart \/ StartStage \/ CompleteStage \/ InvalidateShard
BY DEF Next, vars, Advance, Work, Environs, Begin, ReuseStage,
  RotateToken, Finish, Stop, RunPreflight, RunEnvironment, RunAcquire,
  RunExtract, RunInspect, KeepGeneration, BuildShards, PublishDescriptor,
  RunValidate, ChangeInputs, DamageReport, DamageSources, DamagePrepared

-----------------------------------------------------------------------------
(* Types *)

\* Past the environment stage the environment report names the device of the
\* run: only then is the signature of a prepared generation well defined.
EnvironmentReady ==
  /\ Recorded(Environment) => ledger[Environment].outs = ledger[Environment].sig
  /\ \/ run.step = "off"
     \/ run.stage < Environment
     \/ run.stage = Environment /\ run.step # "complete"
     \/ report.environment = run.compute

IInv == TypeOK /\ EnvironmentReady

LEMMA ReportTypes == IInv /\ [Next]_vars => ReportOK'
<1> SUFFICES ASSUME IInv, [Next]_vars PROVE ReportOK'
  OBVIOUS
<1> USE DEF IInv, TypeOK, ReportOK, RunOK, Working, Stage, Spoilt,
            Preflight, Environment, Acquire, Extract, Validate
<1>1. CASE report' = report
  BY <1>1
<1>2. CASE RunPreflight
  BY <1>2 DEF RunPreflight
<1>3. CASE RunEnvironment
  BY <1>3 DEF RunEnvironment
<1>4. CASE RunAcquire
  BY <1>4 DEF RunAcquire, Raise
<1>5. CASE RunExtract
  BY <1>5 DEF RunExtract, Raise
<1>6. CASE RunValidate
  BY <1>6 DEF RunValidate
<1>7. CASE DamageReport
  BY <1>7 DEF DamageReport
<1> QED
  BY <1>1, <1>2, <1>3, <1>4, <1>5, <1>6, <1>7, ReportFrame

LEMMA SourcesTypes == IInv /\ [Next]_vars => SourcesOK'
<1> SUFFICES ASSUME IInv, [Next]_vars PROVE SourcesOK'
  OBVIOUS
<1> USE DEF IInv, TypeOK, SourcesOK, RunOK, Working, Stage, Spoilt, sources
<1>1. CASE sources' = sources
  BY <1>1
<1>2. CASE RunAcquire
  BY <1>2 DEF RunAcquire, Raise
<1>3. CASE RunExtract
  BY <1>3 DEF RunExtract, Raise
<1>4. CASE RunInspect
  BY <1>4 DEF RunInspect
<1>5. CASE DamageSources
  BY <1>5 DEF DamageSources
<1> QED
  BY <1>1, <1>2, <1>3, <1>4, <1>5, SourcesFrame

LEMMA PreparedTypes == IInv /\ [Next]_vars => PreparedOK'
<1> SUFFICES ASSUME IInv, [Next]_vars PROVE PreparedOK'
  OBVIOUS
<1> USE BoundsAssumption DEF IInv, TypeOK, PreparedOK, InputsOK, RunOK,
      Working, Spoilt, prepared, Stage, Shard, Validate
<1>1. CASE prepared' = prepared /\ retryToken' = retryToken
  BY <1>1
<1>2. CASE BuildShards
  BY <1>2 DEF BuildShards, Raise
<1>3. CASE PublishDescriptor
  BY <1>3 DEF PublishDescriptor
<1>4. CASE RotateToken
  BY <1>4 DEF RotateToken
<1>5. CASE DamagePrepared
  BY <1>5 DEF DamagePrepared
<1> QED
  BY <1>1, <1>2, <1>3, <1>4, <1>5, PreparedFrame

\* How a step may leave the run record: off, at another step of the same
\* stage, or at the next stage.
LEMMA OffTypes == IInv /\ run' = Off => RunOK'
BY DEF IInv, TypeOK, RunOK, Step, Stage, Off, Shard, Validate

LEMMA StepTypes ==
  ASSUME IInv, run.step # "off",
         NEW s \in Step \ {"off"}, run' = [run EXCEPT !.step = s],
         run.stage = Shard /\ s # "decide" => run.gen \in Gen,
         s = "publish" => run.stage = Shard,
         s \in {"recover", "invalidate", "finished"} => run.stage = Validate
  PROVE  RunOK'
BY DEF IInv, TypeOK, RunOK, Step, Stage, Off, Shard, Validate

LEMMA WorkingRun ==
  ASSUME IInv, NEW gen, run' = [run EXCEPT !.step = "work", !.gen = gen]
  PROVE  run' = [step |-> "work", stage |-> run.stage, src |-> run.src,
                 compute |-> run.compute, gen |-> gen,
                 untouched |-> run.untouched]
BY DEF IInv, TypeOK, RunOK

LEMMA FollowingRun ==
  ASSUME IInv, NEW gen, run' = Following(run.stage, gen)
  PROVE  \/ /\ run.stage = Validate
            /\ run' = [run EXCEPT !.step = "finished"]
         \/ /\ run.stage \in Preflight..Shard
            /\ run.stage + 1 \in Stage
            /\ run' = [step |-> "decide", stage |-> run.stage + 1,
                       src |-> run.src, compute |-> run.compute, gen |-> gen,
                       untouched |-> run.untouched]
<1>0. run.stage \in Stage
  BY DEF IInv, TypeOK, RunOK
<1>1. \/ run.stage = Validate
      \/ run.stage \in Preflight..Shard /\ run.stage + 1 \in Stage
  BY <1>0 DEF Stage, Validate, Preflight, Shard
<1>2. run = [step |-> run.step, stage |-> run.stage, src |-> run.src,
             compute |-> run.compute, gen |-> run.gen,
             untouched |-> run.untouched]
  BY DEF IInv, TypeOK, RunOK
<1>3. CASE run.stage = Validate
  BY <1>3 DEF Following
<1>4. CASE run.stage # Validate
  <2>1. run' = [run EXCEPT !.step = "decide", !.stage = run.stage + 1, !.gen = gen]
    BY <1>4 DEF Following
  <2>2. run' = [step |-> "decide", stage |-> run.stage + 1,
                src |-> run.src, compute |-> run.compute, gen |-> gen,
                untouched |-> run.untouched]
    BY <1>2, <2>1
  <2> QED
    BY <1>1, <1>4, <2>2
<1> QED
  BY <1>3, <1>4

LEMMA FollowingTypes ==
  ASSUME IInv, run.step # "off", NEW gen \in Gen \cup {Absent},
         run.stage \in {Shard, Validate} => gen \in Gen,
         run' = Following(run.stage, gen)
  PROVE  RunOK'
<1> USE DEF IInv, TypeOK, RunOK, Step, Stage, Preflight, Shard, Validate
<1>1. CASE run.stage = Validate
  BY <1>1, FollowingRun
<1>2. CASE run.stage # Validate
  BY <1>2, FollowingRun
<1> QED
  BY <1>1, <1>2

LEMMA GenerationNamed ==
  ASSUME IInv, run.step # "off", run.step = "decide" \/ run.stage # Shard
  PROVE  /\ GenAt(run.stage) \in Gen \cup {Absent}
         /\ run.stage \in {Shard, Validate} => GenAt(run.stage) \in Gen
<1>1. CASE run.stage = Shard
  <2>1. report.environment = run.compute
    BY <1>1 DEF IInv, EnvironmentReady, Shard, Environment
  <2> QED
    BY <1>1, <2>1 DEF IInv, TypeOK, InputsOK, PreparedOK, RunOK, GenAt, GenNow, Gen
<1>2. CASE run.stage # Shard
  BY <1>2 DEF IInv, TypeOK, RunOK, GenAt
<1> QED
  BY <1>1, <1>2

\* The steps of the stage loop, one by one.
LEMMA LoopRunTypes ==
  ASSUME IInv,
         \/ Begin \/ BeginRestart \/ ReuseStage \/ StartStage \/ CompleteStage
         \/ Finish \/ Stop \/ RotateToken \/ InvalidateShard
  PROVE  RunOK'
<1> DEFINE k == run.stage
<1>1. CASE Begin \/ BeginRestart
  <2>1. run' = [step |-> "decide", stage |-> Preflight, src |-> source,
                compute |-> compute, gen |-> Absent, untouched |-> TRUE]
    BY <1>1 DEF Begin, BeginRestart
  <2>2. source \in Source /\ compute \in Compute
    BY DEF IInv, TypeOK, InputsOK
  <2> QED
    BY <2>1, <2>2 DEF RunOK, Step, Stage, Preflight, Shard, Validate
<1>2. CASE ReuseStage
  BY <1>2, GenerationNamed, FollowingTypes DEF ReuseStage
<1>3. CASE StartStage
  <2>1. run' = Off \/ run' = [run EXCEPT !.step = "work", !.gen = GenAt(k)]
    BY <1>3 DEF StartStage, Persist
  <2>2. run.step = "decide"
    BY <1>3 DEF StartStage
  <2>3. CASE run' = [run EXCEPT !.step = "work", !.gen = GenAt(k)]
    BY <2>2, <2>3, WorkingRun, GenerationNamed
       DEF IInv, TypeOK, RunOK, Step, Stage, Shard, Validate
  <2> QED
    BY <2>1, <2>3, OffTypes
<1>4. CASE CompleteStage
  <2>1. run' = Off \/ run' = Following(k, run.gen)
    BY <1>4 DEF CompleteStage, Persist
  <2>2. run.step = "complete"
    BY <1>4 DEF CompleteStage
  <2>3. /\ run.gen \in Gen \cup {Absent}
        /\ k \in {Shard, Validate} => run.gen \in Gen
    BY <2>2 DEF IInv, TypeOK, RunOK
  <2> QED
    BY <2>1, <2>2, <2>3, OffTypes, FollowingTypes
<1>5. CASE Finish \/ Stop
  BY <1>5, OffTypes DEF Finish, Stop
<1>6. CASE RotateToken
  BY <1>6, StepTypes DEF RotateToken, IInv, TypeOK, RunOK, Step, Shard, Validate
<1>7. CASE InvalidateShard
  BY <1>7, OffTypes DEF InvalidateShard, Persist
<1> QED
  BY <1>1, <1>2, <1>3, <1>4, <1>5, <1>6, <1>7

LEMMA WorkRunTypes ==
  ASSUME IInv, Work
  PROVE  RunOK'
<1>1. run.step \in {"work", "publish"}
  BY DEF Work, Working, RunPreflight, RunEnvironment, RunAcquire, RunExtract,
    RunInspect, KeepGeneration, BuildShards, PublishDescriptor, RunValidate
<1>2. \/ run' = Off
      \/ Done
      \/ run' = [run EXCEPT !.step = "publish"] /\ run.stage = Shard
      \/ run' = [run EXCEPT !.step = "recover"] /\ run.stage = Validate
  BY DEF Work, Working, Raise, RunPreflight, RunEnvironment, RunAcquire,
    RunExtract, RunInspect, KeepGeneration, BuildShards, PublishDescriptor,
    RunValidate
<1>3. run.stage = Shard => run.gen \in Gen
  BY <1>1 DEF IInv, TypeOK, RunOK
<1>4. CASE run' = Off
  BY <1>4, OffTypes
<1>5. CASE Done
  BY <1>1, <1>3, <1>5, StepTypes DEF Done, Step
<1>6. CASE run' = [run EXCEPT !.step = "publish"] /\ run.stage = Shard
  BY <1>1, <1>3, <1>6, StepTypes DEF Step
<1>7. CASE run' = [run EXCEPT !.step = "recover"] /\ run.stage = Validate
  BY <1>1, <1>3, <1>7, StepTypes DEF Step
<1> QED
  BY <1>2, <1>4, <1>5, <1>6, <1>7

LEMMA EnvironsRunTypes ==
  ASSUME IInv, Environs
  PROVE  RunOK'
<1>1. CASE ChangeInputs
  BY <1>1 DEF ChangeInputs, IInv, TypeOK, RunOK, Step, Stage, Shard, Validate
<1>2. CASE DamageReport \/ DamageSources \/ DamagePrepared
  <2> run' = run
    BY <1>2 DEF DamageReport, DamageSources, DamagePrepared
  <2> QED
    BY DEF IInv, TypeOK, RunOK
<1> QED
  BY <1>1, <1>2 DEF Environs

LEMMA ReadyPreserved == IInv /\ [Next]_vars => EnvironmentReady'
<1> SUFFICES ASSUME IInv, [Next]_vars PROVE EnvironmentReady'
  OBVIOUS
<1>1. Recorded(Environment)' =>
        ledger'[Environment].outs = ledger'[Environment].sig
  <2> USE DEF IInv, EnvironmentReady, Recorded, InvalidatedFrom, WithRecord,
              Persist
  <2>1. CASE ledger' = ledger
    BY <2>1
  <2>2. CASE BeginRestart
    BY <2>2 DEF BeginRestart
  <2>3. CASE StartStage
    BY <2>3 DEF StartStage
  <2>4. CASE CompleteStage
    BY <2>4 DEF CompleteStage, Signature, Outputs, Preflight, Environment,
      Acquire, Extract, Inspect, Shard, Validate
  <2>5. CASE InvalidateShard
    BY <2>5 DEF InvalidateShard
  <2> QED
    BY <2>1, <2>2, <2>3, <2>4, <2>5, LedgerFrame
<1>2. \/ run'.step = "off"
      \/ run'.stage < Environment
      \/ run'.stage = Environment /\ run'.step # "complete"
      \/ report'.environment = run'.compute
  <2> USE DEF Off, Preflight, Environment, Acquire, Extract, Inspect, Shard,
              Validate
  <2>t. RunOK /\ ReportOK /\ run.stage \in Nat
    BY DEF IInv, TypeOK, RunOK, Stage
  <2>e. EnvironmentReady
    BY DEF IInv
  <2>1. CASE Begin \/ BeginRestart \/ Finish \/ Stop
    BY <2>1 DEF Begin, BeginRestart, Finish, Stop
  <2>2. CASE ReuseStage
    <3>1. run' = Following(run.stage, GenAt(run.stage)) /\ report' = report
      BY <2>2 DEF ReuseStage
    <3>2. /\ run.step = "decide"
          /\ run.stage = Environment => report.environment = run.compute
      BY <2>2, <2>e DEF ReuseStage, Reusable, Signature, Outputs,
        EnvironmentReady
    <3>3. \/ run.stage = Validate /\ run'.stage = Validate
          \/ run'.stage = run.stage + 1 /\ run'.step = "decide"
      BY <3>1, <2>t, FollowingRun DEF RunOK
    <3>4. run'.compute = run.compute
      BY <3>1, <2>t, FollowingRun DEF RunOK
    <3> QED
      BY <3>1, <3>2, <3>3, <3>4, <2>t, <2>e DEF EnvironmentReady
  <2>3. CASE StartStage
    <3>1. \/ run' = Off
          \/ run' = [run EXCEPT !.step = "work", !.gen = GenAt(run.stage)]
      BY <2>3 DEF StartStage, Persist
    <3>2. run.step = "decide" /\ report' = report
      BY <2>3 DEF StartStage
    <3>3. \/ run'.step = "off"
          \/ /\ run'.step = "work"
             /\ run'.stage = run.stage /\ run'.compute = run.compute
      <4>1. CASE run' = Off
        BY <4>1
      <4>2. CASE run' = [run EXCEPT !.step = "work", !.gen = GenAt(run.stage)]
        BY <4>2, WorkingRun
      <4> QED
        BY <3>1, <4>1, <4>2
    <3> QED
      BY <3>2, <3>3, <2>e DEF EnvironmentReady
  <2>4. CASE CompleteStage
    <3>1. run' = Off \/ run' = Following(run.stage, run.gen)
      BY <2>4 DEF CompleteStage, Persist
    <3>2. run.step = "complete" /\ report' = report
      BY <2>4 DEF CompleteStage
    <3>3. \/ run'.step = "off"
          \/ run.stage = Validate /\ run'.stage = Validate
          \/ run'.stage = run.stage + 1 /\ run'.step = "decide"
      BY <3>1, <2>t, FollowingRun DEF RunOK
    <3>4. run'.step = "off" \/ run'.compute = run.compute
      BY <3>1, <2>t, FollowingRun DEF RunOK
    <3> QED
      BY <3>2, <3>3, <3>4, <2>t, <2>e DEF EnvironmentReady
  <2>5. CASE Work
    <3>1. \/ run'.step = "off"
          \/ /\ run'.stage = run.stage /\ run'.compute = run.compute
             /\ run.step # "off" /\ run.step # "complete"
      BY <2>5, <2>t DEF RunOK, Work, Working, Done, Raise, RunPreflight,
        RunEnvironment, RunAcquire, RunExtract, RunInspect, KeepGeneration,
        BuildShards, PublishDescriptor, RunValidate
    <3>2. CASE RunEnvironment
      BY <3>1, <3>2, <2>t DEF RunEnvironment, Working, ReportOK
    <3>3. CASE RunPreflight
      BY <3>1, <3>3 DEF RunPreflight, Working
    <3>4. CASE RunAcquire \/ RunExtract \/ RunValidate
      <4>1. report'.environment = report.environment
        BY <3>4, <2>t DEF RunAcquire, RunExtract, RunValidate, Raise, ReportOK
      <4>2. run.stage > Environment
        BY <3>4 DEF RunAcquire, RunExtract, RunValidate, Working
      <4> QED
        BY <3>1, <4>1, <4>2, <2>e, <2>t DEF EnvironmentReady
    <3>5. CASE RunInspect \/ KeepGeneration \/ BuildShards \/ PublishDescriptor
      <4>1. report' = report /\ run.stage > Environment
        BY <3>5, <2>t DEF RunInspect, KeepGeneration, BuildShards,
          PublishDescriptor, Working, RunOK
      <4> QED
        BY <3>1, <4>1, <2>e, <2>t DEF EnvironmentReady
    <3> QED
      BY <2>5, <3>2, <3>3, <3>4, <3>5 DEF Work
  <2>6. CASE RotateToken
    BY <2>6, <2>e, <2>t DEF RotateToken, EnvironmentReady, RunOK
  <2>7. CASE InvalidateShard
    BY <2>7 DEF InvalidateShard, Persist
  <2>8. CASE ChangeInputs
    BY <2>8, <2>e, <2>t DEF ChangeInputs, EnvironmentReady, RunOK
  <2>9. CASE DamageReport \/ DamageSources \/ DamagePrepared
    BY <2>9 DEF DamageReport, DamageSources, DamagePrepared
  <2>10. CASE UNCHANGED vars
    BY <2>10, <2>e DEF vars, EnvironmentReady
  <2> QED
    BY <2>1, <2>2, <2>3, <2>4, <2>5, <2>6, <2>7, <2>8, <2>9, <2>10
       DEF Next, Advance, Environs
<1> QED
  BY <1>1, <1>2 DEF EnvironmentReady

LEMMA CountersBounded ==
  IInv /\ [Next]_vars =>
    /\ DOMAIN ledger' \subseteq Stage
    /\ faults' \in 0..MaxFaults /\ changes' \in 0..MaxChanges
<1> SUFFICES ASSUME IInv, [Next]_vars
    PROVE  /\ DOMAIN ledger' \subseteq Stage
           /\ faults' \in 0..MaxFaults /\ changes' \in 0..MaxChanges
  OBVIOUS
<1>1. DOMAIN ledger' \subseteq Stage
  <2> USE DEF IInv, TypeOK, InvalidatedFrom, WithRecord, Persist, RunOK
  <2>1. CASE ledger' = ledger
    BY <2>1
  <2>2. CASE BeginRestart
    BY <2>2 DEF BeginRestart
  <2>3. CASE StartStage
    BY <2>3 DEF StartStage
  <2>4. CASE CompleteStage
    BY <2>4 DEF CompleteStage
  <2>5. CASE InvalidateShard
    BY <2>5 DEF InvalidateShard
  <2> QED
    BY <2>1, <2>2, <2>3, <2>4, <2>5, LedgerFrame
<1>2. faults' = faults \/ Spend
  BY DEF Next, vars, Advance, Work, Environs, Begin, BeginRestart, ReuseStage,
    StartStage, CompleteStage, RotateToken, InvalidateShard, Finish, Stop,
    Persist, RunPreflight, RunEnvironment, RunAcquire, RunExtract, RunInspect,
    KeepGeneration, BuildShards, PublishDescriptor, RunValidate, ChangeInputs,
    DamageReport, DamageSources, DamagePrepared
<1>3. changes' = changes \/ ChangeInputs
  BY DEF Next, vars, Advance, Work, Environs, Begin, BeginRestart, ReuseStage,
    StartStage, CompleteStage, RotateToken, InvalidateShard, Finish, Stop,
    RunPreflight, RunEnvironment, RunAcquire, RunExtract, RunInspect,
    KeepGeneration, BuildShards, PublishDescriptor, RunValidate,
    DamageReport, DamageSources, DamagePrepared
<1> QED
  BY <1>1, <1>2, <1>3, BoundsAssumption DEF IInv, TypeOK, Spend, ChangeInputs

LEMMA Inductive == IInv /\ [Next]_vars => IInv'
<1> SUFFICES ASSUME IInv, [Next]_vars PROVE IInv'
  OBVIOUS
<1>1. InputsOK'
  BY InputsFrame DEF inputs, IInv, TypeOK, InputsOK, ChangeInputs
<1>2. RunOK'
  <2>1. CASE UNCHANGED vars
    BY <2>1 DEF vars, IInv, TypeOK, RunOK
  <2> QED
    BY <2>1, LoopRunTypes, WorkRunTypes, EnvironsRunTypes DEF Next, Advance
<1> QED
  BY <1>1, <1>2, ReportTypes, SourcesTypes, PreparedTypes, ReadyPreserved,
     CountersBounded DEF IInv, TypeOK

LEMMA InitIInv == Init => IInv
BY BoundsAssumption DEF Init, IInv, TypeOK, InputsOK, ReportOK, SourcesOK,
  PreparedOK, RunOK, EnvironmentReady, Recorded, Off, Spoilt, Step, Stage,
  Shard, Validate, Environment

\* The state stays well typed: in particular a run at or past the shard stage
\* always has a complete generation to name its artifacts by.
THEOREM TypeCorrect == Spec => []TypeOK
<1>1. IInv => TypeOK
  BY DEF IInv
<1> QED
  BY InitIInv, Inductive, <1>1, PTL DEF Spec

-----------------------------------------------------------------------------
(* The state file implements the abstract ledger *)

\* A run has a record of every stage it has passed; that is why a record it
\* adds never leaves a gap.
LedgerOrder ==
  /\ \A k \in DOMAIN ledger : 1..(k - 1) \subseteq DOMAIN ledger
  /\ run.step # "off" => 1..(run.stage - 1) \subseteq DOMAIN ledger

LEMMA DomainOfInvalidated ==
  ASSUME NEW k, NEW l, l = InvalidatedFrom(k)
  PROVE  DOMAIN l = DOMAIN ledger \ (k..Validate)
BY DEF InvalidatedFrom

\* The three things a step may do to the set of recorded stages.
LEMMA DomainMoves ==
  ASSUME IInv, [Next]_vars
  PROVE  \/ DOMAIN ledger' = DOMAIN ledger
         \/ \E k \in Stage :
              /\ DOMAIN ledger' = DOMAIN ledger \ (k..Validate)
              /\ run'.step = "off" \/ run'.stage \in 1..k
         \/ /\ run.step = "complete"
            /\ DOMAIN ledger' = DOMAIN ledger \cup {run.stage}
            /\ run'.step = "off" \/ run' = Following(run.stage, run.gen)
<1> USE DEF InvalidatedFrom, WithRecord, Persist, Off
<1>t. run.stage \in Stage /\ run.stage \in 1..run.stage
  BY DEF IInv, TypeOK, RunOK, Stage
<1>1. CASE ledger' = ledger
  BY <1>1
<1>2. CASE BeginRestart
  <2>1. PICK k \in Stage : ledger' = InvalidatedFrom(k)
    BY <1>2 DEF BeginRestart
  <2>2. run'.stage \in 1..k
    BY <1>2, <2>1 DEF BeginRestart, Preflight, Stage
  <2> QED
    BY <2>1, <2>2
<1>3. CASE StartStage
  <2>1. CASE ledger' = ledger
    BY <2>1
  <2>2. CASE ledger' # ledger
    <3>1. ledger' = InvalidatedFrom(run.stage)
      BY <1>3, <2>2 DEF StartStage
    <3>2. \/ run'.step = "off"
          \/ run' = [run EXCEPT !.step = "work", !.gen = GenAt(run.stage)]
      BY <1>3, <2>2 DEF StartStage
    <3>3. run'.step = "off" \/ run'.stage = run.stage
      BY <3>2, WorkingRun
    <3> QED
      BY <1>t, <3>1, <3>3
  <2> QED
    BY <2>1, <2>2
<1>4. CASE CompleteStage
  BY <1>4 DEF CompleteStage
<1>5. CASE InvalidateShard
  BY <1>5 DEF InvalidateShard, Stage, Shard
<1> QED
  BY <1>1, <1>2, <1>3, <1>4, <1>5, LedgerFrame

\* A run starts at the first stage and passes a stage only with its record.
LEMMA StageMoves ==
  ASSUME IInv, [Next]_vars, run'.step # "off"
  PROVE  \/ run'.stage = Preflight
         \/ run.step # "off" /\ run'.stage = run.stage
         \/ /\ run.step # "off"
            /\ run'.stage = run.stage + 1
            /\ run.stage \in DOMAIN ledger'
            /\ DOMAIN ledger \subseteq DOMAIN ledger'
<1>t. RunOK
  BY DEF IInv, TypeOK
<1>1. CASE Begin \/ BeginRestart
  BY <1>1 DEF Begin, BeginRestart
<1>2. CASE ReuseStage
  BY <1>2, FollowingRun, <1>t DEF ReuseStage, Reusable, Recorded, RunOK
<1>3. CASE StartStage
  <2>1. run' = Off \/ run' = [run EXCEPT !.step = "work", !.gen = GenAt(run.stage)]
    BY <1>3 DEF StartStage, Persist
  <2>2. run' # Off /\ run.step = "decide"
    BY <1>3 DEF Off, StartStage
  <2> QED
    BY <2>1, <2>2, WorkingRun
<1>4. CASE CompleteStage
  <2>1. /\ run' = Off \/ run' = Following(run.stage, run.gen)
        /\ run' # Off => run.stage \in DOMAIN ledger' /\ DOMAIN ledger \subseteq DOMAIN ledger'
    BY <1>4 DEF CompleteStage, Persist, WithRecord
  <2>2. run' # Off /\ run.step = "complete"
    BY <1>4 DEF Off, CompleteStage
  <2> QED
    BY <2>1, <2>2, FollowingRun, <1>t DEF RunOK
<1>5. CASE Work
  <2>1. run.step # "off"
    BY <1>5 DEF Work, Working, RunPreflight, RunEnvironment, RunAcquire,
      RunExtract, RunInspect, KeepGeneration, BuildShards, PublishDescriptor,
      RunValidate
  <2>2. run'.stage = run.stage
    BY <1>5, <1>t DEF Off, RunOK, Done, Raise, Work, RunPreflight,
      RunEnvironment, RunAcquire, RunExtract, RunInspect, KeepGeneration,
      BuildShards, PublishDescriptor, RunValidate
  <2> QED
    BY <2>1, <2>2
<1>6. CASE RotateToken
  BY <1>6, <1>t DEF RotateToken, RunOK
<1>7. CASE InvalidateShard \/ Finish \/ Stop
  BY <1>7 DEF InvalidateShard, Finish, Stop, Persist, Off
<1>8. CASE Environs
  BY <1>8, <1>t DEF Environs, ChangeInputs, DamageReport, DamageSources,
    DamagePrepared, RunOK
<1>9. CASE UNCHANGED vars
  BY <1>9 DEF vars
<1> QED
  BY <1>1, <1>2, <1>3, <1>4, <1>5, <1>6, <1>7, <1>8, <1>9 DEF Next, Advance

LEMMA OrderPreserved == IInv /\ LedgerOrder /\ [Next]_vars => LedgerOrder'
<1> SUFFICES ASSUME IInv, LedgerOrder, [Next]_vars PROVE LedgerOrder'
  OBVIOUS
<1> DEFINE D == DOMAIN ledger
<1>t. D \subseteq 1..7 /\ run.stage \in 1..7 /\ run'.stage \in 1..7
  BY Inductive DEF IInv, TypeOK, RunOK, Stage
<1>o. /\ \A k \in D : 1..(k - 1) \subseteq D
      /\ run.step # "off" => 1..(run.stage - 1) \subseteq D
  BY DEF LedgerOrder
<1>s. run'.step # "off" =>
        \/ run'.stage = Preflight
        \/ run.step # "off" /\ run'.stage = run.stage
        \/ /\ run.step # "off"
           /\ run'.stage = run.stage + 1
           /\ run.stage \in D'
           /\ D \subseteq D'
  BY StageMoves
<1> SUFFICES /\ \A k \in D' : 1..(k - 1) \subseteq D'
             /\ run'.step # "off" => 1..(run'.stage - 1) \subseteq D'
  BY DEF LedgerOrder
<1>1. CASE D' = D
  BY <1>1, <1>t, <1>o, <1>s DEF Preflight
<1>2. CASE \E k \in Stage : /\ D' = D \ (k..Validate)
                            /\ run'.step = "off" \/ run'.stage \in 1..k
  <2>1. PICK k \in 1..7 : /\ D' = D \ (k..7)
                          /\ run'.step = "off" \/ run'.stage \in 1..k
    BY <1>2 DEF Stage, Validate
  <2>2. \A j \in D' : j \in D /\ j < k
    BY <2>1, <1>t
  <2>3. \A j \in D' : 1..(j - 1) \subseteq D'
    BY <2>1, <2>2, <1>t, <1>o
  <2>4. run'.step # "off" => 1..(run'.stage - 1) \subseteq D
    BY <1>t, <1>o, <1>s, <2>1 DEF Preflight
  <2> QED
    BY <2>1, <2>3, <2>4, <1>t
<1>3. CASE /\ run.step = "complete"
           /\ D' = D \cup {run.stage}
  <2>1. \A j \in D' : 1..(j - 1) \subseteq D'
    BY <1>3, <1>t, <1>o
  <2>2. run'.step # "off" => 1..(run'.stage - 1) \subseteq D'
    BY <1>3, <1>t, <1>o, <1>s DEF Preflight
  <2> QED
    BY <2>1, <2>2
<1> QED
  BY <1>1, <1>2, <1>3, DomainMoves

LEMMA LedgerStep ==
  IInv /\ LedgerOrder /\ [Next]_vars => [Ledger!Next]_(DOMAIN ledger)
<1> SUFFICES ASSUME IInv, LedgerOrder, [Next]_vars
             PROVE  [Ledger!Next]_(DOMAIN ledger)
  OBVIOUS
<1> USE DEF Ledger!Next, Ledger!Record, Ledger!DropFrom
<1>t. run.stage \in 1..Validate
  BY DEF IInv, TypeOK, RunOK, Stage, Validate
<1>1. CASE \E k \in Stage : DOMAIN ledger' = DOMAIN ledger \ (k..Validate)
  BY <1>1 DEF Stage, Validate
<1>2. CASE /\ run.step = "complete"
           /\ DOMAIN ledger' = DOMAIN ledger \cup {run.stage}
  BY <1>2, <1>t DEF LedgerOrder
<1> QED
  BY <1>1, <1>2, DomainMoves

\* bootstrap-state.json implements the abstract ledger.
THEOREM LedgerImplemented == Spec => LedgerRefines
<1>1. Init => LedgerOrder /\ Ledger!Init
  BY DEF Init, LedgerOrder, Off, Ledger!Init
<1> QED
  BY <1>1, InitIInv, Inductive, OrderPreserved, LedgerStep, PTL
     DEF Spec, LedgerRefines, Ledger!Spec

\* Hence the records are an initial segment of the pipeline in every state, although
\* neither BootstrapStateStore.complete nor _load checks that: it is the stage loop,
\* which invalidates before it runs a stage, that keeps it so through stops, failed
\* writes and restarts.
THEOREM NoGaps == Spec => []Ledger!PrefixClosed
<1>1. Init => LedgerOrder
  BY DEF Init, LedgerOrder, Off
<1>2. LedgerOrder => Ledger!PrefixClosed
  BY DEF LedgerOrder, Ledger!PrefixClosed
<1> QED
  BY <1>1, <1>2, InitIInv, Inductive, OrderPreserved, PTL DEF Spec

-----------------------------------------------------------------------------
(* The records tell one story *)

\* Each record's signature names the source it is about.
SignaturesNameSource ==
  /\ Recorded(Acquire) => ledger[Acquire].sig = ledger[Acquire].src
  /\ Recorded(Extract) => ledger[Extract].sig[1] = ledger[Extract].src
  /\ Recorded(Inspect) => ledger[Inspect].sig[1] = ledger[Inspect].src

\* The records an active run has passed are its own.
RunAgrees ==
  run.step # "off" =>
    /\ \A j \in DOMAIN ledger :
         Acquire <= j /\ j < run.stage => ledger[j].src = run.src
    /\ run.stage > Environment => ledger[Environment].sig = run.compute
    /\ run.stage = Validate => ledger[Shard].gen = run.gen
    /\ run.stage = Shard /\ run.step # "decide" => run.gen.src = run.src
    /\ run.step # "decide" => DOMAIN ledger \subseteq 1..run.stage

Story == RecordsAgree /\ SignaturesNameSource

LEMMA StoryCut ==
  ASSUME Story, LedgerOrder, DOMAIN ledger \subseteq Stage,
         NEW k \in Stage, ledger' = InvalidatedFrom(k)
  PROVE  Story'
<1> USE DEF Stage, Preflight, Environment, Acquire, Extract, Inspect, Shard,
            Validate, Recorded
<1>1. /\ DOMAIN ledger' \subseteq DOMAIN ledger
      /\ \A j \in DOMAIN ledger' : ledger'[j] = ledger[j]
  BY DEF InvalidatedFrom
<1>2. Shard \in DOMAIN ledger' => Environment \in DOMAIN ledger'
  BY DEF InvalidatedFrom, LedgerOrder
<1>3. Validate \in DOMAIN ledger' => Shard \in DOMAIN ledger'
  BY DEF InvalidatedFrom, LedgerOrder
<1>4. RecordsAgree'
  BY <1>1, <1>2, <1>3 DEF Story, RecordsAgree
<1>5. SignaturesNameSource'
  BY <1>1 DEF Story, SignaturesNameSource
<1> QED
  BY <1>4, <1>5 DEF Story

LEMMA StoryCompleted ==
  ASSUME IInv, LedgerOrder, Story, RunAgrees, CompleteStage
  PROVE  Story'
<1> DEFINE k == run.stage
           entry == [sig |-> Signature(k), src |-> run.src, gen |-> run.gen,
                     outs |-> Outputs(k, run.src, run.gen)]
<1>1. CASE ledger' = ledger
  BY <1>1 DEF Story, RecordsAgree, SignaturesNameSource, Recorded
<1>2. CASE ledger' # ledger
  <2>1. run.step = "complete" /\ SameInputs(k) /\ ledger' = WithRecord(k, entry)
    BY <1>2 DEF CompleteStage, Persist
  <2>2. /\ DOMAIN ledger' = DOMAIN ledger \cup {k}
        /\ \A j \in DOMAIN ledger : j # k => ledger'[j] = ledger[j]
        /\ ledger'[k] = entry
    BY <2>1 DEF WithRecord
  <2>3. k \in Stage /\ DOMAIN ledger \subseteq 1..k
    BY <2>1 DEF RunAgrees, IInv, TypeOK, RunOK
  <2>4. \A j \in DOMAIN ledger : Acquire <= j /\ j < k => ledger[j].src = run.src
    BY <2>1 DEF RunAgrees
  <2>5. \A j \in DOMAIN ledger' : Acquire <= j => ledger'[j].src = run.src
    BY <2>2, <2>3, <2>4 DEF Stage, Acquire
  <2> USE DEF Stage, Preflight, Environment, Acquire, Extract, Inspect, Shard,
              Validate, Recorded
  <2>6. Recorded(Shard)' =>
          /\ ledger'[Shard].sig = ledger'[Shard].gen
          /\ ledger'[Shard].gen.src = ledger'[Shard].src
          /\ ledger'[Environment].sig = ledger'[Shard].gen.compute
    <3>1. CASE k = Shard
      <4>1. ledger'[Shard].sig = GenNow /\ ledger'[Shard].gen = GenNow
        BY <3>1, <2>1, <2>2 DEF Signature, SameInputs
      <4>2. ledger'[Shard].src = run.src
        BY <3>1, <2>2
      <4>3. report.environment = run.compute
        BY <3>1, <2>1 DEF IInv, EnvironmentReady
      <4>4. ledger'[Environment].sig = run.compute
        BY <3>1, <2>1, <2>2 DEF RunAgrees, LedgerOrder
      <4> QED
        BY <4>1, <4>2, <4>3, <4>4 DEF GenNow
    <3>2. CASE k # Shard
      <4>1. Recorded(Shard)' => k = Validate
        BY <3>2, <2>2, <2>3
      <4>2. k = Validate => Environment \in DOMAIN ledger
        BY <2>1 DEF LedgerOrder
      <4> QED
        BY <4>1, <4>2, <3>2, <2>2 DEF Story, RecordsAgree
    <3> QED
      BY <3>1, <3>2
  <2>7. Recorded(Validate)' => ledger'[Validate].gen = ledger'[Shard].gen
    <3>1. Recorded(Validate)' => k = Validate
      BY <2>2, <2>3
    <3>2. k = Validate => Shard \in DOMAIN ledger /\ ledger[Shard].gen = run.gen
      BY <2>1 DEF LedgerOrder, RunAgrees
    <3> QED
      BY <3>1, <3>2, <2>2
  <2>8. RecordsAgree'
    BY <2>5, <2>6, <2>7 DEF RecordsAgree
  <2>9. SignaturesNameSource'
    BY <2>2, <2>3 DEF Story, SignaturesNameSource, Signature
  <2> QED
    BY <2>8, <2>9 DEF Story
<1> QED
  BY <1>1, <1>2

LEMMA StoryPreserved ==
  ASSUME IInv, LedgerOrder, Story, RunAgrees, [Next]_vars
  PROVE  Story'
<1>t. DOMAIN ledger \subseteq Stage /\ run.stage \in Stage /\ Shard \in Stage
  BY DEF IInv, TypeOK, RunOK, Stage, Shard
<1>1. CASE ledger' = ledger
  BY <1>1 DEF Story, RecordsAgree, SignaturesNameSource, Recorded
<1>2. CASE \E k \in Stage : ledger' = InvalidatedFrom(k)
  BY <1>2, <1>t, StoryCut
<1>3. CASE CompleteStage
  BY <1>3, StoryCompleted
<1> QED
  BY <1>1, <1>2, <1>3, <1>t, LedgerFrame
     DEF BeginRestart, StartStage, InvalidateShard, Persist

\* Reusing a record means that it is about the run's own source, environment
\* and generation.
LEMMA ReuseAgrees ==
  ASSUME IInv, Story, RunAgrees, ReuseStage
  PROVE  RunAgrees'
<1> DEFINE k == run.stage
<1> USE DEF Preflight, Environment, Acquire, Extract, Inspect, Shard, Validate
<1>1. /\ run.step = "decide" /\ k # Validate
      /\ k \in DOMAIN ledger
      /\ ledger[k].sig = Signature(k)
      /\ run' = Following(k, GenAt(k))
      /\ ledger' = ledger
  BY DEF ReuseStage, Reusable, Recorded
<1>2. k \in 1..7
  BY DEF IInv, TypeOK, RunOK, Stage
<1>3. /\ run'.step = "decide" /\ run'.stage = k + 1
      /\ run'.src = run.src /\ run'.compute = run.compute
      /\ run'.gen = GenAt(k)
  <2>1. run' = [step |-> "decide", stage |-> k + 1, src |-> run.src,
                compute |-> run.compute, gen |-> GenAt(k),
                untouched |-> run.untouched]
    BY <1>1, FollowingRun
  <2> QED
    BY <2>1
<1>4. Acquire <= k => ledger[k].src = run.src
  <2>1. CASE k = Acquire
    BY <1>1, <2>1 DEF Signature, Story, SignaturesNameSource, Recorded
  <2>2. CASE k = Extract
    <3>1. Signature(k)[1] = run.src
      BY <2>2 DEF Signature
    <3> QED
      BY <1>1, <2>2, <3>1 DEF Story, SignaturesNameSource, Recorded
  <2>3. CASE k = Inspect
    <3>1. Signature(k)[1] = run.src
      BY <2>3 DEF Signature
    <3> QED
      BY <1>1, <2>3, <3>1 DEF Story, SignaturesNameSource, Recorded
  <2>4. CASE k = Shard
    <3>1. Signature(k).src = run.src
      BY <2>4 DEF Signature, GenNow
    <3> QED
      BY <1>1, <2>4, <3>1 DEF Story, RecordsAgree, Recorded
  <2> QED
    BY <1>1, <1>2, <2>1, <2>2, <2>3, <2>4
<1>5. k = Environment => ledger[k].sig = run.compute
  BY <1>1 DEF Signature
<1>6. k = Shard => ledger[Shard].gen = GenAt(k)
  BY <1>1 DEF Signature, Story, RecordsAgree, Recorded, GenAt
<1>7. k > Environment => ledger[Environment].sig = run.compute
  BY <1>1 DEF RunAgrees
<1>8. \A j \in DOMAIN ledger :
        Acquire <= j /\ j < k => ledger[j].src = run.src
  BY <1>1 DEF RunAgrees
<1>9. \A j \in DOMAIN ledger : j \in 1..7
  BY DEF IInv, TypeOK, Stage
<1>10. \A j \in DOMAIN ledger' :
        Acquire <= j /\ j < run'.stage => ledger'[j].src = run'.src
  BY <1>1, <1>2, <1>3, <1>4, <1>8, <1>9
<1> QED
  BY <1>1, <1>2, <1>3, <1>5, <1>6, <1>7, <1>10 DEF RunAgrees

LEMMA StartAgrees ==
  ASSUME IInv, LedgerOrder, Story, RunAgrees, StartStage, run' # Off
  PROVE  RunAgrees'
<1> DEFINE k == run.stage
<1> USE DEF Preflight, Environment, Acquire, Extract, Inspect, Shard, Validate
<1>1. /\ run.step = "decide"
      /\ run' = [run EXCEPT !.step = "work", !.gen = GenAt(k)]
      /\ (k = Validate /\ ledger' = ledger) \/ ledger' = InvalidatedFrom(k)
  BY DEF StartStage, Persist
<1>2. k \in 1..7 /\ DOMAIN ledger \subseteq 1..7
  BY DEF IInv, TypeOK, RunOK, Stage
<1>3. /\ run'.step = "work" /\ run'.stage = k
      /\ run'.src = run.src /\ run'.compute = run.compute
      /\ run'.gen = GenAt(k)
  BY <1>1, WorkingRun
<1>4. /\ \A j \in DOMAIN ledger' : j \in DOMAIN ledger /\ ledger'[j] = ledger[j]
      /\ DOMAIN ledger' \subseteq 1..k
      /\ \A j \in DOMAIN ledger : j < k => ledger'[j] = ledger[j]
  BY <1>1, <1>2 DEF InvalidatedFrom
<1>5. \A j \in DOMAIN ledger' :
        Acquire <= j /\ j < run'.stage => ledger'[j].src = run'.src
  BY <1>1, <1>3, <1>4 DEF RunAgrees
<1>6. /\ k > Environment => Environment \in DOMAIN ledger
      /\ k = Validate => Shard \in DOMAIN ledger
  BY <1>1, <1>2 DEF LedgerOrder
<1>7. run'.stage > Environment => ledger'[Environment].sig = run'.compute
  BY <1>1, <1>3, <1>4, <1>6 DEF RunAgrees
<1>8. run'.stage = Validate => ledger'[Shard].gen = run'.gen
  BY <1>1, <1>3, <1>4, <1>6 DEF RunAgrees, GenAt
<1>9. run'.stage = Shard => run'.gen.src = run'.src
  BY <1>3 DEF GenAt, GenNow
<1> QED
  BY <1>3, <1>4, <1>5, <1>7, <1>8, <1>9 DEF RunAgrees

LEMMA CompleteAgrees ==
  ASSUME IInv, LedgerOrder, Story, RunAgrees, CompleteStage, run' # Off
  PROVE  RunAgrees'
<1> DEFINE k == run.stage
<1> USE DEF Preflight, Environment, Acquire, Extract, Inspect, Shard, Validate
<1>1. /\ run.step = "complete"
      /\ run' = Following(k, run.gen)
      /\ ledger' = WithRecord(k, [sig |-> Signature(k), src |-> run.src,
                                  gen |-> run.gen,
                                  outs |-> Outputs(k, run.src, run.gen)])
  BY DEF CompleteStage, Persist
<1>2. k \in 1..7 /\ DOMAIN ledger \subseteq 1..k
  BY <1>1 DEF IInv, TypeOK, RunOK, Stage, RunAgrees
<1>3. /\ k = Validate => run'.stage = k /\ run'.gen = run.gen
      /\ k # Validate => /\ run'.stage = k + 1 /\ run'.step = "decide"
                         /\ run'.gen = run.gen
      /\ run'.src = run.src /\ run'.compute = run.compute
  BY <1>1, FollowingRun DEF IInv, TypeOK, RunOK
<1>4. /\ DOMAIN ledger' = DOMAIN ledger \cup {k}
      /\ \A j \in DOMAIN ledger : j # k => ledger'[j] = ledger[j]
      /\ ledger'[k].src = run.src /\ ledger'[k].gen = run.gen
      /\ ledger'[k].sig = Signature(k)
  BY <1>1 DEF WithRecord
<1>5. \A j \in DOMAIN ledger' :
        Acquire <= j /\ j < run'.stage => ledger'[j].src = run'.src
  <2>1. \A j \in DOMAIN ledger : Acquire <= j /\ j < k => ledger[j].src = run.src
    BY <1>1 DEF RunAgrees
  <2>2. \A j \in DOMAIN ledger' : (j \in DOMAIN ledger /\ j < k) \/ j = k
    BY <1>2, <1>4
  <2> QED
    BY <1>3, <1>4, <2>1, <2>2
<1>6. 1..(k - 1) \subseteq DOMAIN ledger
  BY <1>1 DEF LedgerOrder
<1>7. run'.stage > Environment => ledger'[Environment].sig = run'.compute
  <2>1. CASE k = Environment
    BY <2>1, <1>3, <1>4 DEF Signature
  <2>2. CASE k > Environment
    BY <2>2, <1>1, <1>2, <1>3, <1>4, <1>6 DEF RunAgrees
  <2> QED
    BY <2>1, <2>2, <1>2, <1>3
<1>8. run'.stage = Validate => ledger'[Shard].gen = run'.gen
  <2>1. CASE k = Shard
    BY <2>1, <1>3, <1>4
  <2>2. CASE k = Validate
    BY <2>2, <1>1, <1>2, <1>3, <1>4, <1>6 DEF RunAgrees
  <2> QED
    BY <2>1, <2>2, <1>2, <1>3
<1>9. run'.step # "decide" => DOMAIN ledger' \subseteq 1..run'.stage
  BY <1>2, <1>3, <1>4
<1>10. run'.stage = Shard => run'.step = "decide"
  BY <1>2, <1>3
<1> QED
  BY <1>5, <1>7, <1>8, <1>9, <1>10 DEF RunAgrees

LEMMA AgreesPreserved ==
  ASSUME IInv, LedgerOrder, Story, RunAgrees, [Next]_vars
  PROVE  RunAgrees'
<1>t. RunOK
  BY DEF IInv, TypeOK
<1>1. CASE run'.step = "off"
  BY <1>1 DEF RunAgrees
<1>2. CASE run'.stage = Preflight /\ run'.step = "decide"
  <2> \A j \in DOMAIN ledger' : j \in 1..7
    BY Inductive DEF IInv, TypeOK, Stage
  <2> QED
    BY <1>2 DEF RunAgrees, Preflight, Environment, Acquire, Shard, Validate
<1>3. CASE /\ ledger' = ledger
           /\ run'.src = run.src /\ run'.compute = run.compute
           /\ run'.stage = run.stage /\ run'.gen = run.gen
           /\ run.step # "off"
           /\ run.step = run'.step \/ run.step # "decide"
  BY <1>3 DEF RunAgrees
<1>4. CASE Work
  <2>1. \/ run' = Off
        \/ /\ run.step = "work" \/ run.step = "publish"
           /\ \E s \in {"complete", "publish", "recover"} :
                run' = [run EXCEPT !.step = s]
    BY <1>4 DEF Work, Working, Done, Raise, RunPreflight, RunEnvironment,
      RunAcquire, RunExtract, RunInspect, KeepGeneration, BuildShards,
      PublishDescriptor, RunValidate
  <2>2. ledger' = ledger
    BY <1>4 DEF Work, RunPreflight, RunEnvironment,
      RunAcquire, RunExtract, RunInspect, KeepGeneration, BuildShards,
      PublishDescriptor, RunValidate
  <2> QED
    BY <2>1, <2>2, <1>1, <1>3, <1>t DEF Off, RunOK
<1>5. CASE RotateToken
  BY <1>5, <1>3, <1>t DEF RotateToken, RunOK
<1>6. CASE Environs
  <2>1. ledger' = ledger /\ (run' = run \/ run' = [run EXCEPT !.untouched = FALSE])
    BY <1>6 DEF Environs, ChangeInputs, DamageReport, DamageSources,
      DamagePrepared
  <2> QED
    BY <2>1, <1>1, <1>3, <1>t DEF RunOK
<1>7. CASE UNCHANGED vars
  BY <1>7, <1>1, <1>3 DEF vars
<1>8. CASE Begin \/ BeginRestart
  BY <1>8, <1>2 DEF Begin, BeginRestart
<1>9. CASE InvalidateShard \/ Finish \/ Stop
  BY <1>9, <1>1 DEF InvalidateShard, Finish, Stop, Persist, Off
<1>10. CASE ReuseStage
  BY <1>10, ReuseAgrees
<1>11. CASE StartStage
  BY <1>11, <1>1, StartAgrees DEF Off
<1>12. CASE CompleteStage
  BY <1>12, <1>1, CompleteAgrees DEF Off
<1> QED
  BY <1>4, <1>5, <1>6, <1>7, <1>8, <1>9, <1>10, <1>11, <1>12 DEF Next, Advance

\* Whatever was interrupted, invalidated, reused or restarted, the records
\* that are left are about one source, one environment and one generation.
THEOREM RecordsTellOneStory == Spec => []RecordsAgree
<1>1. Init => LedgerOrder /\ Story /\ RunAgrees
  BY DEF Init, LedgerOrder, Story, RecordsAgree, SignaturesNameSource,
    RunAgrees, Recorded, Off
<1>2. Story => RecordsAgree
  BY DEF Story
<1> QED
  BY <1>1, <1>2, InitIInv, Inductive, OrderPreserved, StoryPreserved,
     AgreesPreserved, PTL DEF Spec

-----------------------------------------------------------------------------
(* Nothing is overwritten *)

\* Between building the data and publishing its descriptor the generation has
\* no descriptor: nobody else writes the data root during a run.
PublishesOnce == run.step = "publish" => descriptor[run.gen] = Absent

LEMMA PublishesOncePreserved ==
  ASSUME IInv, PublishesOnce, [Next]_vars
  PROVE  PublishesOnce'
<1>t. RunOK /\ PreparedOK
  BY DEF IInv, TypeOK
<1>1. CASE Begin \/ BeginRestart \/ Stop
  BY <1>1 DEF Begin, BeginRestart, Stop, Off, PublishesOnce
<1>2. CASE ReuseStage
  BY <1>2, FollowingRun, <1>t DEF ReuseStage, PublishesOnce, RunOK
<1>3. CASE StartStage
  <2>1. run' = Off \/ run' = [run EXCEPT !.step = "work", !.gen = GenAt(run.stage)]
    BY <1>3 DEF StartStage, Persist
  <2>2. CASE run' = [run EXCEPT !.step = "work", !.gen = GenAt(run.stage)]
    BY <2>2, WorkingRun DEF PublishesOnce
  <2> QED
    BY <2>1, <2>2 DEF Off, PublishesOnce
<1>4. CASE CompleteStage
  <2>1. run' = Off \/ run' = Following(run.stage, run.gen)
    BY <1>4 DEF CompleteStage, Persist
  <2>2. CASE run' = Following(run.stage, run.gen)
    BY <2>2, FollowingRun, <1>t DEF PublishesOnce, RunOK
  <2> QED
    BY <2>1, <2>2 DEF Off, PublishesOnce
<1>5. CASE BuildShards
  BY <1>5, <1>t DEF BuildShards, PublishesOnce, Raise, Off, RunOK
<1>6. CASE \/ RunPreflight \/ RunEnvironment \/ RunAcquire \/ RunExtract
           \/ RunInspect \/ KeepGeneration \/ PublishDescriptor \/ RunValidate
  BY <1>6, <1>t DEF RunPreflight, RunEnvironment, RunAcquire, RunExtract,
    RunInspect, KeepGeneration, PublishDescriptor, RunValidate, Done, Raise,
    Off, PublishesOnce, RunOK
<1>7. CASE RotateToken \/ InvalidateShard \/ Finish
  BY <1>7, <1>t DEF RotateToken, InvalidateShard, Persist, Finish, Off,
    PublishesOnce, RunOK
<1>8. CASE ChangeInputs
  BY <1>8, <1>t DEF ChangeInputs, prepared, PublishesOnce, RunOK
<1>9. CASE DamageReport \/ DamageSources \/ DamagePrepared
  BY <1>9 DEF DamageReport, DamageSources, DamagePrepared, PublishesOnce
<1>10. CASE UNCHANGED vars
  BY <1>10 DEF vars, prepared, PublishesOnce
<1> QED
  BY <1>1, <1>2, <1>3, <1>4, <1>5, <1>6, <1>7, <1>8, <1>9, <1>10
     DEF Next, Advance, Work, Environs

\* A run never writes over an archive, a tree or a described generation.
THEOREM NothingIsOverwritten == Spec => NothingOverwritten
<1> DEFINE Keeps ==
      run.step # "off" =>
        /\ \A s \in Source :
             /\ acquired[s] # Absent => acquired'[s] = acquired[s]
             /\ raw[s] # Absent => raw'[s] = raw[s]
        /\ \A g \in Gen : descriptor[g] # Absent =>
             descriptor'[g] = descriptor[g] /\ shards'[g] = shards[g]
<1>1. Init => PublishesOnce
  BY DEF Init, Off, PublishesOnce
<1>2. ASSUME IInv, PublishesOnce, [Next]_vars PROVE Keeps
  <2> SUFFICES ASSUME run.step # "off" PROVE Keeps
    OBVIOUS
  <2>t. SourcesOK /\ PreparedOK /\ RunOK
    BY <1>2 DEF IInv, TypeOK
  <2>1. \A s \in Source :
          /\ acquired[s] # Absent => acquired'[s] = acquired[s]
          /\ raw[s] # Absent => raw'[s] = raw[s]
    BY <1>2, <2>t, SourcesFrame DEF sources, SourcesOK, RunAcquire, RunExtract,
      RunInspect, DamageSources, Raise
  <2>2. ASSUME NEW g \in Gen, descriptor[g] # Absent
        PROVE  descriptor'[g] = descriptor[g] /\ shards'[g] = shards[g]
    BY <1>2, <2>2, <2>t, PreparedFrame DEF prepared, PreparedOK, BuildShards,
      PublishDescriptor, RotateToken, DamagePrepared, Raise, PublishesOnce
  <2> QED
    BY <2>1, <2>2
<1>3. IInv /\ PublishesOnce /\ [Next]_vars => PublishesOnce'
  BY PublishesOncePreserved
<1>4. IInv /\ PublishesOnce /\ [Next]_vars => [Keeps]_vars
  BY <1>2
<1> QED
  BY <1>1, <1>3, <1>4, InitIInv, Inductive, PTL DEF Spec, NothingOverwritten

-----------------------------------------------------------------------------
(* What a run hands over is current *)

\* The stages a run has passed would be reused as they are: a later stage
\* touches neither their inputs nor their outputs, as long as the user changes
\* nothing and the recovery has not rotated the token.  Once the data has been
\* validated it stays what was verified.
PassedCurrent ==
  run.step \notin {"off", "invalidate"} /\ run.untouched =>
    /\ \A k \in Stage : k < run.stage \/ run.step = "finished" => Reusable(k)
    /\ run.stage = Validate /\ run.step \in {"complete", "finished"} =>
         Verifies(run.gen)

\* A step that leaves every file alone, and the record of a stage, leaves the
\* stage reusable.
LEMMA ReusableStays ==
  ASSUME UNCHANGED <<inputs, report, sources, prepared, retryToken>>,
         run'.src = run.src, run'.compute = run.compute,
         NEW k \in Stage \ {Validate}, Reusable(k),
         k \in DOMAIN ledger', ledger'[k] = ledger[k]
  PROVE  Reusable(k)'
BY DEF Reusable, Recorded, Signature, Outputs, GenNow, inputs, sources,
  prepared, Stage, Preflight, Environment, Acquire, Extract, Inspect, Shard,
  Validate

LEMMA ReuseKeepsCurrent ==
  ASSUME IInv, PassedCurrent, ReuseStage
  PROVE  PassedCurrent'
<1>1. /\ run.step = "decide" /\ run.stage # Validate /\ Reusable(run.stage)
      /\ run' = Following(run.stage, GenAt(run.stage))
      /\ UNCHANGED <<inputs, report, sources, prepared, retryToken, ledger>>
  BY DEF ReuseStage
<1>2. run.stage \in 1..6
  BY <1>1 DEF IInv, TypeOK, RunOK, Stage, Validate
<1>3. /\ run'.step = "decide" /\ run'.stage = run.stage + 1
      /\ run'.src = run.src /\ run'.compute = run.compute
      /\ run'.untouched = run.untouched
  <2>1. run' = [step |-> "decide", stage |-> run.stage + 1, src |-> run.src,
                compute |-> run.compute, gen |-> GenAt(run.stage),
                untouched |-> run.untouched]
    BY <1>1, FollowingRun
  <2> QED
    BY <2>1
<1>4. ASSUME run.untouched, NEW k \in Stage, k <= run.stage PROVE Reusable(k)'
  <2>1. Reusable(k) /\ k # Validate
    BY <1>1, <1>2, <1>4 DEF PassedCurrent, Stage, Validate
  <2> QED
    BY <2>1, <1>1, <1>3, ReusableStays DEF Reusable, Recorded
<1> QED
  BY <1>2, <1>3, <1>4 DEF PassedCurrent, Stage

LEMMA StartKeepsCurrent ==
  ASSUME IInv, PassedCurrent, StartStage
  PROVE  PassedCurrent'
<1>1. /\ run.step = "decide"
      /\ ledger' = ledger \/ ledger' = InvalidatedFrom(run.stage)
      /\ run' = Off \/ run' = [run EXCEPT !.step = "work", !.gen = GenAt(run.stage)]
      /\ UNCHANGED <<inputs, report, sources, prepared, retryToken>>
  BY DEF StartStage, Persist
<1>2. CASE run' = Off
  BY <1>2 DEF Off, PassedCurrent
<1>3. CASE run' = [run EXCEPT !.step = "work", !.gen = GenAt(run.stage)]
  <2>1. /\ run'.step = "work" /\ run'.stage = run.stage
        /\ run'.src = run.src /\ run'.compute = run.compute
        /\ run'.untouched = run.untouched
    BY <1>3, WorkingRun
  <2>2. ASSUME run.untouched, NEW k \in Stage, k < run.stage PROVE Reusable(k)'
    <3>1. Reusable(k) /\ k # Validate
      BY <1>1, <2>2 DEF PassedCurrent, IInv, TypeOK, RunOK, Stage, Validate
    <3>2. k \in DOMAIN ledger' /\ ledger'[k] = ledger[k]
      BY <1>1, <2>2, <3>1
         DEF Reusable, Recorded, InvalidatedFrom, IInv, TypeOK, RunOK, Stage, Validate
    <3> QED
      BY <3>1, <3>2, <1>1, <2>1, ReusableStays
  <2> QED
    BY <2>1, <2>2 DEF PassedCurrent
<1> QED
  BY <1>1, <1>2, <1>3

\* The record that completes a stage describes the inputs and outputs as they
\* are at that moment.
LEMMA RecordIsCurrent ==
  ASSUME UNCHANGED <<inputs, report, sources, prepared, retryToken>>,
         run'.src = run.src, run'.compute = run.compute, run'.gen = run.gen,
         NEW k \in Stage,
         ledger' = WithRecord(k, [sig |-> Signature(k), src |-> run.src,
                                  gen |-> run.gen,
                                  outs |-> Outputs(k, run.src, run.gen)])
  PROVE  Reusable(k)'
<1>1. /\ k \in DOMAIN ledger'
      /\ ledger'[k] = [sig |-> Signature(k), src |-> run.src, gen |-> run.gen,
                       outs |-> Outputs(k, run.src, run.gen)]
  BY DEF WithRecord
<1>2. Signature(k)' = Signature(k)
  BY DEF Signature, GenNow, inputs, sources, prepared
<1>3. Outputs(k, run.src, run.gen)' = Outputs(k, run.src, run.gen)
  BY DEF Outputs, sources, prepared
<1>4. /\ ledger'[k].sig = Signature(k) /\ ledger'[k].src = run.src
      /\ ledger'[k].gen = run.gen /\ ledger'[k].outs = Outputs(k, run.src, run.gen)
  BY <1>1
<1>5. Outputs(k, ledger[k].src, ledger[k].gen)' = Outputs(k, run.src, run.gen)'
  BY <1>4 DEF Outputs
<1> QED
  BY <1>1, <1>2, <1>3, <1>4, <1>5 DEF Reusable, Recorded

LEMMA CompleteKeepsCurrent ==
  ASSUME IInv, PassedCurrent, CompleteStage, NEW k \in Stage, k = run.stage
  PROVE  PassedCurrent'
<1> DEFINE entry == [sig |-> Signature(k), src |-> run.src, gen |-> run.gen,
                     outs |-> Outputs(k, run.src, run.gen)]
<1>1. /\ run.step = "complete"
      /\ \/ run' = Off
         \/ ledger' = WithRecord(k, entry) /\ run' = Following(k, run.gen)
      /\ UNCHANGED <<inputs, report, sources, prepared, retryToken>>
  BY DEF CompleteStage, Persist
<1>2. CASE run' = Off
  BY <1>2 DEF Off, PassedCurrent
<1>3. CASE ledger' = WithRecord(k, entry) /\ run' = Following(k, run.gen)
  <2>1. k \in 1..7
    BY DEF Stage
  <2>2. /\ k = Validate => run'.stage = k /\ run'.step = "finished"
        /\ k # Validate => run'.stage = k + 1 /\ run'.step = "decide"
        /\ run'.src = run.src /\ run'.compute = run.compute
        /\ run'.gen = run.gen /\ run'.untouched = run.untouched
    <3>1. CASE k = Validate
      <4>1. run' = [run EXCEPT !.step = "finished"]
        BY <1>3, <3>1 DEF Following
      <4> QED
        BY <3>1, <4>1 DEF IInv, TypeOK, RunOK
    <3>2. CASE k # Validate
      <4>1. run' = [step |-> "decide", stage |-> k + 1, src |-> run.src,
                    compute |-> run.compute, gen |-> run.gen,
                    untouched |-> run.untouched]
        BY <1>3, <3>2, FollowingRun
      <4> QED
        BY <3>2, <4>1
    <3> QED
      BY <3>1, <3>2
  <2>3. Reusable(k)'
    BY <1>1, <1>3, <2>2, RecordIsCurrent
  <2>4. ASSUME run.untouched, NEW j \in Stage, j < k PROVE Reusable(j)'
    <3>1. Reusable(j) /\ j # Validate
      BY <1>1, <2>1, <2>4 DEF PassedCurrent, Stage, Validate
    <3>2. j \in DOMAIN ledger' /\ ledger'[j] = ledger[j]
      BY <1>3, <2>1, <2>4, <3>1 DEF Reusable, Recorded, WithRecord, Stage
    <3> QED
      BY <3>1, <3>2, <1>1, <2>2, ReusableStays
  <2>5. ASSUME run.untouched, k = Validate PROVE Verifies(run.gen)'
    BY <1>1, <2>2, <2>5 DEF PassedCurrent, Verifies, inputs, sources, prepared
  <2> QED
    BY <2>1, <2>2, <2>3, <2>4, <2>5 DEF PassedCurrent, Stage, Validate
<1> QED
  BY <1>1, <1>2, <1>3

\* A stage changes only its own outputs, and none of the inputs of an earlier
\* stage.
LEMMA WorkKeepsEarlier ==
  ASSUME IInv, Work, run' # Off, NEW k \in Stage, k < run.stage, Reusable(k)
  PROVE  Reusable(k)'
<1> USE DEF Reusable, Recorded, Signature, Outputs, GenNow, Working, Raise, Done
<1> USE DEF IInv, TypeOK, RunOK, ReportOK, SourcesOK, PreparedOK, Stage,
            Preflight, Environment, Acquire, Extract, Inspect, Shard, Validate
<1>1. CASE RunPreflight \/ RunEnvironment
  BY <1>1 DEF RunPreflight, RunEnvironment, inputs, sources, prepared
<1>2. CASE RunAcquire
  BY <1>2 DEF RunAcquire, inputs, sources, prepared
<1>3. CASE RunExtract
  BY <1>3 DEF RunExtract, inputs, sources, prepared
<1>4. CASE RunInspect
  BY <1>4 DEF RunInspect, inputs, sources, prepared
<1>5. CASE KeepGeneration
  BY <1>5 DEF KeepGeneration, inputs, sources, prepared
<1>6. CASE BuildShards
  BY <1>6 DEF BuildShards, inputs, sources, prepared
<1>7. CASE PublishDescriptor
  BY <1>7 DEF PublishDescriptor, inputs, sources, prepared
<1>8. CASE RunValidate
  BY <1>8 DEF RunValidate, inputs, sources, prepared
<1> QED
  BY <1>1, <1>2, <1>3, <1>4, <1>5, <1>6, <1>7, <1>8 DEF Work

LEMMA WorkKeepsCurrent ==
  ASSUME IInv, PassedCurrent, Work
  PROVE  PassedCurrent'
<1>1. CASE run' = Off
  BY <1>1 DEF Off, PassedCurrent
<1>2. CASE run' # Off
  <2>1. /\ run.step \in {"work", "publish"}
        /\ \E s \in {"complete", "publish", "recover"} :
             run' = [run EXCEPT !.step = s]
    BY <1>2 DEF Work, Working, Done, Raise, RunPreflight, RunEnvironment,
      RunAcquire, RunExtract, RunInspect, KeepGeneration, BuildShards,
      PublishDescriptor, RunValidate
  <2>2. /\ run'.stage = run.stage /\ run'.untouched = run.untouched
        /\ run'.gen = run.gen /\ run'.step \in {"complete", "publish", "recover"}
    BY <2>1 DEF IInv, TypeOK, RunOK
  <2>3. ASSUME run.untouched, NEW k \in Stage, k < run.stage PROVE Reusable(k)'
    BY <1>2, <2>1, <2>3, WorkKeepsEarlier DEF PassedCurrent
  <2>4. ASSUME run.stage = Validate, run'.step = "complete"
        PROVE  Verifies(run.gen)'
    <3>1. RunValidate
      BY <2>4, <2>1 DEF Work, Working, RunPreflight, RunEnvironment,
        RunAcquire, RunExtract, RunInspect, KeepGeneration, BuildShards,
        PublishDescriptor, Preflight, Environment, Acquire, Extract, Inspect,
        Shard, Validate, IInv, TypeOK, RunOK
    <3>2. Verifies(run.gen)
      BY <2>4, <3>1 DEF RunValidate, IInv, TypeOK, RunOK
    <3> QED
      BY <2>2, <3>1, <3>2 DEF RunValidate, Verifies, inputs, sources, prepared
  <2> QED
    BY <2>2, <2>3, <2>4 DEF PassedCurrent
<1> QED
  BY <1>1, <1>2

LEMMA CurrentPreserved ==
  ASSUME IInv, PassedCurrent, [Next]_vars
  PROVE  PassedCurrent'
<1>t. RunOK
  BY DEF IInv, TypeOK
<1>1. CASE Begin \/ BeginRestart
  <2>1. /\ run'.step = "decide" /\ run'.stage = 1
    BY <1>1 DEF Begin, BeginRestart, Preflight
  <2> QED
    BY <2>1 DEF PassedCurrent, Stage, Validate
<1>2. CASE InvalidateShard \/ Finish \/ Stop
  BY <1>2 DEF InvalidateShard, Finish, Stop, Persist, Off, PassedCurrent
<1>3. CASE RotateToken
  BY <1>3, <1>t DEF RotateToken, RunOK, PassedCurrent
<1>4. CASE ChangeInputs
  BY <1>4, <1>t DEF ChangeInputs, RunOK, PassedCurrent
<1>5. CASE DamageReport \/ DamageSources \/ DamagePrepared
  BY <1>5 DEF DamageReport, DamageSources, DamagePrepared, PassedCurrent
<1>6. CASE UNCHANGED vars
  <2>1. \A k \in Stage : Signature(k)' = Signature(k)
    BY <1>6 DEF vars, inputs, sources, prepared, Signature, GenNow
  <2>2. \A k, src, gen : Outputs(k, src, gen)' = Outputs(k, src, gen)
    BY <1>6 DEF vars, sources, prepared, Outputs
  <2>3. run' = run /\ ledger' = ledger /\ Verifies(run.gen)' = Verifies(run.gen)
    BY <1>6 DEF vars, inputs, sources, prepared, Verifies
  <2> QED
    BY <2>1, <2>2, <2>3 DEF PassedCurrent, Reusable, Recorded
<1>7. CASE CompleteStage
  BY <1>7, <1>t, CompleteKeepsCurrent DEF RunOK
<1> QED
  BY <1>1, <1>2, <1>3, <1>4, <1>5, <1>6, <1>7, ReuseKeepsCurrent,
     StartKeepsCurrent, WorkKeepsCurrent DEF Next, Advance, Environs

LEMMA CurrentHolds == Spec => []PassedCurrent
<1>1. Init => PassedCurrent
  BY DEF Init, Off, PassedCurrent
<1>2. IInv /\ PassedCurrent /\ [Next]_vars => PassedCurrent'
  BY CurrentPreserved
<1> QED
  BY <1>1, <1>2, InitIInv, Inductive, PTL DEF Spec

\* After a finished run that nobody interfered with, the same command would
\* find every stage reusable.
THEOREM RerunIsIdle == Spec => []RerunReusesAll
<1>1. PassedCurrent => RerunReusesAll
  BY DEF PassedCurrent, RerunReusesAll, Reusable
<1> QED
  BY <1>1, CurrentHolds, PTL

\* A run that finishes as "prepared" hands over data made from its own source,
\* environment and configuration, whatever earlier runs left on disk.
THEOREM HandsOverCurrent == Spec => []PreparedIsCurrent
<1>1. ASSUME IInv, PassedCurrent, Story, RunAgrees,
             run.step = "finished", run.untouched
      PROVE  /\ raw[run.src] = run.src
             /\ run.gen = [src |-> run.src, compute |-> run.compute,
                           config |-> config, token |-> retryToken]
             /\ descriptor[run.gen] = config
             /\ shards[run.gen] = config
  <2>1. run.stage = Validate /\ Verifies(run.gen) /\ Reusable(Shard)
    BY <1>1 DEF PassedCurrent, IInv, TypeOK, RunOK, Stage, Shard
  <2>2. report.environment = run.compute
    BY <1>1, <2>1 DEF IInv, EnvironmentReady, Environment, Validate
  <2>3. ledger[Shard].sig = GenNow
    BY <2>1 DEF Reusable, Signature, Preflight, Environment, Acquire, Extract,
      Inspect, Shard, Validate
  <2>4. ledger[Shard].gen = run.gen /\ ledger[Shard].sig = ledger[Shard].gen
    BY <1>1, <2>1 DEF RunAgrees, Story, RecordsAgree, Reusable
  <2>5. run.gen = [src |-> run.src, compute |-> run.compute,
                   config |-> config, token |-> retryToken]
    BY <2>2, <2>3, <2>4 DEF GenNow
  <2>6. run.gen.src = run.src
    BY <2>5
  <2> QED
    BY <2>1, <2>5, <2>6 DEF Verifies
<1>2. IInv /\ PassedCurrent /\ Story /\ RunAgrees => PreparedIsCurrent
  BY <1>1 DEF PreparedIsCurrent
<1>3. Init => LedgerOrder /\ Story /\ RunAgrees
  BY DEF Init, LedgerOrder, Story, RecordsAgree, SignaturesNameSource,
    RunAgrees, Recorded, Off
<1> QED
  BY <1>2, <1>3, CurrentHolds, InitIInv, Inductive, OrderPreserved,
     StoryPreserved, AgreesPreserved, PTL DEF Spec
=============================================================================
