---------------------------- MODULE TrainingStage ----------------------------
(* run_train of run_bootstrap: the datasets are trained in order, and what  *)
(* the next invocation may reuse is read from two files: the training       *)
(* report (training.json), rewritten as a whole after every dataset, and    *)
(* the index of terminal rejections.  An invocation keeps the statuses it   *)
(* read and collects its own from nothing.                                  *)
(*                                                                         *)
(* A training run is its directory; a checkpoint is the number of epochs    *)
(* behind it.  Invocations exclude each other (the writer lock).            *)
EXTENDS Integers, Sequences, SequencesExt

CONSTANTS
  Dataset,
  Order,       \* training_order
  Compute,     \* the devices the command is given
  Descriptor,  \* the contents a prepared descriptor may have
  Losable,     \* what may be lost: "report", "index", "runs"
  Epochs,      \* target epochs: a checkpoint with that many is terminal
  MaxFaults,   \* bounds kills, errors, failed writes and damages
  MaxChanges   \* bounds new descriptors, restarts, reruns of a finished stage

ASSUME OrderAssumption ==
  Order \in Seq(Dataset) /\ IsInjective(Order) /\ ToSet(Order) = Dataset
ASSUME ComputeAssumption == "cpu" \in Compute /\ Compute \subseteq {"cpu", "cuda"}
ASSUME DescriptorAssumption == "none" \notin Descriptor
ASSUME LosableAssumption == Losable \subseteq {"report", "index", "runs"}
ASSUME EpochsAssumption == Epochs \in Nat \ {0}
ASSUME BoundAssumption == MaxFaults \in Nat /\ MaxChanges \in Nat

VARIABLES
  prepared,  \* the descriptor each dataset is prepared with
  runs,      \* the run directories under runs_root, oldest first
  report,    \* training.json
  index,     \* the terminal-rejection index
  stage,     \* the descriptors the ledger's train record was committed with
  inv,       \* the invocation of the command
  faults, changes

vars == <<prepared, runs, report, index, stage, inv, faults, changes>>

-----------------------------------------------------------------------------
(* Statuses of a dataset: running, or failed after the run was created      *)
(* (both keep the locators: open); failed without locators (bare).          *)

NoStatus == [kind |-> "none", active |-> 0, resume |-> 0, of |-> "none"]
Bare == [NoStatus EXCEPT !.kind = "bare"]
Rejected == [NoStatus EXCEPT !.kind = "rejected"]
OpenStatus(run, resume, of) ==
  [kind |-> "open", active |-> run, resume |-> resume, of |-> of]
CompletedStatus(run, of) ==
  [kind |-> "completed", active |-> run, resume |-> 0, of |-> of]

NoStatuses == [d \in Dataset |-> NoStatus]
NoReport == [status |-> "none", datasets |-> NoStatuses]

\* The index file is not there, cannot be trusted, or names datasets.
NoIndex == [is |-> "missing", marks |-> {}]
BadIndex == [is |-> "damaged", marks |-> {}]
Marking(marks) == [is |-> "sound", marks |-> marks]

NotRecorded == [d \in Dataset |-> "none"]

Idle == [at |-> "idle", restart |-> FALSE, compute |-> "cpu", next |-> 1,
         persisted |-> NoStatuses, marks |-> {}, statuses |-> NoStatuses]

\* Contents of different datasets are never compared.
Init ==
  /\ \E content \in Descriptor : prepared = [d \in Dataset |-> content]
  /\ runs = <<>>
  /\ report = NoReport
  /\ index = NoIndex
  /\ stage = NotRecorded
  /\ inv = Idle
  /\ faults = 0 /\ changes = 0

-----------------------------------------------------------------------------
(* What a status offers to the next invocation.                             *)

\* _validate_checkpoint_locator
Usable(r) == runs[r].saved > 0 /\ runs[r].sound

\* A variant that takes the resumed checkpoint first.
ResumeFromResumed(s) ==
  IF s.kind # "open" THEN 0
  ELSE IF s.resume # 0 THEN s.resume
  ELSE IF runs[s.active].saved > 0 THEN s.active
  ELSE 0

\* _resume_checkpoint_from_status: the run whose checkpoint is taken up (0:
\* none).  The active one goes first when its file is there.
ResumeFrom(s) ==
  IF s.kind # "open" THEN 0
  ELSE IF runs[s.active].saved > 0 THEN s.active
  ELSE s.resume

\* _verified_training_resume: only for the descriptor in force.
VerifiedResume(d, s) == IF s.of = prepared[d] THEN ResumeFrom(s) ELSE 0

\* A variant that does not compare the descriptor.
CompletedForAny(d, s) == s.kind = "completed" /\ runs[s.active].kept

\* _verified_completed_training_status
VerifiedCompleted(d, s) ==
  s.kind = "completed" /\ s.of = prepared[d] /\ runs[s.active].kept

-----------------------------------------------------------------------------
(* Steps of an invocation.                                                  *)

Current == Order[inv.next]
Persisted == inv.persisted[Current]
Spend == faults < MaxFaults /\ faults' = faults + 1

\* write_training_report: the statuses of this invocation and nothing else.
WriteReport(status, statuses) ==
  report' = [status |-> status, datasets |-> statuses]

With(s) == [inv.statuses EXCEPT ![Current] = s]

Goto(place) == inv' = [inv EXCEPT !.at = place]

\* The handlers of run_train: the report of a failure, and out.
Leave(status, s) == WriteReport(status, With(s)) /\ inv' = Idle

\* A variant that keeps what the status of the last invocation offered.
FailKeepingOffer ==
  Leave("failed", IF inv.statuses[Current].kind = "open"
                    THEN inv.statuses[Current] ELSE Persisted)

\* except BaseException: locators survive only in a status of this invocation.
Fail == Leave("failed", IF inv.statuses[Current].kind = "open"
                          THEN inv.statuses[Current] ELSE Bare)

\* The start of run_train.  A report that does not parse counts as none; an
\* index that cannot be trusted stops an ordinary invocation.
StartWith(restart, compute, marks) ==
  /\ inv.at = "idle"
  /\ inv' = [Idle EXCEPT
       !.at = "check", !.restart = restart, !.compute = compute, !.marks = marks,
       !.persisted = IF restart THEN NoStatuses ELSE report.datasets]
  /\ stage' = NotRecorded
  /\ UNCHANGED <<prepared, runs, report, faults>>

\* The ordinary command: run_train is entered unless the ledger reuses the
\* stage, which it does until an earlier stage runs again.
Start ==
  /\ index.is # "damaged"
  /\ \E compute \in Compute : StartWith(FALSE, compute, index.marks)
  /\ IF stage = prepared
       THEN changes < MaxChanges /\ changes' = changes + 1
       ELSE UNCHANGED changes
  /\ UNCHANGED index

\* --restart-stage train
Restart ==
  /\ changes < MaxChanges /\ changes' = changes + 1
  /\ \E compute \in Compute : StartWith(TRUE, compute, index.marks)
  /\ index' = IF index.is = "damaged" THEN Marking({}) ELSE index

\* An optimizer checkpoint does not change devices, and one that does not
\* verify is not skipped.
Unfit(r) == r # 0 /\ (~ Usable(r) \/ runs[r].device # inv.compute)

\* On the CPU the persisted checkpoint is looked at before anything else,
\* whatever descriptor it was made for.
RefusedFirst ==
  /\ ~ inv.restart
  /\ inv.compute = "cpu"
  /\ Unfit(ResumeFrom(Persisted))

RefuseCheckpoint ==
  /\ inv.at = "check" /\ inv.next <= Len(Order)
  /\ RefusedFirst
  /\ Fail
  /\ UNCHANGED <<prepared, runs, index, stage, faults, changes>>

\* A variant that asks the report alone.
IsRejectedInReport == ~ inv.restart /\ Persisted.kind = "rejected"

\* A persisted rejection ends an ordinary invocation, verified or not.
IsRejected ==
  /\ ~ inv.restart
  /\ Current \in inv.marks \/ Persisted.kind = "rejected"

\* publish_rejection_marker, which may fail before or after it replaced the
\* index; the report is written in either case.
PublishMarker ==
  /\ inv' = [inv EXCEPT !.at = "rejected", !.statuses = With(Rejected)]
  /\ \/ index' = Marking(inv.marks \cup {Current}) /\ UNCHANGED faults
     \/ Spend /\ index' \in {index, Marking(inv.marks \cup {Current})}

RejectAgain ==
  /\ inv.at = "check" /\ inv.next <= Len(Order)
  /\ ~ RefusedFirst
  /\ IsRejected
  /\ PublishMarker
  /\ UNCHANGED <<prepared, runs, report, stage, changes>>

ReportRejection ==
  /\ inv.at = "rejected"
  /\ Leave("rejected", Rejected)
  /\ UNCHANGED <<prepared, runs, index, stage, faults, changes>>

\* A completed run that still verifies is kept.
KeepCompleted ==
  /\ inv.at = "check" /\ inv.next <= Len(Order)
  /\ ~ RefusedFirst /\ ~ IsRejected
  /\ VerifiedCompleted(Current, Persisted)
  /\ WriteReport("running", With(Persisted))
  /\ inv' = [inv EXCEPT !.next = @ + 1, !.statuses = With(Persisted)]
  /\ UNCHANGED <<prepared, runs, index, stage, faults, changes>>

\* Otherwise the dataset is trained; an explicit restart first takes its
\* rejection back.  clear_rejection_marker leaves an index that is there and
\* does not name the dataset alone.
CheckDone ==
  /\ inv.at = "check" /\ inv.next <= Len(Order)
  /\ ~ RefusedFirst /\ ~ IsRejected
  /\ ~ VerifiedCompleted(Current, Persisted)
  /\ \/ /\ inv.restart => Current \notin inv.marks /\ index.is = "sound"
        /\ Goto("resume")
        /\ UNCHANGED <<report, index, faults>>
     \/ /\ inv.restart
        /\ Current \in inv.marks \/ index.is # "sound"
        /\ \/ /\ index' = Marking(inv.marks \ {Current})
              /\ inv' = [inv EXCEPT !.at = "resume", !.marks = @ \ {Current}]
              /\ UNCHANGED <<report, faults>>
           \/ /\ Spend
              /\ index' \in {index, Marking(inv.marks \ {Current})}
              /\ Fail
  /\ UNCHANGED <<prepared, runs, stage, changes>>

Resume == VerifiedResume(Current, Persisted)

\* Before the run directory exists: a checkpoint that does not fit, or a
\* resource preflight that fails.
FailBeforeRun ==
  /\ inv.at = "resume"
  /\ \/ Unfit(Resume) /\ UNCHANGED faults
     \/ Spend
  /\ Fail
  /\ UNCHANGED <<prepared, runs, index, stage, changes>>

\* create_run_dir and record_progress.
CreateRun ==
  LET status == OpenStatus(Len(runs) + 1, Resume, prepared[Current])
  IN  /\ inv.at = "resume"
      /\ ~ Unfit(Resume)
      /\ runs' = Append(runs,
           [dataset |-> Current, of |-> prepared[Current], device |-> inv.compute,
            resume |-> Resume, saved |-> 0, sound |-> TRUE, kept |-> FALSE])
      /\ WriteReport("running", With(status))
      /\ inv' = [inv EXCEPT !.at = "train", !.statuses = With(status)]
      /\ UNCHANGED <<prepared, index, stage, faults, changes>>

Running == Last(runs)

\* The epochs behind the run in training, those it resumed included.
Trained ==
  IF Running.saved > 0 THEN Running.saved
  ELSE IF Running.resume > 0 THEN runs[Running.resume].saved
  ELSE 0

\* One more epoch, and its checkpoint.
SaveEpoch ==
  /\ inv.at = "train"
  /\ Trained < Epochs
  /\ runs' = [runs EXCEPT ![Len(runs)].saved = Trained + 1]
  /\ UNCHANGED <<prepared, report, index, stage, inv, faults, changes>>

FailTraining ==
  /\ inv.at = "train"
  /\ Spend
  /\ Fail
  /\ UNCHANGED <<prepared, runs, index, stage, changes>>

\* The quality gate refuses the trained run.
Reject ==
  /\ inv.at = "train"
  /\ Trained = Epochs
  /\ PublishMarker
  /\ UNCHANGED <<prepared, runs, report, stage, changes>>

\* The run summary is there.  The index is written when there is none, and
\* when that fails the completed status becomes a failed one.
Complete ==
  LET status == CompletedStatus(Len(runs), prepared[Current])
  IN  /\ inv.at = "train"
      /\ Trained = Epochs
      /\ runs' = [runs EXCEPT ![Len(runs)].kept = TRUE]
      /\ \/ /\ index' = IF Current \notin inv.marks /\ index.is = "sound" THEN index
                        ELSE Marking(inv.marks \ {Current})
            /\ WriteReport("running", With(status))
            /\ inv' = [inv EXCEPT !.at = "check", !.next = @ + 1,
                                  !.statuses = With(status)]
            /\ UNCHANGED faults
         \/ /\ index.is # "sound"
            /\ Spend
            /\ index' \in {index, Marking(inv.marks \ {Current})}
            /\ Leave("failed", Bare)
      /\ UNCHANGED <<prepared, stage, changes>>

\* Every dataset is done: the report says so, then the ledger commits.
ReportCompleted ==
  /\ inv.at = "check" /\ inv.next > Len(Order)
  /\ WriteReport("completed", inv.statuses)
  /\ Goto("commit")
  /\ UNCHANGED <<prepared, runs, index, stage, faults, changes>>

CommitStage ==
  /\ inv.at = "commit"
  /\ stage' = prepared
  /\ inv' = Idle
  /\ UNCHANGED <<prepared, runs, report, index, faults, changes>>

-----------------------------------------------------------------------------
(* The environment.                                                         *)

\* A kill; also a report that could not be written.
Kill ==
  /\ inv.at # "idle"
  /\ Spend
  /\ inv' = Idle
  /\ UNCHANGED <<prepared, runs, report, index, stage, changes>>

\* Between invocations a file is lost or spoilt.
Damage ==
  /\ inv.at = "idle"
  /\ Spend
  /\ \/ "report" \in Losable /\ report' = NoReport /\ UNCHANGED <<runs, index>>
     \/ "index" \in Losable /\ index' \in {NoIndex, BadIndex} /\ UNCHANGED <<runs, report>>
     \/ /\ "runs" \in Losable
        /\ \E r \in DOMAIN runs :
             \/ runs' = [runs EXCEPT ![r].saved = 0]
             \/ runs' = [runs EXCEPT ![r].sound = FALSE]
             \/ runs' = [runs EXCEPT ![r].kept = FALSE]
        /\ UNCHANGED <<report, index>>
  /\ stage' = IF runs' = runs THEN NotRecorded ELSE stage
  /\ UNCHANGED <<prepared, inv, changes>>

\* The prepared data are made anew from something else.
Prepare ==
  /\ inv.at = "idle"
  /\ changes < MaxChanges /\ changes' = changes + 1
  /\ \E d \in Dataset, content \in Descriptor :
       prepared' = [prepared EXCEPT ![d] = content]
  /\ UNCHANGED <<runs, report, index, stage, inv, faults>>

-----------------------------------------------------------------------------
Step ==
  \/ RefuseCheckpoint \/ RejectAgain \/ ReportRejection
  \/ KeepCompleted \/ CheckDone
  \/ FailBeforeRun \/ CreateRun \/ SaveEpoch \/ FailTraining
  \/ Reject \/ Complete
  \/ ReportCompleted \/ CommitStage

Next == Start \/ Restart \/ Step \/ Kill \/ Damage \/ Prepare

Spec == Init /\ [][Next]_vars

\* The command is given again until the stage is done.
FairSpec == Spec /\ WF_vars(Step) /\ WF_vars(Start)

-----------------------------------------------------------------------------
(* Properties.                                                              *)

Run == [dataset : Dataset, of : Descriptor, device : Compute, resume : Nat,
        saved : 0 .. Epochs, sound : BOOLEAN, kept : BOOLEAN]

Status == [kind : {"none", "open", "bare", "completed", "rejected"},
           active : Nat, resume : Nat, of : Descriptor \cup {"none"}]

\* A locator leads to a run of its own dataset, made for the descriptor the
\* status names; what the active run resumed is what the status says.
LocatorsLead(statuses) ==
  \A d \in Dataset :
    LET s == statuses[d]
    IN  s.kind \in {"open", "completed"} =>
          /\ s.active \in DOMAIN runs
          /\ runs[s.active].dataset = d
          /\ runs[s.active].of = s.of
          /\ s.kind = "open" => s.resume = runs[s.active].resume

FilesOK ==
  /\ prepared \in [Dataset -> Descriptor]
  /\ runs \in Seq(Run)
  /\ \A r \in DOMAIN runs : runs[r].resume < r
  /\ report \in [status : {"none", "running", "failed", "rejected", "completed"},
                 datasets : [Dataset -> Status]]
  /\ index \in [is : {"missing", "sound", "damaged"}, marks : SUBSET Dataset]
  /\ stage \in [Dataset -> Descriptor \cup {"none"}]

InvocationOK ==
  /\ inv \in [at : {"idle", "check", "rejected", "resume", "train", "commit"},
              restart : BOOLEAN, compute : Compute, next : 1 .. Len(Order) + 1,
              persisted : [Dataset -> Status], marks : SUBSET Dataset,
              statuses : [Dataset -> Status]]
  /\ inv.at \in {"rejected", "resume", "train"} => inv.next <= Len(Order)
  /\ inv.at = "train" =>
       /\ runs # <<>>
       /\ inv.statuses[Current] =
            OpenStatus(Len(runs), Running.resume, prepared[Current])

\* The files and the invocation have their shape, and every status on disk
\* or in memory has locators that lead to the right run.
TypeOK ==
  /\ FilesOK
  /\ InvocationOK
  /\ LocatorsLead(report.datasets)
  /\ LocatorsLead(inv.persisted)
  /\ LocatorsLead(inv.statuses)
  /\ faults \in 0 .. MaxFaults /\ changes \in 0 .. MaxChanges

\* When the stage is about to be committed, every dataset has a run that was
\* trained to the end on the descriptor in force and whose artifacts are all
\* there, however many invocations it took.
CompletedIsTrue ==
  inv.at = "commit" =>
    \A d \in Dataset :
      /\ report.datasets[d].kind = "completed"
      /\ LET r == runs[report.datasets[d].active]
         IN  r.dataset = d /\ r.of = prepared[d] /\ r.kept
      /\ d \notin index.marks

\* The run an action created, if it created one.
Created == Len(runs') > Len(runs)
New == runs'[Len(runs')]

\* Training is only resumed where it stopped: from the newest checkpoint that
\* is left of the dataset's runs, never from an earlier one, and on the same
\* descriptor and device.
ResumesNewest ==
  [][ Created /\ New.resume # 0 =>
        LET r == New.resume
        IN  /\ Usable(r)
            /\ [dataset |-> runs[r].dataset, of |-> runs[r].of, device |-> runs[r].device]
                 = [dataset |-> New.dataset, of |-> New.of, device |-> New.device]
            /\ \A later \in r + 1 .. Len(runs) :
                 runs[later].dataset = New.dataset => runs[later].saved = 0 ]_vars

\* A published rejection is terminal: an invocation that is not a restart
\* neither trains the dataset again nor takes the mark from the index, in
\* whatever state the kills have left the report.
RejectionStands ==
  [][ inv.at # "idle" /\ ~ inv.restart =>
        /\ index.marks \subseteq index'.marks
        /\ Created => New.dataset \notin index.marks ]_vars

\* Giving the same command again gets the stage done, whatever was lost on
\* the way, unless a dataset is rejected or the index cannot be trusted.
TrainingFinishes ==
  <>[]( \/ stage = prepared
        \/ index.is = "damaged"
        \/ index.marks # {}
        \/ \E d \in Dataset : report.datasets[d].kind = "rejected" )

\* What README.md promises: after an ordinary error the same command reopens
\* the checkpoint.  (The dataset's last run left a checkpoint, its own or the
\* one it resumed, that verifies and fits the descriptor and the device, and
\* an invocation that is not a restart trains from nothing.)
CheckpointReopened ==
  [][ Created /\ ~ inv.restart /\ New.resume = 0 =>
        \A last \in DOMAIN runs :
          /\ runs[last].dataset = New.dataset
          /\ \A later \in last + 1 .. Len(runs) : runs[later].dataset # New.dataset
          => LET r == ResumeFrom(OpenStatus(last, runs[last].resume, runs[last].of))
             IN  r = 0 \/ Unfit(r) \/ runs[r].of # New.of \/ runs[last].kept ]_vars
=============================================================================
