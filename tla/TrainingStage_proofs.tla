------------------------- MODULE TrainingStage_proofs -------------------------
(* The safety of training.  For the train stage, with any number of          *)
(* datasets, runs and faults: its type correctness, what the completed       *)
(* report claims and the terminality of a published rejection.  For the      *)
(* epochs of a stream, with any shards, workers and stops: that training     *)
(* resumes, and that it gives a model the batches of an uninterrupted run.   *)
EXTENDS TrainingStage, EpochStream, SequenceTheorems, NaturalsInduction,
        WellFoundedInduction, TLAPS

-----------------------------------------------------------------------------
(* The inductive invariant.  The marks an invocation holds are those of the *)
(* index, it trains no dataset that it holds a mark for, and the datasets   *)
(* before the current one have completed runs.                              *)

MarksKnown ==
  /\ index.is # "sound" => index.marks = {}
  /\ inv.at = "idle" => inv = Idle
  /\ inv.at \notin {"idle", "rejected"} => inv.marks = index.marks
  /\ inv.at # "idle" /\ inv.restart => inv.persisted = NoStatuses
  /\ inv.at \in {"resume", "train"} => Current \notin inv.marks

DoneSoFar ==
  \A i \in 1 .. inv.next - 1 :
    /\ Order[i] \notin inv.marks
    /\ inv.statuses[Order[i]].kind = "completed"
    /\ LET r == runs[inv.statuses[Order[i]].active]
       IN  r.of = prepared[Order[i]] /\ r.kept

Committing ==
  inv.at = "commit" =>
    inv.next = Len(Order) + 1 /\ report.datasets = inv.statuses

IInv == TypeOK /\ MarksKnown /\ DoneSoFar /\ Committing

-----------------------------------------------------------------------------
(* Data.                                                                    *)

\* The order names every dataset once.
LEMMA OrderFacts ==
  /\ Len(Order) \in Nat
  /\ \A i \in 1 .. Len(Order) : Order[i] \in Dataset
  /\ \A i, j \in 1 .. Len(Order) : Order[i] = Order[j] => i = j
  /\ \A d \in Dataset : \E i \in 1 .. Len(Order) : Order[i] = d
<1>1. Len(Order) \in Nat /\ DOMAIN Order = 1 .. Len(Order)
  BY OrderAssumption
<1>2. \A i \in 1 .. Len(Order) : Order[i] \in Dataset
  BY OrderAssumption
<1>3. \A i, j \in 1 .. Len(Order) : Order[i] = Order[j] => i = j
  BY <1>1, OrderAssumption DEF IsInjective
<1>4. \A d \in Dataset : \E i \in 1 .. Len(Order) : Order[i] = d
  BY <1>1, OrderAssumption DEF ToSet
<1> QED
  BY <1>1, <1>2, <1>3, <1>4

\* The locators of the statuses lead to the right runs among rs.
LeadIn(rs, statuses) ==
  \A d \in Dataset :
    statuses[d].kind \in {"open", "completed"} =>
      /\ statuses[d].active \in DOMAIN rs
      /\ rs[statuses[d].active].dataset = d
      /\ rs[statuses[d].active].of = statuses[d].of
      /\ statuses[d].kind = "open" =>
           statuses[d].resume = rs[statuses[d].active].resume

LEMMA LeadsIn == ASSUME NEW S PROVE LocatorsLead(S) <=> LeadIn(runs, S)
BY DEF LocatorsLead, LeadIn

\* What no step does to the runs: forget one, or change what it is for.
Extends(rs, new) ==
  /\ new \in Seq(Run)
  /\ Len(rs) <= Len(new)
  /\ \A k \in 1 .. Len(rs) :
       /\ new[k].dataset = rs[k].dataset
       /\ new[k].of = rs[k].of
       /\ new[k].resume = rs[k].resume

\* Statuses that led to their runs still do.
LEMMA ExtendedLead ==
  ASSUME NEW rs \in Seq(Run), NEW new, Extends(rs, new), NEW S, LeadIn(rs, S)
  PROVE  LeadIn(new, S)
<1>1. DOMAIN rs = 1 .. Len(rs) /\ DOMAIN new = 1 .. Len(new)
      /\ Len(rs) \in Nat /\ Len(new) \in Nat
  BY DEF Extends
<1>2. DOMAIN rs \subseteq DOMAIN new
  BY <1>1 DEF Extends
<1> QED
  BY <1>1, <1>2 DEF Extends, LeadIn

\* Replacing one run by one for the same purpose.
LEMMA Amended ==
  ASSUME NEW rs \in Seq(Run), \A k \in DOMAIN rs : rs[k].resume < k,
         NEW r \in DOMAIN rs, NEW x \in Run,
         x.dataset = rs[r].dataset, x.of = rs[r].of, x.resume = rs[r].resume,
         NEW new, new = [rs EXCEPT ![r] = x]
  PROVE  /\ Extends(rs, new)
         /\ Len(new) = Len(rs)
         /\ \A k \in DOMAIN new : new[k].resume < k
         /\ \A k \in 1 .. Len(rs) : new[k] = IF k = r THEN x ELSE rs[k]
<1>1. new \in Seq(Run) /\ Len(new) = Len(rs)
  BY ExceptSeq
<1>2. DOMAIN rs = 1 .. Len(rs) /\ DOMAIN new = DOMAIN rs
  OBVIOUS
<1>3. \A k \in 1 .. Len(rs) : new[k] = IF k = r THEN x ELSE rs[k]
  BY <1>2
<1>4. Extends(rs, new)
  BY <1>1, <1>2, <1>3 DEF Extends
<1>5. \A k \in DOMAIN new : new[k].resume < k
  BY <1>2, <1>3
<1> QED
  BY <1>1, <1>3, <1>4, <1>5

\* One status more.
LEMMA WithLeads ==
  ASSUME NEW rs, NEW S \in [Dataset -> Status], LeadIn(rs, S),
         NEW d \in Dataset, NEW s \in Status,
         s.kind \in {"open", "completed"} =>
           /\ s.active \in DOMAIN rs
           /\ rs[s.active].dataset = d
           /\ rs[s.active].of = s.of
           /\ s.kind = "open" => s.resume = rs[s.active].resume
  PROVE  /\ [S EXCEPT ![d] = s] \in [Dataset -> Status]
         /\ LeadIn(rs, [S EXCEPT ![d] = s])
<1> DEFINE T == [S EXCEPT ![d] = s]
<1>1. T \in [Dataset -> Status]
  OBVIOUS
<1>2. \A e \in Dataset : T[e] = IF e = d THEN s ELSE S[e]
  OBVIOUS
<1> HIDE DEF T
<1>3. LeadIn(rs, T)
  BY <1>2 DEF LeadIn
<1> QED
  BY <1>1, <1>3 DEF T

LEMMA StatusFacts ==
  /\ {NoStatus, Bare, Rejected} \subseteq Status
  /\ NoStatus.kind = "none" /\ Bare.kind = "bare" /\ Rejected.kind = "rejected"
  /\ NoStatuses \in [Dataset -> Status]
  /\ \A rs : LeadIn(rs, NoStatuses)
<1>1. NoStatus \in Status /\ NoStatus.kind = "none"
  BY DEF NoStatus, Status
<1>2. Bare \in Status /\ Bare.kind = "bare"
  BY <1>1 DEF Bare, NoStatus, Status
<1>3. Rejected \in Status /\ Rejected.kind = "rejected"
  BY <1>1 DEF Rejected, NoStatus, Status
<1>4. NoStatuses \in [Dataset -> Status] /\ \A d \in Dataset : NoStatuses[d] = NoStatus
  BY <1>1 DEF NoStatuses
<1>5. \A rs : LeadIn(rs, NoStatuses)
  BY <1>1, <1>4 DEF LeadIn
<1> QED
  BY <1>1, <1>2, <1>3, <1>4, <1>5

-----------------------------------------------------------------------------
(* What the steps are made of.                                              *)

ReportSet == [status : {"none", "running", "failed", "rejected", "completed"},
              datasets : [Dataset -> Status]]

\* A status of dataset d with locators that lead to the right run among rs.
Good(rs, d, s) ==
  /\ s \in Status
  /\ s.kind \in {"open", "completed"} =>
       /\ s.active \in DOMAIN rs
       /\ rs[s.active].dataset = d
       /\ rs[s.active].of = s.of
       /\ s.kind = "open" => s.resume = rs[s.active].resume

\* All that IInv says of the invocation.
InvFine ==
  /\ InvocationOK
  /\ LeadIn(runs, inv.persisted) /\ LeadIn(runs, inv.statuses)
  /\ MarksKnown /\ DoneSoFar /\ Committing

LEMMA IInvParts ==
  IInv <=> /\ FilesOK /\ LeadIn(runs, report.datasets) /\ InvFine
           /\ faults \in 0 .. MaxFaults /\ changes \in 0 .. MaxChanges
BY LeadsIn DEF IInv, TypeOK, InvFine

LEMMA Afterwards ==
  ASSUME FilesOK', LeadIn(runs', report'.datasets), InvFine',
         faults' \in 0 .. MaxFaults, changes' \in 0 .. MaxChanges
  PROVE  IInv'
BY DEF IInv, TypeOK, InvFine, LocatorsLead, LeadIn

\* The dataset an invocation is at.
LEMMA CurrentFacts ==
  ASSUME FilesOK, InvFine, inv.next <= Len(Order)
  PROVE  /\ inv.next \in 1 .. Len(Order)
         /\ Current \in Dataset
         /\ Good(runs, Current, inv.statuses[Current])
         /\ Good(runs, Current, Persisted)
<1>1. inv.next \in 1 .. Len(Order)
  BY OrderFacts DEF InvFine, InvocationOK
<1>2. Current \in Dataset
  BY <1>1, OrderFacts DEF Current
<1>3. inv.statuses \in [Dataset -> Status] /\ inv.persisted \in [Dataset -> Status]
  BY DEF InvFine, InvocationOK
<1> QED
  BY <1>1, <1>2, <1>3 DEF Good, Persisted, InvFine, LeadIn

\* An idle invocation has nothing to be wrong about.
LEMMA IdleFine ==
  ASSUME inv' = Idle, index'.is # "sound" => index'.marks = {}
  PROVE  InvFine'
<1>1. /\ Idle.at = "idle" /\ Idle.next = 1 /\ Idle.restart = FALSE
      /\ Idle.persisted = NoStatuses /\ Idle.statuses = NoStatuses
  BY DEF Idle
<1>2. InvocationOK'
  BY <1>1, OrderFacts, StatusFacts, ComputeAssumption DEF InvocationOK, Idle
<1>3. LeadIn(runs', inv'.persisted) /\ LeadIn(runs', inv'.statuses)
  BY <1>1, StatusFacts
<1>4. MarksKnown' /\ DoneSoFar' /\ Committing'
  BY <1>1 DEF MarksKnown, DoneSoFar, Committing
<1> QED
  BY <1>2, <1>3, <1>4 DEF InvFine

\* The statuses of an invocation with one more.
LEMMA WithFine ==
  ASSUME FilesOK, InvFine, inv.next <= Len(Order), NEW new, Extends(runs, new),
         NEW s, Good(new, Current, s)
  PROVE  With(s) \in [Dataset -> Status] /\ LeadIn(new, With(s))
<1>1. Current \in Dataset
  BY CurrentFacts
<1>2. inv.statuses \in [Dataset -> Status] /\ LeadIn(new, inv.statuses)
  BY ExtendedLead DEF InvFine, InvocationOK, FilesOK
<1> QED
  BY <1>1, <1>2, WithLeads DEF Good, With

\* A handler leaves a well-formed report and an idle invocation.
LEMMA LeaveFine ==
  ASSUME FilesOK, InvFine, inv.next <= Len(Order), Extends(runs, runs'),
         NEW s, Good(runs', Current, s),
         NEW status \in {"running", "failed", "rejected", "completed"},
         Leave(status, s), index'.is # "sound" => index'.marks = {}
  PROVE  report' \in ReportSet /\ LeadIn(runs', report'.datasets) /\ InvFine'
<1>1. With(s) \in [Dataset -> Status] /\ LeadIn(runs', With(s))
  BY WithFine
<1>2. report' = [status |-> status, datasets |-> With(s)] /\ inv' = Idle
  BY DEF Leave, WriteReport
<1> QED
  BY <1>1, <1>2, IdleFine DEF ReportSet

LEMMA RunsStay == ASSUME FilesOK PROVE Extends(runs, runs)
BY DEF FilesOK, Extends

LEMMA FailFine ==
  ASSUME FilesOK, InvFine, inv.next <= Len(Order), runs' = runs, Fail,
         index'.is # "sound" => index'.marks = {}
  PROVE  report' \in ReportSet /\ LeadIn(runs', report'.datasets) /\ InvFine'
<1>1. Good(runs', Current, inv.statuses[Current]) /\ Good(runs', Current, Bare)
  BY CurrentFacts, StatusFacts DEF Good
<1>2. Extends(runs, runs')
  BY RunsStay
<1>3. CASE inv.statuses[Current].kind = "open"
  BY <1>1, <1>2, <1>3, LeaveFine DEF Fail
<1>4. CASE inv.statuses[Current].kind # "open"
  BY <1>1, <1>2, <1>4, LeaveFine DEF Fail
<1> QED
  BY <1>3, <1>4

LEMMA SpendFine ==
  ASSUME faults \in 0 .. MaxFaults, Spend PROVE faults' \in 0 .. MaxFaults
BY BoundAssumption DEF Spend

\* A file is well formed after a step that writes only the report.
LEMMA FilesKept ==
  ASSUME FilesOK, prepared' = prepared, runs' = runs, report' \in ReportSet,
         index' \in [is : {"missing", "sound", "damaged"}, marks : SUBSET Dataset],
         stage' = stage
  PROVE  FilesOK'
BY DEF FilesOK, ReportSet

LEMMA MarkingFacts ==
  ASSUME NEW M \in SUBSET Dataset
  PROVE  /\ Marking(M) \in [is : {"missing", "sound", "damaged"}, marks : SUBSET Dataset]
         /\ Marking(M).marks = M /\ Marking(M).is = "sound"
BY DEF Marking

IndexSet == [is : {"missing", "sound", "damaged"}, marks : SUBSET Dataset]

\* The datasets an invocation is done with stay done, whatever it files for
\* the current one.
LEMMA DoneStays ==
  ASSUME FilesOK, InvFine, inv.next <= Len(Order), prepared' = prepared,
         Extends(runs, runs'), \A r \in DOMAIN runs : runs[r].kept => runs'[r].kept,
         inv'.marks \subseteq inv.marks \cup {Current},
         NEW s \in Status, inv'.statuses \in {inv.statuses, With(s)}
  PROVE  \A i \in 1 .. inv.next - 1 :
           /\ Order[i] \notin inv'.marks
           /\ inv'.statuses[Order[i]].kind = "completed"
           /\ LET r == runs'[inv'.statuses[Order[i]].active]
              IN  r.of = prepared'[Order[i]] /\ r.kept
<1> SUFFICES ASSUME NEW i \in 1 .. inv.next - 1
             PROVE  /\ Order[i] \notin inv'.marks
                    /\ inv'.statuses[Order[i]].kind = "completed"
                    /\ LET r == runs'[inv'.statuses[Order[i]].active]
                       IN  r.of = prepared'[Order[i]] /\ r.kept
  OBVIOUS
<1>1. inv.next \in 1 .. Len(Order) /\ i \in 1 .. Len(Order) /\ i # inv.next
  BY CurrentFacts, OrderFacts
<1>2. Order[i] \in Dataset /\ Order[i] # Current /\ Current \in Dataset
  BY <1>1, OrderFacts DEF Current
<1>3. inv.statuses \in [Dataset -> Status] /\ LeadIn(runs, inv.statuses)
  BY DEF InvFine, InvocationOK
<1>4. inv'.statuses[Order[i]] = inv.statuses[Order[i]]
  BY <1>2, <1>3 DEF With
<1>5. /\ Order[i] \notin inv.marks
      /\ inv.statuses[Order[i]].kind = "completed"
      /\ runs[inv.statuses[Order[i]].active].of = prepared[Order[i]]
      /\ runs[inv.statuses[Order[i]].active].kept
  BY DEF InvFine, DoneSoFar
<1>6. inv.statuses[Order[i]].active \in DOMAIN runs
  BY <1>2, <1>3, <1>5 DEF LeadIn
<1>7. DOMAIN runs = 1 .. Len(runs)
  BY DEF FilesOK
<1> QED
  BY <1>2, <1>4, <1>5, <1>6, <1>7 DEF Extends

\* The checkpoint taken up is that of an earlier run.
LEMMA ResumeFacts ==
  ASSUME FilesOK, InvFine, inv.next <= Len(Order)
  PROVE  Resume \in 0 .. Len(runs)
<1>1. Good(runs, Current, Persisted)
  BY CurrentFacts
<1>2. DOMAIN runs = 1 .. Len(runs) /\ Len(runs) \in Nat
  BY DEF FilesOK
<1>3. CASE Persisted.kind = "open"
  <2>1. Persisted.active \in 1 .. Len(runs)
        /\ Persisted.resume = runs[Persisted.active].resume
    BY <1>1, <1>2, <1>3 DEF Good
  <2>2. runs[Persisted.active].resume \in Nat
    <3>1. runs[Persisted.active] \in Run
      BY <2>1, <1>2 DEF FilesOK
    <3> QED
      BY <3>1 DEF Run
  <2>3. Persisted.resume < Persisted.active
    BY <2>1, <1>2 DEF FilesOK
  <2> QED
    BY <1>2, <2>1, <2>2, <2>3 DEF Resume, VerifiedResume, ResumeFrom
<1>4. CASE Persisted.kind # "open"
  BY <1>2, <1>4 DEF Resume, VerifiedResume, ResumeFrom
<1> QED
  BY <1>3, <1>4

-----------------------------------------------------------------------------
(* The steps.                                                               *)

\* What a step of an invocation has to show.
Fine == /\ FilesOK /\ LeadIn(runs, report.datasets) /\ InvFine
        /\ faults \in 0 .. MaxFaults /\ changes \in 0 .. MaxChanges

LEMMA StartFine ==
  ASSUME Fine, NEW restart \in BOOLEAN, NEW compute \in Compute,
         StartWith(restart, compute, index.marks),
         index' \in IndexSet, index'.marks = index.marks,
         index'.is # "sound" => index'.marks = {}
  PROVE  InvFine' /\ stage' = NotRecorded
<1> DEFINE read == IF restart THEN NoStatuses ELSE report.datasets
<1>1. read \in [Dataset -> Status] /\ LeadIn(runs, read)
  BY StatusFacts DEF Fine, FilesOK
<1>2. inv' = [at |-> "check", restart |-> restart, compute |-> compute, next |-> 1,
              persisted |-> read, marks |-> index.marks, statuses |-> NoStatuses]
  BY DEF StartWith, Idle
<1>3. runs' = runs /\ prepared' = prepared
  BY DEF StartWith
<1>4. InvocationOK'
  BY <1>1, <1>2, StatusFacts, OrderFacts DEF InvocationOK, Fine, FilesOK
<1>5. LeadIn(runs', inv'.persisted) /\ LeadIn(runs', inv'.statuses)
  BY <1>1, <1>2, <1>3, StatusFacts
<1>6. MarksKnown' /\ DoneSoFar' /\ Committing'
  BY <1>2 DEF MarksKnown, DoneSoFar, Committing
<1> QED
  BY <1>4, <1>5, <1>6 DEF InvFine, StartWith

LEMMA NotRecordedFacts == NotRecorded \in [Dataset -> Descriptor \cup {"none"}]
BY DEF NotRecorded

LEMMA StartStep == ASSUME Fine, Start PROVE Fine'
<1>1. PICK compute \in Compute : StartWith(FALSE, compute, index.marks)
  BY DEF Start
<1>2. index' = index /\ index \in IndexSet /\ (index.is # "sound" => index.marks = {})
  BY DEF Start, Fine, FilesOK, InvFine, MarksKnown, IndexSet
<1>3. InvFine' /\ stage' = NotRecorded
  BY <1>1, <1>2, StartFine
<1>4. prepared' = prepared /\ runs' = runs /\ report' = report /\ faults' = faults
  BY <1>1 DEF StartWith
<1>5. changes' \in 0 .. MaxChanges
  BY BoundAssumption DEF Start, Fine
<1>6. FilesOK'
  BY <1>2, <1>3, <1>4, NotRecordedFacts DEF Fine, FilesOK, IndexSet
<1> QED
  BY <1>3, <1>4, <1>5, <1>6 DEF Fine

LEMMA RestartStep == ASSUME Fine, Restart PROVE Fine'
<1>1. PICK compute \in Compute : StartWith(TRUE, compute, index.marks)
  BY DEF Restart
<1>2. index \in IndexSet /\ (index.is # "sound" => index.marks = {})
  BY DEF Fine, FilesOK, InvFine, MarksKnown, IndexSet
<1>3. /\ index' \in IndexSet /\ index'.marks = index.marks
      /\ index'.is # "sound" => index'.marks = {}
  <2>1. CASE index.is = "damaged"
    BY <1>2, <2>1, MarkingFacts DEF Restart, IndexSet
  <2>2. CASE index.is # "damaged"
    BY <1>2, <2>2 DEF Restart
  <2> QED
    BY <2>1, <2>2
<1>4. InvFine' /\ stage' = NotRecorded
  BY <1>1, <1>3, StartFine
<1>5. prepared' = prepared /\ runs' = runs /\ report' = report /\ faults' = faults
  BY <1>1 DEF StartWith
<1>6. changes' \in 0 .. MaxChanges
  BY BoundAssumption DEF Restart, Fine
<1>7. FilesOK'
  BY <1>3, <1>4, <1>5, NotRecordedFacts DEF Fine, FilesOK, IndexSet
<1> QED
  BY <1>4, <1>5, <1>6, <1>7 DEF Fine

\* A step that ends in the handlers.
LEMMA HandledFine ==
  ASSUME Fine, inv.next <= Len(Order), Fail,
         prepared' = prepared, runs' = runs, stage' = stage, changes' = changes,
         index' \in IndexSet, index'.is # "sound" => index'.marks = {},
         faults' = faults \/ Spend
  PROVE  Fine'
<1>1. report' \in ReportSet /\ LeadIn(runs', report'.datasets) /\ InvFine'
  BY FailFine DEF Fine
<1>2. FilesOK'
  BY <1>1, FilesKept DEF Fine, IndexSet
<1>3. faults' \in 0 .. MaxFaults
  BY SpendFine DEF Fine
<1> QED
  BY <1>1, <1>2, <1>3 DEF Fine

LEMMA IndexFacts ==
  ASSUME Fine PROVE index \in IndexSet /\ (index.is # "sound" => index.marks = {})
BY DEF Fine, FilesOK, InvFine, MarksKnown, IndexSet

LEMMA RefuseCheckpointStep == ASSUME Fine, RefuseCheckpoint PROVE Fine'
BY HandledFine, IndexFacts DEF RefuseCheckpoint

\* An invocation that goes on: it files s for the current dataset or nothing.
LEMMA GoesOn ==
  ASSUME Fine, inv.at \notin {"idle"}, inv.next <= Len(Order),
         prepared' = prepared, stage' = stage, changes' = changes,
         Extends(runs, runs'), \A r \in DOMAIN runs' : runs'[r].resume < r,
         \A r \in DOMAIN runs : runs[r].kept => runs'[r].kept,
         index' \in IndexSet, index'.is # "sound" => index'.marks = {},
         faults' = faults \/ Spend,
         NEW s, Good(runs', Current, s),
         \/ report' = report
         \/ report' = [status |-> "running", datasets |-> With(s)],
         NEW at \in {"check", "rejected", "resume", "train"},
         NEW turn \in {inv.next, inv.next + 1},
         NEW marks \in {inv.marks, inv.marks \ {Current}},
         NEW statuses \in {inv.statuses, With(s)},
         inv' = [at |-> at, restart |-> inv.restart, compute |-> inv.compute,
                 next |-> turn, persisted |-> inv.persisted, marks |-> marks,
                 statuses |-> statuses],
         at # "rejected" => marks = index'.marks,
         at \in {"resume", "train"} => Current \notin marks,
         turn # inv.next =>
           /\ at = "check"
           /\ Current \notin marks
           /\ statuses = With(s) /\ s.kind = "completed"
           /\ runs'[s.active].of = prepared[Current] /\ runs'[s.active].kept,
         at = "train" =>
           /\ runs' # <<>>
           /\ statuses[Current] =
                OpenStatus(Len(runs'), Last(runs').resume, prepared[Current])
  PROVE  Fine'
<1>1. /\ inv.next \in 1 .. Len(Order) /\ Current \in Dataset
      /\ inv \in [at : {"idle", "check", "rejected", "resume", "train", "commit"},
                  restart : BOOLEAN, compute : Compute, next : 1 .. Len(Order) + 1,
                  persisted : [Dataset -> Status], marks : SUBSET Dataset,
                  statuses : [Dataset -> Status]]
  BY CurrentFacts DEF Fine, InvFine, InvocationOK
<1>2. With(s) \in [Dataset -> Status] /\ LeadIn(runs', With(s)) /\ s \in Status
  BY WithFine DEF Fine, Good
<1>3. LeadIn(runs', inv.statuses) /\ LeadIn(runs', inv.persisted)
      /\ LeadIn(runs', report.datasets)
  BY ExtendedLead DEF Fine, InvFine, FilesOK
<1>4. statuses \in [Dataset -> Status] /\ LeadIn(runs', statuses)
  BY <1>1, <1>2, <1>3
<1>5. turn \in 1 .. Len(Order) + 1 /\ (at # "check" => turn <= Len(Order))
  BY <1>1, OrderFacts
<1>6. inv'.next = turn /\ inv'.statuses = statuses /\ inv'.marks = marks
      /\ inv'.at = at /\ inv'.persisted = inv.persisted /\ inv'.restart = inv.restart
  OBVIOUS
<1>7. InvocationOK'
  <2>1. inv' \in [at : {"idle", "check", "rejected", "resume", "train", "commit"},
                  restart : BOOLEAN, compute : Compute, next : 1 .. Len(Order) + 1,
                  persisted : [Dataset -> Status], marks : SUBSET Dataset,
                  statuses : [Dataset -> Status]]
    BY <1>1, <1>4, <1>5
  <2>2. at = "train" => turn = inv.next
    OBVIOUS
  <2>3. inv'.at = "train" =>
          /\ runs' # <<>>
          /\ inv'.statuses[Order[inv'.next]] =
               OpenStatus(Len(runs'), Last(runs').resume, prepared'[Order[inv'.next]])
    BY <1>6, <2>2 DEF Current
  <2>4. inv'.at \in {"rejected", "resume", "train"} => inv'.next <= Len(Order)
    BY <1>5, <1>6
  <2> QED
    BY <2>1, <2>3, <2>4 DEF InvocationOK, Current, Running
<1>8. MarksKnown'
  <2>1. inv.restart => inv.persisted = NoStatuses
    BY DEF Fine, InvFine, MarksKnown
  <2>2. at \in {"resume", "train"} => Order[turn] \notin marks
    BY DEF Current
  <2> QED
    BY <1>6, <2>1, <2>2 DEF MarksKnown, Current
<1>9. DoneSoFar'
  <2>1. \A i \in 1 .. inv.next - 1 :
          /\ Order[i] \notin inv'.marks
          /\ inv'.statuses[Order[i]].kind = "completed"
          /\ LET r == runs'[inv'.statuses[Order[i]].active]
             IN  r.of = prepared'[Order[i]] /\ r.kept
    BY <1>2, <1>6, DoneStays DEF Fine
  <2>2. CASE turn = inv.next
    BY <1>6, <2>1, <2>2 DEF DoneSoFar
  <2>3. CASE turn = inv.next + 1
    <3>1. With(s)[Current] = s
      BY <1>1 DEF With
    <3>2. turn # inv.next
      BY <1>1, <2>3
    <3>3. /\ Order[inv.next] \notin inv'.marks
          /\ inv'.statuses[Order[inv.next]].kind = "completed"
          /\ runs'[inv'.statuses[Order[inv.next]].active].of = prepared'[Order[inv.next]]
          /\ runs'[inv'.statuses[Order[inv.next]].active].kept
      BY <1>6, <3>1, <3>2 DEF Current
    <3>4. \A i \in 1 .. inv'.next - 1 : i \in 1 .. inv.next - 1 \/ i = inv.next
      BY <1>1, <1>6, <2>3
    <3> QED
      BY <2>1, <3>3, <3>4 DEF DoneSoFar
  <2> QED
    BY <2>2, <2>3
<1>10. Committing'
  BY <1>6 DEF Committing
<1>11. InvFine'
  BY <1>3, <1>4, <1>6, <1>7, <1>8, <1>9, <1>10 DEF InvFine
<1>12. report' \in ReportSet /\ LeadIn(runs', report'.datasets)
  BY <1>2, <1>3 DEF ReportSet, Fine, FilesOK
<1>13. FilesOK'
  BY <1>12 DEF Fine, FilesOK, ReportSet, IndexSet, Extends
<1>14. faults' \in 0 .. MaxFaults
  BY SpendFine DEF Fine
<1> QED
  BY <1>11, <1>12, <1>13, <1>14 DEF Fine

\* What GoesOn asks of a step that leaves the runs or the index alone.
LEMMA RunsAlone ==
  ASSUME Fine, runs' = runs
  PROVE  /\ Extends(runs, runs')
         /\ \A r \in DOMAIN runs' : runs'[r].resume < r
         /\ \A r \in DOMAIN runs : runs[r].kept => runs'[r].kept
BY RunsStay DEF Fine, FilesOK

LEMMA Invocation ==
  ASSUME Fine
  PROVE  inv = [at |-> inv.at, restart |-> inv.restart, compute |-> inv.compute,
                next |-> inv.next, persisted |-> inv.persisted,
                marks |-> inv.marks, statuses |-> inv.statuses]
BY DEF Fine, InvFine, InvocationOK

LEMMA MarksOfIndex ==
  ASSUME Fine, inv.at \notin {"idle", "rejected"}
  PROVE  inv.marks = index.marks /\ inv.marks \in SUBSET Dataset
BY DEF Fine, InvFine, MarksKnown, FilesOK

\* The rejection of the current dataset, which is on its way to the report.
LEMMA PublishMarkerFine ==
  ASSUME Fine, inv.at \in {"check", "train"}, inv.next <= Len(Order), PublishMarker,
         prepared' = prepared, runs' = runs, report' = report, stage' = stage,
         changes' = changes
  PROVE  Fine'
<1>1. Current \in Dataset /\ Good(runs', Current, Rejected)
  BY CurrentFacts, StatusFacts DEF Good, Fine
<1>2. Marking(inv.marks \cup {Current}) \in IndexSet
      /\ Marking(inv.marks \cup {Current}).is = "sound"
  BY <1>1, MarksOfIndex, MarkingFacts DEF IndexSet
<1>3. index' \in IndexSet /\ (index'.is # "sound" => index'.marks = {})
  BY <1>2, IndexFacts DEF PublishMarker
<1>4. faults' = faults \/ Spend
  BY DEF PublishMarker
<1>5. inv' = [at |-> "rejected", restart |-> inv.restart, compute |-> inv.compute,
              next |-> inv.next, persisted |-> inv.persisted,
              marks |-> inv.marks, statuses |-> With(Rejected)]
  BY Invocation DEF PublishMarker
<1> QED
  BY <1>1, <1>3, <1>4, <1>5, RunsAlone, GoesOn

LEMMA RejectAgainStep == ASSUME Fine, RejectAgain PROVE Fine'
BY PublishMarkerFine DEF RejectAgain

LEMMA TrainingAt ==
  ASSUME Fine, inv.at \in {"rejected", "resume", "train"} PROVE inv.next <= Len(Order)
BY DEF Fine, InvFine, InvocationOK

LEMMA RejectStep == ASSUME Fine, Reject PROVE Fine'
BY PublishMarkerFine, TrainingAt DEF Reject

LEMMA ReportRejectionStep == ASSUME Fine, ReportRejection PROVE Fine'
<1>1. inv.next <= Len(Order)
  BY TrainingAt DEF ReportRejection
<1>2. Good(runs', Current, Rejected) /\ Extends(runs, runs')
  BY StatusFacts, RunsAlone DEF Good, ReportRejection
<1>3. index' \in IndexSet /\ (index'.is # "sound" => index'.marks = {})
  BY IndexFacts DEF ReportRejection
<1>4. report' \in ReportSet /\ LeadIn(runs', report'.datasets) /\ InvFine'
  BY <1>1, <1>2, <1>3, LeaveFine DEF ReportRejection, Fine
<1>5. FilesOK'
  BY <1>3, <1>4, FilesKept DEF ReportRejection, Fine, IndexSet
<1> QED
  BY <1>4, <1>5 DEF Fine, ReportRejection

LEMMA KeepCompletedStep == ASSUME Fine, KeepCompleted PROVE Fine'
<1>1. inv.at = "check" /\ inv.next <= Len(Order) /\ VerifiedCompleted(Current, Persisted)
      /\ runs' = runs
  BY DEF KeepCompleted
<1>2. Good(runs, Current, Persisted) /\ Current \in Dataset
  BY <1>1, CurrentFacts DEF Fine
<1>3. ~ inv.restart
  <2>1. inv.restart => Persisted = NoStatus
    BY <1>1, <1>2 DEF Fine, InvFine, MarksKnown, Persisted, NoStatuses
  <2> QED
    BY <1>1, <2>1, StatusFacts DEF VerifiedCompleted
<1>4. Current \notin inv.marks
  BY <1>3 DEF KeepCompleted, IsRejected
<1>5. /\ Persisted.kind = "completed"
      /\ runs[Persisted.active].of = prepared[Current] /\ runs[Persisted.active].kept
  BY <1>1, <1>2 DEF VerifiedCompleted, Good
<1>6. inv' = [at |-> inv.at, restart |-> inv.restart, compute |-> inv.compute,
              next |-> inv.next + 1, persisted |-> inv.persisted,
              marks |-> inv.marks, statuses |-> With(Persisted)]
  BY Invocation DEF KeepCompleted
<1>7. index' = index /\ index' \in IndexSet /\ (index'.is # "sound" => index'.marks = {})
      /\ inv.marks = index'.marks
  BY <1>1, IndexFacts, MarksOfIndex DEF KeepCompleted
<1>8. report' = [status |-> "running", datasets |-> With(Persisted)]
      /\ prepared' = prepared /\ stage' = stage /\ faults' = faults /\ changes' = changes
  BY DEF KeepCompleted, WriteReport
<1> HIDE DEF Persisted
<1> QED
  BY <1>1, <1>2, <1>4, <1>5, <1>6, <1>7, <1>8, RunsAlone, GoesOn

LEMMA CheckDoneStep == ASSUME Fine, CheckDone PROVE Fine'
<1>1. inv.at = "check" /\ inv.next <= Len(Order) /\ runs' = runs
      /\ prepared' = prepared /\ stage' = stage /\ changes' = changes
      /\ ~ IsRejected
  BY DEF CheckDone
<1>2. Current \in Dataset /\ Good(runs, Current, Bare)
  BY <1>1, CurrentFacts, StatusFacts DEF Fine, Good
<1>3. index \in IndexSet /\ (index.is # "sound" => index.marks = {})
      /\ inv.marks = index.marks /\ inv.marks \in SUBSET Dataset
  BY <1>1, IndexFacts, MarksOfIndex
<1>4. /\ Marking(inv.marks \ {Current}) \in IndexSet
      /\ Marking(inv.marks \ {Current}).is = "sound"
      /\ Marking(inv.marks \ {Current}).marks = inv.marks \ {Current}
  BY <1>3, MarkingFacts DEF IndexSet
<1>5. CASE /\ inv.restart => Current \notin inv.marks /\ index.is = "sound"
           /\ Goto("resume")
           /\ UNCHANGED <<report, index, faults>>
  <2>1. Current \notin inv.marks
    BY <1>1, <1>5 DEF IsRejected
  <2>2. inv' = [at |-> "resume", restart |-> inv.restart, compute |-> inv.compute,
                next |-> inv.next, persisted |-> inv.persisted,
                marks |-> inv.marks, statuses |-> inv.statuses]
    BY <1>5, Invocation DEF Goto
  <2> QED
    BY <1>1, <1>2, <1>3, <1>5, <2>1, <2>2, RunsAlone, GoesOn
<1>6. CASE /\ index' = Marking(inv.marks \ {Current})
           /\ inv' = [inv EXCEPT !.at = "resume", !.marks = @ \ {Current}]
           /\ UNCHANGED <<report, faults>>
  <2>1. inv' = [at |-> "resume", restart |-> inv.restart, compute |-> inv.compute,
                next |-> inv.next, persisted |-> inv.persisted,
                marks |-> inv.marks \ {Current}, statuses |-> inv.statuses]
    BY <1>6, Invocation
  <2> QED
    BY <1>1, <1>2, <1>4, <1>6, <2>1, RunsAlone, GoesOn
<1>7. CASE /\ Spend
           /\ index' \in {index, Marking(inv.marks \ {Current})}
           /\ Fail
  BY <1>1, <1>3, <1>4, <1>7, HandledFine
<1> QED
  BY <1>5, <1>6, <1>7 DEF CheckDone

LEMMA FailBeforeRunStep == ASSUME Fine, FailBeforeRun PROVE Fine'
BY HandledFine, IndexFacts, TrainingAt DEF FailBeforeRun

LEMMA FailTrainingStep == ASSUME Fine, FailTraining PROVE Fine'
BY HandledFine, IndexFacts, TrainingAt DEF FailTraining

LEMMA CreateRunStep == ASSUME Fine, CreateRun PROVE Fine'
<1> DEFINE status == OpenStatus(Len(runs) + 1, Resume, prepared[Current])
           new == [dataset |-> Current, of |-> prepared[Current],
                   device |-> inv.compute, resume |-> Resume, saved |-> 0,
                   sound |-> TRUE, kept |-> FALSE]
<1>1. inv.at = "resume" /\ inv.next <= Len(Order) /\ inv.compute \in Compute
      /\ inv.statuses \in [Dataset -> Status]
  BY TrainingAt DEF CreateRun, Fine, InvFine, InvocationOK
<1>2. Current \in Dataset /\ prepared[Current] \in Descriptor
  BY <1>1, CurrentFacts DEF Fine, FilesOK
<1>3. Resume \in 0 .. Len(runs) /\ runs \in Seq(Run) /\ Len(runs) \in Nat
  BY <1>1, ResumeFacts DEF Fine, FilesOK
<1>4. new \in Run
  BY <1>1, <1>2, <1>3, EpochsAssumption DEF Run
<1> HIDE DEF new
<1>5. /\ runs' = Append(runs, new) /\ runs' \in Seq(Run) /\ Len(runs') = Len(runs) + 1
      /\ runs'[Len(runs) + 1] = new
      /\ \A k \in 1 .. Len(runs) : runs'[k] = runs[k]
      /\ DOMAIN runs' = 1 .. Len(runs) + 1 /\ DOMAIN runs = 1 .. Len(runs)
  BY <1>3, <1>4 DEF CreateRun, new
<1>6. new.dataset = Current /\ new.of = prepared[Current] /\ new.resume = Resume
  BY DEF new
<1>7. /\ Extends(runs, runs')
      /\ \A r \in DOMAIN runs' : runs'[r].resume < r
      /\ \A r \in DOMAIN runs : runs[r].kept => runs'[r].kept
  <2>1. \A r \in DOMAIN runs : runs[r].resume < r
    BY DEF Fine, FilesOK
  <2> QED
    BY <1>3, <1>5, <1>6, <2>1 DEF Extends
<1>8. Good(runs', Current, status)
  <2>1. status \in Status
    BY <1>2, <1>3 DEF OpenStatus, Status
  <2>2. /\ status.active = Len(runs) + 1 /\ status.of = prepared[Current]
        /\ status.resume = Resume
    BY DEF OpenStatus
  <2> QED
    BY <1>3, <1>5, <1>6, <2>1, <2>2 DEF Good
<1>9. Last(runs') = new /\ runs' # <<>>
  BY <1>3, <1>5 DEF Last
<1>10. With(status)[Current] = status
  BY <1>1, <1>2 DEF With
<1>11. inv' = [at |-> "train", restart |-> inv.restart, compute |-> inv.compute,
               next |-> inv.next, persisted |-> inv.persisted,
               marks |-> inv.marks, statuses |-> With(status)]
  BY Invocation DEF CreateRun
<1>12. inv.marks = index.marks /\ Current \notin inv.marks
  BY <1>1, MarksOfIndex DEF Fine, InvFine, MarksKnown
<1>13. index' = index /\ index' \in IndexSet /\ (index'.is # "sound" => index'.marks = {})
  BY IndexFacts DEF CreateRun
<1>14. report' = [status |-> "running", datasets |-> With(status)]
       /\ prepared' = prepared /\ stage' = stage /\ faults' = faults /\ changes' = changes
  BY DEF CreateRun, WriteReport
<1>15. status = OpenStatus(Len(runs'), Last(runs').resume, prepared[Current])
  BY <1>5, <1>6, <1>9
<1> HIDE DEF status
<1> QED
  BY <1>1, <1>7, <1>8, <1>9, <1>10, <1>11, <1>12, <1>13, <1>14, <1>15, GoesOn

\* The run in training, and its status.
LEMMA RunningFacts ==
  ASSUME Fine, inv.at = "train"
  PROVE  /\ runs \in Seq(Run) /\ Len(runs) \in DOMAIN runs /\ Len(runs) \in Nat
         /\ Running = runs[Len(runs)] /\ Running \in Run
         /\ inv.next <= Len(Order) /\ Current \in Dataset
         /\ inv.statuses[Current] =
              OpenStatus(Len(runs), Running.resume, prepared[Current])
         /\ Running.dataset = Current /\ Running.of = prepared[Current]
         /\ \A k \in DOMAIN runs : runs[k].resume < k
         /\ Trained \in Nat
<1>1. runs \in Seq(Run) /\ runs # <<>> /\ \A k \in DOMAIN runs : runs[k].resume < k
  BY DEF Fine, InvFine, InvocationOK, FilesOK
<1>2. Len(runs) \in DOMAIN runs /\ Len(runs) \in Nat /\ DOMAIN runs = 1 .. Len(runs)
  BY <1>1
<1>3. Running = runs[Len(runs)] /\ Running \in Run
  BY <1>1, <1>2 DEF Running, Last
<1>4. inv.next <= Len(Order)
  BY TrainingAt
<1>5. /\ Current \in Dataset
      /\ inv.statuses[Current] = OpenStatus(Len(runs), Running.resume, prepared[Current])
      /\ Good(runs, Current, inv.statuses[Current])
  BY <1>4, CurrentFacts DEF Fine, InvFine, InvocationOK
<1>6. Running.dataset = Current /\ Running.of = prepared[Current]
  BY <1>3, <1>5 DEF Good, OpenStatus
<1>7. Trained \in Nat
  <2>1. Running.saved \in Nat /\ Running.resume \in Nat /\ Running.resume < Len(runs)
    BY <1>1, <1>2, <1>3, EpochsAssumption DEF Run
  <2>2. Running.resume > 0 => runs[Running.resume] \in Run
    BY <1>1, <1>2, <2>1
  <2>3. Running.resume > 0 => runs[Running.resume].saved \in Nat
    BY <2>2, EpochsAssumption DEF Run
  <2> QED
    BY <2>1, <2>3 DEF Trained
<1> QED
  BY <1>1, <1>2, <1>3, <1>4, <1>5, <1>6, <1>7

LEMMA SaveEpochStep == ASSUME Fine, SaveEpoch PROVE Fine'
<1> DEFINE last == Len(runs)
           saved == [runs[last] EXCEPT !.saved = Trained + 1]
<1>1. inv.at = "train" /\ Trained < Epochs
  BY DEF SaveEpoch
<1>2. saved \in Run /\ saved.dataset = runs[last].dataset
      /\ saved.of = runs[last].of /\ saved.resume = runs[last].resume
      /\ saved.kept = runs[last].kept
  <2>1. runs[last] \in Run /\ Trained + 1 \in 0 .. Epochs
    BY <1>1, RunningFacts, EpochsAssumption
  <2> HIDE DEF last
  <2> QED
    BY <2>1 DEF Run
<1>3. runs' = [runs EXCEPT ![last] = saved]
  BY DEF SaveEpoch
<1> HIDE DEF saved
<1>4. /\ Extends(runs, runs') /\ Len(runs') = Len(runs)
      /\ \A k \in DOMAIN runs' : runs'[k].resume < k
      /\ \A k \in 1 .. Len(runs) : runs'[k] = IF k = last THEN saved ELSE runs[k]
  <2>1. runs \in Seq(Run) /\ last \in DOMAIN runs
        /\ \A k \in DOMAIN runs : runs[k].resume < k
    BY <1>1, RunningFacts
  <2>2. /\ Extends(runs, [runs EXCEPT ![last] = saved])
        /\ Len([runs EXCEPT ![last] = saved]) = Len(runs)
        /\ \A k \in DOMAIN [runs EXCEPT ![last] = saved] :
             [runs EXCEPT ![last] = saved][k].resume < k
        /\ \A k \in 1 .. Len(runs) :
             [runs EXCEPT ![last] = saved][k] = IF k = last THEN saved ELSE runs[k]
    <3> HIDE DEF last
    <3> QED
      BY <1>2, <2>1, Amended
  <2> QED
    BY <1>3, <2>2
<1>5. runs' # <<>> /\ Last(runs') = saved
  BY <1>1, <1>4, RunningFacts DEF Last
<1>6. \A r \in DOMAIN runs : runs[r].kept => runs'[r].kept
  BY <1>1, <1>2, <1>4, RunningFacts
<1>7. Good(runs, Current, inv.statuses[Current]) /\ Current \in Dataset
  BY <1>1, RunningFacts, CurrentFacts DEF Fine
<1>8. Good(runs', Current, Bare)
  BY StatusFacts DEF Good
<1>9. inv.statuses[Current] = OpenStatus(Len(runs'), Last(runs').resume, prepared[Current])
  BY <1>1, <1>2, <1>4, <1>5, RunningFacts
<1>10. inv.marks = index.marks /\ Current \notin inv.marks
  BY <1>1, MarksOfIndex DEF Fine, InvFine, MarksKnown
<1>11. index' = index /\ index' \in IndexSet /\ (index'.is # "sound" => index'.marks = {})
  BY IndexFacts DEF SaveEpoch
<1>12. inv' = [at |-> "train", restart |-> inv.restart, compute |-> inv.compute,
               next |-> inv.next, persisted |-> inv.persisted,
               marks |-> inv.marks, statuses |-> inv.statuses]
  BY <1>1, Invocation DEF SaveEpoch
<1>13. report' = report /\ prepared' = prepared /\ stage' = stage
       /\ faults' = faults /\ changes' = changes /\ inv.next <= Len(Order)
  BY <1>1, RunningFacts DEF SaveEpoch
<1> QED
  BY <1>1, <1>4, <1>5, <1>6, <1>8, <1>9, <1>10, <1>11, <1>12, <1>13, GoesOn

LEMMA CompleteStep == ASSUME Fine, Complete PROVE Fine'
<1> DEFINE last == Len(runs)
           kept == [runs[last] EXCEPT !.kept = TRUE]
           status == CompletedStatus(Len(runs), prepared[Current])
<1>1. inv.at = "train"
  BY DEF Complete
<1>2. kept \in Run /\ kept.dataset = runs[last].dataset
      /\ kept.of = runs[last].of /\ kept.resume = runs[last].resume /\ kept.kept
  BY <1>1, RunningFacts DEF Run
<1>3. runs' = [runs EXCEPT ![last] = kept]
  BY DEF Complete
<1> HIDE DEF kept
<1>4. /\ Extends(runs, runs') /\ Len(runs') = Len(runs)
      /\ \A k \in DOMAIN runs' : runs'[k].resume < k
      /\ \A k \in 1 .. Len(runs) : runs'[k] = IF k = last THEN kept ELSE runs[k]
  <2>1. runs \in Seq(Run) /\ last \in DOMAIN runs
        /\ \A k \in DOMAIN runs : runs[k].resume < k
    BY <1>1, RunningFacts
  <2>2. /\ Extends(runs, [runs EXCEPT ![last] = kept])
        /\ Len([runs EXCEPT ![last] = kept]) = Len(runs)
        /\ \A k \in DOMAIN [runs EXCEPT ![last] = kept] :
             [runs EXCEPT ![last] = kept][k].resume < k
        /\ \A k \in 1 .. Len(runs) :
             [runs EXCEPT ![last] = kept][k] = IF k = last THEN kept ELSE runs[k]
    <3> HIDE DEF last
    <3> QED
      BY <1>2, <2>1, Amended
  <2> QED
    BY <1>3, <2>2
<1>5. \A r \in DOMAIN runs : runs[r].kept => runs'[r].kept
  BY <1>1, <1>2, <1>4, RunningFacts
<1>6. /\ runs'[last].dataset = Current /\ runs'[last].of = prepared[Current]
      /\ runs'[last].kept /\ last \in DOMAIN runs'
  BY <1>1, <1>2, <1>4, RunningFacts
<1>7. /\ status.kind = "completed" /\ status.active = last
      /\ status.of = prepared[Current] /\ status \in Status
  <2>1. prepared[Current] \in Descriptor
    BY <1>1, RunningFacts DEF Fine, FilesOK
  <2> QED
    BY <1>1, <2>1, RunningFacts DEF CompletedStatus, Status
<1>8. Good(runs', Current, status) /\ Good(runs', Current, Bare)
  BY <1>6, <1>7, StatusFacts DEF Good
<1>9. /\ index \in IndexSet /\ (index.is # "sound" => index.marks = {})
      /\ inv.marks = index.marks /\ inv.marks \in SUBSET Dataset
      /\ Current \notin inv.marks
  BY <1>1, IndexFacts, MarksOfIndex DEF Fine, InvFine, MarksKnown
<1>10. /\ Marking(inv.marks \ {Current}) \in IndexSet
       /\ Marking(inv.marks \ {Current}).is = "sound"
       /\ Marking(inv.marks \ {Current}).marks = inv.marks
  BY <1>9, MarkingFacts DEF IndexSet
<1>11. inv.next <= Len(Order) /\ prepared' = prepared /\ stage' = stage
       /\ changes' = changes
  BY <1>1, RunningFacts DEF Complete
<1>12. CASE /\ index' = IF Current \notin inv.marks /\ index.is = "sound" THEN index
                        ELSE Marking(inv.marks \ {Current})
            /\ WriteReport("running", With(status))
            /\ inv' = [inv EXCEPT !.at = "check", !.next = @ + 1,
                                  !.statuses = With(status)]
            /\ UNCHANGED faults
  <2>1. index' \in IndexSet /\ (index'.is # "sound" => index'.marks = {})
        /\ inv.marks = index'.marks
    BY <1>9, <1>10, <1>12
  <2>2. inv' = [at |-> "check", restart |-> inv.restart, compute |-> inv.compute,
                next |-> inv.next + 1, persisted |-> inv.persisted,
                marks |-> inv.marks, statuses |-> With(status)]
    BY <1>12, Invocation
  <2>3. report' = [status |-> "running", datasets |-> With(status)]
        /\ faults' = faults
    BY <1>12 DEF WriteReport
  <2> HIDE DEF status
  <2> QED
    BY <1>1, <1>4, <1>5, <1>6, <1>7, <1>8, <1>9, <1>11, <2>1, <2>2, <2>3, GoesOn
<1>13. CASE /\ index.is # "sound"
            /\ Spend
            /\ index' \in {index, Marking(inv.marks \ {Current})}
            /\ Leave("failed", Bare)
  <2>1. index' \in IndexSet /\ (index'.is # "sound" => index'.marks = {})
    BY <1>9, <1>10, <1>13
  <2>2. report' \in ReportSet /\ LeadIn(runs', report'.datasets) /\ InvFine'
    BY <1>4, <1>8, <1>11, <1>13, <2>1, LeaveFine DEF Fine
  <2>3. FilesOK'
    BY <1>4, <1>11, <2>1, <2>2 DEF Fine, FilesOK, ReportSet, IndexSet, Extends
  <2>4. faults' \in 0 .. MaxFaults
    BY <1>13, SpendFine DEF Fine
  <2> QED
    BY <1>11, <2>2, <2>3, <2>4 DEF Fine
<1> QED
  BY <1>12, <1>13 DEF Complete

LEMMA ReportCompletedStep == ASSUME Fine, ReportCompleted PROVE Fine'
<1>1. /\ inv.at = "check" /\ inv.next = Len(Order) + 1
      /\ inv.statuses \in [Dataset -> Status] /\ LeadIn(runs, inv.statuses)
  BY OrderFacts DEF ReportCompleted, Fine, InvFine, InvocationOK
<1>2. inv' = [at |-> "commit", restart |-> inv.restart, compute |-> inv.compute,
              next |-> inv.next, persisted |-> inv.persisted,
              marks |-> inv.marks, statuses |-> inv.statuses]
  BY Invocation DEF ReportCompleted, Goto
<1>3. report' = [status |-> "completed", datasets |-> inv.statuses]
  BY DEF ReportCompleted, WriteReport
<1>4. /\ prepared' = prepared /\ runs' = runs /\ index' = index /\ stage' = stage
      /\ faults' = faults /\ changes' = changes
  BY DEF ReportCompleted
<1>5. inv'.at = "commit" /\ inv'.next = inv.next /\ inv'.statuses = inv.statuses
      /\ inv'.marks = inv.marks /\ inv'.persisted = inv.persisted
      /\ inv'.restart = inv.restart
  BY <1>2
<1>6. InvocationOK'
  BY <1>2, <1>5 DEF Fine, InvFine, InvocationOK
<1>7. MarksKnown' /\ Committing'
  BY <1>1, <1>3, <1>4, <1>5 DEF Fine, InvFine, MarksKnown, Committing
<1>8. DoneSoFar'
  BY <1>4, <1>5 DEF Fine, InvFine, DoneSoFar
<1>9. LeadIn(runs', inv'.persisted) /\ LeadIn(runs', inv'.statuses)
  BY <1>4, <1>5 DEF Fine, InvFine
<1>10. report' \in ReportSet /\ LeadIn(runs', report'.datasets)
  BY <1>1, <1>3, <1>4 DEF ReportSet
<1>11. FilesOK'
  BY <1>4, <1>10, FilesKept DEF Fine, FilesOK
<1> QED
  BY <1>4, <1>6, <1>7, <1>8, <1>9, <1>10, <1>11 DEF Fine, InvFine

LEMMA CommitStageStep == ASSUME Fine, CommitStage PROVE Fine'
<1>1. InvFine'
  BY IdleFine, IndexFacts DEF CommitStage
<1> QED
  BY <1>1 DEF CommitStage, Fine, FilesOK

LEMMA KillStep == ASSUME Fine, Kill PROVE Fine'
<1>1. InvFine'
  BY IdleFine, IndexFacts DEF Kill
<1>2. faults' \in 0 .. MaxFaults
  BY SpendFine DEF Kill, Fine
<1> QED
  BY <1>1, <1>2 DEF Kill, Fine, FilesOK

\* Nothing is under way between invocations.
LEMMA IdleInv == ASSUME Fine, inv.at = "idle", inv' = inv PROVE inv' = Idle
BY DEF Fine, InvFine, MarksKnown

LEMMA DamageStep == ASSUME Fine, Damage PROVE Fine'
<1>1. index' \in IndexSet /\ (index'.is # "sound" => index'.marks = {})
  BY IndexFacts DEF Damage, NoIndex, BadIndex, IndexSet
<1>2. InvFine'
  BY <1>1, IdleFine, IdleInv DEF Damage
<1>3. prepared' = prepared /\ changes' = changes /\ faults' \in 0 .. MaxFaults
  BY SpendFine DEF Damage, Fine
<1>4. stage' \in [Dataset -> Descriptor \cup {"none"}]
  BY NotRecordedFacts DEF Damage, Fine, FilesOK
<1>5. runs \in Seq(Run) /\ \A k \in DOMAIN runs : runs[k].resume < k
  BY DEF Fine, FilesOK
<1>6. Extends(runs, runs') /\ (\A k \in DOMAIN runs' : runs'[k].resume < k)
      /\ (report' = report \/ report' = NoReport)
  <2>1. CASE runs' = runs /\ report' = NoReport
    BY <2>1, RunsAlone
  <2>2. CASE runs' = runs /\ report' = report
    BY <2>2, RunsAlone
  <2>3. ASSUME NEW r \in DOMAIN runs, report' = report,
               NEW x \in {[runs[r] EXCEPT !.saved = 0], [runs[r] EXCEPT !.sound = FALSE],
                          [runs[r] EXCEPT !.kept = FALSE]},
               runs' = [runs EXCEPT ![r] = x]
        PROVE  Extends(runs, runs') /\ (\A k \in DOMAIN runs' : runs'[k].resume < k)
    <3>1. runs[r] \in Run
      BY <1>5
    <3>2. x \in Run /\ x.dataset = runs[r].dataset /\ x.of = runs[r].of
          /\ x.resume = runs[r].resume
      <4>1. CASE x = [runs[r] EXCEPT !.saved = 0]
        BY <3>1, <4>1, EpochsAssumption DEF Run
      <4>2. CASE x = [runs[r] EXCEPT !.sound = FALSE]
        BY <3>1, <4>2 DEF Run
      <4>3. CASE x = [runs[r] EXCEPT !.kept = FALSE]
        BY <3>1, <4>3 DEF Run
      <4> QED
        BY <4>1, <4>2, <4>3
    <3>3. /\ Extends(runs, [runs EXCEPT ![r] = x])
          /\ \A k \in DOMAIN [runs EXCEPT ![r] = x] : [runs EXCEPT ![r] = x][k].resume < k
      BY <1>5, <3>2, Amended
    <3> QED
      BY <2>3, <3>3
  <2> QED
    BY <2>1, <2>2, <2>3 DEF Damage
<1>7. report' \in ReportSet /\ LeadIn(runs', report'.datasets)
  <2>1. LeadIn(runs', report.datasets)
    BY <1>5, <1>6, ExtendedLead DEF Fine
  <2> QED
    BY <1>6, <2>1, StatusFacts DEF ReportSet, NoReport, Fine, FilesOK
<1>8. FilesOK'
  BY <1>1, <1>3, <1>4, <1>6, <1>7 DEF Fine, FilesOK, ReportSet, IndexSet, Extends
<1> QED
  BY <1>2, <1>3, <1>7, <1>8 DEF Fine

LEMMA PrepareStep == ASSUME Fine, Prepare PROVE Fine'
<1>1. InvFine'
  BY IdleFine, IdleInv, IndexFacts DEF Prepare
<1>2. prepared' \in [Dataset -> Descriptor]
  BY DEF Prepare, Fine, FilesOK
<1>3. changes' \in 0 .. MaxChanges
  BY BoundAssumption DEF Prepare, Fine
<1> QED
  BY <1>1, <1>2, <1>3 DEF Prepare, Fine, FilesOK

-----------------------------------------------------------------------------
(* The theorems.                                                            *)

LEMMA FineIsIInv == Fine <=> IInv
BY IInvParts DEF Fine

LEMMA Beginning == Init => IInv
<1> SUFFICES ASSUME Init PROVE Fine
  BY FineIsIInv
<1>1. PICK content \in Descriptor : prepared = [d \in Dataset |-> content]
  BY DEF Init
<1>2. NoReport \in ReportSet /\ LeadIn(runs, NoReport.datasets)
  BY StatusFacts DEF NoReport, ReportSet
<1>3. NoIndex \in IndexSet /\ NoIndex.marks = {} /\ NoIndex.is = "missing"
  BY DEF NoIndex, IndexSet
<1>4. FilesOK
  BY <1>1, <1>2, <1>3, NotRecordedFacts DEF Init, FilesOK, ReportSet, IndexSet
<1>5. /\ Idle.at = "idle" /\ Idle.next = 1 /\ Idle.restart = FALSE
      /\ Idle.persisted = NoStatuses /\ Idle.statuses = NoStatuses
  BY DEF Idle
<1>6. InvocationOK
  BY <1>5, OrderFacts, StatusFacts, ComputeAssumption DEF Init, InvocationOK, Idle
<1>7. InvFine
  BY <1>3, <1>5, <1>6, StatusFacts DEF Init, InvFine, MarksKnown, DoneSoFar, Committing
<1> QED
  BY <1>2, <1>4, <1>7, BoundAssumption DEF Init, Fine

LEMMA Inductive == IInv /\ [Next]_vars => IInv'
<1> SUFFICES ASSUME IInv, [Next]_vars PROVE IInv'
  OBVIOUS
<1>1. Fine
  BY FineIsIInv
<1>2. CASE Next
  <2>1. Fine'
    BY <1>1, <1>2, StartStep, RestartStep, RefuseCheckpointStep, RejectAgainStep,
       ReportRejectionStep, KeepCompletedStep, CheckDoneStep, FailBeforeRunStep,
       CreateRunStep, SaveEpochStep, FailTrainingStep, RejectStep, CompleteStep,
       ReportCompletedStep, CommitStageStep, KillStep, DamageStep, PrepareStep
       DEF Next, Step
  <2> QED
    BY <2>1, Afterwards DEF Fine
<1>3. CASE UNCHANGED vars
  BY <1>3 DEF vars, IInv, TypeOK, FilesOK, InvocationOK, LocatorsLead, MarksKnown,
     DoneSoFar, Committing, Current, Running
<1> QED
  BY <1>2, <1>3

LEMMA Holds == Spec => []IInv
BY Beginning, Inductive, PTL DEF Spec

\* TypeOK for any datasets, epochs and faults: every status on disk or in
\* memory has locators that lead to the right run, whatever was lost.
THEOREM TypeCorrect == Spec => []TypeOK
<1>1. IInv => TypeOK
  BY DEF IInv
<1> QED
  BY <1>1, Holds, PTL

\* CompletedIsTrue for any datasets, epochs and faults: when run_train
\* returns, every dataset has a complete run on its prepared data, and none
\* is marked as rejected.
THEOREM CompletedTrue == Spec => []CompletedIsTrue
<1>1. IInv => CompletedIsTrue
  <2> SUFFICES ASSUME IInv, inv.at = "commit", NEW d \in Dataset
               PROVE  /\ report.datasets[d].kind = "completed"
                      /\ LET r == runs[report.datasets[d].active]
                         IN  r.dataset = d /\ r.of = prepared[d] /\ r.kept
                      /\ d \notin index.marks
    BY DEF CompletedIsTrue
  <2>1. Fine
    BY FineIsIInv
  <2>2. PICK i \in 1 .. Len(Order) : Order[i] = d
    BY OrderFacts
  <2>3. inv.next = Len(Order) + 1 /\ report.datasets = inv.statuses
    BY <2>1 DEF Fine, InvFine, Committing
  <2>4. i \in 1 .. inv.next - 1
    BY <2>2, <2>3, OrderFacts
  <2>5. /\ d \notin inv.marks
        /\ inv.statuses[d].kind = "completed"
        /\ runs[inv.statuses[d].active].of = prepared[d]
        /\ runs[inv.statuses[d].active].kept
    BY <2>1, <2>2, <2>4 DEF Fine, InvFine, DoneSoFar
  <2>6. runs[inv.statuses[d].active].dataset = d
    BY <2>1, <2>5 DEF Fine, InvFine, LeadIn
  <2>7. inv.marks = index.marks
    BY <2>1, MarksOfIndex
  <2> QED
    BY <2>3, <2>5, <2>6, <2>7
<1> QED
  BY <1>1, Holds, PTL

\* RejectionStands for any datasets, epochs and faults: an ordinary command
\* keeps every mark of the index and creates no run for a marked dataset.
THEOREM RejectionsStand == Spec => RejectionStands
<1> DEFINE Stands ==
      inv.at # "idle" /\ ~ inv.restart =>
        /\ index.marks \subseteq index'.marks
        /\ Created => New.dataset \notin index.marks
<1>1. ASSUME IInv, [Next]_vars PROVE Stands
  <2> SUFFICES ASSUME inv.at # "idle", ~ inv.restart
               PROVE  /\ index.marks \subseteq index'.marks
                      /\ Created => New.dataset \notin index.marks
    OBVIOUS
  <2>1. Fine
    BY <1>1, FineIsIInv
  <2>2. inv.at # "rejected" => inv.marks = index.marks
    BY <2>1, MarksOfIndex
  <2>3. CASE CreateRun
    <3>1. New.dataset = Current
      BY <2>1, <2>3 DEF New, CreateRun, Fine, FilesOK
    <3>2. Current \notin index.marks /\ index' = index
      BY <2>1, <2>2, <2>3 DEF CreateRun, Fine, InvFine, MarksKnown
    <3> QED
      BY <3>1, <3>2
  <2>4. CASE SaveEpoch \/ Complete
    <3>1. Len(runs') = Len(runs)
      BY <2>1, <2>4 DEF SaveEpoch, Complete, Fine, FilesOK
    <3>2. CASE SaveEpoch
      BY <3>1, <3>2 DEF SaveEpoch, Created
    <3>3. CASE Complete
      <4>1. inv.marks = index.marks /\ Current \notin inv.marks
            /\ inv.marks \in SUBSET Dataset
        BY <2>1, <2>2, <3>3, MarksOfIndex DEF Complete, Fine, InvFine, MarksKnown
      <4>2. index' \in {index, Marking(inv.marks \ {Current})}
        BY <3>3 DEF Complete
      <4> QED
        BY <3>1, <4>1, <4>2, MarkingFacts DEF Created
    <3> QED
      BY <2>4, <3>2, <3>3
  <2>5. CASE RejectAgain \/ Reject
    <3>1. PublishMarker /\ runs' = runs /\ inv.at # "rejected"
      BY <2>5 DEF RejectAgain, Reject
    <3>2. index' \in {index, Marking(inv.marks \cup {Current})}
      BY <3>1 DEF PublishMarker
    <3> QED
      BY <2>2, <3>1, <3>2 DEF Marking, Created
  <2>6. CASE CheckDone
    BY <2>6 DEF CheckDone, Created
  <2>7. CASE UNCHANGED <<runs, index>>
    BY <2>7 DEF Created
  <2>8. Start \/ Restart \/ Damage \/ Prepare => FALSE
    BY DEF Start, Restart, StartWith, Damage, Prepare
  <2>9. \/ RefuseCheckpoint \/ ReportRejection \/ KeepCompleted \/ FailBeforeRun
        \/ FailTraining \/ ReportCompleted \/ CommitStage \/ Kill \/ UNCHANGED vars
        => UNCHANGED <<runs, index>>
    BY DEF RefuseCheckpoint, ReportRejection, KeepCompleted, FailBeforeRun,
       FailTraining, ReportCompleted, CommitStage, Kill, vars
  <2> QED
    BY <1>1, <2>3, <2>4, <2>5, <2>6, <2>7, <2>8, <2>9 DEF Next, Step
<1>2. IInv /\ [Next]_vars => [Stands]_vars
  BY <1>1
<1> QED
  BY <1>2, Holds, PTL DEF Spec, RejectionStands

-----------------------------------------------------------------------------
(* Where training resumes.                                                  *)

\* What a status of dataset d that is open tells of the checkpoints: no run
\* of the dataset follows the active one, and between the run that one
\* resumed and itself none has a checkpoint left.
Newest(rs, d, s) ==
  s.kind = "open" =>
    /\ \A q \in DOMAIN rs : q > s.active => rs[q].dataset # d
    /\ s.resume # 0 =>
         \A q \in DOMAIN rs :
           s.resume < q /\ q < s.active /\ rs[q].dataset = d => rs[q].saved = 0

AllNewest(rs, statuses) == \A d \in Dataset : Newest(rs, d, statuses[d])

\* A run resumed one of its own dataset, made for the same descriptor.
Linked(rs) ==
  \A q \in DOMAIN rs :
    rs[q].resume # 0 =>
      /\ rs[rs[q].resume].dataset = rs[q].dataset
      /\ rs[rs[q].resume].of = rs[q].of

\* The datasets whose persisted status the invocation has still to read.
Unread(i) ==
  inv.at # "idle" /\ (inv.at \in {"train", "rejected"} => i # inv.next)

NewestKnown ==
  /\ Linked(runs)
  /\ AllNewest(runs, report.datasets)
  /\ AllNewest(runs, inv.statuses)
  /\ \A i \in inv.next .. Len(Order) :
       Unread(i) => Newest(runs, Order[i], inv.persisted[Order[i]])

LEMMA ClosedNewest ==
  /\ \A rs, d : Newest(rs, d, Bare) /\ Newest(rs, d, Rejected)
  /\ \A rs : AllNewest(rs, NoStatuses)
<1>1. \A rs, d : Newest(rs, d, NoStatus) /\ Newest(rs, d, Bare) /\ Newest(rs, d, Rejected)
  BY StatusFacts DEF Newest
<1> QED
  BY <1>1 DEF AllNewest, NoStatuses

\* What happens to the runs short of a new one: checkpoints are lost, and the
\* last run gets its next one.
Touched(rs, new) ==
  /\ Len(new) = Len(rs) /\ DOMAIN new = DOMAIN rs
  /\ \A q \in DOMAIN rs :
       /\ new[q].dataset = rs[q].dataset
       /\ new[q].of = rs[q].of
       /\ new[q].resume = rs[q].resume
       /\ q = Len(rs) \/ new[q].saved \in {rs[q].saved, 0}

LEMMA TouchedNewest ==
  ASSUME NEW rs \in Seq(Run), NEW new, Touched(rs, new), NEW d, NEW s,
         s.kind = "open" => s.active \in DOMAIN rs, Newest(rs, d, s)
  PROVE  Newest(new, d, s)
<1> SUFFICES ASSUME s.kind = "open" PROVE Newest(new, d, s)
  BY DEF Newest
<1>1. DOMAIN rs = 1 .. Len(rs) /\ Len(rs) \in Nat /\ s.active \in 1 .. Len(rs)
  OBVIOUS
<1>2. \A q \in DOMAIN rs : q < s.active => q # Len(rs)
  BY <1>1
<1> QED
  BY <1>1, <1>2 DEF Newest, Touched

LEMMA TouchedLinked ==
  ASSUME NEW rs \in Seq(Run), \A q \in DOMAIN rs : rs[q].resume < q,
         NEW new, Touched(rs, new), Linked(rs)
  PROVE  Linked(new)
<1>1. \A q \in DOMAIN rs : rs[q].resume # 0 => rs[q].resume \in DOMAIN rs
  <2>1. ASSUME NEW q \in DOMAIN rs PROVE rs[q].resume \in Nat
    <3>1. rs[q] \in Run
      OBVIOUS
    <3> QED
      BY <3>1 DEF Run
  <2> QED
    BY <2>1
<1> QED
  BY <1>1 DEF Linked, Touched

\* What is known of the runs survives such a step.
LEMMA TouchedKnown ==
  ASSUME Fine, NewestKnown, Touched(runs, runs')
  PROVE  /\ Linked(runs')
         /\ AllNewest(runs', report.datasets)
         /\ AllNewest(runs', inv.statuses)
         /\ \A i \in inv.next .. Len(Order) :
              Unread(i) => Newest(runs', Order[i], inv.persisted[Order[i]])
<1>1. runs \in Seq(Run) /\ \A q \in DOMAIN runs : runs[q].resume < q
  BY DEF Fine, FilesOK
<1>2. Linked(runs')
  BY <1>1, TouchedLinked DEF NewestKnown
<1>3. ASSUME NEW S, LeadIn(runs, S), NEW d \in Dataset, Newest(runs, d, S[d])
      PROVE  Newest(runs', d, S[d])
  BY <1>1, <1>3, TouchedNewest DEF LeadIn
<1>4. AllNewest(runs', report.datasets) /\ AllNewest(runs', inv.statuses)
  BY <1>3 DEF AllNewest, NewestKnown, Fine, InvFine
<1>5. ASSUME NEW i \in inv.next .. Len(Order), Unread(i)
      PROVE  Newest(runs', Order[i], inv.persisted[Order[i]])
  <2>1. inv.next \in Nat \ {0} /\ i \in 1 .. Len(Order)
    BY OrderFacts DEF Fine, InvFine, InvocationOK
  <2> QED
    BY <1>3, <1>5, <2>1, OrderFacts DEF NewestKnown, Fine, InvFine
<1> QED
  BY <1>2, <1>4, <1>5

LEMMA RunsUntouched == ASSUME Fine, runs' = runs PROVE Touched(runs, runs')
BY DEF Touched

\* One status more.
LEMMA FiledNewest ==
  ASSUME Fine, inv.next <= Len(Order), NEW rs, AllNewest(rs, inv.statuses),
         NEW s, Newest(rs, Current, s)
  PROVE  AllNewest(rs, With(s))
<1>1. Current \in Dataset /\ inv.statuses \in [Dataset -> Status]
  BY CurrentFacts DEF Fine, InvFine, InvocationOK
<1>2. \A d \in Dataset : With(s)[d] = IF d = Current THEN s ELSE inv.statuses[d]
  BY <1>1 DEF With
<1> QED
  BY <1>2 DEF AllNewest

\* The end of an invocation.
LEMMA IdleNewest ==
  ASSUME inv' = Idle, Linked(runs'), AllNewest(runs', report'.datasets)
  PROVE  NewestKnown'
<1>1. Idle.at = "idle" /\ Idle.statuses = NoStatuses
  BY DEF Idle
<1> QED
  BY <1>1, ClosedNewest DEF NewestKnown, Unread

LEMMA LeaveNewest ==
  ASSUME Fine, NewestKnown, inv.next <= Len(Order), Touched(runs, runs'),
         NEW s, Newest(runs', Current, s), NEW status, Leave(status, s)
  PROVE  NewestKnown'
<1>1. AllNewest(runs', With(s))
  BY TouchedKnown, FiledNewest
<1>2. report'.datasets = With(s) /\ inv' = Idle
  BY DEF Leave, WriteReport
<1> QED
  BY <1>1, <1>2, TouchedKnown, IdleNewest

LEMMA FailNewest ==
  ASSUME Fine, NewestKnown, inv.next <= Len(Order), runs' = runs, Fail
  PROVE  NewestKnown'
<1>1. Newest(runs', Current, inv.statuses[Current]) /\ Newest(runs', Current, Bare)
  BY CurrentFacts, ClosedNewest DEF NewestKnown, AllNewest, Fine
<1>2. Touched(runs, runs')
  BY RunsUntouched
<1>3. CASE inv.statuses[Current].kind = "open"
  BY <1>1, <1>2, <1>3, LeaveNewest DEF Fail
<1>4. CASE inv.statuses[Current].kind # "open"
  BY <1>1, <1>2, <1>4, LeaveNewest DEF Fail
<1> QED
  BY <1>3, <1>4

\* An invocation that goes on without a new run.
LEMMA GoesOnNewest ==
  ASSUME Fine, NewestKnown, inv.at # "idle", Touched(runs, runs'),
         inv'.persisted = inv.persisted,
         \/ /\ inv'.next = inv.next
            /\ inv.at \in {"train", "rejected"} => inv'.at \in {"train", "rejected"}
         \/ inv'.next = inv.next + 1,
         AllNewest(runs', inv'.statuses),
         report'.datasets \in {report.datasets, inv'.statuses}
  PROVE  NewestKnown'
<1>1. inv.next \in Nat
  BY DEF Fine, InvFine, InvocationOK
<1>2. ASSUME NEW i \in inv'.next .. Len(Order), Unread(i)'
      PROVE  i \in inv.next .. Len(Order) /\ Unread(i)
  BY <1>1, <1>2 DEF Unread
<1>3. \A i \in inv'.next .. Len(Order) :
        Unread(i)' => Newest(runs', Order[i], inv'.persisted[Order[i]])
  BY <1>2, TouchedKnown
<1>4. AllNewest(runs', report'.datasets)
  BY TouchedKnown
<1> QED
  BY <1>3, <1>4, TouchedKnown DEF NewestKnown

LEMMA StartNewest ==
  ASSUME Fine, NewestKnown, NEW restart \in BOOLEAN, NEW compute,
         StartWith(restart, compute, index.marks)
  PROVE  NewestKnown'
<1> DEFINE read == IF restart THEN NoStatuses ELSE report.datasets
<1>1. /\ inv'.at = "check" /\ inv'.next = 1 /\ inv'.persisted = read
      /\ inv'.statuses = NoStatuses /\ runs' = runs /\ report' = report
  BY DEF StartWith, Idle
<1>2. AllNewest(runs, read)
  BY ClosedNewest DEF NewestKnown
<1>3. \A i \in 1 .. Len(Order) : Newest(runs, Order[i], read[Order[i]])
  BY <1>2, OrderFacts DEF AllNewest
<1> HIDE DEF read
<1> QED
  BY <1>1, <1>3, ClosedNewest DEF NewestKnown

LEMMA MarkerNewest ==
  ASSUME Fine, NewestKnown, inv.at \in {"check", "train"}, inv.next <= Len(Order),
         PublishMarker, runs' = runs, report' = report
  PROVE  NewestKnown'
<1>1. /\ inv'.at = "rejected" /\ inv'.next = inv.next
      /\ inv'.persisted = inv.persisted /\ inv'.statuses = With(Rejected)
  BY Invocation DEF PublishMarker
<1>2. AllNewest(runs', With(Rejected))
  BY FiledNewest, ClosedNewest DEF NewestKnown
<1> QED
  BY <1>1, <1>2, RunsUntouched, GoesOnNewest

LEMMA KeepNewest == ASSUME Fine, NewestKnown, KeepCompleted PROVE NewestKnown'
<1>1. /\ inv.at = "check" /\ inv.next <= Len(Order) /\ runs' = runs
      /\ Persisted.kind = "completed" /\ report'.datasets = With(Persisted)
  BY DEF KeepCompleted, VerifiedCompleted, WriteReport
<1>2. Newest(runs', Current, Persisted)
  BY <1>1 DEF Newest
<1> HIDE DEF Persisted
<1>3. AllNewest(runs', With(Persisted))
  BY <1>1, <1>2, FiledNewest DEF NewestKnown
<1>4. /\ inv'.next = inv.next + 1
      /\ inv'.persisted = inv.persisted /\ inv'.statuses = With(Persisted)
  BY Invocation DEF KeepCompleted
<1> QED
  BY <1>1, <1>3, <1>4, RunsUntouched, GoesOnNewest

LEMMA CheckDoneNewest == ASSUME Fine, NewestKnown, CheckDone PROVE NewestKnown'
<1>1. inv.at = "check" /\ inv.next <= Len(Order) /\ runs' = runs
  BY DEF CheckDone
<1>2. CASE Fail
  BY <1>1, <1>2, FailNewest
<1>3. CASE ~ Fail
  <2>1. report' = report
        /\ \/ inv' = [inv EXCEPT !.at = "resume"]
           \/ inv' = [inv EXCEPT !.at = "resume", !.marks = @ \ {Current}]
    BY <1>3 DEF CheckDone, Goto
  <2>2. /\ inv'.next = inv.next /\ inv'.persisted = inv.persisted
        /\ inv'.statuses = inv.statuses
    BY <2>1, Invocation
  <2> QED
    BY <1>1, <2>1, <2>2, RunsUntouched, GoesOnNewest DEF NewestKnown
<1> QED
  BY <1>2, <1>3

\* The run taken up is the dataset's newest with a checkpoint, and made for
\* the descriptor in force.
LEMMA ResumedRun ==
  ASSUME Fine, NewestKnown, inv.at = "resume", Resume # 0
  PROVE  /\ Resume \in 1 .. Len(runs)
         /\ runs[Resume].dataset = Current
         /\ runs[Resume].of = prepared[Current]
         /\ \A q \in Resume + 1 .. Len(runs) :
              runs[q].dataset = Current => runs[q].saved = 0
<1>1. inv.next <= Len(Order)
  BY TrainingAt
<1>2. /\ inv.next \in 1 .. Len(Order) /\ Good(runs, Current, Persisted)
      /\ Resume \in 0 .. Len(runs)
  BY <1>1, CurrentFacts, ResumeFacts DEF Fine
<1>3. Newest(runs, Current, Persisted)
  BY <1>1, <1>2 DEF NewestKnown, Unread, Current, Persisted
<1>4. /\ Persisted.kind = "open" /\ Persisted.of = prepared[Current]
      /\ \/ Resume = Persisted.active
         \/ Resume = Persisted.resume /\ runs[Persisted.active].saved \in Nat
                                      /\ ~ (runs[Persisted.active].saved > 0)
  <2>1. Persisted.kind = "open" /\ Persisted.of = prepared[Current]
    BY DEF Resume, VerifiedResume, ResumeFrom
  <2>2. Persisted.active \in DOMAIN runs
    BY <1>2, <2>1 DEF Good
  <2>3. runs[Persisted.active] \in Run
    BY <2>2 DEF Fine, FilesOK
  <2>4. runs[Persisted.active].saved \in Nat
    BY <2>3, EpochsAssumption DEF Run
  <2> QED
    BY <2>1, <2>4 DEF Resume, VerifiedResume, ResumeFrom
<1>5. /\ DOMAIN runs = 1 .. Len(runs) /\ Len(runs) \in Nat
      /\ Persisted.active \in 1 .. Len(runs)
      /\ runs[Persisted.active].dataset = Current
      /\ runs[Persisted.active].of = prepared[Current]
      /\ Persisted.resume = runs[Persisted.active].resume
  BY <1>2, <1>4 DEF Good, Fine, FilesOK
<1> HIDE DEF Persisted, Resume
<1>6. \A q \in 1 .. Len(runs) : q > Persisted.active => runs[q].dataset # Current
  BY <1>3, <1>4, <1>5 DEF Newest
<1>7. CASE Resume = Persisted.active
  BY <1>2, <1>5, <1>6, <1>7
<1>8. CASE /\ Resume = Persisted.resume
           /\ runs[Persisted.active].saved = 0
  <2>1. runs[Resume].dataset = Current /\ runs[Resume].of = prepared[Current]
    BY <1>5, <1>8 DEF NewestKnown, Linked
  <2>2. \A q \in 1 .. Len(runs) :
          Resume < q /\ q < Persisted.active /\ runs[q].dataset = Current
            => runs[q].saved = 0
    BY <1>3, <1>4, <1>5, <1>8 DEF Newest
  <2>3. ASSUME NEW q \in Resume + 1 .. Len(runs), runs[q].dataset = Current
        PROVE  runs[q].saved = 0
    <3>1. q \in 1 .. Len(runs) /\ Resume < q
      BY <1>2
    <3>2. q < Persisted.active \/ q = Persisted.active \/ q > Persisted.active
      BY <1>5, <3>1
    <3> QED
      BY <1>6, <1>8, <2>2, <2>3, <3>1, <3>2
  <2> QED
    BY <1>2, <2>1, <2>3
<1> QED
  BY <1>4, <1>7, <1>8

LEMMA CreateRunNewest == ASSUME Fine, NewestKnown, CreateRun PROVE NewestKnown'
<1> DEFINE status == OpenStatus(Len(runs) + 1, Resume, prepared[Current])
           new == [dataset |-> Current, of |-> prepared[Current],
                   device |-> inv.compute, resume |-> Resume, saved |-> 0,
                   sound |-> TRUE, kept |-> FALSE]
<1>1. inv.at = "resume" /\ inv.next <= Len(Order)
  BY TrainingAt DEF CreateRun
<1>2. Current \in Dataset /\ Resume \in 0 .. Len(runs) /\ inv.next \in 1 .. Len(Order)
      /\ runs \in Seq(Run) /\ Len(runs) \in Nat /\ DOMAIN runs = 1 .. Len(runs)
  BY <1>1, CurrentFacts, ResumeFacts DEF Fine, FilesOK
<1>3. /\ runs' = Append(runs, new)
      /\ report'.datasets = With(status)
      /\ inv'.at = "train" /\ inv'.next = inv.next
      /\ inv'.persisted = inv.persisted /\ inv'.statuses = With(status)
  BY Invocation DEF CreateRun, WriteReport
<1>4. /\ DOMAIN runs' = 1 .. Len(runs) + 1
      /\ runs'[Len(runs) + 1] = new
      /\ \A q \in 1 .. Len(runs) : runs'[q] = runs[q]
  BY <1>2, <1>3
<1>5. new.dataset = Current /\ new.of = prepared[Current] /\ new.resume = Resume
  OBVIOUS
<1>6. status.active = Len(runs) + 1 /\ status.resume = Resume /\ status.kind = "open"
  BY DEF OpenStatus
<1> HIDE DEF new, status
<1>7. Linked(runs')
  <2>1. ASSUME NEW q \in 1 .. Len(runs), runs[q].resume # 0
        PROVE  runs[q].resume \in 1 .. Len(runs)
    <3>1. runs[q] \in Run /\ runs[q].resume < q
      BY <1>2 DEF Fine, FilesOK
    <3>2. runs[q].resume \in Nat
      BY <3>1 DEF Run
    <3> QED
      BY <1>2, <2>1, <3>1, <3>2
  <2>2. ASSUME NEW q \in 1 .. Len(runs), runs[q].resume # 0
        PROVE  /\ runs'[runs'[q].resume].dataset = runs'[q].dataset
               /\ runs'[runs'[q].resume].of = runs'[q].of
    BY <1>2, <1>4, <2>1, <2>2 DEF NewestKnown, Linked
  <2>3. ASSUME Resume # 0
        PROVE  /\ runs'[new.resume].dataset = new.dataset
               /\ runs'[new.resume].of = new.of
    BY <1>1, <1>4, <1>5, <2>3, ResumedRun
  <2> QED
    BY <1>2, <1>4, <1>5, <2>2, <2>3 DEF Linked
<1>8. Newest(runs', Current, status)
  <2>1. ASSUME Resume # 0, NEW q \in 1 .. Len(runs), Resume < q,
               runs[q].dataset = Current
        PROVE  runs[q].saved = 0
    BY <1>1, <1>2, <2>1, ResumedRun
  <2> QED
    BY <1>2, <1>4, <1>6, <2>1 DEF Newest
<1>9. ASSUME NEW d \in Dataset, d # Current, NEW S, LeadIn(runs, S),
             Newest(runs, d, S[d])
      PROVE  Newest(runs', d, S[d])
  <2>1. S[d].kind = "open" => S[d].active \in 1 .. Len(runs)
    BY <1>2, <1>9 DEF LeadIn
  <2> QED
    BY <1>2, <1>4, <1>5, <1>9, <2>1 DEF Newest
<1>10. AllNewest(runs', With(status))
  <2>1. \A d \in Dataset : With(status)[d] = IF d = Current THEN status
                                             ELSE inv.statuses[d]
    BY <1>2 DEF With, Fine, InvFine, InvocationOK
  <2>2. LeadIn(runs, inv.statuses) /\ AllNewest(runs, inv.statuses)
    BY DEF Fine, InvFine, NewestKnown
  <2> QED
    BY <1>8, <1>9, <2>1, <2>2 DEF AllNewest
<1>11. ASSUME NEW i \in inv.next .. Len(Order), i # inv.next
       PROVE  Newest(runs', Order[i], inv.persisted[Order[i]])
  <2>1. i \in 1 .. Len(Order) /\ Order[i] \in Dataset /\ Order[i] # Current
    BY <1>2, <1>11, OrderFacts DEF Current
  <2>2. Newest(runs, Order[i], inv.persisted[Order[i]])
    BY <1>1 DEF NewestKnown, Unread
  <2>3. LeadIn(runs, inv.persisted)
    BY DEF Fine, InvFine
  <2> QED
    BY <1>9, <2>1, <2>2, <2>3
<1> QED
  BY <1>3, <1>7, <1>10, <1>11 DEF NewestKnown, Unread

LEMMA TrainNewest ==
  ASSUME Fine, NewestKnown, SaveEpoch \/ Complete
  PROVE  NewestKnown'
<1>1. inv.at = "train" /\ runs \in Seq(Run) /\ inv.next <= Len(Order)
  BY RunningFacts DEF SaveEpoch, Complete
<1>2. CASE SaveEpoch
  <2>1. Touched(runs, runs')
    BY <1>1, <1>2 DEF SaveEpoch, Touched
  <2> QED
    BY <1>1, <1>2, <2>1, TouchedKnown, GoesOnNewest DEF SaveEpoch
<1>3. CASE Complete
  <2> DEFINE status == CompletedStatus(Len(runs), prepared[Current])
  <2>1. Touched(runs, runs')
    BY <1>1, <1>3 DEF Complete, Touched
  <2>2. Newest(runs', Current, status) /\ Newest(runs', Current, Bare)
    BY ClosedNewest DEF Newest, CompletedStatus
  <2>3. CASE Leave("failed", Bare)
    BY <1>1, <2>1, <2>2, <2>3, LeaveNewest
  <2>4. CASE /\ WriteReport("running", With(status))
             /\ inv' = [inv EXCEPT !.at = "check", !.next = @ + 1,
                                   !.statuses = With(status)]
    <3>1. /\ report'.datasets = With(status) /\ inv'.next = inv.next + 1
          /\ inv'.persisted = inv.persisted /\ inv'.statuses = With(status)
      BY <2>4, Invocation DEF WriteReport
    <3> HIDE DEF status
    <3>2. AllNewest(runs', With(status))
      BY <1>1, <2>1, <2>2, TouchedKnown, FiledNewest
    <3> QED
      BY <1>1, <2>1, <3>1, <3>2, GoesOnNewest
  <2> QED
    BY <1>3, <2>3, <2>4 DEF Complete
<1> QED
  BY <1>2, <1>3

LEMMA DamageNewest == ASSUME Fine, NewestKnown, Damage PROVE NewestKnown'
<1>1. inv.at = "idle" /\ inv' = inv /\ runs \in Seq(Run)
      /\ report'.datasets \in {report.datasets, NoStatuses}
  BY DEF Damage, Fine, FilesOK, NoReport
<1>2. Touched(runs, runs')
  <2>1. CASE runs' = runs
    BY <2>1, RunsUntouched
  <2>2. ASSUME NEW r \in DOMAIN runs,
               \/ runs' = [runs EXCEPT ![r].saved = 0]
               \/ runs' = [runs EXCEPT ![r].sound = FALSE]
               \/ runs' = [runs EXCEPT ![r].kept = FALSE]
        PROVE  Touched(runs, runs')
    <3>1. runs[r] \in Run
      BY <1>1
    <3>2. DOMAIN runs' = DOMAIN runs /\ Len(runs') = Len(runs)
      BY <1>1, <2>2
    <3> QED
      BY <2>2, <3>1, <3>2 DEF Touched, Run
  <2> QED
    BY <2>1, <2>2 DEF Damage
<1>3. inv' = Idle
  BY <1>1, IdleInv
<1> QED
  BY <1>1, <1>2, <1>3, TouchedKnown, ClosedNewest, IdleNewest

LEMMA NewestInductive == IInv /\ NewestKnown /\ [Next]_vars => NewestKnown'
<1> SUFFICES ASSUME Fine, NewestKnown, [Next]_vars PROVE NewestKnown'
  BY FineIsIInv
<1>1. CASE Start \/ Restart
  BY <1>1, StartNewest DEF Start, Restart
<1>2. CASE RefuseCheckpoint \/ FailBeforeRun \/ FailTraining
  BY <1>2, FailNewest, TrainingAt DEF RefuseCheckpoint, FailBeforeRun, FailTraining
<1>3. CASE RejectAgain \/ Reject
  BY <1>3, MarkerNewest, TrainingAt DEF RejectAgain, Reject
<1>4. CASE ReportRejection
  BY <1>4, LeaveNewest, ClosedNewest, RunsUntouched, TrainingAt DEF ReportRejection
<1>5. CASE ReportCompleted
  <2>1. /\ inv.at = "check" /\ runs' = runs /\ inv'.next = inv.next
        /\ inv'.persisted = inv.persisted /\ inv'.statuses = inv.statuses
        /\ report'.datasets = inv.statuses
    BY <1>5, Invocation DEF ReportCompleted, WriteReport, Goto
  <2> QED
    BY <2>1, RunsUntouched, GoesOnNewest DEF NewestKnown
<1>6. CASE CommitStage \/ Kill
  BY <1>6, IdleNewest DEF CommitStage, Kill, NewestKnown
<1>7. CASE Prepare \/ UNCHANGED vars
  BY <1>7 DEF Prepare, vars, NewestKnown, Unread
<1> QED
  BY <1>1, <1>2, <1>3, <1>4, <1>5, <1>6, <1>7, KeepNewest, CheckDoneNewest,
     CreateRunNewest, TrainNewest, DamageNewest DEF Next, Step

\* ResumesNewest for any datasets, epochs and faults: training is only resumed
\* from the newest checkpoint left of the dataset, on the same descriptor and
\* device, whatever checkpoints and reports were lost.
THEOREM NewestIsResumed == Spec => ResumesNewest
<1> DEFINE Resumed ==
      Created /\ New.resume # 0 =>
        LET r == New.resume
        IN  /\ Usable(r)
            /\ [dataset |-> runs[r].dataset, of |-> runs[r].of, device |-> runs[r].device]
                 = [dataset |-> New.dataset, of |-> New.of, device |-> New.device]
            /\ \A later \in r + 1 .. Len(runs) :
                 runs[later].dataset = New.dataset => runs[later].saved = 0
<1>1. Init => NewestKnown
  <2> SUFFICES ASSUME Init PROVE NewestKnown
    OBVIOUS
  <2>1. runs = <<>> /\ report.datasets = NoStatuses /\ inv.at = "idle"
        /\ inv.statuses = NoStatuses
    BY DEF Init, NoReport, Idle
  <2> QED
    BY <2>1, ClosedNewest DEF NewestKnown, Linked, Unread
<1>2. ASSUME IInv, NewestKnown, [Next]_vars PROVE Resumed
  <2>1. Fine
    BY <1>2, FineIsIInv
  <2>2. CASE CreateRun
    <3>1. inv.at = "resume" /\ ~ Unfit(Resume) /\ runs \in Seq(Run)
      BY <2>1, <2>2 DEF CreateRun, Fine, FilesOK
    <3>2. /\ New.dataset = Current /\ New.of = prepared[Current]
          /\ New.device = inv.compute /\ New.resume = Resume
      BY <2>2, <3>1 DEF CreateRun, New
    <3> QED
      BY <1>2, <2>1, <3>1, <3>2, ResumedRun DEF Unfit
  <2>3. CASE ~ CreateRun
    <3>1. runs' = runs \/ SaveEpoch \/ Complete \/ Damage
      BY <1>2, <2>3 DEF Next, Step, vars, Start, Restart, StartWith,
         RefuseCheckpoint, RejectAgain, ReportRejection, KeepCompleted, CheckDone,
         FailBeforeRun, FailTraining, Reject, ReportCompleted, CommitStage, Kill,
         Prepare
    <3>2. Len(runs') = Len(runs)
      BY <2>1, <3>1 DEF SaveEpoch, Complete, Damage, Fine, FilesOK
    <3> QED
      BY <2>1, <3>2 DEF Created, Fine, FilesOK
  <2> QED
    BY <2>2, <2>3
<1>3. IInv /\ NewestKnown /\ [Next]_vars => [Resumed]_vars
  BY <1>2
<1> QED
  BY <1>1, <1>3, NewestInductive, Holds, PTL DEF Spec, ResumesNewest

-----------------------------------------------------------------------------
(* The epochs of a stream.  The inductive invariant is CursorInv /\ GivenInv: *)
(* the cursor, the step, the rows seen and the scheduler agree, in the       *)
(* process and in its checkpoint, and the model of each was given the        *)
(* batches of the reference up to that cursor.                               *)

\* What a fit, in a process or in a checkpoint, says of its own progress.
Consistent(f) ==
  /\ f = [epoch |-> f.epoch, next |-> f.next, step |-> f.step, phase |-> f.phase,
          seen |-> f.seen, model |-> f.model, rate |-> f.rate, history |-> f.history,
          best |-> f.best, stale |-> f.stale]
  /\ f.epoch \in 1..(EpochLimit + 1) /\ f.next \in 0..BatchCount
  /\ f.epoch <= EpochLimit \/ f.next = 0
  /\ f.step = (f.epoch - 1) * BatchCount + f.next
  /\ f.seen = StartAt(f.next)
  /\ f.phase \in {"training", "validation", "epoch_boundary"}
  /\ f.phase = "validation" => f.next = BatchCount /\ f.epoch <= EpochLimit
  /\ f.phase = "epoch_boundary" => f.next = 0
  /\ f.rate = IF f.phase = "validation" THEN f.epoch ELSE f.epoch - 1
  /\ f.history \in Seq([score : 0..1, rate : Nat]) /\ Len(f.history) = f.epoch - 1
  /\ \A e \in DOMAIN f.history : f.history[e] = [score |-> score[e], rate |-> e]
  /\ BestIs(f.history, f.best, f.stale)

\* In the middle of an epoch no checkpoint is saved before the first batch.
Started(f) == f = NoFit \/ f.phase # "training" \/ f.next > 0

\* A process has taken the rows before its cursor.
CursorInv ==
  /\ score \in [1..EpochLimit -> 0..1]
  /\ Consistent(checkpoint)
  /\ Started(checkpoint)
  /\ Active => Consistent(Fit) /\ phase # "epoch_boundary" /\ taken = StartAt(next)

Batches == UNION {{EpochBatches[e][i] : i \in 1..BatchCount} : e \in 1..EpochLimit}

\* The model of a fit was given the batches of the reference.
Given(f) ==
  /\ f.model \in Seq(Batches) /\ Len(f.model) = f.step
  /\ \A e \in 1..EpochLimit, i \in 1..BatchCount :
       (e - 1) * BatchCount + i <= f.step =>
         f.model[(e - 1) * BatchCount + i] = EpochBatches[e][i]

GivenInv ==
  /\ Given(checkpoint)
  /\ Active => Given(Fit) /\ (epoch <= EpochLimit => ordered \in 0..Len(Schedule[epoch]))

-----------------------------------------------------------------------------
(* Arithmetic of batches *)

LEMMA DivisionOf ==
  ASSUME NEW n \in Nat, NEW b \in Nat \ {0}
  PROVE  n \div b \in Nat /\ n % b \in 0..(b - 1) /\ n = (n \div b) * b + (n % b)
<1>1. n = b * (n \div b) + (n % b) /\ n \div b \in Nat /\ n % b \in 0..(b - 1)
  OBVIOUS
<1> QED
  BY <1>1

LEMMA Division ==
  /\ Quotient \in Nat /\ Remainder \in 0..(BatchSize - 1)
  /\ RowCount = Quotient * BatchSize + Remainder
<1>1. RowCount \in Nat /\ BatchSize \in Nat \ {0}
  BY BatchAssumption
<1> QED
  BY <1>1, DivisionOf, Zenon DEF Quotient, Remainder

LEMMA Multiples ==
  ASSUME NEW a \in Nat, NEW b \in Nat, NEW c \in Nat, a < b
  PROVE  a * c \in Nat /\ b * c \in Nat /\ a * c + c <= b * c
<1>1. PICK d \in Nat : b = a + 1 + d
  <2>1. b - a - 1 \in Nat /\ b = a + 1 + (b - a - 1)
    OBVIOUS
  <2> QED
    BY <2>1
<1>2. d * c \in Nat /\ b * c = a * c + c + d * c
  BY <1>1
<1> QED
  BY <1>2

\* Batches follow one another without a gap, from the first row to the last, and
\* none of them has a single row.
LEMMA Layout ==
  /\ BatchCount \in Nat \ {0} /\ RowCount \in Nat
  /\ StartAt(0) = 0 /\ StartAt(BatchCount) = RowCount
  /\ \A i \in 0..(BatchCount - 1) :
       SizeAt(i) \in Nat /\ SizeAt(i) >= 2 /\ StartAt(i) + SizeAt(i) = StartAt(i + 1)
  /\ \A i \in 0..BatchCount : StartAt(i) \in Nat
<1> DEFINE B == BatchSize
           N == RowCount
           Q == Quotient
           R == Remainder
           L == BatchCount
<1>1. /\ Q \in Nat /\ R \in 0..(B - 1) /\ N = Q * B + R /\ N \in Nat \ {0}
      /\ B \in Nat \ {0, 1} /\ (R = 1 => Q > 0 /\ B > 2)
  BY Division, BatchAssumption
<1>2. L = Q + (IF R > 0 THEN 1 ELSE 0)
  BY DEF BatchCount
<1>3. \A i : StartAt(i) =
        IF i = L THEN N ELSE IF R = 1 /\ Q > 0 /\ B > 2 /\ i = Q THEN Q * B - 1 ELSE i * B
  BY DEF StartAt
<1>4. \A i : SizeAt(i) =
        IF R # 1 THEN IF i < Q THEN B ELSE R
        ELSE IF i < Q - 1 THEN B ELSE IF i = Q - 1 THEN B - 1 ELSE 2
  BY DEF SizeAt
<1> HIDE DEF B, N, Q, R, L
<1>5. L \in Nat \ {0}
  <2>1. CASE R > 0
    BY <1>1, <1>2, <2>1
  <2>2. CASE R = 0
    <3>1. Q # 0
      BY <1>1, <2>2
    <3> QED
      BY <1>1, <1>2, <2>2, <3>1
  <2> QED
    BY <1>1, <2>1, <2>2
<1>6. StartAt(0) = 0
  <2>1. ~ (R = 1 /\ Q > 0 /\ B > 2 /\ 0 = Q) /\ 0 # L /\ 0 * B = 0
    BY <1>1, <1>5
  <2> QED
    BY <1>3, <2>1
<1>7. StartAt(L) = N
  BY <1>3
<1>8. \A i \in 0..(L - 1) : SizeAt(i) \in Nat /\ SizeAt(i) >= 2 /\ StartAt(i) + SizeAt(i) = StartAt(i + 1)
  <2> SUFFICES ASSUME NEW i \in 0..(L - 1)
               PROVE  SizeAt(i) \in Nat /\ SizeAt(i) >= 2 /\ StartAt(i) + SizeAt(i) = StartAt(i + 1)
    OBVIOUS
  <2>0. i \in Nat /\ i + 1 \in Nat /\ i < L /\ (i + 1) * B = i * B + B /\ i * B \in Nat
    BY <1>1, <1>5
  <2>1. CASE R = 0
    <3>1. L = Q /\ i < Q
      BY <1>1, <1>2, <2>0, <2>1
    <3>2. SizeAt(i) = B
      BY <1>4, <2>1, <3>1
    <3>3. StartAt(i) = i * B
      BY <1>3, <2>1, <3>1, <2>0
    <3>4. StartAt(i + 1) = (i + 1) * B
      <4>1. CASE i + 1 = L
        BY <1>1, <1>3, <2>1, <3>1, <4>1
      <4>2. CASE i + 1 # L
        BY <1>3, <2>1, <4>2
      <4> QED
        BY <4>1, <4>2
    <3> QED
      BY <1>1, <2>0, <3>2, <3>3, <3>4
  <2>2. CASE R > 1
    <3>1. L = Q + 1 /\ i <= Q
      BY <1>1, <1>2, <2>0, <2>2
    <3>2. StartAt(i) = i * B
      BY <1>1, <1>3, <2>0, <2>2, <3>1
    <3>3. CASE i < Q
      <4>1. SizeAt(i) = B
        BY <1>1, <1>4, <2>2, <3>3
      <4>2. StartAt(i + 1) = (i + 1) * B
        BY <1>1, <1>3, <2>0, <2>2, <3>1, <3>3
      <4> QED
        BY <1>1, <2>0, <3>2, <4>1, <4>2
    <3>4. CASE i = Q
      <4>1. SizeAt(i) = R
        BY <1>1, <1>4, <2>2, <3>4
      <4>2. StartAt(i + 1) = N
        BY <1>3, <3>1, <3>4
      <4> QED
        BY <1>1, <2>0, <2>2, <3>2, <3>4, <4>1, <4>2
    <3> QED
      BY <1>1, <2>0, <3>1, <3>3, <3>4
  <2>3. CASE R = 1
    <3>1. L = Q + 1 /\ i <= Q /\ Q > 0 /\ B > 2
      BY <1>1, <1>2, <2>0, <2>3
    <3>2. CASE i < Q - 1
      <4>1. SizeAt(i) = B
        BY <1>1, <1>4, <2>3, <3>2
      <4>2. StartAt(i) = i * B /\ StartAt(i + 1) = (i + 1) * B
        <5>1. i # L /\ i # Q /\ i + 1 # L /\ i + 1 # Q
          BY <1>1, <2>0, <3>1, <3>2
        <5> QED
          BY <1>3, <5>1
      <4> QED
        BY <1>1, <2>0, <4>1, <4>2
    <3>3. CASE i = Q - 1
      <4>1. SizeAt(i) = B - 1
        BY <1>1, <1>4, <2>3, <3>3
      <4>2. i # L /\ i # Q /\ i + 1 # L /\ i + 1 = Q
        BY <1>1, <2>0, <3>1, <3>3
      <4>3. StartAt(i) = i * B /\ StartAt(i + 1) = (i + 1) * B - 1
        BY <1>3, <2>3, <3>1, <4>2
      <4> QED
        BY <1>1, <2>0, <3>1, <4>1, <4>3
    <3>4. CASE i = Q
      <4>1. SizeAt(i) = 2
        BY <1>1, <1>4, <2>3, <3>4
      <4>2. i # L /\ i + 1 = L
        BY <1>1, <3>1, <3>4
      <4>3. StartAt(i) = Q * B - 1 /\ StartAt(i + 1) = N
        BY <1>3, <2>3, <3>1, <3>4, <4>2
      <4> QED
        BY <1>1, <2>0, <2>3, <3>4, <4>1, <4>3
    <3> QED
      BY <1>1, <2>0, <3>1, <3>2, <3>3, <3>4
  <2> QED
    BY <1>1, <2>1, <2>2, <2>3
<1>9. \A i \in 0..L : StartAt(i) \in Nat
  <2> SUFFICES ASSUME NEW i \in 0..L PROVE StartAt(i) \in Nat
    OBVIOUS
  <2>1. i * B \in Nat /\ Q * B \in Nat /\ (Q > 0 /\ B > 2 => Q * B - 1 \in Nat)
    <3>1. CASE Q > 0 /\ B > 2
      <4>1. 0 * B + B <= Q * B /\ i * B \in Nat /\ Q * B \in Nat
        BY <1>1, <1>5, <3>1, Multiples
      <4> QED
        BY <1>1, <3>1, <4>1
    <3>2. CASE ~ (Q > 0 /\ B > 2)
      BY <1>1, <1>5, <3>2
    <3> QED
      BY <3>1, <3>2
  <2> QED
    BY <1>1, <1>3, <2>1
<1> QED
  BY <1>1, <1>5, <1>6, <1>7, <1>8, <1>9 DEF L, N

-----------------------------------------------------------------------------
(* What the steps do to a fit *)

NextBatch == SubSeq(Rows, taken + 1, taken + SizeAt(next))

AfterBatch ==
  [epoch |-> epoch, next |-> next + 1, step |-> step + 1, phase |-> phase,
   seen |-> seen + Len(NextBatch), model |-> Append(model, NextBatch), rate |-> rate,
   history |-> history, best |-> best, stale |-> stale]

AfterEpoch ==
  [epoch |-> epoch, next |-> next, step |-> step, phase |-> "validation",
   seen |-> seen, model |-> model, rate |-> rate + 1,
   history |-> history, best |-> best, stale |-> stale]

Better == history = <<>> \/ score[epoch] > score[best]
AfterValidation(at) ==
  [epoch |-> epoch + 1, next |-> 0, step |-> step, phase |-> at,
   seen |-> 0, model |-> model, rate |-> rate,
   history |-> Append(history, [score |-> score[epoch], rate |-> rate]),
   best |-> IF Better THEN epoch ELSE best, stale |-> IF Better THEN 0 ELSE stale + 1]

Resumed(c) ==
  [epoch |-> c.epoch, next |-> c.next, step |-> c.step,
   phase |-> IF c.phase = "epoch_boundary" THEN "training" ELSE c.phase,
   seen |-> c.seen, model |-> c.model, rate |-> c.rate,
   history |-> c.history, best |-> c.best, stale |-> c.stale]

LEMMA TrainBatchDoes ==
  ASSUME TrainBatch
  PROVE  /\ Fit' = AfterBatch /\ checkpoint' \in {AfterBatch, checkpoint}
         /\ taken' = taken + SizeAt(next) /\ UNCHANGED <<score, ordered>>
         /\ Active /\ phase = "training" /\ next < BatchCount /\ epoch <= EpochLimit
         /\ Len(Rows) >= taken + SizeAt(next)
<1>1. [Fit EXCEPT !.model = Append(@, NextBatch), !.seen = @ + Len(NextBatch),
                  !.next = @ + 1, !.step = @ + 1] = AfterBatch
  <2>1. Fit = [epoch |-> epoch, next |-> next, step |-> step, phase |-> phase, seen |-> seen,
            model |-> model, rate |-> rate, history |-> history, best |-> best, stale |->
            stale]
    BY DEF Fit
  <2>2. PICK f1 : f1 = [Fit EXCEPT !.model = Append(@, NextBatch)]
    OBVIOUS
  <2>3. f1 = [epoch |-> epoch, next |-> next, step |-> step, phase |-> phase, seen |-> seen,
            model |-> Append(model, NextBatch), rate |-> rate, history |-> history, best
            |-> best, stale |-> stale]
    BY <2>1, <2>2
  <2>4. PICK f2 : f2 = [f1 EXCEPT !.seen = @ + Len(NextBatch)]
    OBVIOUS
  <2>5. f2 = [epoch |-> epoch, next |-> next, step |-> step, phase |-> phase, seen |-> seen +
            Len(NextBatch), model |-> Append(model, NextBatch), rate |-> rate, history |->
            history, best |-> best, stale |-> stale]
    BY <2>3, <2>4
  <2>6. PICK f3 : f3 = [f2 EXCEPT !.next = @ + 1]
    OBVIOUS
  <2>7. f3 = [epoch |-> epoch, next |-> next + 1, step |-> step, phase |-> phase, seen |->
            seen + Len(NextBatch), model |-> Append(model, NextBatch), rate |-> rate,
            history |-> history, best |-> best, stale |-> stale]
    BY <2>5, <2>6
  <2>8. PICK f4 : f4 = [f3 EXCEPT !.step = @ + 1]
    OBVIOUS
  <2>9. f4 = [epoch |-> epoch, next |-> next + 1, step |-> step + 1, phase |-> phase, seen
            |-> seen + Len(NextBatch), model |-> Append(model, NextBatch), rate |-> rate,
            history |-> history, best |-> best, stale |-> stale]
    BY <2>7, <2>8
  <2> QED
    BY <2>2, <2>4, <2>6, <2>8, <2>9, Zenon DEF AfterBatch
<1>2. Become(AfterBatch) /\ checkpoint' \in {AfterBatch, checkpoint}
  BY <1>1 DEF TrainBatch, NextBatch
<1>3. Fit' = AfterBatch
  BY <1>2 DEF Become, Fit, AfterBatch
<1> QED
  BY <1>2, <1>3 DEF TrainBatch, Fitting

LEMMA EndEpochDoes ==
  ASSUME EndEpoch
  PROVE  /\ Fit' = AfterEpoch /\ checkpoint' = AfterEpoch
         /\ UNCHANGED <<score, workers, ordered, taken>>
         /\ Active /\ phase = "training" /\ next = BatchCount /\ epoch <= EpochLimit
<1>1. [Fit EXCEPT !.rate = @ + 1, !.phase = "validation"] = AfterEpoch
  <2>1. Fit = [epoch |-> epoch, next |-> next, step |-> step, phase |-> phase, seen |-> seen,
            model |-> model, rate |-> rate, history |-> history, best |-> best, stale |->
            stale]
    BY DEF Fit
  <2>2. PICK f1 : f1 = [Fit EXCEPT !.rate = @ + 1]
    OBVIOUS
  <2>3. f1 = [epoch |-> epoch, next |-> next, step |-> step, phase |-> phase, seen |-> seen,
            model |-> model, rate |-> rate + 1, history |-> history, best |-> best, stale
            |-> stale]
    BY <2>1, <2>2
  <2>4. PICK f2 : f2 = [f1 EXCEPT !.phase = "validation"]
    OBVIOUS
  <2>5. f2 = [epoch |-> epoch, next |-> next, step |-> step, phase |-> "validation", seen |->
            seen, model |-> model, rate |-> rate + 1, history |-> history, best |-> best,
            stale |-> stale]
    BY <2>3, <2>4
  <2> QED
    BY <2>2, <2>4, <2>5, Zenon DEF AfterEpoch
<1>2. Become(AfterEpoch) /\ checkpoint' = AfterEpoch
  BY <1>1 DEF EndEpoch
<1>3. Fit' = AfterEpoch
  BY <1>2 DEF Become, Fit, AfterEpoch
<1> QED
  BY <1>2, <1>3 DEF EndEpoch, Fitting, stream

LEMMA ValidateDoes ==
  ASSUME Validate
  PROVE  /\ Fit' = AfterValidation("training")
         /\ checkpoint' = AfterValidation("epoch_boundary")
         /\ ordered' = 0 /\ taken' = 0 /\ UNCHANGED <<score, workers>>
         /\ Active /\ phase = "validation" /\ epoch <= EpochLimit
<1> DEFINE f == [Fit EXCEPT !.history = Append(@, [score |-> score[epoch], rate |-> rate]),
                            !.best = IF Better THEN epoch ELSE @,
                            !.stale = IF Better THEN 0 ELSE @ + 1,
                            !.epoch = @ + 1, !.next = 0, !.seen = 0, !.phase = "epoch_boundary"]
<1>1. f = AfterValidation("epoch_boundary")
  <2>1. Fit = [epoch |-> epoch, next |-> next, step |-> step, phase |-> phase, seen |-> seen,
            model |-> model, rate |-> rate, history |-> history, best |-> best, stale |->
            stale]
    BY DEF Fit
  <2>2. PICK f1 : f1 = [Fit EXCEPT !.history = Append(@, [score |-> score[epoch], rate |-> rate])]
    OBVIOUS
  <2>3. f1 = [epoch |-> epoch, next |-> next, step |-> step, phase |-> phase, seen |-> seen,
            model |-> model, rate |-> rate, history |-> Append(history, [score |->
            score[epoch], rate |-> rate]), best |-> best, stale |-> stale]
    BY <2>1, <2>2
  <2>4. PICK f2 : f2 = [f1 EXCEPT !.best = IF Better THEN epoch ELSE @]
    OBVIOUS
  <2>5. f2 = [epoch |-> epoch, next |-> next, step |-> step, phase |-> phase, seen |-> seen,
            model |-> model, rate |-> rate, history |-> Append(history, [score |->
            score[epoch], rate |-> rate]), best |-> IF Better THEN epoch ELSE best, stale
            |-> stale]
    BY <2>3, <2>4
  <2>6. PICK f3 : f3 = [f2 EXCEPT !.stale = IF Better THEN 0 ELSE @ + 1]
    OBVIOUS
  <2>7. f3 = [epoch |-> epoch, next |-> next, step |-> step, phase |-> phase, seen |-> seen,
            model |-> model, rate |-> rate, history |-> Append(history, [score |->
            score[epoch], rate |-> rate]), best |-> IF Better THEN epoch ELSE best, stale
            |-> IF Better THEN 0 ELSE stale + 1]
    BY <2>5, <2>6
  <2>8. PICK f4 : f4 = [f3 EXCEPT !.epoch = @ + 1]
    OBVIOUS
  <2>9. f4 = [epoch |-> epoch + 1, next |-> next, step |-> step, phase |-> phase, seen |->
            seen, model |-> model, rate |-> rate, history |-> Append(history, [score |->
            score[epoch], rate |-> rate]), best |-> IF Better THEN epoch ELSE best, stale
            |-> IF Better THEN 0 ELSE stale + 1]
    BY <2>7, <2>8
  <2>10. PICK f5 : f5 = [f4 EXCEPT !.next = 0]
    OBVIOUS
  <2>11. f5 = [epoch |-> epoch + 1, next |-> 0, step |-> step, phase |-> phase, seen |-> seen,
            model |-> model, rate |-> rate, history |-> Append(history, [score |->
            score[epoch], rate |-> rate]), best |-> IF Better THEN epoch ELSE best, stale
            |-> IF Better THEN 0 ELSE stale + 1]
    BY <2>9, <2>10
  <2>12. PICK f6 : f6 = [f5 EXCEPT !.seen = 0]
    OBVIOUS
  <2>13. f6 = [epoch |-> epoch + 1, next |-> 0, step |-> step, phase |-> phase, seen |-> 0,
            model |-> model, rate |-> rate, history |-> Append(history, [score |->
            score[epoch], rate |-> rate]), best |-> IF Better THEN epoch ELSE best, stale
            |-> IF Better THEN 0 ELSE stale + 1]
    BY <2>11, <2>12
  <2>14. PICK f7 : f7 = [f6 EXCEPT !.phase = "epoch_boundary"]
    OBVIOUS
  <2>15. f7 = [epoch |-> epoch + 1, next |-> 0, step |-> step, phase |-> "epoch_boundary",
            seen |-> 0, model |-> model, rate |-> rate, history |-> Append(history, [score
            |-> score[epoch], rate |-> rate]), best |-> IF Better THEN epoch ELSE best,
            stale |-> IF Better THEN 0 ELSE stale + 1]
    BY <2>13, <2>14
  <2> QED
    BY <2>2, <2>4, <2>6, <2>8, <2>10, <2>12, <2>14, <2>15, Zenon DEF AfterValidation
<1>2. [f EXCEPT !.phase = "training"] = AfterValidation("training")
  <2> HIDE DEF f
  <2>1. PICK g : g = AfterValidation("epoch_boundary")
    OBVIOUS
  <2>2. PICK h, b, t : /\ h = Append(history, [score |-> score[epoch], rate |-> rate])
                        /\ b = (IF Better THEN epoch ELSE best)
                        /\ t = (IF Better THEN 0 ELSE stale + 1)
    OBVIOUS
  <2>3. g = [epoch |-> epoch + 1, next |-> 0, step |-> step, phase |-> "epoch_boundary",
            seen |-> 0, model |-> model, rate |-> rate, history |-> h, best |-> b, stale
            |-> t]
    BY <2>1, <2>2 DEF AfterValidation
  <2>4. [g EXCEPT !.phase = "training"] = [epoch |-> epoch + 1, next |-> 0, step |-> step, phase |-> "training", seen
            |-> 0, model |-> model, rate |-> rate, history |-> h, best |-> b, stale |->
            t]
    BY <2>3
  <2>5. [g EXCEPT !.phase = "training"] = AfterValidation("training")
    BY <2>2, <2>4 DEF AfterValidation
  <2> QED
    BY <1>1, <2>1, <2>5
<1>3. Become([f EXCEPT !.phase = "training"]) /\ checkpoint' = f
  BY DEF Validate, Better
<1> HIDE DEF f
<1>4. Become(AfterValidation("training")) /\ checkpoint' = AfterValidation("epoch_boundary")
  BY <1>1, <1>2, <1>3
<1>5. Fit' = AfterValidation("training")
  BY <1>4 DEF Become, Fit, AfterValidation
<1> QED
  BY <1>4, <1>5 DEF Validate, Fitting

LEMMA StartProcessDoes ==
  ASSUME NEW w, StartProcess(w), Consistent(checkpoint)
  PROVE  /\ Fit' = Resumed(checkpoint) /\ UNCHANGED <<score, checkpoint>>
         /\ ordered' = 0 /\ taken' = StartAt(checkpoint.next)
<1>1. [checkpoint EXCEPT !.phase = IF @ = "epoch_boundary" THEN "training" ELSE @]
        = Resumed(checkpoint)
  BY DEF Consistent, Resumed
<1>2. Become(Resumed(checkpoint))
  BY <1>1 DEF StartProcess
<1>3. Fit' = Resumed(checkpoint)
  BY <1>2 DEF Become, Fit, Resumed
<1> QED
  BY <1>3 DEF StartProcess

\* The other steps leave both fits alone.
Idles == ChunkArrives \/ KillProcess \/ Ended \/ UNCHANGED streamVars
LEMMA IdlesDoes ==
  ASSUME Idles
  PROVE  Fit' = Fit /\ UNCHANGED <<score, checkpoint, taken>> /\ (Active' => Active)
BY DEF Idles, ChunkArrives, KillProcess, Ended, streamVars, stream, fit, Fit, Active

LEMMA StreamSteps ==
  [StreamNext]_streamVars =>
    (\E w \in WorkerCounts : StartProcess(w)) \/ TrainBatch \/ EndEpoch \/ Validate \/ Idles
BY DEF StreamNext, Idles

\* A fit that is consistent stays so wherever it is kept.
LEMMA ConsistentKept ==
  ASSUME NEW g, Consistent(g), UNCHANGED score
  PROVE  /\ Fit' = g => Consistent(Fit)'
         /\ checkpoint' = g => Consistent(checkpoint)'
BY DEF Consistent

LEMMA BatchIsWhole ==
  ASSUME taken \in Nat, SizeAt(next) \in Nat
  PROVE  Len(NextBatch) = SizeAt(next)
<1> DEFINE S == {Rows[i] : i \in (taken + 1)..(taken + SizeAt(next))}
<1>1. \A i \in (taken + 1)..(taken + SizeAt(next)) : Rows[i] \in S
  OBVIOUS
<1>2. taken + 1 \in Int /\ taken + SizeAt(next) \in Int
  OBVIOUS
<1> HIDE DEF S
<1>3. Len(NextBatch) = IF taken + 1 <= taken + SizeAt(next)
                         THEN taken + SizeAt(next) - (taken + 1) + 1 ELSE 0
  BY <1>1, <1>2, SubSeqProperties DEF NextBatch
<1> QED
  BY <1>3

LEMMA AfterBatchConsistent ==
  ASSUME CursorInv, TrainBatch
  PROVE  Consistent(AfterBatch) /\ taken' = StartAt(next + 1)
<1>1. /\ Consistent(Fit) /\ taken = StartAt(next) /\ phase = "training"
      /\ next < BatchCount /\ epoch <= EpochLimit /\ taken' = taken + SizeAt(next)
  BY TrainBatchDoes DEF CursorInv
<1>2. /\ epoch \in 1..(EpochLimit + 1) /\ next \in 0..BatchCount
      /\ step = (epoch - 1) * BatchCount + next /\ seen = StartAt(next)
      /\ rate = epoch - 1
      /\ history \in Seq([score : 0..1, rate : Nat]) /\ Len(history) = epoch - 1
      /\ \A e \in DOMAIN history : history[e] = [score |-> score[e], rate |-> e]
      /\ BestIs(history, best, stale)
  BY <1>1 DEF Consistent, Fit
<1>3. /\ next \in 0..(BatchCount - 1) /\ BatchCount \in Nat \ {0} /\ EpochLimit \in Nat
      /\ next + 1 \in 0..BatchCount
  BY <1>1, <1>2, Layout, BatchAssumption
<1>4. /\ taken \in Nat /\ SizeAt(next) \in Nat
      /\ StartAt(next) + SizeAt(next) = StartAt(next + 1)
  BY <1>1, <1>3, Layout
<1>5. seen + Len(NextBatch) = StartAt(next + 1)
  BY <1>2, <1>4, BatchIsWhole
<1>6. step + 1 = (epoch - 1) * BatchCount + (next + 1)
  BY <1>2, <1>3
<1> QED
  BY <1>1, <1>2, <1>3, <1>4, <1>5, <1>6 DEF Consistent, AfterBatch

LEMMA AfterEpochConsistent ==
  ASSUME CursorInv, EndEpoch
  PROVE  Consistent(AfterEpoch)
<1>1. Consistent(Fit) /\ phase = "training" /\ next = BatchCount /\ epoch <= EpochLimit
  BY EndEpochDoes DEF CursorInv
<1>2. /\ epoch \in 1..(EpochLimit + 1) /\ next \in 0..BatchCount
      /\ step = (epoch - 1) * BatchCount + next /\ seen = StartAt(next)
      /\ rate = epoch - 1
      /\ history \in Seq([score : 0..1, rate : Nat]) /\ Len(history) = epoch - 1
      /\ \A e \in DOMAIN history : history[e] = [score |-> score[e], rate |-> e]
      /\ BestIs(history, best, stale)
  BY <1>1 DEF Consistent, Fit
<1>3. rate + 1 = epoch
  BY <1>2, BatchAssumption
<1> QED
  BY <1>1, <1>2, <1>3 DEF Consistent, AfterEpoch

\* Updated epoch by epoch, the best one is that of the whole history.
LEMMA BestAfter ==
  ASSUME CursorInv, BestIs(history, best, stale), epoch \in 1..EpochLimit,
         history \in Seq([score : 0..1, rate : Nat]), Len(history) = epoch - 1,
         \A e \in DOMAIN history : history[e] = [score |-> score[e], rate |-> e],
         NEW told \in Seq([score : 0..1, rate : Nat]), Len(told) = epoch,
         \A e \in DOMAIN told : told[e] = [score |-> score[e], rate |-> e]
  PROVE  BestIs(told, IF Better THEN epoch ELSE best, IF Better THEN 0 ELSE stale + 1)
<1>1. /\ DOMAIN told = 1..epoch /\ DOMAIN history = 1..(epoch - 1) /\ EpochLimit \in Nat
      /\ (history = <<>>) <=> (epoch = 1)
  <2>1. Len(told) = epoch /\ epoch \in Nat /\ epoch - 1 \in Nat /\ EpochLimit \in Nat
    BY BatchAssumption
  <2>2. DOMAIN told = 1..epoch /\ DOMAIN history = 1..(epoch - 1)
    BY <2>1, LenProperties
  <2>3. (history = <<>>) <=> (epoch = 1)
    BY <2>1, EmptySeq
  <2> QED
    BY <2>1, <2>2, <2>3
<1>2. told # <<>> /\ epoch \in 1..epoch
  <2>1. Len(<<>>) = 0
    BY EmptySeq
  <2> QED
    BY <2>1
<1>3. \A e \in 1..epoch : told[e].score = score[e] /\ score[e] \in 0..1
  <2> TAKE e \in 1..epoch
  <2>1. told[e] = [score |-> score[e], rate |-> e]
    BY <1>1
  <2>2. told[e].score = score[e]
    BY <2>1
  <2>3. e \in 1..EpochLimit
    BY <1>1
  <2> QED
    BY <2>2, <2>3 DEF CursorInv
<1>4. \A e \in 1..(epoch - 1) : history[e].score = score[e]
  <2> TAKE e \in 1..(epoch - 1)
  <2>1. history[e] = [score |-> score[e], rate |-> e]
    BY <1>1
  <2> QED
    BY <2>1
<1>5. CASE history = <<>>
  <2>1. epoch = 1 /\ Better
    BY <1>1, <1>5 DEF Better
  <2>2. BestIs(told, 1, 0)
    BY <1>1, <1>2, <1>3, <2>1 DEF BestIs
  <2> QED
    BY <2>1, <2>2
<1>6. CASE history # <<>>
  <2>1. /\ best \in 1..(epoch - 1) /\ stale = epoch - 1 - best
        /\ \A e \in 1..(epoch - 1) : /\ history[e].score <= history[best].score
                                     /\ e < best => history[e].score < history[best].score
    <3>1. /\ best \in DOMAIN history /\ stale = Len(history) - best
          /\ \A e \in DOMAIN history :
               history[e].score <= history[best].score
               /\ (e < best => history[e].score < history[best].score)
      BY <1>6 DEF BestIs
    <3> QED
      BY <1>1, <3>1
  <2>2. \A e \in 1..(epoch - 1) : score[e] <= score[best] /\ (e < best => score[e] < score[best])
    <3> TAKE e \in 1..(epoch - 1)
    <3>1. history[e].score = score[e] /\ history[best].score = score[best]
      BY <1>4, <2>1
    <3> QED
      BY <2>1, <3>1
  <2>3. Better <=> score[epoch] > score[best]
    BY <1>6 DEF Better
  <2>4. \A e \in 1..epoch : e = epoch \/ e \in 1..(epoch - 1)
    OBVIOUS
  <2>5. score[epoch] \in 0..1 /\ score[best] \in 0..1 /\ best \in 1..epoch /\ stale + 1 = epoch - best
    BY <1>2, <1>3, <2>1
  <2>6. CASE Better
    <3>1. \A e \in 1..epoch : score[e] <= score[epoch] /\ (e < epoch => score[e] < score[epoch])
      <4> TAKE e \in 1..epoch
      <4>1. score[e] \in 0..1 /\ score[epoch] > score[best]
        BY <1>3, <2>3, <2>6
      <4>2. CASE e = epoch
        BY <2>5, <4>2
      <4>3. CASE e \in 1..(epoch - 1)
        <5>1. score[e] <= score[best]
          BY <2>2, <4>3
        <5>2. score[e] < score[epoch]
          BY <2>5, <4>1, <5>1
        <5> QED
          BY <2>5, <4>1, <5>2
      <4> QED
        BY <2>4, <4>2, <4>3
    <3>2. BestIs(told, epoch, 0)
      BY <1>1, <1>2, <1>3, <3>1 DEF BestIs
    <3> QED
      BY <2>6, <3>2
  <2>7. CASE ~ Better
    <3>1. \A e \in 1..epoch : score[e] <= score[best] /\ (e < best => score[e] < score[best])
      <4> TAKE e \in 1..epoch
      <4>1. CASE e = epoch
        BY <2>1, <2>3, <2>5, <2>7, <4>1
      <4>2. CASE e \in 1..(epoch - 1)
        BY <2>2, <4>2
      <4> QED
        BY <2>4, <4>1, <4>2
    <3>2. BestIs(told, best, stale + 1)
      BY <1>1, <1>2, <1>3, <2>5, <3>1 DEF BestIs
    <3> QED
      BY <2>7, <3>2
  <2> QED
    BY <2>6, <2>7
<1> QED
  BY <1>5, <1>6

LEMMA AfterValidationConsistent ==
  ASSUME CursorInv, Validate
  PROVE  Consistent(AfterValidation("training")) /\ Consistent(AfterValidation("epoch_boundary"))
<1>1. Consistent(Fit) /\ phase = "validation" /\ epoch <= EpochLimit
  BY ValidateDoes DEF CursorInv
<1>2. /\ epoch \in 1..(EpochLimit + 1) /\ next = BatchCount
      /\ step = (epoch - 1) * BatchCount + next /\ rate = epoch
      /\ history \in Seq([score : 0..1, rate : Nat]) /\ Len(history) = epoch - 1
      /\ \A e \in DOMAIN history : history[e] = [score |-> score[e], rate |-> e]
      /\ BestIs(history, best, stale)
  BY <1>1 DEF Consistent, Fit
<1>3. /\ BatchCount \in Nat \ {0} /\ EpochLimit \in Nat /\ StartAt(0) = 0
      /\ epoch \in 1..EpochLimit /\ epoch + 1 \in 1..(EpochLimit + 1)
  BY <1>1, <1>2, Layout, BatchAssumption
<1>4. step = (epoch + 1 - 1) * BatchCount + 0
  BY <1>2, <1>3
<1> DEFINE new == [score |-> score[epoch], rate |-> rate]
           told == Append(history, new)
<1>5. new \in [score : 0..1, rate : Nat]
  BY <1>2, <1>3 DEF CursorInv
<1>6. /\ told \in Seq([score : 0..1, rate : Nat]) /\ Len(told) = epoch + 1 - 1
      /\ \A i \in 1..Len(history) : told[i] = history[i]
      /\ told[Len(history) + 1] = new
  <2> HIDE DEF new
  <2> QED
    BY <1>2, <1>3, <1>5, AppendProperties
<1>7. \A e \in DOMAIN told : told[e] = [score |-> score[e], rate |-> e]
  <2> SUFFICES ASSUME NEW e \in DOMAIN told PROVE told[e] = [score |-> score[e], rate |-> e]
    OBVIOUS
  <2> HIDE DEF told
  <2>1. e \in 1..epoch /\ DOMAIN history = 1..Len(history)
    BY <1>2, <1>3, <1>6, LenProperties
  <2>2. CASE e = epoch
    BY <1>2, <1>6, <2>2
  <2>3. CASE e # epoch
    BY <1>2, <1>6, <2>1, <2>3
  <2> QED
    BY <2>2, <2>3
<1> HIDE DEF told
<1> SUFFICES ASSUME NEW at \in {"training", "epoch_boundary"} PROVE Consistent(AfterValidation(at))
  OBVIOUS
<1>8. PICK g : g = AfterValidation(at)
  OBVIOUS
<1>9. PICK b, t : g = [epoch |-> epoch + 1, next |-> 0, step |-> step, phase |-> at, seen |-> 0,
                       model |-> model, rate |-> rate, history |-> told, best |-> b, stale |-> t]
  BY <1>8 DEF AfterValidation, told
<1>10. /\ g.epoch = epoch + 1 /\ g.next = 0 /\ g.step = step /\ g.phase = at /\ g.seen = 0
       /\ g.model = model /\ g.rate = rate /\ g.history = told /\ g.best = b /\ g.stale = t
  BY <1>9
<1>11. g = [epoch |-> g.epoch, next |-> g.next, step |-> g.step, phase |-> g.phase,
           seen |-> g.seen, model |-> g.model, rate |-> g.rate, history |-> g.history,
           best |-> g.best, stale |-> g.stale]
  BY <1>9, <1>10
<1>12. 0 \in 0..BatchCount /\ epoch + 1 - 1 = epoch /\ rate = epoch + 1 - 1
  BY <1>2, <1>3
<1>13. BestIs(told, b, t)
  <2>1. /\ b = (IF Better THEN epoch ELSE best) /\ t = (IF Better THEN 0 ELSE stale + 1)
    BY <1>8, <1>9 DEF AfterValidation
  <2> QED
    <3>1. told \in Seq([score : 0..1, rate : Nat]) /\ Len(told) = epoch
      BY <1>3, <1>6
    <3>2. BestIs(told, IF Better THEN epoch ELSE best, IF Better THEN 0 ELSE stale + 1)
      BY <1>2, <1>3, <1>7, <3>1, BestAfter
    <3> QED
      BY <2>1, <3>2
<1>14. Consistent(g)
  BY <1>3, <1>4, <1>6, <1>7, <1>10, <1>11, <1>12, <1>13 DEF Consistent
<1> QED
  BY <1>8, <1>14

LEMMA ResumedConsistent ==
  ASSUME CursorInv
  PROVE  Consistent(Resumed(checkpoint)) /\ Resumed(checkpoint).phase # "epoch_boundary"
<1>1. Consistent(checkpoint)
  BY DEF CursorInv
<1> QED
  BY <1>1 DEF Consistent, Resumed

LEMMA CursorInit == StreamInit => CursorInv
<1> SUFFICES ASSUME StreamInit PROVE CursorInv
  OBVIOUS
<1>1. Consistent(NoFit)
  <2>1. <<>> \in Seq([score : 0..1, rate : Nat]) /\ Len(<<>>) = 0 /\ DOMAIN <<>> = {}
    BY EmptySeq
  <2> QED
    BY <2>1, Layout, BatchAssumption DEF NoFit, Consistent, BestIs
<1> QED
  BY <1>1 DEF StreamInit, CursorInv, Started, Active

LEMMA CursorKept == CursorInv /\ [StreamNext]_streamVars => CursorInv'
<1> SUFFICES ASSUME CursorInv, [StreamNext]_streamVars PROVE CursorInv'
  OBVIOUS
<1>1. CASE TrainBatch
  <2>1. Consistent(checkpoint)'
    BY <1>1, TrainBatchDoes, AfterBatchConsistent, ConsistentKept DEF CursorInv
  <2>2. Consistent(Fit)' /\ phase' # "epoch_boundary" /\ taken' = StartAt(next)'
    <3>1. Consistent(Fit)' /\ Fit' = AfterBatch
      BY <1>1, TrainBatchDoes, AfterBatchConsistent, ConsistentKept
    <3>2. next' = next + 1 /\ phase' = phase
      BY <3>1 DEF Fit, AfterBatch
    <3>3. StartAt(next)' = StartAt(next + 1)
      BY <3>2 DEF StartAt
    <3> QED
      BY <1>1, <3>1, <3>2, <3>3, TrainBatchDoes, AfterBatchConsistent
  <2>3. Started(checkpoint)'
    <3>1. CASE checkpoint' = checkpoint
      BY <3>1 DEF CursorInv, Started, NoFit
    <3>2. CASE checkpoint' = AfterBatch
      <4>1. AfterBatch.next = next + 1 /\ next \in 0..BatchCount
        BY <1>1, TrainBatchDoes DEF AfterBatch, CursorInv, Consistent, Fit
      <4> QED
        BY <3>2, <4>1, Layout DEF Started
    <3> QED
      BY <1>1, <3>1, <3>2, TrainBatchDoes
  <2> QED
    BY <1>1, <2>1, <2>2, <2>3, TrainBatchDoes DEF CursorInv
<1>2. CASE EndEpoch
  <2>1. Consistent(checkpoint)' /\ Consistent(Fit)' /\ Fit' = AfterEpoch
    BY <1>2, EndEpochDoes, AfterEpochConsistent, ConsistentKept
  <2>2. next' = next /\ phase' = "validation"
    BY <2>1 DEF Fit, AfterEpoch
  <2>3. StartAt(next)' = StartAt(next)
    BY <2>2 DEF StartAt
  <2> QED
    <3>1. Started(checkpoint)'
      BY <1>2, EndEpochDoes DEF Started, AfterEpoch
    <3> QED
      BY <1>2, <2>1, <2>2, <2>3, <3>1, EndEpochDoes DEF CursorInv
<1>3. CASE Validate
  <2>1. Consistent(checkpoint)' /\ Consistent(Fit)' /\ Fit' = AfterValidation("training")
    BY <1>3, ValidateDoes, AfterValidationConsistent, ConsistentKept
  <2>2. next' = 0 /\ phase' = "training"
    BY <2>1 DEF Fit, AfterValidation
  <2>3. StartAt(next)' = StartAt(0)
    BY <2>2 DEF StartAt
  <2> QED
    <3>1. Started(checkpoint)'
      BY <1>3, ValidateDoes DEF Started, AfterValidation
    <3> QED
      BY <1>3, <2>1, <2>2, <2>3, <3>1, ValidateDoes, Layout DEF CursorInv
<1>4. CASE \E w \in WorkerCounts : StartProcess(w)
  <2>1. /\ Fit' = Resumed(checkpoint) /\ UNCHANGED <<score, checkpoint>>
        /\ taken' = StartAt(checkpoint.next)
    BY <1>4, StartProcessDoes DEF CursorInv
  <2>2. Consistent(checkpoint)' /\ Consistent(Fit)'
    BY <2>1, ResumedConsistent, ConsistentKept DEF CursorInv
  <2>3. next' = checkpoint.next /\ phase' = Resumed(checkpoint).phase
    BY <2>1 DEF Fit, Resumed
  <2>4. StartAt(next)' = StartAt(checkpoint.next)
    BY <2>3 DEF StartAt
  <2> QED
    BY <2>1, <2>2, <2>3, <2>4, ResumedConsistent DEF CursorInv
<1>5. CASE Idles
  <2>1. Fit' = Fit /\ UNCHANGED <<score, checkpoint, taken>> /\ (Active' => Active)
    BY <1>5, IdlesDoes
  <2>2. Consistent(checkpoint)' /\ (Active' => Consistent(Fit)')
    BY <2>1, ConsistentKept DEF CursorInv
  <2>3. next' = next /\ phase' = phase
    BY <2>1 DEF Fit
  <2>4. StartAt(next)' = StartAt(next)
    BY <2>3 DEF StartAt
  <2> QED
    BY <2>1, <2>2, <2>3, <2>4 DEF CursorInv
<1> QED
  BY <1>1, <1>2, <1>3, <1>4, <1>5, StreamSteps

LEMMA SavedIsAcceptable == CursorInv => ResumeAccepted
<1> SUFFICES ASSUME Consistent(checkpoint),
                    checkpoint.phase # "training" \/ checkpoint.next > 0
             PROVE  Acceptable(checkpoint)
  BY DEF CursorInv, Started, ResumeAccepted
<1>1. BatchCount \in Nat \ {0} /\ StartAt(0) = 0 /\ StartAt(BatchCount) = RowCount
  BY Layout
<1>2. \A n \in 1..BatchCount : StartAt(n) > 0
  <2> TAKE n \in 1..BatchCount
  <2>1. n - 1 \in 0..(BatchCount - 1) /\ n - 1 \in 0..BatchCount /\ n - 1 + 1 = n
    BY <1>1
  <2>2. /\ StartAt(n - 1) \in Nat /\ SizeAt(n - 1) \in Nat /\ SizeAt(n - 1) >= 2
        /\ StartAt(n - 1) + SizeAt(n - 1) = StartAt(n - 1 + 1)
    BY <2>1, Layout
  <2>3. StartAt(n - 1 + 1) = StartAt(n)
    BY <2>1
  <2> QED
    BY <2>2, <2>3
<1>3. checkpoint.phase # "epoch_boundary" => checkpoint.next \in 1..BatchCount
  BY <1>1 DEF Consistent
<1> QED
  BY <1>1, <1>2, <1>3, BatchAssumption DEF Consistent, Acceptable

\* What a process saves a later one accepts, wherever the first was stopped.
THEOREM ResumesFromCheckpoint == StreamSpec => []ResumeAccepted
BY CursorInit, CursorKept, SavedIsAcceptable, PTL DEF StreamSpec

-----------------------------------------------------------------------------
(* The batches of a fit *)

LEMMA SubSeqOfBeginning ==
  ASSUME NEW S, NEW s \in Seq(S), NEW m \in 0..Len(s), NEW a \in Nat, NEW b \in 0..m
  PROVE  SubSeq(SubSeq(s, 1, m), a + 1, b) = SubSeq(s, a + 1, b)
<1> DEFINE p == SubSeq(s, 1, m)
<1>1. Len(s) \in Nat /\ m \in Nat /\ b \in Nat /\ \A i \in 1..m : s[i] \in S
  BY LenProperties, ElementOfSeq
<1>2. p \in Seq(S) /\ Len(p) = m /\ \A i \in 1..m : p[i] = s[i]
  <2>1. /\ p \in Seq(S) /\ Len(p) = (IF 1 <= m THEN m - 1 + 1 ELSE 0)
        /\ \A i \in 1..(m - 1 + 1) : p[i] = s[1 + i - 1]
    BY <1>1, SubSeqProperties
  <2> HIDE DEF p
  <2> QED
    BY <1>1, <2>1
<1> HIDE DEF p
<1>3. CASE b <= a
  BY <1>1, <1>3, SubSeqEmpty DEF p
<1>4. CASE a < b
  <2>1. \A i \in (a + 1)..b : p[i] \in S /\ s[i] \in S /\ p[i] = s[i]
    BY <1>1, <1>2
  <2> DEFINE x == SubSeq(p, a + 1, b)
             y == SubSeq(s, a + 1, b)
  <2>2. /\ x \in Seq(S) /\ Len(x) = b - (a + 1) + 1
        /\ \A i \in 1..(b - (a + 1) + 1) : x[i] = p[a + 1 + i - 1]
    BY <1>1, <1>4, <2>1, SubSeqProperties
  <2>3. /\ y \in Seq(S) /\ Len(y) = b - (a + 1) + 1
        /\ \A i \in 1..(b - (a + 1) + 1) : y[i] = s[a + 1 + i - 1]
    BY <1>1, <1>4, <2>1, SubSeqProperties
  <2> HIDE DEF x, y
  <2>4. \A i \in 1..Len(x) : x[i] = y[i]
    BY <1>1, <1>4, <2>1, <2>2, <2>3
  <2>5. x = y
    BY <2>2, <2>3, <2>4, SeqEqual
  <2> QED
    BY <2>5 DEF x, y, p
<1> QED
  BY <1>1, <1>3, <1>4

\* The chunks in order so far give the rows of the reference, as far as they go.
LEMMA RowsAreFirst ==
  ASSUME MixesInOrder, epoch \in 1..EpochLimit, ordered \in 0..Len(Schedule[epoch])
  PROVE  /\ RowsOf[epoch] \in Seq(AllRows) /\ Len(RowsOf[epoch]) = RowCount
         /\ Rows = SubSeq(RowsOf[epoch], 1, Len(Rows)) /\ Len(Rows) \in 0..RowCount
BY Zenon DEF MixesInOrder, Rows, OrderedChunks

\* What a batch of the reference is.
LEMMA BatchOf ==
  ASSUME NEW e \in 1..EpochLimit, NEW i \in 1..BatchCount
  PROVE  EpochBatches[e][i] =
           SubSeq(RowsOf[e], StartAt(i - 1) + 1, StartAt(i - 1) + SizeAt(i - 1))
<1>1. EpochBatches[e] = [j \in 1..BatchCount |->
        SubSeq(RowsOf[e], StartAt(j - 1) + 1, StartAt(j - 1) + SizeAt(j - 1))]
  BY Zenon DEF EpochBatches
<1> QED
  BY <1>1

LEMMA NextIsTheReferences ==
  ASSUME MixesInOrder, CursorInv, GivenInv, TrainBatch
  PROVE  NextBatch = EpochBatches[epoch][next + 1]
<1>1. /\ epoch \in 1..EpochLimit /\ next \in 0..(BatchCount - 1) /\ taken = StartAt(next)
      /\ ordered \in 0..Len(Schedule[epoch]) /\ Len(Rows) >= taken + SizeAt(next)
  <2>1. /\ Consistent(Fit) /\ taken = StartAt(next) /\ epoch <= EpochLimit
        /\ next < BatchCount /\ Len(Rows) >= taken + SizeAt(next)
        /\ ordered \in 0..Len(Schedule[epoch])
    BY TrainBatchDoes DEF CursorInv, GivenInv
  <2>2. epoch \in 1..(EpochLimit + 1) /\ next \in 0..BatchCount
    BY <2>1 DEF Consistent, Fit
  <2> QED
    BY <2>1, <2>2, Layout, BatchAssumption
<1>2. taken \in Nat /\ SizeAt(next) \in Nat /\ next + 1 \in 1..BatchCount /\ next + 1 - 1 = next
  BY <1>1, Layout
<1> DEFINE rows == RowsOf[epoch]
           b == taken + SizeAt(next)
<1>3. /\ rows \in Seq(AllRows) /\ Len(rows) = RowCount
      /\ Rows = SubSeq(rows, 1, Len(Rows)) /\ Len(Rows) \in 0..RowCount
  BY <1>1, RowsAreFirst
<1>4. b \in 0..Len(Rows) /\ Len(Rows) \in 0..Len(rows)
  BY <1>1, <1>2, <1>3, Layout
<1>5. NextBatch = SubSeq(rows, taken + 1, b)
  <2>1. SubSeq(SubSeq(rows, 1, Len(Rows)), taken + 1, b) = SubSeq(rows, taken + 1, b)
    BY <1>2, <1>3, <1>4, SubSeqOfBeginning
  <2> QED
    BY <1>3, <2>1 DEF NextBatch
<1>6. \A i \in 1..BatchCount :
        EpochBatches[epoch][i] =
          SubSeq(rows, StartAt(i - 1) + 1, StartAt(i - 1) + SizeAt(i - 1))
  BY <1>1, BatchOf
<1> DEFINE i == next + 1
<1>7. i \in 1..BatchCount /\ i - 1 = next
  BY <1>1, Layout
<1> HIDE DEF i, rows
<1>8. EpochBatches[epoch][i] =
        SubSeq(rows, StartAt(next) + 1, StartAt(next) + SizeAt(next))
  BY <1>6, <1>7
<1> QED
  BY <1>1, <1>5, <1>8 DEF i

LEMMA Unmultiplied ==
  ASSUME NEW a \in Nat, NEW b \in Nat, NEW c \in Nat, NEW i \in 1..c, NEW j \in 1..c,
         a * c + i = b * c + j
  PROVE  a = b /\ i = j
<1>1. a * c \in Nat /\ b * c \in Nat
  OBVIOUS
<1>2. ~ (a < b)
  <2> SUFFICES ASSUME a < b PROVE FALSE
    OBVIOUS
  <2>1. a * c + c <= b * c
    BY Multiples
  <2> QED
    BY <1>1, <2>1
<1>3. ~ (b < a)
  <2> SUFFICES ASSUME b < a PROVE FALSE
    OBVIOUS
  <2>1. b * c + c <= a * c
    BY Multiples
  <2> QED
    BY <1>1, <2>1
<1>4. a = b
  BY <1>2, <1>3
<1> QED
  BY <1>1, <1>4

LEMMA AfterBatchGiven ==
  ASSUME MixesInOrder, CursorInv, GivenInv, TrainBatch
  PROVE  Given(AfterBatch)
<1>1. /\ epoch \in 1..EpochLimit /\ next \in 0..(BatchCount - 1)
      /\ step = (epoch - 1) * BatchCount + next /\ Given(Fit)
  <2>1. Consistent(Fit) /\ epoch <= EpochLimit /\ next < BatchCount /\ Given(Fit)
    BY TrainBatchDoes DEF CursorInv, GivenInv
  <2>2. /\ epoch \in 1..(EpochLimit + 1) /\ next \in 0..BatchCount
        /\ step = (epoch - 1) * BatchCount + next
    BY <2>1 DEF Consistent, Fit
  <2> QED
    BY <2>1, <2>2, Layout, BatchAssumption
<1>2. /\ model \in Seq(Batches) /\ Len(model) = step
      /\ \A e \in 1..EpochLimit, i \in 1..BatchCount :
           (e - 1) * BatchCount + i <= step =>
             model[(e - 1) * BatchCount + i] = EpochBatches[e][i]
  BY <1>1 DEF Given, Fit
<1>3. /\ BatchCount \in Nat \ {0} /\ next + 1 \in 1..BatchCount /\ epoch - 1 \in Nat
      /\ step + 1 = (epoch - 1) * BatchCount + (next + 1) /\ step \in Nat
  <2>1. BatchCount \in Nat \ {0} /\ next + 1 \in 1..BatchCount /\ epoch - 1 \in Nat
    BY <1>1, Layout
  <2>2. (epoch - 1) * BatchCount \in Nat
    BY <2>1
  <2> QED
    BY <1>1, <2>1, <2>2
<1>4. NextBatch = EpochBatches[epoch][next + 1] /\ NextBatch \in Batches
  <2>1. NextBatch = EpochBatches[epoch][next + 1]
    BY NextIsTheReferences
  <2> QED
    BY <1>1, <1>3, <2>1 DEF Batches
<1> DEFINE grown == Append(model, NextBatch)
<1>5. /\ grown \in Seq(Batches) /\ Len(grown) = step + 1
      /\ \A i \in 1..step : grown[i] = model[i]
      /\ grown[step + 1] = NextBatch
  BY <1>2, <1>4, AppendProperties
<1> HIDE DEF grown
<1>6. ASSUME NEW e \in 1..EpochLimit, NEW i \in 1..BatchCount,
             (e - 1) * BatchCount + i <= step + 1
      PROVE  grown[(e - 1) * BatchCount + i] = EpochBatches[e][i]
  <2>1. e - 1 \in Nat /\ (e - 1) * BatchCount \in Nat /\ (e - 1) * BatchCount + i \in 1..(step + 1)
    <3>1. e - 1 \in Nat
      OBVIOUS
    <3>2. (e - 1) * BatchCount \in Nat
      BY <1>3, <3>1
    <3> QED
      BY <1>3, <1>6, <3>1, <3>2
  <2>2. CASE (e - 1) * BatchCount + i <= step
    BY <1>2, <1>5, <2>1, <2>2
  <2>3. CASE (e - 1) * BatchCount + i = step + 1
    <3>1. e - 1 = epoch - 1 /\ i = next + 1
      BY <1>3, <2>1, <2>3, Unmultiplied
    <3>2. e = epoch
      BY <1>1, <3>1
    <3> QED
      BY <1>4, <1>5, <2>3, <3>1, <3>2
  <2> QED
    BY <1>3, <2>1, <2>2, <2>3
<1>7. AfterBatch.model = grown /\ AfterBatch.step = step + 1
  BY DEF AfterBatch, grown
<1> QED
  BY <1>5, <1>6, <1>7 DEF Given

\* A fit with the same model and steps was given the same batches.
LEMMA GivenAlike ==
  ASSUME NEW f, NEW g, Given(f), g.model = f.model, g.step = f.step
  PROVE  Given(g)
BY DEF Given

LEMMA GivenMoves ==
  ASSUME NEW g, Given(g)
  PROVE  (Fit' = g => Given(Fit)') /\ (checkpoint' = g => Given(checkpoint)')
BY DEF Given

LEMMA ScheduleLength ==
  ASSUME MixesInOrder, NEW e \in 1..EpochLimit
  PROVE  Len(Schedule[e]) \in Nat
BY LenProperties DEF MixesInOrder

LEMMA LeastOf ==
  ASSUME NEW S \in SUBSET Nat, S # {}
  PROVE  \E m \in S : \A x \in S : m <= x
<1> DEFINE Less == {p \in Nat \X Nat : p[1] < p[2]}
<1>1. IsWellFoundedOn(Less, Nat)
  BY NatLessThanWellFounded DEF OpToRel
<1>2. PICK m \in S : \A x \in S : ~ (<<x, m>> \in Less)
  BY <1>1, WFMin
<1>3. \A x \in S : ~ (x < m)
  BY <1>2
<1> QED
  BY <1>3

\* The chunks in order are a beginning of the schedule.
LEMMA GreatestOf ==
  ASSUME NEW n \in Nat, NEW S \in SUBSET (0..n), S # {}
  PROVE  Max(S) \in S
<1> DEFINE D == {n - x : x \in S}
<1>1. D \in SUBSET Nat /\ D # {}
  <2>1. \A x \in S : x \in 0..n
    OBVIOUS
  <2>2. \A x \in S : n - x \in Nat
    BY <2>1
  <2> QED
    BY <2>2
<1>2. \A x \in S : n - x \in D
  OBVIOUS
<1>3. \A d \in D : \E x \in S : d = n - x
  OBVIOUS
<1> HIDE DEF D
<1>4. PICK d \in D : \A x \in D : d <= x
  BY <1>1, LeastOf
<1>5. PICK m \in S : d = n - m
  BY <1>3, <1>4
<1>6. \A x \in S : m >= x
  BY <1>2, <1>4, <1>5
<1> QED
  BY <1>6 DEF Max

LEMMA OrderedKept ==
  ASSUME MixesInOrder, ChunkArrives, epoch \in Nat \ {0}
  PROVE  ordered' \in 0..Len(Schedule[epoch]) /\ epoch' = epoch
<1>1. epoch \in 1..EpochLimit
  BY BatchAssumption DEF ChunkArrives, Fitting
<1>2. Len(Schedule[epoch]) \in Nat
  BY <1>1, ScheduleLength
<1> DEFINE S == {k \in 0..Len(Schedule[epoch]) : 1..k \subseteq arrived'}
<1>3. ordered' = Max(S) /\ epoch' = epoch
  BY DEF ChunkArrives, fit
<1>4. S \in SUBSET (0..Len(Schedule[epoch])) /\ 0 \in S
  BY <1>2
<1> HIDE DEF S
<1>5. Max(S) \in S
  BY <1>2, <1>4, GreatestOf
<1> QED
  BY <1>3, <1>4, <1>5

LEMMA GivenInit == StreamInit => GivenInv
<1> SUFFICES ASSUME StreamInit PROVE GivenInv
  OBVIOUS
<1>1. NoFit.model = <<>> /\ NoFit.step = 0
  BY DEF NoFit
<1>2. <<>> \in Seq(Batches) /\ Len(<<>>) = 0
  BY EmptySeq
<1>3. ASSUME NEW e \in 1..EpochLimit, NEW i \in 1..BatchCount
      PROVE  ~ ((e - 1) * BatchCount + i <= 0)
  <2>1. e - 1 \in Nat /\ BatchCount \in Nat
    BY Layout
  <2>2. (e - 1) * BatchCount \in Nat
    BY <2>1
  <2> QED
    BY <2>1, <2>2
<1>4. Given(NoFit)
  BY <1>1, <1>2, <1>3 DEF Given
<1> QED
  BY <1>4 DEF StreamInit, GivenInv, Active

LEMMA GivenKept ==
  ASSUME MixesInOrder
  PROVE  CursorInv /\ GivenInv /\ [StreamNext]_streamVars => GivenInv'
<1> SUFFICES ASSUME CursorInv, GivenInv, [StreamNext]_streamVars PROVE GivenInv'
  OBVIOUS
<1>1. CASE TrainBatch
  <2>1. /\ Fit' = AfterBatch /\ checkpoint' \in {AfterBatch, checkpoint}
        /\ ordered' = ordered /\ Active
    BY <1>1, TrainBatchDoes
  <2>2. epoch' = epoch
    BY <2>1 DEF Fit, AfterBatch
  <2>3. Given(AfterBatch) /\ Given(checkpoint)
    BY <1>1, AfterBatchGiven DEF GivenInv
  <2>4. Given(Fit)' /\ Given(checkpoint)'
    BY <2>1, <2>3, GivenMoves
  <2> QED
    BY <2>1, <2>2, <2>4 DEF GivenInv
<1>2. CASE EndEpoch
  <2>1. /\ Fit' = AfterEpoch /\ checkpoint' = AfterEpoch /\ ordered' = ordered /\ Active
    BY <1>2, EndEpochDoes
  <2>2. epoch' = epoch /\ AfterEpoch.model = Fit.model /\ AfterEpoch.step = Fit.step
    BY <2>1 DEF Fit, AfterEpoch
  <2>3. Given(AfterEpoch)
    BY <2>1, <2>2, GivenAlike DEF GivenInv
  <2>4. Given(Fit)' /\ Given(checkpoint)'
    BY <2>1, <2>3, GivenMoves
  <2> QED
    BY <2>1, <2>2, <2>4 DEF GivenInv
<1>3. CASE Validate
  <2>1. /\ Fit' = AfterValidation("training") /\ checkpoint' = AfterValidation("epoch_boundary")
        /\ ordered' = 0 /\ Active
    BY <1>3, ValidateDoes
  <2>2. /\ epoch' = epoch + 1
        /\ \A at : AfterValidation(at).model = Fit.model /\ AfterValidation(at).step = Fit.step
    BY <2>1 DEF Fit, AfterValidation
  <2>3. \A at : Given(AfterValidation(at))
    BY <2>1, <2>2, GivenAlike DEF GivenInv
  <2>4. Given(Fit)' /\ Given(checkpoint)'
    BY <2>1, <2>3, GivenMoves
  <2>5. epoch' <= EpochLimit => 0 \in 0..Len(Schedule[epoch'])
    <3>1. epoch \in 1..(EpochLimit + 1) /\ EpochLimit \in Nat
      BY <2>1, BatchAssumption DEF CursorInv, Consistent, Fit
    <3>2. epoch' <= EpochLimit => epoch' \in 1..EpochLimit
      BY <2>2, <3>1
    <3>3. epoch' <= EpochLimit => Len(Schedule[epoch']) \in Nat
      BY <3>2, ScheduleLength
    <3> QED
      BY <3>3
  <2> QED
    BY <2>1, <2>4, <2>5 DEF GivenInv
<1>4. CASE \E w \in WorkerCounts : StartProcess(w)
  <2>1. Fit' = Resumed(checkpoint) /\ checkpoint' = checkpoint /\ ordered' = 0
    BY <1>4, StartProcessDoes DEF CursorInv
  <2>2. /\ epoch' = checkpoint.epoch
        /\ Resumed(checkpoint).model = checkpoint.model
        /\ Resumed(checkpoint).step = checkpoint.step
    BY <2>1 DEF Fit, Resumed
  <2>3. Given(checkpoint) /\ Given(Resumed(checkpoint))
    BY <2>2, GivenAlike DEF GivenInv
  <2>4. Given(Fit)' /\ Given(checkpoint)'
    BY <2>1, <2>3, GivenMoves
  <2>5. epoch' <= EpochLimit => 0 \in 0..Len(Schedule[epoch'])
    <3>1. checkpoint.epoch \in 1..(EpochLimit + 1) /\ EpochLimit \in Nat
      BY BatchAssumption DEF CursorInv, Consistent
    <3>2. epoch' <= EpochLimit => epoch' \in 1..EpochLimit
      BY <2>2, <3>1
    <3>3. epoch' <= EpochLimit => Len(Schedule[epoch']) \in Nat
      BY <3>2, ScheduleLength
    <3> QED
      BY <3>3
  <2> QED
    BY <2>1, <2>4, <2>5 DEF GivenInv
<1>5. CASE Idles
  <2>1. Fit' = Fit /\ checkpoint' = checkpoint /\ (Active' => Active)
    BY <1>5, IdlesDoes
  <2>2. epoch' = epoch
    BY <2>1 DEF Fit
  <2>3. Given(checkpoint)' /\ (Active' => Given(Fit)')
    BY <2>1, GivenMoves DEF GivenInv
  <2>4. Active' => (epoch' <= EpochLimit => ordered' \in 0..Len(Schedule[epoch]))
    <3>1. CASE ChunkArrives
      <4>1. Active
        BY <3>1 DEF ChunkArrives, Fitting
      <4>2. epoch \in Nat \ {0}
        <5>1. Consistent(Fit)
          BY <4>1 DEF CursorInv
        <5>2. epoch \in 1..(EpochLimit + 1)
          BY <5>1 DEF Consistent, Fit
        <5> QED
          BY <5>2, BatchAssumption
      <4> QED
        BY <3>1, <4>2, OrderedKept
    <3>2. CASE KillProcess
      BY <3>2 DEF KillProcess, Active
    <3>3. CASE Ended \/ UNCHANGED streamVars
      <4>1. ordered' = ordered
        BY <3>3 DEF Ended, streamVars, stream
      <4> QED
        BY <2>1, <2>2, <4>1 DEF GivenInv
    <3> QED
      BY <1>5, <3>1, <3>2, <3>3 DEF Idles
  <2> QED
    BY <2>2, <2>3, <2>4 DEF GivenInv
<1> QED
  BY <1>1, <1>2, <1>3, <1>4, <1>5, StreamSteps

LEMMA GivenIsTheReferences == CursorInv /\ GivenInv => TrainsAsUninterrupted
<1> SUFFICES ASSUME CursorInv, GivenInv, Active PROVE TrainsAsUninterrupted
  BY DEF TrainsAsUninterrupted
<1>1. Consistent(Fit) /\ Given(Fit)
  BY DEF CursorInv, GivenInv
<1>2. /\ epoch \in 1..(EpochLimit + 1) /\ next \in 0..BatchCount
      /\ epoch <= EpochLimit \/ next = 0
      /\ step = (epoch - 1) * BatchCount + next
      /\ \A e \in DOMAIN history : history[e] = [score |-> score[e], rate |-> e]
      /\ BestIs(history, best, stale)
  BY <1>1 DEF Consistent, Fit
<1>3. step <= EpochLimit * BatchCount
  <2>1. epoch - 1 \in Nat /\ EpochLimit \in Nat /\ BatchCount \in Nat
    BY <1>2, Layout, BatchAssumption
  <2>2. CASE epoch <= EpochLimit
    <3>1. (epoch - 1) * BatchCount + BatchCount <= EpochLimit * BatchCount
          /\ (epoch - 1) * BatchCount \in Nat /\ EpochLimit * BatchCount \in Nat
      BY <1>2, <2>1, <2>2, Multiples
    <3> QED
      BY <1>2, <2>1, <3>1
  <2>3. CASE ~ (epoch <= EpochLimit)
    <3>1. epoch - 1 = EpochLimit /\ next = 0
      BY <1>2, <2>1, <2>3
    <3>2. EpochLimit * BatchCount \in Nat
      BY <2>1
    <3> QED
      BY <1>2, <3>1, <3>2
  <2> QED
    BY <2>2, <2>3
<1>4. Len(model) = step /\
      \A e \in 1..EpochLimit, i \in 1..BatchCount :
        (e - 1) * BatchCount + i <= step =>
          model[(e - 1) * BatchCount + i] = EpochBatches[e][i]
  BY <1>1 DEF Given, Fit
<1> QED
  BY <1>2, <1>3, <1>4, Zenon DEF TrainsAsUninterrupted

LEMMA StartsAscend ==
  ASSUME NEW i \in 0..BatchCount, NEW j \in 0..BatchCount, i <= j
  PROVE  StartAt(i) <= StartAt(j)
<1> DEFINE S == {k \in 0..BatchCount : i <= k /\ StartAt(k) < StartAt(i)}
<1> SUFFICES ASSUME S # {} PROVE FALSE
  <2>1. S # {} \/ ~ (StartAt(j) < StartAt(i))
    OBVIOUS
  <2>2. StartAt(i) \in Nat /\ StartAt(j) \in Nat
    BY Layout
  <2> QED
    BY <2>1, <2>2
<1>1. S \in SUBSET Nat
  BY Layout
<1>2. PICK k \in S : \A x \in S : k <= x
  BY <1>1, LeastOf
<1>3. k \in 0..BatchCount /\ i <= k /\ k # i /\ StartAt(k) < StartAt(i)
  BY <1>2, Layout
<1>4. k - 1 \in 0..(BatchCount - 1) /\ i <= k - 1 /\ k - 1 + 1 = k /\ k - 1 \in 0..BatchCount
  BY <1>3, Layout
<1>5. k - 1 \notin S
  BY <1>2, <1>3, <1>4
<1>6. /\ StartAt(k - 1) + SizeAt(k - 1) = StartAt(k) /\ SizeAt(k - 1) \in Nat
      /\ StartAt(k - 1) \in Nat /\ StartAt(k) \in Nat /\ StartAt(i) \in Nat
  BY <1>3, <1>4, Layout
<1>7. StartAt(i) <= StartAt(k - 1)
  BY <1>4, <1>5, <1>6
<1> QED
  BY <1>3, <1>6, <1>7

\* Every row is in some batch.
LEMMA BatchesCover ==
  ASSUME NEW p \in 1..RowCount
  PROVE  \E i \in 1..BatchCount, k \in Nat \ {0} : k <= SizeAt(i - 1) /\ p = StartAt(i - 1) + k
<1> DEFINE S == {j \in 0..BatchCount : p <= StartAt(j)}
<1>1. S \in SUBSET Nat /\ S # {}
  <2>1. BatchCount \in S
    BY Layout
  <2> QED
    BY <2>1, Layout
<1>2. PICK j \in S : \A x \in S : j <= x
  BY <1>1, LeastOf
<1>3. j \in 1..BatchCount /\ p <= StartAt(j)
  BY <1>2, Layout
<1>4. j - 1 \in 0..(BatchCount - 1) /\ j - 1 \in 0..BatchCount /\ j - 1 + 1 = j
  BY <1>3, Layout
<1>5. j - 1 \notin S
  BY <1>2, <1>3, <1>4
<1>6. /\ StartAt(j - 1) + SizeAt(j - 1) = StartAt(j) /\ SizeAt(j - 1) \in Nat
      /\ StartAt(j - 1) \in Nat /\ p \in Nat /\ RowCount \in Nat
  BY <1>4, Layout
<1>7. StartAt(j - 1) < p
  BY <1>4, <1>5, <1>6
<1> DEFINE k == p - StartAt(j - 1)
<1>8. k \in Nat \ {0} /\ k <= SizeAt(j - 1) /\ p = StartAt(j - 1) + k
  BY <1>3, <1>4, <1>6, <1>7
<1> HIDE DEF k
<1> QED
  BY <1>3, <1>8

\* A batch of the reference is a piece of its rows.
LEMMA BatchIsPiece ==
  ASSUME MixesInOrder, NEW e \in 1..EpochLimit, NEW i \in 1..BatchCount
  PROVE  /\ Len(EpochBatches[e][i]) = SizeAt(i - 1)
         /\ \A k \in 1..SizeAt(i - 1) :
              /\ EpochBatches[e][i][k] = RowsOf[e][StartAt(i - 1) + k]
              /\ StartAt(i - 1) + k \in 1..RowCount
         /\ SizeAt(i - 1) \in 0..RowCount /\ SizeAt(i - 1) >= 2 /\ StartAt(i - 1) \in Nat
<1> DEFINE a == StartAt(i - 1)
           n == SizeAt(i - 1)
           rows == RowsOf[e]
<1>1. /\ i - 1 \in 0..(BatchCount - 1) /\ i - 1 + 1 = i /\ i \in 0..BatchCount
      /\ BatchCount \in 0..BatchCount /\ i <= BatchCount
  BY Layout
<1>2. a \in Nat /\ n \in Nat /\ n >= 2 /\ a + n = StartAt(i) /\ RowCount \in Nat
  BY <1>1, Layout
<1>3. a + n <= RowCount
  BY <1>1, <1>2, StartsAscend, Layout
<1>4. rows \in Seq(AllRows) /\ Len(rows) = RowCount
  BY DEF MixesInOrder
<1>5. EpochBatches[e][i] = SubSeq(rows, a + 1, a + n)
  BY BatchOf
<1> HIDE DEF a, n, rows
<1>6. \A j \in (a + 1)..(a + n) : rows[j] \in AllRows
  BY <1>2, <1>3, <1>4, ElementOfSeq
<1>7. /\ Len(SubSeq(rows, a + 1, a + n)) =
           (IF a + 1 <= a + n THEN a + n - (a + 1) + 1 ELSE 0)
      /\ \A k \in 1..(a + n - (a + 1) + 1) :
           SubSeq(rows, a + 1, a + n)[k] = rows[a + 1 + k - 1]
  BY <1>2, <1>6, SubSeqProperties
<1>8. Len(EpochBatches[e][i]) = n
  BY <1>2, <1>5, <1>7
<1>9. ASSUME NEW k \in 1..n
      PROVE  EpochBatches[e][i][k] = rows[a + k] /\ a + k \in 1..RowCount
  <2>1. k \in 1..(a + n - (a + 1) + 1) /\ a + 1 + k - 1 = a + k
    BY <1>2
  <2>2. SubSeq(rows, a + 1, a + n)[k] = rows[a + 1 + k - 1]
    BY <1>7, <2>1
  <2>3. EpochBatches[e][i][k] = rows[a + k]
    BY <1>5, <2>1, <2>2, Zenon
  <2>4. a + k \in 1..RowCount
    BY <1>2, <1>3
  <2> QED
    BY <2>3, <2>4
<1> QED
  BY <1>2, <1>3, <1>8, <1>9 DEF a, n, rows

\* Rows of different places of an epoch's batches are different rows.
LEMMA PlacesDiffer ==
  ASSUME NEW i \in 1..BatchCount, NEW j \in 1..BatchCount,
         NEW k \in 1..SizeAt(i - 1), NEW m \in 1..SizeAt(j - 1),
         StartAt(i - 1) + k = StartAt(j - 1) + m
  PROVE  i = j /\ k = m
<1>1. ASSUME NEW x \in 1..BatchCount, NEW y \in 1..BatchCount, x < y,
             NEW u \in 1..SizeAt(x - 1), NEW v \in 1..SizeAt(y - 1)
      PROVE  StartAt(x - 1) + u < StartAt(y - 1) + v
  <2>1. /\ x - 1 \in 0..(BatchCount - 1) /\ x - 1 + 1 = x /\ y - 1 \in 0..(BatchCount - 1)
        /\ x <= y - 1 /\ x \in 0..BatchCount /\ y - 1 \in 0..BatchCount
    BY <1>1, Layout
  <2>2. /\ StartAt(x - 1) + SizeAt(x - 1) = StartAt(x) /\ SizeAt(x - 1) \in Nat
        /\ StartAt(x - 1) \in Nat /\ SizeAt(y - 1) \in Nat /\ StartAt(y - 1) \in Nat
        /\ StartAt(x) \in Nat /\ y - 1 + 1 = y
    BY <2>1, Layout
  <2>3. StartAt(x) <= StartAt(y - 1)
    BY <2>1, StartsAscend
  <2>4. u <= SizeAt(x - 1) /\ v >= 1 /\ u \in Nat /\ v \in Nat
    BY <2>2
  <2> QED
    BY <2>2, <2>3, <2>4
<1>2. /\ i - 1 \in 0..(BatchCount - 1) /\ j - 1 \in 0..(BatchCount - 1)
      /\ i \in Nat /\ j \in Nat
  BY Layout
<1>3. /\ StartAt(i - 1) \in Nat /\ StartAt(j - 1) \in Nat
      /\ SizeAt(i - 1) \in Nat /\ SizeAt(j - 1) \in Nat
  BY <1>2, Layout
<1>4. k \in Nat /\ m \in Nat
  BY <1>3
<1>5. ~ (i < j)
  BY <1>1, <1>3, <1>4
<1>6. ~ (j < i)
  BY <1>1, <1>3, <1>4
<1>7. i = j
  BY <1>2, <1>5, <1>6
<1> QED
  BY <1>3, <1>4, <1>7

LEMMA EveryRowOnceHolds ==
  ASSUME MixesInOrder, CursorInv, GivenInv
  PROVE  EveryRowOnce
<1> SUFFICES ASSUME Active, phase = "validation" PROVE EveryRowOnce
  BY DEF EveryRowOnce
<1> DEFINE batch(i) == model[Len(model) - BatchCount + i]
           places == {p \in (1..BatchCount) \X (1..RowCount) : p[2] <= Len(batch(p[1]))}
           given == [p \in places |-> batch(p[1])[p[2]]]
           rows == RowsOf[epoch]
<1>1. /\ epoch \in 1..EpochLimit /\ BatchCount \in Nat
      /\ step = (epoch - 1) * BatchCount + BatchCount
      /\ Len(model) = step
      /\ \A i \in 1..BatchCount :
           (epoch - 1) * BatchCount + i <= step =>
             model[(epoch - 1) * BatchCount + i] = EpochBatches[epoch][i]
  <2>1. Consistent(Fit) /\ Given(Fit)
    BY DEF CursorInv, GivenInv
  <2>2. /\ epoch \in 1..(EpochLimit + 1) /\ epoch <= EpochLimit /\ next = BatchCount
        /\ step = (epoch - 1) * BatchCount + next
    BY <2>1 DEF Consistent, Fit
  <2>3. epoch \in 1..EpochLimit
    BY <2>2, BatchAssumption
  <2> QED
    BY <2>1, <2>2, <2>3, Layout DEF Given, Fit
<1>2. \A i \in 1..BatchCount : batch(i) = EpochBatches[epoch][i]
  <2>1. (epoch - 1) * BatchCount \in Nat
    BY <1>1
  <2>2. \A i \in 1..BatchCount :
          /\ (epoch - 1) * BatchCount + i <= step
          /\ Len(model) - BatchCount + i = (epoch - 1) * BatchCount + i
    BY <1>1, <2>1
  <2> QED
    BY <1>1, <2>2
<1> HIDE DEF batch
<1>3. /\ IsInjective(rows) /\ Range(rows) = AllRows /\ DOMAIN rows = 1..RowCount
  <2>1. /\ IsInjective(rows) /\ Range(rows) = AllRows /\ rows \in Seq(AllRows)
        /\ Len(rows) = RowCount
    BY <1>1, Zenon DEF MixesInOrder
  <2> QED
    BY <2>1, LenProperties
<1> HIDE DEF rows
<1>4. ASSUME NEW p \in places
      PROVE  /\ p[1] \in 1..BatchCount /\ p[2] \in 1..SizeAt(p[1] - 1)
             /\ StartAt(p[1] - 1) + p[2] \in 1..RowCount
             /\ given[p] = rows[StartAt(p[1] - 1) + p[2]]
  <2>1. p[1] \in 1..BatchCount /\ p[2] \in 1..RowCount /\ p[2] <= Len(batch(p[1]))
    OBVIOUS
  <2>2. batch(p[1]) = EpochBatches[epoch][p[1]]
    BY <1>2, <2>1
  <2>3. p[2] \in 1..SizeAt(p[1] - 1)
    <3>1. /\ Len(EpochBatches[epoch][p[1]]) = SizeAt(p[1] - 1)
          /\ SizeAt(p[1] - 1) \in 0..RowCount
      BY <1>1, <2>1, BatchIsPiece
    <3>2. p[2] <= SizeAt(p[1] - 1) /\ RowCount \in Nat
      BY <2>1, <2>2, <3>1, BatchAssumption
    <3> QED
      BY <2>1, <3>1, <3>2
  <2>4. /\ EpochBatches[epoch][p[1]][p[2]] = RowsOf[epoch][StartAt(p[1] - 1) + p[2]]
        /\ StartAt(p[1] - 1) + p[2] \in 1..RowCount
    BY <1>1, <2>1, <2>3, BatchIsPiece
  <2> QED
    BY <2>1, <2>2, <2>3, <2>4 DEF rows
<1>5. IsInjective(given)
  <2> SUFFICES ASSUME NEW p \in places, NEW q \in places, given[p] = given[q] PROVE p = q
    BY DEF IsInjective
  <2>1. StartAt(p[1] - 1) + p[2] = StartAt(q[1] - 1) + q[2]
    BY <1>3, <1>4 DEF IsInjective
  <2>2. p[1] = q[1] /\ p[2] = q[2]
    BY <1>4, <2>1, PlacesDiffer
  <2>3. p = <<p[1], p[2]>> /\ q = <<q[1], q[2]>>
    OBVIOUS
  <2> QED
    BY <2>2, <2>3
<1>6. Range(given) = AllRows
  <2>1. ASSUME NEW p \in places PROVE given[p] \in AllRows
    BY <1>3, <1>4 DEF Range
  <2>2. ASSUME NEW row \in AllRows PROVE \E p \in places : given[p] = row
    <3>1. PICK n \in 1..RowCount : rows[n] = row
      BY <1>3 DEF Range
    <3>2. PICK i \in 1..BatchCount, k \in Nat \ {0} :
            k <= SizeAt(i - 1) /\ n = StartAt(i - 1) + k
      BY BatchesCover
    <3>3. Len(batch(i)) = SizeAt(i - 1) /\ SizeAt(i - 1) \in 0..RowCount
      BY <1>1, <1>2, BatchIsPiece
    <3>4. k \in 1..RowCount /\ k <= Len(batch(i))
      BY <3>2, <3>3, Layout
    <3>5. <<i, k>> \in places
      BY <3>4
    <3>6. given[<<i, k>>] = rows[StartAt(i - 1) + k]
      BY <1>4, <3>5
    <3> QED
      BY <3>1, <3>2, <3>5, <3>6
  <2>3. DOMAIN given = places
    OBVIOUS
  <2> HIDE DEF given, places
  <2> QED
    BY <2>1, <2>2, <2>3 DEF Range
<1>7. \A i \in 1..BatchCount : Len(batch(i)) >= 2
  BY <1>1, <1>2, BatchIsPiece
<1> QED
  BY <1>5, <1>6, <1>7 DEF EveryRowOnce, batch

\* Wherever processes are stopped, with whatever numbers of workers and whatever
\* order of their chunks, a model is trained on the batches of the reference. What
\* the mixing gives for all shards is induction over data: it is an assumption here,
\* and computed for the shards of each run.
THEOREM StreamTrainsAsUninterrupted ==
  ASSUME MixesInOrder
  PROVE  StreamSpec => []TrainsAsUninterrupted
<1> QED
  BY CursorInit, CursorKept, GivenInit, GivenKept, GivenIsTheReferences, PTL DEF StreamSpec

\* A finished epoch has given every row once, in batches of two rows at least, and
\* what was saved can be resumed, under the same assumption.
THEOREM EpochsAreWhole ==
  ASSUME MixesInOrder
  PROVE  StreamSpec => []EpochIsWhole
<1>1. CursorInv /\ GivenInv => EpochIsWhole
  BY EveryRowOnceHolds, SavedIsAcceptable DEF EpochIsWhole
<1> QED
  BY CursorInit, CursorKept, GivenInit, GivenKept, <1>1, PTL DEF StreamSpec
=============================================================================
