----------------------------- MODULE SourceJournal -----------------------------
(***************************************************************************)
(* How run_acquire and run_extract publish one dataset's archive or tree:  *)
(* a private candidate is completed and flushed, an intent naming it is    *)
(* journalled, the candidate is linked or renamed to its final name, and   *)
(* the intent becomes a completed record.  The process may end at any      *)
(* step; the machine may lose power, and then every directory entry that   *)
(* was not yet flushed is either kept or lost.                             *)
(*                                                                         *)
(* Final names carry the digest of the source, so each source content has  *)
(* a final name of its own; the journal is one file per dataset.           *)
(***************************************************************************)
EXTENDS Naturals

CONSTANTS
  Source,      \* contents the user's source may have
  KindOf,      \* a "file" is published by a hard link, a "directory" by a rename
  MaxFaults,   \* bounds the crashes and power losses
  MaxChanges,  \* bounds the changes of the source
  NoSource, NoJournal

ASSUME KindAssumption == KindOf \in [Source -> {"file", "directory"}]
ASSUME BoundsAssumption == MaxFaults \in Nat /\ MaxChanges \in Nat

VARIABLES
  source,         \* the user's source now
  files,          \* per source content: what its two names hold
  filesOnDisk,    \* ... and what they hold after a power loss, at worst
  journal,        \* the dataset's journal
  journalOnDisk,
  run,            \* the active run of the stage
  faults, changes

vars == <<source, files, filesOnDisk, journal, journalOnDisk, run, faults,
          changes>>

\* What a name holds; a copy is partial until its data is flushed.
Content == {"absent", "partial", "whole"}
Names == [final : Content, candidate : Content]

\* A journal record; names tells whether it names the candidate.
Record == [src : Source, status : {"intent", "completed"}, names : BOOLEAN]
ASSUME NoJournalAssumption == NoJournal \notin Record

Step == {"off", "start", "decide", "copied", "flushed", "intended", "publish",
         "published", "complete", "completed", "done"}

Off == [step |-> "off", src |-> NoSource]

Init ==
  /\ source \in Source
  /\ files = [s \in Source |-> [final |-> "absent", candidate |-> "absent"]]
  /\ filesOnDisk = files
  /\ journal = NoJournal /\ journalOnDisk = NoJournal
  /\ run = Off
  /\ faults = 0 /\ changes = 0

-----------------------------------------------------------------------------

Go(from, to) == run.step = from /\ run' = [run EXCEPT !.step = to]

\* A linked candidate stays where it was, and the record goes on naming it.
KeepsCandidate == KindOf[run.src] = "file"

\* The record is about this run's source: digest, dataset, kind, final path.
Current == journal # NoJournal /\ journal.src = run.src

Here == files[run.src]

Retained == Current /\ journal.names /\ Here.candidate # "absent"

Begin ==
  /\ run.step = "off"
  /\ run' = [step |-> "start", src |-> source]
  /\ UNCHANGED <<source, files, filesOnDisk, journal, journalOnDisk, faults,
                 changes>>

\* _ensure_durable_directory flushes both directories, and with them the
\* entries that an earlier run had no time to flush.
\* (a variant that only makes sure that they exist)
FlushNothing ==
  /\ Go("start", "decide")
  /\ UNCHANGED <<source, files, filesOnDisk, journal, journalOnDisk, faults,
                 changes>>

EnsureDurable ==
  /\ Go("start", "decide")
  /\ filesOnDisk' = files
  /\ journalOnDisk' = journal
  /\ UNCHANGED <<source, files, journal, faults, changes>>

\* The final name holds what the journal says; an intent is completed.
Adopt ==
  /\ run.step = "decide"
  /\ Current /\ Here.final = "whole"
  /\ \/ /\ journal.status = "intent"
        /\ journal' = [journal EXCEPT !.status = "completed",
                                      !.names = KeepsCandidate /\ Retained]
        /\ Go("decide", "completed")
     \/ /\ journal.status = "completed"
        /\ Go("decide", "done")
        /\ UNCHANGED journal
  /\ UNCHANGED <<source, files, filesOnDisk, journalOnDisk, faults, changes>>

\* The final name is taken by something this journal does not vouch for, or
\* the candidate is not what the journal says; both are kept for inspection.
Untrusted ==
  IF Here.final = "absent"
    THEN Retained /\ Here.candidate # "whole"
    ELSE ~ (Current /\ Here.final = "whole")

Refuse ==
  /\ run.step = "decide"
  /\ Untrusted
  /\ run' = Off
  /\ UNCHANGED <<source, files, filesOnDisk, journal, journalOnDisk, faults,
                 changes>>

\* An interrupted publication goes on with the candidate it had.
TakeUp ==
  /\ Go("decide", "publish")
  /\ Here.final = "absent" /\ Retained /\ Here.candidate = "whole"
  /\ UNCHANGED <<source, files, filesOnDisk, journal, journalOnDisk, faults,
                 changes>>

\* _copy_file or _copy_tree into a fresh candidate: the copy must have the
\* digest that the source had when the run began.
Copy ==
  /\ run.step = "decide"
  /\ Here.final = "absent" /\ ~ Retained
  /\ files' = [files EXCEPT ![run.src].candidate = "partial"]
  /\ run' = IF source = run.src THEN [run EXCEPT !.step = "copied"] ELSE Off
  /\ UNCHANGED <<source, filesOnDisk, journal, journalOnDisk, faults, changes>>

\* _make_content_durable: the data and the entry of the candidate.
\* (a variant that flushes the entry only)
FlushEntryOnly ==
  /\ Go("copied", "flushed")
  /\ filesOnDisk' = files
  /\ UNCHANGED <<source, files, journal, journalOnDisk, faults, changes>>

FlushCandidate ==
  /\ Go("copied", "flushed")
  /\ files' = [files EXCEPT ![run.src].candidate = "whole"]
  /\ filesOnDisk' = files'
  /\ UNCHANGED <<source, journal, journalOnDisk, faults, changes>>

\* _write_json replaces the journal, then flushes its directory.
WriteIntent ==
  /\ Go("flushed", "intended")
  /\ journal' = [src |-> run.src, status |-> "intent", names |-> TRUE]
  /\ UNCHANGED <<source, files, filesOnDisk, journalOnDisk, faults, changes>>

SyncIntent ==
  /\ Go("intended", "publish")
  /\ journalOnDisk' = journal
  /\ UNCHANGED <<source, files, filesOnDisk, journal, faults, changes>>

\* _publish_candidate: os.link or rename_directory_noreplace, then the
\* directory is flushed.
Publish ==
  /\ Go("publish", "published")
  /\ files' = [files EXCEPT
                 ![run.src].final = Here.candidate,
                 ![run.src].candidate =
                   IF KeepsCandidate THEN Here.candidate ELSE "absent"]
  /\ UNCHANGED <<source, filesOnDisk, journal, journalOnDisk, faults, changes>>

SyncPublished ==
  /\ Go("published", "complete")
  /\ filesOnDisk' = files
  /\ UNCHANGED <<source, files, journal, journalOnDisk, faults, changes>>

WriteCompleted ==
  /\ Go("complete", "completed")
  /\ journal' = [src |-> run.src, status |-> "completed", names |-> KeepsCandidate]
  /\ UNCHANGED <<source, files, filesOnDisk, journalOnDisk, faults, changes>>

SyncCompleted ==
  /\ Go("completed", "done")
  /\ journalOnDisk' = journal
  /\ UNCHANGED <<source, files, filesOnDisk, journal, faults, changes>>

Finish ==
  /\ run.step = "done"
  /\ run' = Off
  /\ UNCHANGED <<source, files, filesOnDisk, journal, journalOnDisk, faults,
                 changes>>

-----------------------------------------------------------------------------
(* The environment *)

Spend == faults < MaxFaults /\ faults' = faults + 1

\* An error or the end of the process: what is visible stays visible.
Crash ==
  /\ run.step # "off" /\ Spend
  /\ run' = Off
  /\ UNCHANGED <<source, files, filesOnDisk, journal, journalOnDisk, changes>>

\* Each entry that was not flushed may be kept or lost; the two names of one
\* content change together, since a rename is one entry operation.
PowerLoss ==
  /\ Spend
  /\ \E kept \in SUBSET Source :
       files' = [s \in Source |-> IF s \in kept THEN files[s] ELSE filesOnDisk[s]]
  /\ filesOnDisk' = files'
  /\ journal' \in {journal, journalOnDisk}
  /\ journalOnDisk' = journal'
  /\ run' = Off
  /\ UNCHANGED <<source, changes>>

ChangeSource ==
  /\ changes < MaxChanges /\ changes' = changes + 1
  /\ source' \in Source \ {source}
  /\ UNCHANGED <<files, filesOnDisk, journal, journalOnDisk, run, faults>>

Advance ==
  \/ Begin \/ EnsureDurable \/ Adopt \/ Refuse \/ TakeUp
  \/ Copy \/ FlushCandidate \/ WriteIntent \/ SyncIntent
  \/ Publish \/ SyncPublished \/ WriteCompleted \/ SyncCompleted \/ Finish

Next == Advance \/ Crash \/ PowerLoss \/ ChangeSource

Spec == Init /\ [][Next]_vars

\* A run goes on, and an interrupted command is invoked again.
FairSpec == Spec /\ WF_vars(Advance)

-----------------------------------------------------------------------------
(* Properties *)

TypeOK ==
  /\ source \in Source
  /\ files \in [Source -> Names] /\ filesOnDisk \in [Source -> Names]
  /\ journal \in Record \cup {NoJournal}
  /\ journalOnDisk \in Record \cup {NoJournal}
  /\ run \in [step : Step, src : Source \cup {NoSource}]
  /\ run.step # "off" => run.src \in Source
  /\ faults \in 0..MaxFaults /\ changes \in 0..MaxChanges

\* Whatever is interrupted, a final name never holds a partial copy, and what
\* the journal claims is on the disk: a completed record has its final name,
\* an intent has its candidate or already its final name.
JournalIsTrue ==
  /\ \A s \in Source : files[s].final # "partial"
  /\ journal # NoJournal =>
       LET f == files[journal.src] IN
         \/ f.final = "whole"
         \/ journal.status = "intent" /\ journal.names /\ f.candidate = "whole"

\* When the stage is over, and the pipeline may record it as complete, no
\* power loss can take back the publication or its record.
DoneIsDurable ==
  run.step = "done" =>
    /\ filesOnDisk[run.src].final = "whole"
    /\ journalOnDisk = journal
    /\ journal.src = run.src /\ journal.status = "completed"

\* Once the crashes and changes are over, rerunning the command finishes the
\* stage, unless the final name belongs to a publication that the journal has
\* forgotten in favour of another source: the code refuses that one for good.
Forgotten ==
  /\ files[source].final # "absent"
  /\ journal # NoJournal /\ journal.src # source

AcquisitionFinishes ==
  (faults = MaxFaults /\ changes = MaxChanges /\ ~ Forgotten)
    ~> run.step = "done"
=============================================================================
