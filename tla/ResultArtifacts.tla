----------------------------- MODULE ResultArtifacts -----------------------------
(* The directory in which evaluate_prediction_batches and                         *)
(* replay_parquet_predictions publish their artifacts, as a power loss would      *)
(* leave it, and what readers and callers may rely on.                            *)
(*                                                                                *)
(* A directory is [journal, partial, final]: the transaction journal              *)
(* [id, state], and what the artifacts' partial and final names name.  An         *)
(* artifact is [id, data]: the transaction that built it, and whether its data is *)
(* cached, flushed, or torn by a power loss.                                      *)
EXTENDS Naturals

CONSTANTS
  Process,     \* the processes that make the same call
  Artifacts,   \* how many artifacts, in publish order
  None

ASSUME ResultAssumption ==
  /\ Artifacts \in Nat \ {0}
  /\ None \notin Process
  /\ None \notin [id : Nat, state : {"building", "publishing", "committed"}]
  /\ None \notin [id : Nat, data : {"cached", "flushed", "torn"}]

Artifact == 1..Artifacts

VARIABLES
  disk,      \* the directory as it was last flushed
  since,     \* ... as it was after each change since then
  call,      \* per process
  answered,  \* the build whose result a caller was told, or None
  unbacked,  \* a caller was answered before the commit intent was flushed
  torn       \* the removal of a work directory was cut short, or taken back in part

At(p, step) == call[p].at = step

\* The journal of a directory is a commit intent: it names whole artifacts.
Intended(d) == d.journal # None /\ d.journal.state # "building"

\* A reader who waits for the metrics, the last artifact, finds with them every
\* artifact of the same build, whole and on the disk, and never sees them
\* change: whoever built or recovered, and whatever was interrupted.
Shown ==
  LET last == disk.final[Artifacts] IN
    IF last = None THEN {}
    ELSE {a \in Artifact : disk.final[a] = [id |-> last.id, data |-> "flushed"]}

Publication == INSTANCE AtomicPublication WITH Data <- Artifact, shown <- Shown
PublicationRefines == Publication!Spec

\* What a caller was told can no longer be lost: whatever a power loss leaves of
\* the directory, every artifact of that build is there under one of its names,
\* and the journal is the one that makes the next call publish it.  The code owes
\* this only to callers answered after a flush of the commit intent: recovery
\* takes the names and the journal it finds for durable (evaluate.py:544-584).
ToldIsKept ==
  answered # None /\ ~ unbacked =>
    \A d \in since \cup {disk} :
      /\ d.journal.id = answered /\ Intended(d)
      /\ \A a \in Artifact :
           [id |-> answered, data |-> "flushed"] \in {d.final[a], d.partial[a]}

\* A call is refused for good only over a work directory whose removal was cut
\* short after the marker was gone, by a kill or because a power loss took back a
\* part of it: shutil.rmtree is not followed by a flush.
RefusedOnlyTorn == (\E p \in Process : At(p, "refused")) => torn
===================================================================================
