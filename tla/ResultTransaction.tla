--------------------------- MODULE ResultTransaction ---------------------------
(***************************************************************************)
(* How evaluate_prediction_batches and replay_parquet_predictions publish  *)
(* their artifacts (predictions, plot sample, its manifest and, last, the  *)
(* metrics; the replayed predictions): a journal owns the private work     *)
(* directory and the partial artifacts while they are built, becomes the   *)
(* commit intent when they are whole, and the next call with the same      *)
(* arguments discards what was building or finishes what was publishing.   *)
(*                                                                         *)
(* Several processes make the same call; each may raise or be killed at    *)
(* any step, and the machine may lose power: of the changes of the         *)
(* directory that were not flushed, the later ones are then lost, as on a  *)
(* journalling file system.  The private directory lies elsewhere: its     *)
(* making is flushed, its removal never is.                                *)
(***************************************************************************)
EXTENDS ResultArtifacts, Integers

CONSTANT MaxFaults   \* bounds exceptions, kills and power losses

Nothing == [a \in Artifact |-> None]

VARIABLES
  now,         \* the directory as every process sees it
  work,        \* the private directory of the transaction that is journalled
  removed,     \* the journal whose marked directory was last removed, or None
  lock,        \* the process that holds the transaction lock, or None
  serial,      \* how many transactions were begun
  faults

vars ==
  <<now, disk, since, work, removed, lock, call, serial, answered, unbacked, torn, faults>>

(* The work directory is none, empty, holds the initializing file of the marker,  *)
(* is owned (it holds the marker), or is unmarked: it still holds something, but  *)
(* not the marker.                                                                *)

Idle == [at |-> "idle", i |-> 0, first |-> FALSE, mem |-> "none"]

Init ==
  /\ now = [journal |-> None, partial |-> Nothing, final |-> Nothing]
  /\ disk = now /\ since = {}
  /\ work = "none" /\ removed = None /\ lock = None
  /\ call = [p \in Process |-> Idle]
  /\ serial = 0 /\ faults = 0
  /\ answered = None /\ unbacked = FALSE /\ torn = FALSE

\* p goes on to a step.
GoTo(p, step, i, first, mem) ==
  call' = [call EXCEPT ![p] = [at |-> step, i |-> i, first |-> first, mem |-> mem]]
GoAt(p, step, i) == GoTo(p, step, i, call[p].first, call[p].mem)
GoAs(p, step, mem) == GoTo(p, step, call[p].i, call[p].first, mem)
Go(p, step) == GoAt(p, step, call[p].i)
Stop(p) == call' = [call EXCEPT ![p] = Idle]
Give(p) == lock' = IF lock = p THEN None ELSE lock
Others == UNCHANGED <<serial, answered, unbacked, torn, faults>>
Rest == UNCHANGED removed /\ Others
Become(d) == now' = d /\ since' = since \cup {d} /\ UNCHANGED disk
Still == UNCHANGED <<now, disk, since, work>> /\ Rest
Flush == disk' = now /\ since' = {}

-----------------------------------------------------------------------------
(* From the call to the lock *)

\* A journal is recovered before anything else.
Look(p) ==
  /\ At(p, "idle")
  /\ Go(p, IF now.journal # None THEN "lockFirst" ELSE "examine")
  /\ UNCHANGED lock /\ Still

\* flock without waiting; the lock file itself stays.
LockFirst(p) ==
  /\ At(p, "lockFirst")
  /\ IF lock = None
       THEN lock' = p /\ GoTo(p, "recover", call[p].i, TRUE, call[p].mem)
       ELSE UNCHANGED lock /\ Stop(p)
  /\ Still

\* Existing artifacts without a journal are refused, with or without the lock.
Taken == \E a \in Artifact : now.final[a] # None

Examine(p) ==
  /\ At(p, "examine")
  /\ Go(p, IF Taken THEN "idle" ELSE "batch")
  /\ UNCHANGED lock /\ Still

\* The first batch is validated before anything is written.
LockAgain(p) ==
  /\ At(p, "batch")
  /\ IF lock = None
       THEN lock' = p /\ GoTo(p, "recover", call[p].i, FALSE, call[p].mem)
       ELSE UNCHANGED lock /\ Stop(p)
  /\ Still

Refuse(p) == Go(p, "refused") /\ Give(p)

-----------------------------------------------------------------------------
(* _recover_transaction *)

\* (a variant of call p that does not look again once it has the lock)
RecoverOnce(p) ==
  /\ At(p, "recover")
  /\ UNCHANGED lock
  /\ IF now.journal = None \/ ~ call[p].first THEN Go(p, "recovered")
     ELSE IF now.journal.state = "building" THEN Go(p, "discard")
     ELSE GoAt(p, "validate", 1)
  /\ Still

Recover(p) ==
  /\ At(p, "recover")
  /\ UNCHANGED lock
  /\ IF now.journal = None THEN Go(p, "recovered")
     ELSE IF now.journal.state = "building" THEN Go(p, "discard")
     ELSE GoAt(p, "validate", 1)
  /\ Still

\* Nothing of a building transaction was published.
Discard(p) ==
  /\ At(p, "discard")
  /\ IF Taken THEN Refuse(p) ELSE GoAt(p, "clean", 0) /\ UNCHANGED lock
  /\ Still

\* _cleanup_owned_work: a marked directory is removed with all it holds, in
\* whatever order the entries come; an unmarked one only if it holds nothing
\* but the marker's initializing file.
RemoveSome(p) ==
  /\ At(p, "clean") /\ work = "owned"
  /\ work' \in {"owned", "unmarked"} /\ removed' = now.journal
  /\ Go(p, "cleaning")
  /\ UNCHANGED <<now, disk, since, lock>> /\ Others

RemoveRest(p) ==
  /\ \/ At(p, "cleaning")
     \/ At(p, "clean") /\ work \in {"none", "empty"}
  /\ work' = "none"
  /\ Go(p, "cleaned")
  /\ UNCHANGED <<now, disk, since, lock>> /\ Rest

RemoveInitializing(p) ==
  /\ At(p, "clean") /\ work = "initializing"
  /\ work' = "empty"
  /\ UNCHANGED <<now, disk, since, lock, call>> /\ Rest

RefuseWork(p) ==
  /\ At(p, "clean") /\ work = "unmarked"
  /\ Refuse(p)
  /\ Still

\* After the work directory: the partials, then the journal, then the flush.
Building == now.journal # None /\ now.journal.state = "building"

DropPartials(p) ==
  /\ At(p, "cleaned") /\ Building /\ call[p].mem # "publishing"
  /\ Become([now EXCEPT !.partial = Nothing])
  /\ Go(p, "dropJournal")
  /\ UNCHANGED <<work, lock>> /\ Rest

DropJournal(p) ==
  /\ At(p, "dropJournal")
  /\ Become([now EXCEPT !.journal = None])
  /\ Go(p, "dropped")
  /\ UNCHANGED <<work, lock>> /\ Rest

\* The failed call that discards its own building ends here; another goes on.
Dropped(p) ==
  /\ At(p, "dropped")
  /\ Flush
  /\ IF call[p].mem # "none"
       THEN Stop(p) /\ Give(p)
       ELSE Go(p, "recovered") /\ UNCHANGED lock
  /\ UNCHANGED <<now, work>> /\ Rest

\* Without a result to return, the first recovery gives the lock back.
Recovered(p) ==
  /\ At(p, "recovered")
  /\ IF call[p].first
       THEN Go(p, "examine") /\ Give(p)
       ELSE IF Taken THEN Refuse(p) ELSE Go(p, "begin") /\ UNCHANGED lock
  /\ Still

\* A publishing transaction: every name holds what the journal recorded, and
\* no artifact lacks both of its names.
Recorded(f) == f.id = now.journal.id /\ f.data # "torn"

Validates ==
  \A a \in Artifact :
    /\ now.final[a] # None => Recorded(now.final[a])
    /\ now.partial[a] # None => Recorded(now.partial[a])
    /\ now.final[a] # None \/ now.partial[a] # None

Validate(p) ==
  /\ At(p, "validate")
  /\ IF Validates THEN GoAt(p, "publish", 1) /\ UNCHANGED lock ELSE Refuse(p)
  /\ Still

-----------------------------------------------------------------------------
(* A new transaction *)

Begin(p) ==
  /\ At(p, "begin")
  /\ serial' = serial + 1
  /\ Become([now EXCEPT !.journal = [id |-> serial + 1, state |-> "building"]])
  /\ Go(p, "begun")
  /\ UNCHANGED <<work, removed, lock, answered, unbacked, torn, faults>>

\* Only a journal that was flushed counts as owned when a step fails.
SyncBegin(p) ==
  /\ At(p, "begun")
  /\ Flush
  /\ GoAs(p, "mkdir", "building")
  /\ UNCHANGED <<now, work, lock>> /\ Rest

MakeWork(p) ==
  /\ At(p, "mkdir")
  /\ work' = "empty" /\ Go(p, "mark")
  /\ UNCHANGED <<now, disk, since, lock>> /\ Rest

\* _write_owner_marker writes half, then the rest, then renames.
InitializeMarker(p) ==
  /\ At(p, "mark") /\ work = "empty"
  /\ work' = "initializing"
  /\ UNCHANGED <<now, disk, since, lock, call>> /\ Rest

Mark(p) ==
  /\ At(p, "mark") /\ work = "initializing"
  /\ work' = "owned" /\ Go(p, "build")
  /\ UNCHANGED <<now, disk, since, lock>> /\ Rest

\* The partials are written from the batches; then each is flushed.
Build(p) ==
  /\ At(p, "build")
  /\ Become([now EXCEPT !.partial =
               [a \in Artifact |-> [id |-> now.journal.id, data |-> "cached"]]])
  /\ Go(p, "built")
  /\ UNCHANGED <<work, lock>> /\ Rest

\* (a variant that leaves the data to the kernel)
SyncNothing(p) ==
  /\ At(p, "built")
  /\ Go(p, "record")
  /\ UNCHANGED <<now, disk, since, work, lock>> /\ Rest

SyncPartials(p) ==
  /\ At(p, "built")
  /\ Become([now EXCEPT !.partial =
               [a \in Artifact |-> [id |-> now.journal.id, data |-> "flushed"]]])
  /\ Go(p, "record")
  /\ UNCHANGED <<work, lock>> /\ Rest

\* The journal with the identities of the partials becomes the commit intent.
Record(p) ==
  /\ At(p, "record")
  /\ Become([now EXCEPT !.journal.state = "publishing"])
  /\ GoAs(p, "recorded", "publishing")
  /\ UNCHANGED <<work, lock>> /\ Rest

SyncRecord(p) ==
  /\ At(p, "recorded")
  /\ Flush
  /\ GoAt(p, "publish", 1)
  /\ UNCHANGED <<now, work, lock>> /\ Rest

-----------------------------------------------------------------------------
(* Publication, by the call that built or by a recovery *)

\* publish_order (a variant that publishes the metrics first)
MetricsFirst(i) == Artifacts + 1 - i
Place(i) == i

Link(p) ==
  /\ At(p, "publish") /\ call[p].i <= Artifacts
  /\ LET a == Place(call[p].i) IN
       /\ now.final[a] = None
       /\ Become([now EXCEPT !.final[a] = now.partial[a]])
  /\ Go(p, "linked")
  /\ UNCHANGED <<work, lock>> /\ Rest

\* A recovery finds the name there already.
Skip(p) ==
  /\ At(p, "publish") /\ call[p].i <= Artifacts
  /\ now.final[Place(call[p].i)] # None
  /\ Become([now EXCEPT !.partial[Place(call[p].i)] = None])
  /\ GoAt(p, "publish", call[p].i + 1)
  /\ UNCHANGED <<work, lock>> /\ Rest

SyncLink(p) ==
  /\ At(p, "linked")
  /\ Flush
  /\ Go(p, "unlink")
  /\ UNCHANGED <<now, work, lock>> /\ Rest

Unlink(p) ==
  /\ At(p, "unlink")
  /\ Become([now EXCEPT !.partial[Place(call[p].i)] = None])
  /\ Go(p, "unlinked")
  /\ UNCHANGED <<work, lock>> /\ Rest

SyncUnlink(p) ==
  /\ At(p, "unlinked")
  /\ Flush
  /\ GoAt(p, "publish", call[p].i + 1)
  /\ UNCHANGED <<now, work, lock>> /\ Rest

Commit(p) ==
  /\ At(p, "publish") /\ call[p].i > Artifacts /\ now.journal.state # "committed"
  /\ Become([now EXCEPT !.journal.state = "committed"])
  /\ Go(p, "committed")
  /\ UNCHANGED <<work, lock>> /\ Rest

SyncCommit(p) ==
  /\ At(p, "committed")
  /\ Flush
  /\ GoAt(p, "clean", Artifacts + 1)
  /\ UNCHANGED <<now, work, lock>> /\ Rest

\* A committed transaction is only cleaned up and answered from.
Answer(p) ==
  /\ At(p, "publish") /\ call[p].i > Artifacts /\ now.journal.state = "committed"
  /\ GoAt(p, "clean", Artifacts + 1)
  /\ UNCHANGED lock /\ Still

Return(p) ==
  /\ At(p, "cleaned") /\ call[p].i = Artifacts + 1
  /\ answered' = now.final[Artifacts].id
  /\ unbacked' = (unbacked \/ ~ Intended(disk))
  /\ Go(p, "done") /\ Give(p)
  /\ UNCHANGED <<now, disk, since, work, removed, serial, torn, faults>>

\* A call that failed while publishing removes its work and raises; the next
\* call finishes.
\* (a variant that keeps the lock)
RaisedHolding(p) ==
  /\ At(p, "cleaned") /\ call[p].mem = "publishing" /\ call[p].i # Artifacts + 1
  /\ Stop(p) /\ UNCHANGED lock
  /\ Still

Raised(p) ==
  /\ At(p, "cleaned") /\ call[p].mem = "publishing" /\ call[p].i # Artifacts + 1
  /\ Stop(p) /\ Give(p)
  /\ Still

Done(p) == At(p, "done") /\ UNCHANGED vars

-----------------------------------------------------------------------------
(* Faults *)

Spend == faults < MaxFaults /\ faults' = faults + 1

\* Any step of a transaction may raise: a batch that does not validate, a full
\* disk.  What was building is discarded at once; a commit intent that could not
\* be written counts as written; without a journal of its own a call just ends.
Raise(p) ==
  /\ call[p].at \in {"begun", "mkdir", "mark", "build", "built", "record", "recorded",
                     "publish", "linked", "unlink", "unlinked", "committed"}
  /\ Spend
  /\ \/ call[p].mem = "none" /\ Stop(p) /\ Give(p)
     \/ call[p].mem = "building" /\ Go(p, "discard") /\ UNCHANGED lock
     \/ /\ call[p].mem = "publishing" \/ At(p, "record")
        /\ GoTo(p, "clean", 0, call[p].first, "publishing")
        /\ UNCHANGED lock
  /\ UNCHANGED <<now, disk, since, work, removed, serial, answered, unbacked, torn>>

Kill(p) ==
  /\ call[p].at \notin {"idle", "done", "refused"} /\ Spend
  /\ Stop(p) /\ Give(p)
  /\ torn' = (torn \/ work = "unmarked")
  /\ UNCHANGED <<now, disk, since, work, removed, serial, answered, unbacked>>

\* The directory is as after one of its changes; data that was not flushed is torn.
Torn(f) == IF f # None /\ f.data = "cached" THEN [f EXCEPT !.data = "torn"] ELSE f

Restored(d) ==
  [journal |-> d.journal,
   partial |-> [a \in Artifact |-> Torn(d.partial[a])],
   final |-> [a \in Artifact |-> Torn(d.final[a])]]

\* What has become of the private directory: its removal may have reached the disk
\* only in part or not at all.
WorkLeft ==
  IF /\ work \in {"none", "unmarked"}
     /\ removed # None /\ now'.journal # None /\ removed.id = now'.journal.id
  THEN {work, "owned", "unmarked"} ELSE {work}

PowerLoss ==
  /\ Spend
  /\ \E kept \in since \cup {disk} : now' = Restored(kept)
  /\ disk' = now' /\ since' = {}
  /\ work' \in WorkLeft
  /\ torn' = (torn \/ work' = "unmarked")
  /\ call' = [p \in Process |-> IF call[p].at \in {"done", "refused"} THEN call[p] ELSE Idle]
  /\ lock' = None
  /\ UNCHANGED <<removed, serial, answered, unbacked>>

-----------------------------------------------------------------------------

Step(p) ==
  \/ Look(p) \/ LockFirst(p) \/ Examine(p) \/ LockAgain(p)
  \/ Recover(p) \/ Discard(p)
  \/ RemoveSome(p) \/ RemoveRest(p) \/ RemoveInitializing(p) \/ RefuseWork(p)
  \/ DropPartials(p) \/ DropJournal(p) \/ Dropped(p) \/ Recovered(p) \/ Validate(p)
  \/ Begin(p) \/ SyncBegin(p) \/ MakeWork(p) \/ InitializeMarker(p) \/ Mark(p)
  \/ Build(p) \/ SyncPartials(p) \/ Record(p) \/ SyncRecord(p)
  \/ Link(p) \/ Skip(p) \/ SyncLink(p) \/ Unlink(p) \/ SyncUnlink(p)
  \/ Commit(p) \/ SyncCommit(p) \/ Answer(p) \/ Return(p) \/ Raised(p)

Next == (\E p \in Process : Step(p) \/ Done(p) \/ Raise(p) \/ Kill(p)) \/ PowerLoss

Spec == Init /\ [][Next]_vars

\* A call goes on, and one that did not succeed is made again.
FairSpec == Spec /\ \A p \in Process : WF_vars(Step(p))

-----------------------------------------------------------------------------
(* Properties *)

\* "Persist ownership before creating any private work or partial. A process
\* loss from this point onward is therefore recoverable."
ProcessLossIsRecoverable == \A p \in Process : ~ At(p, "refused")

\* Once the faults are over, every caller gets the result.
CallsSucceed ==
  \A p \in Process : (faults = MaxFaults /\ ~ torn) ~> At(p, "done")
=============================================================================
