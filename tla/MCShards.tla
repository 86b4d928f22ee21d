------------------------------- MODULE MCShards -------------------------------
(* What the shard writer keeps on the disk: the journal with its anchor, the   *)
(* transaction the journal is for, and the lock over the output.  The models   *)
(* take each other's operations as atomic; each behaviour here is that of one  *)
(* of them, while the others stand still.                                      *)
EXTENDS ShardJournal, ShardTransaction, ShardLock

VARIABLE part

all == <<part, journalVars, vars, everything>>

\* In the configuration, two shards in two nested directories, two calls, two crashes
\* and one exception: a crash may cut short the recovery from the crash or the
\* exception before it, and the second call is a candidate build over what the first
\* one published.  For the lock, two processes, three calls and one kill.
PartInit ==
  /\ part \in {"journal", "transaction", "lock"}
  /\ JournalInit /\ Init /\ LockInit
  /\ part # "journal" => journal = CHOOSE v \in Value : TRUE

Journaling == part = "journal" /\ UNCHANGED <<part, vars, everything>>
Building == part = "transaction" /\ UNCHANGED <<part, journalVars, everything>>
Locking == part = "lock" /\ UNCHANGED <<part, journalVars, vars>>

Lock(p) ==
  \/ (Locking /\ Start(p)) \/ (Locking /\ ReadCandidate(p))
  \/ (Locking /\ CreateInitializer(p)) \/ (Locking /\ MarkInitializer(p))
  \/ (Locking /\ FillInitializer(p)) \/ (Locking /\ Reread(p))
  \/ (Locking /\ CheckSource(p)) \/ (Locking /\ RenameToLock(p))
  \/ (Locking /\ CheckMoved(p)) \/ (Locking /\ CheckPublished(p))
  \/ (Locking /\ Open(p)) \/ (Locking /\ Flock(p))
  \/ (Locking /\ RetireLoser(p)) \/ (Locking /\ FirstCleanup(p))
  \/ (Locking /\ CleanInitializer(p)) \/ (Locking /\ EndCleanup(p))
  \/ (Locking /\ WorkLocked(p)) \/ (Locking /\ ReleaseLock(p)) \/ (Locking /\ KillBuilder(p))

PartNext ==
  \/ \E v \in Value : Journaling /\ Replace(v)
  \/ (Journaling /\ TearSlot) \/ (Journaling /\ FillSlot) \/ (Journaling /\ SyncSlots)
  \/ (Journaling /\ RewriteJournal) \/ (Journaling /\ FillJournal)
  \/ (Journaling /\ FlushJournal) \/ (Journaling /\ Kill) \/ (Journaling /\ PowerLoss)
  \/ (Journaling /\ Recover) \/ (Journaling /\ JournalStopped)
  \/ (Building /\ Begin) \/ (Building /\ WriteTemporary)
  \/ (Building /\ PublishJournal) \/ (Building /\ MakeWork)
  \/ (Building /\ WriteOwnerMarker) \/ (Building /\ StartBuilding)
  \/ (Building /\ WriteRuns) \/ (Building /\ StageShard)
  \/ (Building /\ Built) \/ (Building /\ MakeDirectory)
  \/ (Building /\ PublishShard) \/ (Building /\ WriteManifest)
  \/ (Building /\ StartVerifying) \/ (Building /\ MoveVerifying)
  \/ (Building /\ EndVerifying)
  \/ (Building /\ MoveToTrash) \/ (Building /\ RecordMove)
  \/ (Building /\ Unlink) \/ (Building /\ RecordGone)
  \/ (Building /\ ResumeGone) \/ (Building /\ RetireLost)
  \/ (Building /\ RefuseUnreadable) \/ (Building /\ FinishPrivateFile)
  \/ (Building /\ FinishInventoryEntry) \/ (Building /\ FinishWork)
  \/ (Building /\ FinishShard) \/ (Building /\ FinishDirectory)
  \/ (Building /\ FinishJournal) \/ (Building /\ PrepareCleanup)
  \/ (Building /\ CleanupOwner) \/ (Building /\ CleanupWork)
  \/ (Building /\ Cleaned) \/ (Building /\ Rollback)
  \/ (Building /\ Unpublish) \/ (Building /\ MarkRolledBack)
  \/ (Building /\ RemoveTransaction) \/ (Building /\ CompleteJournalRetirement)
  \/ (Building /\ RecoverManifest) \/ (Building /\ RecoverWithoutJournal)
  \/ (Building /\ NormalizeAnchor) \/ (Building /\ RecoverTransaction)
  \/ (Building /\ Call) \/ (Building /\ Return) \/ (Building /\ Crash)
  \/ (Building /\ Interrupt) \/ (Building /\ Stopped)
  \/ \E p \in Process : Lock(p)
  \/ (Locking /\ LockStopped)

\* The fairness is that of the transaction: calls go on.
PartSpec == PartInit /\ [][PartNext]_all /\ WF_all(Building /\ Step)
===============================================================================
