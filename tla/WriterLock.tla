------------------------------ MODULE WriterLock ------------------------------
(***************************************************************************)
(* BootstrapWriterLock of bootstrap/state.py: the file that keeps two      *)
(* bootstrap runs from writing the same data root.                         *)
(*                                                                         *)
(* A lock file is an element of Lock: its inode together with its nonce.   *)
(* Identities are compared with the metadata and the nonce is fresh, so    *)
(* the reuse of an inode number cannot be told from a new file and is not  *)
(* modelled.  A lock file has a writer (the PID in its metadata) from the  *)
(* moment O_EXCL creates it, and readable metadata once it is complete.    *)
(* One directory holds the lock path and any number of quarantine files.   *)
(* Every file-system call and every probe of a PID is one step; only on a  *)
(* quarantine file, whose random name no other process knows, may a step   *)
(* read and decide as well.                                                *)
(***************************************************************************)
EXTENDS FiniteSets

CONSTANTS
  Proc,        \* process identifiers (a PID on a host); one may be reused
  Recoverers,  \* the processes that were given recover_stale=True
  HostOf,      \* the host a process runs on
  Lock,        \* lock files that may ever be created (bounds creations)
  NoLock,      \* no lock file
  NoProc       \* the writer of a lock file not yet created

ASSUME RecoverersAssumption == Recoverers \subseteq Proc
ASSUME NoLockAssumption == NoLock \notin Lock
ASSUME NoProcAssumption == NoProc \notin Proc

VARIABLES
  pc,         \* where each process is in acquire, its run, or release
  expected,   \* the identity a process holds, or read and means to remove
  aside,      \* the lock file a process has moved to its own quarantine
  lockPath,   \* the lock file the lock path names
  preserved,  \* lock files left in quarantines that nobody handles any more
  writer,     \* who created a lock file
  complete    \* lock files whose metadata was written in full

vars == <<pc, expected, aside, lockPath, preserved, writer, complete>>

Verifying == {"verifyRecover", "verifyDiscard", "verifyRelease"}
Owning == {"writing", "held", "discard"}
Recovering == {"probe", "recover", "unlink"}
Label == {"idle", "inspect", "retry", "restore", "dead"}
           \cup Owning \cup Verifying \cup Recovering

Init ==
  /\ pc = [p \in Proc |-> "idle"]
  /\ expected = [p \in Proc |-> NoLock]
  /\ aside = [p \in Proc |-> NoLock]
  /\ lockPath = NoLock
  /\ preserved = {}
  /\ writer = [l \in Lock |-> NoProc]
  /\ complete = {}

(***************************************************************************)
(* _pid_is_alive, and _refuse_foreign_or_active as a positive condition:   *)
(* the writer is on this host and its PID belongs to no live process.      *)
(***************************************************************************)
Alive(p) == pc[p] # "dead"

\* (a variant that takes the lock of a live process for a stale one)
StaleWithoutProbe(p, l) == HostOf[writer[l]] = HostOf[p]

Stale(p, l) ==
  /\ HostOf[writer[l]] = HostOf[p]
  /\ ~ Alive(writer[l])

Goto(p, label, identity) ==
  /\ pc' = [pc EXCEPT ![p] = label]
  /\ expected' = [expected EXCEPT ![p] = identity]

-----------------------------------------------------------------------------
(* acquire *)

\* os.open(path, O_CREAT | O_EXCL) succeeds.
Create(p) ==
  /\ lockPath = NoLock
  /\ \E l \in Lock :
       /\ writer[l] = NoProc
       /\ writer' = [writer EXCEPT ![l] = p]
       /\ lockPath' = l
       /\ Goto(p, "writing", l)
  /\ UNCHANGED <<aside, preserved, complete>>

Acquire(p) ==
  /\ pc[p] = "idle"
  /\ \/ Create(p)
     \/ /\ lockPath # NoLock
        /\ Goto(p, "inspect", NoLock)
        /\ UNCHANGED <<aside, lockPath, preserved, writer, complete>>

\* The one further creation after _handle_existing_lock returned.
CreateAgain(p) ==
  /\ pc[p] = "retry"
  /\ \/ Create(p)
     \/ /\ lockPath # NoLock
        /\ Goto(p, "idle", NoLock)
        /\ UNCHANGED <<aside, lockPath, preserved, writer, complete>>

\* _handle_existing_lock reads what the path names; an unreadable lock is an error.
Inspect(p) ==
  /\ pc[p] = "inspect"
  /\ \/ /\ lockPath = NoLock
        /\ Goto(p, "retry", NoLock)
     \/ /\ lockPath # NoLock
        /\ IF lockPath \in complete
             THEN Goto(p, "probe", lockPath)
             ELSE Goto(p, "idle", NoLock)
  /\ UNCHANGED <<aside, lockPath, preserved, writer, complete>>

\* It then decides on what it has read, whatever the path names by now: a lock
\* that is foreign, active or not to be recovered is an error.
Probe(p) ==
  /\ pc[p] = "probe"
  /\ IF Stale(p, expected[p]) /\ p \in Recoverers
       THEN Goto(p, "recover", expected[p])
       ELSE Goto(p, "idle", NoLock)
  /\ UNCHANGED <<aside, lockPath, preserved, writer, complete>>

\* The metadata is written and synced, or the write fails after any part of
\* it: a failed writer has to take its own file away again.  When fstat of the
\* new file fails the file cannot be identified and is left in place.
WriteMetadata(p) ==
  /\ pc[p] = "writing"
  /\ \/ /\ complete' = complete \cup {expected[p]}
        /\ Goto(p, "held", expected[p])
     \/ /\ complete' \in {complete, complete \cup {expected[p]}}
        /\ Goto(p, "discard", expected[p])
     \/ /\ complete' = complete
        /\ Goto(p, "idle", NoLock)
  /\ UNCHANGED <<aside, lockPath, preserved, writer>>

-----------------------------------------------------------------------------
(* _quarantine_current: os.replace of whatever the path names by now *)

MoveAside(p, label) ==
  /\ lockPath # NoLock
  /\ aside' = [aside EXCEPT ![p] = lockPath]
  /\ lockPath' = NoLock
  /\ Goto(p, label, expected[p])
  /\ UNCHANGED <<preserved, writer, complete>>

\* The path names nothing any more, or the replace fails.
NothingMoved(p, label) ==
  /\ Goto(p, label, NoLock)
  /\ UNCHANGED <<aside, lockPath, preserved, writer, complete>>

QuarantineStale(p) ==
  /\ pc[p] = "recover"
  /\ \/ MoveAside(p, "verifyRecover")
     \/ lockPath = NoLock /\ NothingMoved(p, "retry")
     \/ lockPath # NoLock /\ NothingMoved(p, "idle")

QuarantineCreated(p) ==
  /\ pc[p] = "discard"
  /\ \/ MoveAside(p, "verifyDiscard")
     \/ NothingMoved(p, "idle")

\* release; a missing file makes it report False.  A failing replace raises and
\* leaves the object its owner, so it changes nothing here.
Release(p) ==
  /\ pc[p] = "held"
  /\ \/ MoveAside(p, "verifyRelease")
     \/ lockPath = NoLock /\ NothingMoved(p, "idle")

-----------------------------------------------------------------------------
(* The quarantined file is deleted only when it is the expected one *)

\* (a variant that deletes whatever it moved)
UncheckedDelete(p) == TRUE

MayDelete(p) ==
  /\ aside[p] = expected[p]
  /\ pc[p] # "verifyDiscard" => aside[p] \in complete
  /\ pc[p] = "verifyRecover" => Stale(p, aside[p])

\* A recoverer probes the PID again, and the writer may have come back to life
\* under it before the unlink.
ConfirmStale(p) ==
  /\ pc[p] = "verifyRecover"
  /\ MayDelete(p)
  /\ Goto(p, "unlink", expected[p])
  /\ UNCHANGED <<aside, lockPath, preserved, writer, complete>>

DeleteQuarantined(p) ==
  /\ \/ pc[p] = "unlink"
     \/ pc[p] \in {"verifyDiscard", "verifyRelease"} /\ MayDelete(p)
  /\ aside' = [aside EXCEPT ![p] = NoLock]
  /\ Goto(p, IF pc[p] = "unlink" THEN "retry" ELSE "idle", NoLock)
  /\ UNCHANGED <<lockPath, preserved, writer, complete>>

\* A changed, unreadable or active file, or one whose unlink failed.
KeepQuarantined(p) ==
  /\ pc[p] \in Verifying \cup {"unlink"}
  /\ Goto(p, "restore", NoLock)
  /\ UNCHANGED <<aside, lockPath, preserved, writer, complete>>

\* _restore_quarantine: os.link never replaces a file, so a path taken in the
\* meantime keeps its file and the quarantine stays; so it does when the link
\* or the unlink that follows it fails.
LinkBack(p) == lockPath = NoLock /\ lockPath' = aside[p]

StayAside(p) == preserved' = preserved \cup {aside[p]}

Restore(p) ==
  /\ pc[p] = "restore"
  /\ \/ LinkBack(p) /\ preserved' = preserved
     \/ LinkBack(p) /\ StayAside(p)
     \/ lockPath' = lockPath /\ StayAside(p)
  /\ aside' = [aside EXCEPT ![p] = NoLock]
  /\ Goto(p, "idle", NoLock)
  /\ UNCHANGED <<writer, complete>>

-----------------------------------------------------------------------------
(* Processes die at any step and leave every file where it is; a PID may be *)
(* given to a new bootstrap process.                                        *)

Crash(p) ==
  /\ Alive(p)
  /\ preserved' = preserved \cup ({aside[p]} \ {NoLock})
  /\ aside' = [aside EXCEPT ![p] = NoLock]
  /\ Goto(p, "dead", NoLock)
  /\ UNCHANGED <<lockPath, writer, complete>>

ReusePid(p) ==
  /\ pc[p] = "dead"
  /\ Goto(p, "idle", NoLock)
  /\ UNCHANGED <<aside, lockPath, preserved, writer, complete>>

Step(p) ==
  \/ Acquire(p) \/ CreateAgain(p) \/ Inspect(p) \/ Probe(p) \/ WriteMetadata(p)
  \/ QuarantineStale(p) \/ QuarantineCreated(p) \/ Release(p)
  \/ ConfirmStale(p) \/ DeleteQuarantined(p) \/ KeepQuarantined(p) \/ Restore(p)
  \/ Crash(p) \/ ReusePid(p)

Next == \E p \in Proc : Step(p)

Spec == Init /\ [][Next]_vars

-----------------------------------------------------------------------------
(* Properties *)

\* Types, and which local state goes with which label: a process has a file in
\* quarantine exactly while it verifies, unlinks or restores it, and an identity
\* exactly while it owns one or has read one that it may remove.
TypeOK ==
  /\ pc \in [Proc -> Label]
  /\ expected \in [Proc -> Lock \cup {NoLock}]
  /\ aside \in [Proc -> Lock \cup {NoLock}]
  /\ lockPath \in Lock \cup {NoLock}
  /\ preserved \subseteq Lock
  /\ writer \in [Lock -> Proc \cup {NoProc}]
  /\ complete \subseteq Lock
  /\ \A p \in Proc :
       /\ aside[p] # NoLock <=> pc[p] \in Verifying \cup {"unlink", "restore"}
       /\ expected[p] # NoLock <=> pc[p] \in Verifying \cup Owning \cup Recovering

\* The lock files some directory entry still names.
Present == ({lockPath} \cup {aside[p] : p \in Proc} \cup preserved) \ {NoLock}

\* Two bootstrap processes never both believe they hold the lock.
MutualExclusion ==
  \A p, q \in Proc : pc[p] = "held" /\ pc[q] = "held" => p = q

\* Whatever contenders do, the lock file of a live owner is never deleted: at
\* worst it is moved to a quarantine and preserved there.  Recovery decides on
\* an early read of the lock and deletes later, so another process may have
\* replaced the file in between.
HeldLockSurvives ==
  \A p \in Proc : pc[p] = "held" => expected[p] \in Present

\* A lock file whose writer died before its metadata was complete is never
\* deleted by any contender: it fails closed until somebody inspects it.
TruncatedLockStays ==
  [][\A l \in Present \ complete :
       (\A p \in Proc : pc[p] \in Owning \cup Verifying => expected[p] # l)
         => l \in Present']_vars

\* An owner's release takes away the owner's own file: it never finds that the
\* path names somebody else's lock.
ReleaseTakesOwnLock ==
  \A p \in Proc : pc[p] = "verifyRelease" => aside[p] = expected[p]
=============================================================================
