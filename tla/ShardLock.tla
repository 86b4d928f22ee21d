------------------------------- MODULE ShardLock --------------------------------
(* How a builder gets the lock of an output directory                               *)
(* (src/bitguard_bnn/out_of_core/shard.py, _acquire_shard_transaction_lock).  The   *)
(* lock file is prepared under a private name, renamed to its own without           *)
(* replacing, locked with flock, and the initializers that lost the race are        *)
(* retired under a record in the winner's anchor.                                   *)
EXTENDS Naturals, FiniteSetsExt

CONSTANTS Process,
          Nobody,        \* no process, no file
          MaxStarts,     \* bounds: calls, which prepare a file each at most, and kills
          MaxKills

(* A file's number is the place of its random name in the order of the listing.     *)
File == 1..MaxStarts

ASSUME ProcessAssumption == Nobody \notin Process

VARIABLES
    place,      \* under which name each file is
    bytes,      \* how much of its first anchor is written
    used,       \* whether a transaction has written to its anchor
    retiring,   \* the retirement its anchor records
    flock,      \* which process has it locked
    step, todo,   \* what each process does next, and the initializers it has yet to look at
    cand,       \* the initializer it publishes
    opened,     \* the lock file it has open
    stale,      \* the processes whose candidate has changed since they read it
    alone,      \* the process whose call nobody else was awake in, history
    movedBack,  \* whether a lock was ever moved back to its private name, history
    started, kills

lockDisk == <<place, bytes, used, retiring>>
locals == <<todo, cand, opened>>
everything == <<lockDisk, flock, step, locals, stale, alone, movedBack, started, kills>>
---------------------------------------------------------------------------------
Initializers == {f \in File : place[f] = "initializing"}
LockFiles == {f \in File : place[f] = "lock"}
Asleep == {"idle", "refused"}

(* A first anchor says nothing yet: no journal, no owner, no retirement.            *)
Pristine(f) == bytes[f] = "whole" /\ ~used[f] /\ retiring[f].phase = "none"
NoRetirement == [phase |-> "none", file |-> 0]

LockInit ==
    /\ place = [f \in File |-> "unused"] /\ bytes = [f \in File |-> "empty"]
    /\ used = [f \in File |-> FALSE] /\ retiring = [f \in File |-> NoRetirement]
    /\ flock = [f \in File |-> Nobody]
    /\ step = [p \in Process |-> "idle"] /\ todo = [p \in Process |-> {}]
    /\ cand = [p \in Process |-> 0] /\ opened = [p \in Process |-> 0]
    /\ stale = {} /\ alone = Nobody /\ movedBack = FALSE /\ started = 0 /\ kills = 0

Proceed(p, label) ==
    /\ step' = [step EXCEPT ![p] = label]
    /\ alone' = IF alone = p THEN p ELSE Nobody
    /\ UNCHANGED <<started, kills>>
Go(p, label) == Proceed(p, label) /\ UNCHANGED movedBack

Freed(p) == [f \in File |-> IF flock[f] = p THEN Nobody ELSE flock[f]]

(* The call raises, which closes the lock file it has open.                         *)
RefuseLock(p) ==
    /\ Go(p, "refused") /\ flock' = Freed(p)
    /\ UNCHANGED <<lockDisk, locals, stale>>

(* Writing changes the times of the file, by which a publisher would know it.       *)
Touch(f) == stale' = stale \cup {p \in Process : cand[p] = f}

(* An anchor is written only while its file has the name of the lock                *)
(* (_assert_lock_anchor_path).                                                      *)
WriteLockAnchor(p, label, busy, record) ==
    \/ /\ place[opened[p]] = "lock"
       /\ used' = [used EXCEPT ![opened[p]] = @ \/ busy]
       /\ retiring' = [retiring EXCEPT ![opened[p]] = record]
       /\ Touch(opened[p])
       /\ Go(p, label)
       /\ UNCHANGED <<place, bytes, flock, cand, opened>>
    \/ place[opened[p]] # "lock" /\ RefuseLock(p)
---------------------------------------------------------------------------------
(* Publishing the lock (_publish_initialized_lock).                                 *)

Start(p) ==
    /\ step[p] \in Asleep /\ started < MaxStarts
    /\ started' = started + 1
    /\ alone' = IF \A q \in Process \ {p} : step[q] \in Asleep THEN p ELSE Nobody
    /\ \/ LockFiles # {} /\ step' = [step EXCEPT ![p] = "open"] /\ UNCHANGED todo
       \/ /\ LockFiles = {} /\ step' = [step EXCEPT ![p] = "scan"]
          /\ todo' = [todo EXCEPT ![p] = Initializers]
    /\ UNCHANGED <<lockDisk, flock, cand, opened, stale, movedBack, kills>>

Adopt(p, f) ==
    /\ cand' = [cand EXCEPT ![p] = f] /\ stale' = stale \ {p}
    /\ Go(p, "source")

(* A variant of ReadCandidate that gives up on a short initializer.                 *)
ReadCandidateWhole(p) ==
    /\ step[p] = "scan" /\ todo[p] # {}
    /\ LET f == Min(todo[p]) IN
       \/ place[f] = "initializing" /\ Pristine(f) /\ Adopt(p, f)
            /\ UNCHANGED <<lockDisk, flock, todo, opened>>
       \/ ~(place[f] = "initializing" /\ Pristine(f)) /\ RefuseLock(p)

(* The first whole initializer in the listing is adopted, short ones are passed     *)
(* over, and anything else, an empty one too, ends the call.                        *)
ReadCandidate(p) ==
    /\ step[p] = "scan" /\ todo[p] # {}
    /\ LET f == Min(todo[p])
           there == place[f] = "initializing" IN
       \/ /\ there /\ Pristine(f) /\ Adopt(p, f)
          /\ UNCHANGED <<lockDisk, flock, todo, opened>>
       \/ /\ there /\ bytes[f] = "short"
          /\ todo' = [todo EXCEPT ![p] = @ \ {f}] /\ Go(p, "scan")
          /\ UNCHANGED <<lockDisk, flock, cand, opened, stale>>
       \/ ~(there /\ (Pristine(f) \/ bytes[f] = "short")) /\ RefuseLock(p)

CreateInitializer(p) ==
    /\ step[p] = "scan" /\ todo[p] = {}
    /\ \E f \in File :
         /\ place[f] = "unused"
         /\ place' = [place EXCEPT ![f] = "initializing"]
         /\ cand' = [cand EXCEPT ![p] = f] /\ stale' = stale \ {p}
    /\ Go(p, "mark")
    /\ UNCHANGED <<bytes, used, retiring, flock, todo, opened>>

(* The first byte is written once the private trash exists, then the anchor.        *)
MarkInitializer(p) ==
    /\ step[p] = "mark"
    /\ bytes' = [bytes EXCEPT ![cand[p]] = "short"]
    /\ Go(p, "fill") /\ UNCHANGED <<place, used, retiring, flock, locals, stale>>

FillInitializer(p) ==
    /\ step[p] = "fill"
    /\ bytes' = [bytes EXCEPT ![cand[p]] = "whole"]
    /\ Go(p, "reread") /\ UNCHANGED <<place, used, retiring, flock, locals, stale>>

Reread(p) ==
    /\ step[p] = "reread"
    /\ \/ /\ place[cand[p]] = "initializing" /\ Pristine(cand[p]) /\ Adopt(p, cand[p])
          /\ UNCHANGED <<lockDisk, flock, todo, opened>>
       \/ ~(place[cand[p]] = "initializing" /\ Pristine(cand[p])) /\ RefuseLock(p)

Known(p) == place[cand[p]] = "initializing" /\ p \notin stale

(* A publication that fails is forgiven once somebody else's lock is there.         *)
Forgiven(p) == LockFiles # {} /\ Go(p, "open") /\ UNCHANGED <<lockDisk, flock, locals, stale>>

CheckSource(p) ==
    /\ step[p] = "source"
    /\ \/ Known(p) /\ LockFiles = {} /\ Go(p, "rename") /\ UNCHANGED <<lockDisk, flock, locals, stale>>
       \/ Forgiven(p)
       \/ ~Known(p) /\ LockFiles = {} /\ RefuseLock(p)

RenameToLock(p) ==
    /\ step[p] = "rename"
    /\ \/ /\ place[cand[p]] = "initializing" /\ LockFiles = {}
          /\ place' = [place EXCEPT ![cand[p]] = "lock"]
          /\ Go(p, "moved") /\ UNCHANGED <<bytes, used, retiring, flock, locals, stale>>
       \/ place[cand[p]] = "initializing" /\ Forgiven(p)
       \/ place[cand[p]] # "initializing" /\ RefuseLock(p)

(* After the directory is flushed, what has the name of the lock must still be what *)
(* was moved; if it is not, it is moved back.                                       *)
CheckMoved(p) ==
    /\ step[p] = "moved"
    /\ \/ place[cand[p]] = "lock" /\ p \notin stale /\ Go(p, "published")
            /\ UNCHANGED <<lockDisk, flock, locals, stale>>
       \/ /\ place[cand[p]] = "lock" /\ p \in stale
          /\ place' = [place EXCEPT ![cand[p]] = "initializing"]
          /\ movedBack' = TRUE /\ Proceed(p, "refused")
          /\ UNCHANGED <<bytes, used, retiring, flock, locals, stale>>
       \/ place[cand[p]] # "lock" /\ (Forgiven(p) \/ (LockFiles = {} /\ RefuseLock(p)))

CheckPublished(p) ==
    /\ step[p] = "published"
    /\ \/ place[cand[p]] = "lock" /\ p \notin stale /\ Go(p, "open")
            /\ UNCHANGED <<lockDisk, flock, locals, stale>>
       \/ ~(place[cand[p]] = "lock" /\ p \notin stale) /\ RefuseLock(p)
---------------------------------------------------------------------------------
(* Taking the lock (_acquire_shard_transaction_lock).                               *)

Open(p) ==
    /\ step[p] = "open"
    /\ \/ /\ \E f \in LockFiles : opened' = [opened EXCEPT ![p] = f]
          /\ Go(p, "flock") /\ UNCHANGED <<lockDisk, flock, todo, cand, stale>>
       \/ LockFiles = {} /\ RefuseLock(p)

Flock(p) ==
    /\ step[p] = "flock"
    /\ \/ /\ flock[opened[p]] = Nobody /\ bytes[opened[p]] = "whole"
          /\ flock' = [flock EXCEPT ![opened[p]] = p]
          /\ Go(p, "finish") /\ UNCHANGED <<lockDisk, locals, stale>>
       \/ ~(flock[opened[p]] = Nobody /\ bytes[opened[p]] = "whole") /\ RefuseLock(p)

(* The retirement under way: renamed, recorded, moved to the trash, recorded,       *)
(* unlinked, recorded, forgotten. Where its file may be in each phase, or the call  *)
(* raises.                                                                          *)
RetirementOf(p) == retiring[opened[p]]
Loser(p) == RetirementOf(p).file
Recorded == [intended |-> {"initializing", "retiring"}, quarantined |-> {"retiring", "trash"},
             debt_quarantined |-> {"trash", "gone"}, gone |-> {"gone"}]
AsRecorded(p) ==
    /\ place[Loser(p)] \in Recorded[RetirementOf(p).phase]
    /\ place[Loser(p)] = "initializing" => Pristine(Loser(p))
NotedAs(p, phase) ==
    WriteLockAnchor(p, step[p], FALSE, [RetirementOf(p) EXCEPT !.phase = phase]) /\ UNCHANGED todo
MoveLoser(p, to) ==
    /\ place' = [place EXCEPT ![Loser(p)] = to]
    /\ Go(p, step[p]) /\ UNCHANGED <<bytes, used, retiring, flock, locals, stale>>

RetireLoser(p) ==
    /\ step[p] \in {"finish", "retire"} /\ RetirementOf(p).phase # "none"
    /\ \/ /\ AsRecorded(p) /\ RetirementOf(p).phase = "intended"
          /\ \/ place[Loser(p)] = "initializing" /\ MoveLoser(p, "retiring")
             \/ place[Loser(p)] = "retiring" /\ NotedAs(p, "quarantined")
       \/ /\ AsRecorded(p) /\ RetirementOf(p).phase = "quarantined"
          /\ \/ place[Loser(p)] = "retiring" /\ MoveLoser(p, "trash")
             \/ place[Loser(p)] = "trash" /\ NotedAs(p, "debt_quarantined")
       \/ /\ AsRecorded(p) /\ RetirementOf(p).phase = "debt_quarantined"
          /\ \/ place[Loser(p)] = "trash" /\ MoveLoser(p, "gone")
             \/ place[Loser(p)] = "gone" /\ NotedAs(p, "gone")
       \/ /\ AsRecorded(p) /\ RetirementOf(p).phase = "gone"
          /\ WriteLockAnchor(p, IF step[p] = "retire" THEN "clean" ELSE "finish", FALSE, NoRetirement)
          /\ UNCHANGED todo
       \/ ~AsRecorded(p) /\ RefuseLock(p)

(* With no retirement left, the initializers that are there are looked at.          *)
FirstCleanup(p) ==
    /\ step[p] = "finish" /\ RetirementOf(p).phase = "none"
    /\ \/ /\ LockFiles # {} /\ \A f \in File : place[f] # "retiring"
          /\ todo' = [todo EXCEPT ![p] = Initializers]
          /\ Go(p, "clean") /\ UNCHANGED <<lockDisk, flock, cand, opened, stale>>
       \/ ~(LockFiles # {} /\ \A f \in File : place[f] # "retiring") /\ RefuseLock(p)

(* A whole initializer has lost and is retired, a short one is left alone, and      *)
(* anything else ends the call.                                                     *)
CleanInitializer(p) ==
    /\ step[p] = "clean" /\ todo[p] # {}
    /\ LET f == Min(todo[p])
           lost == place[f] = "initializing" /\ f # opened[p] /\ Pristine(f)
           short == place[f] = "initializing" /\ bytes[f] = "short" IN
       \/ /\ lost
          /\ WriteLockAnchor(p, "retire", FALSE, [phase |-> "intended", file |-> f])
          /\ todo' = IF step'[p] = "retire" THEN [todo EXCEPT ![p] = @ \ {f}] ELSE todo
       \/ /\ short /\ todo' = [todo EXCEPT ![p] = @ \ {f}]
          /\ Go(p, "clean") /\ UNCHANGED <<lockDisk, flock, cand, opened, stale>>
       \/ ~lost /\ ~short /\ RefuseLock(p)

EndCleanup(p) ==
    /\ step[p] = "clean" /\ todo[p] = {}
    /\ \/ place[opened[p]] = "lock" /\ Go(p, "holding") /\ UNCHANGED <<lockDisk, flock, locals, stale>>
       \/ place[opened[p]] # "lock" /\ RefuseLock(p)

(* What the holder does is in ShardTransaction; here, that it writes to the anchor. *)
WorkLocked(p) ==
    /\ step[p] = "holding"
    /\ WriteLockAnchor(p, "holding", TRUE, NoRetirement) /\ UNCHANGED todo

ReleaseLock(p) ==
    /\ step[p] = "holding"
    /\ flock' = Freed(p) /\ Go(p, "idle") /\ UNCHANGED <<lockDisk, locals, stale>>

(* A process may be killed anywhere; the kernel drops its lock.                     *)
KillBuilder(p) ==
    /\ step[p] \notin Asleep /\ kills < MaxKills
    /\ kills' = kills + 1
    /\ step' = [step EXCEPT ![p] = "idle"] /\ flock' = Freed(p)
    /\ alone' = IF alone = p THEN p ELSE Nobody
    /\ UNCHANGED <<lockDisk, locals, stale, movedBack, started>>

LockStopped == (\A p \in Process : step[p] \in Asleep) /\ started = MaxStarts /\ UNCHANGED everything

LockNext ==
    \/ \E p \in Process :
         \/ Start(p) \/ ReadCandidate(p) \/ CreateInitializer(p) \/ MarkInitializer(p)
         \/ FillInitializer(p) \/ Reread(p) \/ CheckSource(p) \/ RenameToLock(p)
         \/ CheckMoved(p) \/ CheckPublished(p) \/ Open(p) \/ Flock(p) \/ RetireLoser(p)
         \/ FirstCleanup(p) \/ CleanInitializer(p) \/ EndCleanup(p)
         \/ WorkLocked(p) \/ ReleaseLock(p) \/ KillBuilder(p)
    \/ LockStopped

LockSpec == LockInit /\ [][LockNext]_everything
---------------------------------------------------------------------------------
(* Whoever holds the lock finds it under its name until the lock is released: "a    *)
(* replacement that appears after the owned object moved is never touched"          *)
(* (_move_entry_to_quarantine_exact).                                               *)
HolderKeepsName == \A p \in Process : step[p] = "holding" => place[opened[p]] = "lock"

(* Two builders never hold the output directory at once.                            *)
OneHolder == \A p, q \in Process : step[p] = "holding" /\ step[q] = "holding" => p = q

(* What holds as long as no publisher has moved a lock back to its private name:    *)
(* builders exclude each other and keep the lock's name, and one that nobody else   *)
(* is awake in the call of is refused only over an initializer that is still empty. *)
SoundUntilMovedBack ==
    ~movedBack =>
        /\ OneHolder /\ HolderKeepsName
        /\ \A p \in Process : step[p] = "refused" /\ alone = p =>
             \E f \in File : place[f] = "initializing" /\ bytes[f] = "empty"
================================================================================
