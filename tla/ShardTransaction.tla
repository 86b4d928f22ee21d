---------------------------- MODULE ShardTransaction ----------------------------
(* The transaction under which write_parquet_shards publishes prepared data       *)
(* (src/bitguard_bnn/out_of_core/shard.py), on a POSIX system, where an entry is   *)
(* deleted by moving it into the private trash directory and unlinking it there.   *)
(*                                                                                 *)
(* One builder runs at a time (ShardLock).  Everything on disk survives a crash:   *)
(* the entries in the output directory and in the trash, the journal, and the      *)
(* anchor kept in the lock file.  A rewrite of the journal or of the anchor is one *)
(* step: ShardJournal shows that recovery sees the old value or the new one.       *)
EXTENDS Integers, Sequences, FiniteSets

CONSTANTS Shards,        \* how many shard files a build publishes
          Directories,   \* how many nested partition directories hold them
          MaxCrashes, MaxInterrupts, MaxCalls

ASSUME SizeAssumption == Shards \in Nat \ {0} /\ Directories \in Nat \ {0}
ASSUME LimitAssumption ==
    MaxCrashes \in Nat /\ MaxInterrupts \in Nat /\ MaxCalls \in Nat \ {0}

VARIABLES
    fs,         \* the entries that exist under their own name
    trash,      \* the entries in the private trash directory
    content,    \* what the private file of an anchored write holds
    jrn,        \* what the journal says (kept in the anchor while it is retired)
    anc,        \* the lock file's anchor: the phase of each anchored file
    intent,     \* the journal's intent to retire one entry, and its phase
    debt,       \* the anchor's intent to retire one entry, and its phase
    pc,         \* what the builder does next
    mode,       \* within "recover", "build" or the exception handler, "handle"
    back,       \* where the builder goes on when the entry is retired
    refusal,    \* why the last call refused to touch the output
    discarded,  \* how many directories the trash of the verifications holds
    crashes, interrupts, calls

debts == <<intent, debt>>
disk == <<fs, trash, content, jrn, anc, debts>>
process == <<pc, mode, back, refusal>>
aside == <<discarded, crashes, interrupts, calls>>
vars == <<disk, process, aside>>
--------------------------------------------------------------------------------
(* The entries.                                                                    *)

Temporary == <<"temporary", 0>>          \* the journal before it has its name
Journal == <<"journal", 0>>
OwnerInit == <<"owner", 0>>              \* the owner marker before it has its name
Owner == <<"owner", 1>>
Partial == <<"partial", 0>>              \* the manifest before it has its name
Manifest == <<"manifest", 0>>
Work == <<"work", 0>>
Runs == <<"inventory", 0>>               \* the sorted runs and merges of the build
Staged(i) == <<"inventory", i>>
Final(i) == <<"final", i>>
Staging == <<"directory", 0>>            \* a public directory before it has its name
Directory(i) == <<"directory", i>>
Verifying == <<"verify", 0>>             \* the work directory of a verification
Nothing == <<"nothing", 0>>

Shard == 1..Shards
Anchored == {"temporary", "owner", "manifest"}
Private == [temporary |-> Temporary, owner |-> OwnerInit, manifest |-> Partial]
Public == [temporary |-> Journal, owner |-> Owner, manifest |-> Manifest]

Published == {i \in Shard : Final(i) \in fs}
NoDebt == [kind |-> "none", entry |-> Nothing, phase |-> "none"]
NoJournal == [state |-> "none"]

(* What a new transaction writes into its journal.                                 *)
NewTransaction ==
    [state |-> "initializing", inventory |-> {}, removed |-> {}, prefix |-> 0,
     made |-> 0, making |-> "none", undone |-> {}, undo |-> 0, unmade |-> <<>>]

(* The entries of the work directory, and how late in the order of the cleanup: the *)
(* deepest entry goes first, and within a directory the last name.                 *)
Inventoried == {Staged(i) : i \in Shard} \cup {Runs, Owner}
Inventory == Inventoried \cap fs
Depth(e) == IF e = Owner THEN 0 ELSE e[2] + 1
Deepest(entries) == CHOOSE e \in entries : \A other \in entries : Depth(other) <= Depth(e)

(* The retirement under way: the anchor's, or else the one the journal asks for.   *)
Due == IF debt # NoDebt THEN debt ELSE intent
AnchorKinds == Anchored \cup {"journal"}

(* The anchor can be read while every entry of the private trash is named by a     *)
(* durable intent; the journal's counts as long as the journal has its name.       *)
Readable ==
    trash \subseteq {debt.entry} \cup (IF Journal \in fs THEN {intent.entry} ELSE {})
--------------------------------------------------------------------------------
(* Steps shared by the routines.                                                   *)

Goto(label) == pc' = label /\ UNCHANGED <<mode, back, refusal>>

(* The call raises and leaves the disk as it is.  Within recovery, every later     *)
(* call meets the same disk and raises again.                                      *)
Refuse(reason) ==
    /\ IF mode = "recover" THEN pc' = "refused" /\ refusal' = reason
                           ELSE pc' = "down" /\ UNCHANGED refusal
    /\ UNCHANGED <<disk, mode, back>>

(* Record the intent to retire an entry, then go on at label once it is gone.      *)
Retire(kind, entry, label) ==
    /\ LET asked == [kind |-> kind, entry |-> entry, phase |-> "intended"] IN
       IF kind \in AnchorKinds THEN debt' = asked /\ UNCHANGED intent
                              ELSE intent' = asked /\ UNCHANGED debt
    /\ pc' = "retire" /\ back' = label
    /\ UNCHANGED <<mode, refusal>>

Resume(label) ==
    /\ pc' = "retire" /\ back' = label
    /\ UNCHANGED <<disk, mode, refusal>>

RecordPhase(phase) ==
    IF debt # NoDebt THEN debt' = [debt EXCEPT !.phase = phase] /\ UNCHANGED intent
                     ELSE intent' = [intent EXCEPT !.phase = phase] /\ UNCHANGED debt

Rename(from, to) == fs' = (fs \ {from}) \cup {to}

(* A private file is created under an intent, its inode is anchored while it is    *)
(* empty, its bytes are written, and its full identity is anchored.                *)
AnchoredWrite(k) ==
    \/ /\ anc[k] = "none"
       /\ anc' = [anc EXCEPT ![k] = "initializing"]
       /\ UNCHANGED <<fs, content>>
    \/ /\ anc[k] = "initializing" /\ Private[k] \notin fs
       /\ fs' = fs \cup {Private[k]}
       /\ content' = [content EXCEPT ![k] = "empty"]
       /\ UNCHANGED anc
    \/ /\ anc[k] = "initializing" /\ Private[k] \in fs
       /\ anc' = [anc EXCEPT ![k] = "created"]
       /\ UNCHANGED <<fs, content>>
    \/ /\ anc[k] = "created" /\ content[k] # "full"
       /\ content' = [content EXCEPT ![k] = IF @ = "empty" THEN "torn" ELSE "full"]
       /\ UNCHANGED <<fs, anc>>
    \/ /\ anc[k] = "created" /\ content[k] = "full"
       /\ anc' = [anc EXCEPT ![k] = "active"]
       /\ UNCHANGED <<fs, content>>

--------------------------------------------------------------------------------
(* The build.                                                                      *)

Build(label) == mode = "build" /\ pc = label

(* Recovery is over: no work directory of another transaction or of a verification *)
(* may be left.                                                                    *)
Begin ==
    /\ mode = "recover" /\ pc = "begin"
    /\ IF {Work, Verifying} \cap fs # {}
         THEN Refuse("stale_work")
         ELSE /\ pc' = "temporary" /\ mode' = "build"
              /\ UNCHANGED <<disk, back, refusal>>
    /\ UNCHANGED aside

WriteTemporary ==
    /\ Build("temporary")
    /\ AnchoredWrite("temporary")
    /\ Goto("temporary")
    /\ UNCHANGED <<trash, jrn, debts, aside>>

PublishJournal ==
    /\ Build("temporary") /\ anc.temporary = "active"
    /\ \/ /\ anc.journal = "none"
          /\ anc' = [anc EXCEPT !.journal = "transition"]
          /\ UNCHANGED <<fs, jrn>> /\ Goto("temporary")
       \/ /\ anc.journal = "transition" /\ Temporary \in fs
          /\ Rename(Temporary, Journal) /\ jrn' = NewTransaction
          /\ UNCHANGED anc /\ Goto("temporary")
       \/ /\ anc.journal = "transition" /\ Temporary \notin fs
          /\ anc' = [anc EXCEPT !.journal = "active", !.temporary = "none"]
          /\ UNCHANGED <<fs, jrn>> /\ Goto("work")
    /\ UNCHANGED <<trash, content, debts, aside>>

MakeWork ==
    /\ Build("work")
    /\ \/ /\ Work \notin fs
          /\ fs' = fs \cup {Work}
          /\ UNCHANGED jrn /\ Goto("work")
       \/ /\ Work \in fs
          /\ jrn' = [jrn EXCEPT !.state = "owner_initializing"]
          /\ UNCHANGED fs /\ Goto("owner")
    /\ UNCHANGED <<trash, content, anc, debts, aside>>

WriteOwnerMarker ==
    /\ Build("owner")
    /\ \/ AnchoredWrite("owner")
       \/ /\ anc.owner = "active" /\ OwnerInit \in fs
          /\ Rename(OwnerInit, Owner)
          /\ UNCHANGED <<content, anc>>
    /\ Goto("owner")
    /\ UNCHANGED <<trash, jrn, debts, aside>>

StartBuilding ==
    /\ Build("owner") /\ anc.owner = "active" /\ Owner \in fs
    /\ \/ /\ jrn.state = "owner_initializing"
          /\ jrn' = [jrn EXCEPT !.state = "building"]
          /\ UNCHANGED anc /\ Goto("owner")
       \/ /\ jrn.state = "building"
          /\ anc' = [anc EXCEPT !.owner = "none"]
          /\ UNCHANGED jrn /\ Goto("build")
    /\ UNCHANGED <<fs, trash, content, debts, aside>>

(* Runs are sorted, merged and joined with the membership, then cut into shards.   *)
WriteRuns ==
    /\ Build("build") /\ Runs \notin fs
    /\ fs' = fs \cup {Runs}
    /\ Goto("build")
    /\ UNCHANGED <<trash, content, jrn, anc, debts, aside>>

StageShard ==
    /\ Build("build") /\ Runs \in fs
    /\ \E i \in Shard :
         /\ Staged(i) \notin fs /\ \A j \in 1..(i - 1) : Staged(j) \in fs
         /\ fs' = fs \cup {Staged(i)}
         /\ Goto(IF i = Shards THEN "built" ELSE "build")
    /\ UNCHANGED <<trash, content, jrn, anc, debts, aside>>

(* A variant of Built that ends a candidate build without the cleanup.             *)
BuiltWithoutCleanup ==
    /\ Build("built")
    /\ IF Manifest \in fs
         THEN Goto("remove") /\ UNCHANGED disk
         ELSE /\ jrn' = [jrn EXCEPT !.state = "publishing"]
              /\ Goto("directories")
              /\ UNCHANGED <<fs, trash, content, anc, debts>>
    /\ UNCHANGED aside

(* If a manifest is already published, the build was only a candidate to compare   *)
(* with it; otherwise publication starts, into an output that holds nothing.       *)
Built ==
    /\ Build("built")
    /\ IF Manifest \in fs
         THEN Goto("prepare") /\ UNCHANGED disk
         ELSE /\ jrn' = [jrn EXCEPT !.state = "publishing"]
              /\ Goto("directories")
              /\ UNCHANGED <<fs, trash, content, anc, debts>>
    /\ UNCHANGED aside

MakeDirectory ==
    /\ Build("directories") /\ jrn.made < Directories
    /\ \/ /\ jrn.making = "none"
          /\ jrn' = [jrn EXCEPT !.making = "initializing"]
          /\ UNCHANGED fs
       \/ /\ jrn.making = "initializing" /\ Staging \notin fs
          /\ fs' = fs \cup {Staging}
          /\ UNCHANGED jrn
       \/ /\ jrn.making = "initializing" /\ Staging \in fs
          /\ jrn' = [jrn EXCEPT !.making = "staged"]
          /\ UNCHANGED fs
       \/ /\ jrn.making = "staged" /\ Staging \in fs
          /\ Rename(Staging, Directory(jrn.made + 1))
          /\ UNCHANGED jrn
       \/ /\ jrn.making = "staged" /\ Staging \notin fs
          /\ jrn' = [jrn EXCEPT !.made = @ + 1, !.making = "none"]
          /\ UNCHANGED fs
    /\ Goto("directories")
    /\ UNCHANGED <<trash, content, anc, debts, aside>>

PublishShard ==
    /\ Build("directories") /\ jrn.made = Directories
    /\ \/ /\ jrn.prefix < Shards /\ Staged(jrn.prefix + 1) \in fs
          /\ Rename(Staged(jrn.prefix + 1), Final(jrn.prefix + 1))
          /\ UNCHANGED jrn /\ Goto("directories")
       \/ /\ jrn.prefix < Shards /\ Staged(jrn.prefix + 1) \notin fs
          /\ jrn' = [jrn EXCEPT !.prefix = @ + 1]
          /\ UNCHANGED fs /\ Goto("directories")
       \/ /\ jrn.prefix = Shards
          /\ UNCHANGED <<fs, jrn>> /\ Goto("prepare")
    /\ UNCHANGED <<trash, content, anc, debts, aside>>

WriteManifest ==
    /\ Build("manifest")
    /\ \/ AnchoredWrite("manifest") /\ Goto("manifest")
       \/ /\ anc.manifest = "active" /\ Partial \in fs
          /\ Rename(Partial, Manifest)
          /\ UNCHANGED <<content, anc>> /\ Goto("manifest")
       \/ /\ anc.manifest = "active" /\ Partial \notin fs
          /\ anc' = [anc EXCEPT !.manifest = "published"]
          /\ UNCHANGED <<fs, content>> /\ Goto("remove")
    /\ UNCHANGED <<trash, jrn, debts, aside>>

(* The published shards that the candidate was compared with are verified, in a    *)
(* work directory of the verification's own.                                       *)
StartVerifying ==
    /\ Build("verify")
    /\ fs' = fs \cup {Verifying}
    /\ Goto("verified")
    /\ UNCHANGED <<trash, content, jrn, anc, debts, aside>>

(* The work directory moves into the verifications' own trash, under a fresh name,  *)
(* and is removed there; no later call looks at what this trash holds.             *)
MoveVerifying ==
    /\ Build("verified")
    /\ fs' = fs \ {Verifying}
    /\ discarded' = discarded + 1
    /\ Goto("discard")
    /\ UNCHANGED <<trash, content, jrn, anc, debts, crashes, interrupts, calls>>

EndVerifying ==
    /\ Build("discard")
    /\ discarded' = discarded - 1
    /\ Goto("done")
    /\ UNCHANGED <<disk, crashes, interrupts, calls>>
--------------------------------------------------------------------------------
(* Retirement: the entry under the intent moves into the trash, is unlinked there,  *)
(* and the progress is recorded between the steps.  A shard's retirement records   *)
(* none, the owner marker's and a public directory's stop at "quarantined".        *)

RecordsQuarantine == Due.kind # "shard"
RecordsGone == Due.kind \in {"temporary", "manifest", "journal", "inventory", "work"}

MoveToTrash ==
    /\ pc = "retire" /\ Due.phase = "intended" /\ Due.entry \in fs
    /\ fs' = fs \ {Due.entry}
    /\ trash' = trash \cup {Due.entry}
    /\ Goto("retire")
    /\ UNCHANGED <<content, jrn, anc, debts, aside>>

RecordMove ==
    /\ pc = "retire" /\ Due.phase = "intended" /\ Due.entry \in trash
    /\ RecordsQuarantine /\ Readable
    /\ RecordPhase("quarantined")
    /\ Goto("retire")
    /\ UNCHANGED <<fs, trash, content, jrn, anc, aside>>

Unlink ==
    /\ pc = "retire" /\ Due.entry \in trash
    /\ Due.phase = "quarantined" \/ ~RecordsQuarantine
    /\ trash' = trash \ {Due.entry}
    /\ Goto(IF RecordsGone THEN "retire" ELSE "retired")
    /\ UNCHANGED <<fs, content, jrn, anc, debts, aside>>

(* A quarantined entry that is no longer in the trash was unlinked before a crash. *)
RecordGone ==
    /\ pc = "retire" /\ Due.phase = "quarantined" /\ Due.entry \notin trash
    /\ IF RecordsGone THEN RecordPhase("gone") ELSE UNCHANGED <<intent, debt>>
    /\ Goto("retired")
    /\ UNCHANGED <<fs, trash, content, jrn, anc, aside>>

ResumeGone ==
    /\ pc = "retire" /\ Due.phase = "gone"
    /\ Goto("retired")
    /\ UNCHANGED <<disk, aside>>

(* An intended entry that is neither under its name nor in the trash: for a shard  *)
(* that is what a crash between the unlink and the record of it leaves.            *)
RetireLost ==
    /\ pc = "retire" /\ Due.phase = "intended"
    /\ Due.entry \notin fs /\ Due.entry \notin trash
    /\ Refuse("retired_shard_is_gone")
    /\ UNCHANGED aside

(* An entry of the trash that no intent names: the anchor is refused.              *)
RefuseUnreadable ==
    /\ ~Readable
    /\ \/ pc = "recover"
       \/ pc = "retire" /\ Due.phase = "intended" /\ Due.entry \in trash
    /\ Refuse("unrecorded_retired_entry")
    /\ UNCHANGED aside

(* The progress of the routine that asked for the retirement is recorded.          *)
Retired(kinds) == pc = "retired" /\ Due.kind \in kinds

FinishPrivateFile ==
    /\ Retired(Anchored)
    /\ anc' = [anc EXCEPT ![Due.kind] = "none"]
    /\ debt' = NoDebt /\ UNCHANGED intent
    /\ Goto(back)
    /\ UNCHANGED <<fs, trash, content, jrn, aside>>

(* A variant of FinishInventoryEntry whose journal is not saved.                    *)
FinishInventoryEntryUnsaved ==
    /\ Retired({"inventory"})
    /\ Goto(back)
    /\ UNCHANGED <<disk, aside>>

(* A variant of FinishInventoryEntry that does not count the entry as removed.     *)
FinishInventoryEntryUncounted ==
    /\ Retired({"inventory"})
    /\ intent' = NoDebt /\ UNCHANGED debt
    /\ Goto(back)
    /\ UNCHANGED <<fs, trash, content, jrn, anc, aside>>

FinishInventoryEntry ==
    /\ Retired({"inventory"})
    /\ jrn' = [jrn EXCEPT !.removed = @ \cup {intent.entry}]
    /\ intent' = NoDebt /\ UNCHANGED debt
    /\ Goto(back)
    /\ UNCHANGED <<fs, trash, content, anc, aside>>

FinishWork ==
    /\ Retired({"work"})
    /\ intent' = NoDebt /\ UNCHANGED debt
    /\ Goto(back)
    /\ UNCHANGED <<fs, trash, content, jrn, anc, aside>>

FinishShard ==
    /\ Retired({"shard"})
    /\ jrn' = [jrn EXCEPT !.undone = @ \cup {jrn.undo}, !.undo = 0]
    /\ intent' = NoDebt /\ UNCHANGED debt
    /\ Goto(back)
    /\ UNCHANGED <<fs, trash, content, anc, aside>>

FinishDirectory ==
    /\ Retired({"directory"})
    /\ jrn' = [jrn EXCEPT !.unmade = Append(@, Due.entry)]
    /\ intent' = NoDebt /\ UNCHANGED debt
    /\ Goto(back)
    /\ UNCHANGED <<fs, trash, content, anc, aside>>

(* The journal is gone: the anchor forgets the transaction.                        *)
FinishJournal ==
    /\ Retired({"journal"})
    /\ jrn' = NoJournal /\ debt' = NoDebt /\ intent' = NoDebt
    /\ anc' = [k \in DOMAIN anc |-> "none"]
    /\ Goto(back)
    /\ UNCHANGED <<fs, trash, content, aside>>
--------------------------------------------------------------------------------
(* Cleanup of the work directory, in three routines.                               *)

(* What was removed comes first in the order, the entry under the intent is the     *)
(* next, and what is left is what the directory holds; the entry under the intent   *)
(* may have left already.                                                          *)
Expected == jrn.inventory \ jrn.removed
ProgressHolds ==
    /\ jrn.removed \subseteq jrn.inventory
    /\ \A gone \in jrn.removed, e \in Expected : Depth(e) < Depth(gone)
    /\ intent.kind = "inventory" => Expected # {} /\ intent.entry = Deepest(Expected)
    /\ Inventory = Expected \ (IF intent.kind = "inventory" /\ intent.entry \notin fs
                                THEN {intent.entry} ELSE {})

(* Before anything in the work directory is removed, all of it is listed in the    *)
(* journal.                                                                        *)
PrepareCleanup ==
    LET next == IF mode = "recover" /\ jrn.state = "publishing"
                  THEN "rollback" ELSE "cleanup" IN
    /\ pc = "prepare"
    /\ IF Work \notin fs
         THEN IF intent.entry = Work THEN Resume(next)
                                   ELSE Goto(next) /\ UNCHANGED disk
       ELSE IF jrn.state \notin {"building", "publishing"}
         THEN Goto(next) /\ UNCHANGED disk
       ELSE IF jrn.inventory # {}
         THEN IF ProgressHolds THEN Goto(next) /\ UNCHANGED disk
                               ELSE Refuse("cleanup_inventory_changed")
       ELSE IF OwnerInit \in fs \/ Owner \notin fs
         THEN Refuse("owner_marker_changed")
       ELSE /\ jrn' = [jrn EXCEPT !.inventory = Inventory, !.removed = {}]
            /\ Goto(next)
            /\ UNCHANGED <<fs, trash, content, anc, debts>>
    /\ UNCHANGED aside

(* A work directory whose owner marker was still being written.                    *)
CleanupOwner ==
    /\ pc = "cleanup" /\ Work \in fs /\ jrn.state = "owner_initializing"
    /\ \/ intent.kind = "work" /\ Resume("cleaned")
       \/ debt.kind = "owner" /\ Resume("cleanup")
       \/ /\ Due = NoDebt /\ anc.owner = "none"
          /\ IF {OwnerInit, Owner} \cap fs = {}
               THEN Retire("work", Work, "cleaned") /\ UNCHANGED <<fs, trash, content, jrn, anc>>
               ELSE Refuse("foreign_work_entry")
       \/ /\ Due = NoDebt /\ anc.owner = "initializing"
          /\ IF OwnerInit \in fs
               THEN Refuse("owner_marker_is_not_anchored")
               ELSE /\ anc' = [anc EXCEPT !.owner = "none"]
                    /\ Goto("cleanup")
                    /\ UNCHANGED <<fs, trash, content, jrn, debts>>
       \/ /\ Due = NoDebt /\ anc.owner \in {"created", "active"}
          /\ IF anc.owner = "created" /\ (OwnerInit \notin fs \/ content.owner = "torn")
               THEN Refuse("owner_marker_is_torn")
               ELSE /\ Retire("owner", IF OwnerInit \in fs THEN OwnerInit ELSE Owner, "cleanup")
                    /\ UNCHANGED <<fs, trash, content, jrn, anc>>
    /\ UNCHANGED aside

(* The listed entries leave one by one, then the directory itself.                 *)
CleanupWork ==
    /\ pc = "cleanup"
    /\ IF Work \notin fs
         THEN Goto("cleaned") /\ UNCHANGED disk
       ELSE IF jrn.state = "initializing"
         THEN Refuse("work_directory_is_not_anchored")
       ELSE /\ jrn.state \in {"building", "publishing"}
            /\ IF intent.kind = "work"
                 THEN Resume("cleaned")
               ELSE IF ~ProgressHolds
                 THEN Refuse("cleanup_inventory_changed")
               ELSE IF intent.kind = "inventory"
                 THEN Resume("cleanup")
               ELSE /\ IF Expected # {}
                         THEN Retire("inventory", Deepest(Expected), "cleanup")
                         ELSE Retire("work", Work, "cleaned")
                    /\ UNCHANGED <<fs, trash, content, jrn, anc>>
    /\ UNCHANGED aside

(* Where the work directory's removal leads.                                       *)
Cleaned ==
    /\ pc = "cleaned"
    /\ Goto(IF jrn.state # "publishing" THEN "remove"
            ELSE IF mode = "build" THEN "manifest"
            ELSE IF mode = "unrolled" THEN "down"
            ELSE "mark")
    /\ UNCHANGED <<disk, aside>>
--------------------------------------------------------------------------------
(* Rollback of what was published.                                                 *)

Candidate ==
    IF Staging \in fs \/ intent.entry = Staging \/ Staging \in {jrn.unmade[k] : k \in DOMAIN jrn.unmade}
      THEN Staging ELSE Directory(jrn.made + 1)
MadeDirectories ==
    (IF jrn.making = "staged" THEN <<Candidate>> ELSE <<>>)
        \o [k \in 1..jrn.made |-> Directory(jrn.made + 1 - k)]

ShardMissing ==
    \E i \in Shard : /\ Final(i) \notin fs /\ Staged(i) \notin fs
                     /\ i \notin jrn.undone /\ i # jrn.undo
PrefixHolds ==
    /\ \A i \in Published, j \in Shard : j < i => j \in Published
    /\ jrn.undone = {} /\ jrn.undo = 0 => \A i \in 1..jrn.prefix : i \in Published
DirectoriesHold ==
    /\ jrn.making # "initializing" \/ Staging \notin fs
    /\ \A k \in (Len(jrn.unmade) + 1)..Len(MadeDirectories) :
         MadeDirectories[k] \in fs \/ MadeDirectories[k] = intent.entry

(* What the journal claims is compared with the disk first.  The exception handler *)
(* goes on with the cleanup when the rollback raises.                              *)
Rollback ==
    /\ pc = "rollback"
    /\ IF ~ShardMissing /\ PrefixHolds /\ DirectoriesHold
         THEN Goto("unpublish") /\ UNCHANGED disk
       ELSE IF mode = "handle"
         THEN /\ pc' = "prepare" /\ mode' = "unrolled"
              /\ UNCHANGED <<disk, back, refusal>>
       ELSE Refuse(IF ShardMissing THEN "published_shard_is_missing"
                   ELSE IF ~PrefixHolds THEN "published_prefix_changed"
                   ELSE "public_directory_is_not_anchored")
    /\ UNCHANGED aside

(* Shards leave last first, then the directories this transaction made.            *)
Unpublish ==
    /\ pc = "unpublish"
    /\ IF intent # NoDebt
         THEN Resume("unpublish")
       ELSE IF Published # {}
         THEN LET last == CHOOSE i \in Published : \A j \in Published : j <= i IN
              /\ jrn' = [jrn EXCEPT !.undo = last]
              /\ Retire("shard", Final(last), "unpublish")
              /\ UNCHANGED <<fs, trash, content, anc>>
       ELSE IF Len(jrn.unmade) < Len(MadeDirectories)
         THEN /\ Retire("directory", MadeDirectories[Len(jrn.unmade) + 1], "unpublish")
              /\ UNCHANGED <<fs, trash, content, jrn, anc>>
       ELSE Goto(IF mode = "handle" THEN "prepare" ELSE "cleanup") /\ UNCHANGED disk
    /\ UNCHANGED aside

MarkRolledBack ==
    /\ pc = "mark"
    /\ jrn' = [jrn EXCEPT !.state = "rolled_back"]
    /\ Goto("remove")
    /\ UNCHANGED <<fs, trash, content, anc, debts, aside>>
--------------------------------------------------------------------------------
(* Removal of the journal, which ends a transaction.                               *)

CommitHolds ==
    IF jrn.state = "publishing"
      THEN /\ anc.manifest \in {"published", "committed"} /\ Manifest \in fs
           /\ jrn.prefix = Shards /\ Published = Shard
      ELSE anc.manifest = "none"

AfterRemoval ==
    IF mode = "build" THEN IF jrn.state = "building" THEN "verify" ELSE "done"
                      ELSE IF mode = "recover" THEN "begin" ELSE "down"

RemoveTransaction ==
    /\ pc = "remove"
    /\ IF ~CommitHolds
         THEN Refuse("manifest_commit_is_incomplete")
       ELSE IF anc.manifest = "published"
         THEN /\ anc' = [anc EXCEPT !.manifest = "committed"]
              /\ Goto("remove")
              /\ UNCHANGED <<fs, trash, content, jrn, debts>>
       ELSE /\ anc' = [anc EXCEPT !.journal = "retiring"]
            /\ Retire("journal", Journal, AfterRemoval)
            /\ UNCHANGED <<fs, trash, content, jrn>>
    /\ UNCHANGED aside
--------------------------------------------------------------------------------
(* Recovery, at the start of every call, and the handler of an exception.          *)

Recovering == mode = "recover" /\ pc = "recover" /\ Readable

CompleteJournalRetirement ==
    /\ Recovering \/ pc = "handle"
    /\ anc.journal = "retiring"
    /\ IF CommitHolds THEN Resume(AfterRemoval)
                      ELSE Refuse("manifest_commit_is_incomplete")
    /\ UNCHANGED aside

(* A manifest that was still being written is retired, one that has its name is    *)
(* published.  The handler goes on to roll back when this raises.                  *)
RecoverManifest ==
    /\ Recovering \/ pc = "handle"
    /\ anc.journal # "retiring"
    /\ \/ debt.kind = "manifest" /\ Resume(pc)
       \/ /\ debt.kind # "manifest"
          /\ anc.manifest = "initializing" /\ Partial \notin fs
          /\ anc' = [anc EXCEPT !.manifest = "none"]
          /\ Goto(pc)
          /\ UNCHANGED <<fs, trash, content, jrn, debts>>
       \/ /\ debt.kind # "manifest"
          /\ \/ anc.manifest = "initializing" /\ Partial \in fs
             \/ anc.manifest = "created" /\ content.manifest = "torn"
          /\ IF mode = "handle" THEN Goto("rollback") /\ UNCHANGED disk
                                ELSE Refuse("manifest_is_not_anchored")
       \/ /\ debt.kind # "manifest"
          /\ \/ anc.manifest = "created" /\ content.manifest # "torn"
             \/ anc.manifest = "active" /\ Partial \in fs
          /\ Retire("manifest", Partial, pc)
          /\ UNCHANGED <<fs, trash, content, jrn, anc>>
       \/ /\ anc.manifest = "active" /\ Partial \notin fs /\ Manifest \in fs
          /\ anc' = [anc EXCEPT !.manifest = "published"]
          /\ Goto(pc)
          /\ UNCHANGED <<fs, trash, content, jrn, debts>>
    /\ UNCHANGED aside

ManifestSettled == anc.manifest \in {"none", "published", "committed"}

(* No journal has its name: one that was still being written is retired.           *)
RecoverWithoutJournal ==
    /\ Recovering /\ anc.journal # "retiring" /\ ManifestSettled
    /\ Journal \notin fs
    /\ \/ debt.kind = "temporary" /\ Resume("recover")
       \/ /\ debt = NoDebt
          /\ \/ anc.temporary = "initializing" /\ Temporary \in fs
             \/ anc.temporary = "created" /\ content.temporary = "torn"
          /\ Refuse("journal_is_not_anchored")
       \/ /\ debt = NoDebt
          /\ anc.temporary = "initializing" /\ Temporary \notin fs
          /\ anc' = [anc EXCEPT !.temporary = "none"]
          /\ Goto("recover")
          /\ UNCHANGED <<fs, trash, content, jrn, debts>>
       \/ /\ debt = NoDebt
          /\ \/ anc.temporary = "created" /\ content.temporary # "torn"
             \/ anc.temporary = "active"
          /\ Retire("temporary", Temporary, "recover")
          /\ UNCHANGED <<fs, trash, content, jrn, anc>>
       \/ /\ anc.temporary = "none"
          /\ anc' = [anc EXCEPT !.journal = "none", !.owner = "none"]
          /\ Goto("begin")
          /\ UNCHANGED <<fs, trash, content, jrn, debts>>
    /\ UNCHANGED aside

(* The journal is accepted, and the anchor is brought to its state.                *)
NormalizeAnchor ==
    /\ Recovering \/ pc = "handle"
    /\ anc.journal # "retiring" /\ ManifestSettled /\ Journal \in fs
    /\ anc' = [anc EXCEPT !.journal = "active", !.temporary = "none",
                 !.owner = IF jrn.state \in {"building", "publishing"} THEN "none" ELSE @]
    /\ Goto(IF mode = "recover" THEN "recovered"
            ELSE IF anc.manifest # "none" THEN "remove"
            ELSE IF jrn.state = "publishing" THEN "rollback"
            ELSE "prepare")
    /\ UNCHANGED <<fs, trash, content, jrn, debts, aside>>

OutputBegun == Published # {} \/ \E k \in 2..Directories : Directory(k) \in fs

(* A variant of RecoverTransaction that does not look for the manifest.            *)
RecoverTransactionBlind ==
    /\ pc = "recovered"
    /\ Goto("prepare")
    /\ UNCHANGED <<disk, aside>>

RecoverTransaction ==
    /\ pc = "recovered"
    /\ IF Manifest \in fs
         THEN IF Work \in fs
                THEN Refuse("completed_transaction_owns_private_work")
              ELSE IF jrn.state = "publishing" /\ Published # Shard
                THEN Refuse("published_shard_identity_changed")
              ELSE Goto("remove") /\ UNCHANGED disk
       ELSE IF jrn.state # "publishing" /\ OutputBegun
         THEN Refuse("incomplete_published_output")
       ELSE Goto("prepare") /\ UNCHANGED disk
    /\ UNCHANGED aside
--------------------------------------------------------------------------------
Init ==
    /\ fs = {} /\ trash = {} /\ debt = NoDebt /\ intent = NoDebt /\ jrn = NoJournal
    /\ content = [k \in Anchored |-> "empty"]
    /\ anc = [journal |-> "none", temporary |-> "none", owner |-> "none", manifest |-> "none"]
    /\ pc = "idle" /\ mode = "recover" /\ back = "recover" /\ refusal = "none"
    /\ discarded = 0 /\ crashes = 0 /\ interrupts = 0 /\ calls = 0

(* A call takes the lock and recovers; after a crash or an exception the user      *)
(* calls again.                                                                    *)
Call ==
    /\ \/ pc = "idle" /\ calls < MaxCalls /\ calls' = calls + 1
       \/ pc = "down" /\ UNCHANGED calls
    /\ mode' = "recover" /\ pc' = "recover" /\ back' = "recover"
    /\ UNCHANGED <<disk, refusal, discarded, crashes, interrupts>>

Return ==
    /\ pc = "done" /\ Goto("idle") /\ UNCHANGED <<disk, aside>>

Crash ==
    /\ pc \notin {"idle", "down", "refused"} /\ crashes < MaxCrashes
    /\ crashes' = crashes + 1
    /\ Goto("down") /\ UNCHANGED <<disk, discarded, interrupts, calls>>

(* An exception, or Ctrl+C, while the transaction is the call's own.               *)
Interrupt ==
    /\ mode = "build" /\ pc # "down" /\ interrupts < MaxInterrupts
    /\ jrn # NoJournal
    /\ interrupts' = interrupts + 1
    /\ pc' = "handle" /\ mode' = "handle"
    /\ UNCHANGED <<disk, back, refusal, discarded, crashes, calls>>

Stopped == pc \in {"idle", "refused"} /\ UNCHANGED vars

Step ==
    \/ Begin \/ WriteTemporary \/ PublishJournal \/ MakeWork \/ WriteOwnerMarker
    \/ StartBuilding \/ WriteRuns \/ StageShard \/ Built \/ MakeDirectory
    \/ PublishShard \/ WriteManifest \/ StartVerifying \/ MoveVerifying
    \/ EndVerifying
    \/ MoveToTrash \/ RecordMove \/ Unlink \/ RecordGone \/ ResumeGone \/ RetireLost
    \/ RefuseUnreadable
    \/ FinishPrivateFile \/ FinishInventoryEntry \/ FinishWork \/ FinishShard
    \/ FinishDirectory \/ FinishJournal
    \/ PrepareCleanup \/ CleanupOwner \/ CleanupWork \/ Cleaned
    \/ Rollback \/ Unpublish \/ MarkRolledBack \/ RemoveTransaction
    \/ CompleteJournalRetirement \/ RecoverManifest \/ RecoverWithoutJournal
    \/ NormalizeAnchor \/ RecoverTransaction
    \/ Call \/ Return

Next == Step \/ Crash \/ Interrupt \/ Stopped

Spec == Init /\ [][Next]_vars
FairSpec == Spec /\ WF_vars(Step)
--------------------------------------------------------------------------------
(* Why a call may refuse the output: an identity that is not anchored yet, what a    *)
(* crash leaves that recovery does not undo, and the other checks.                 *)
NotAnchored ==
    {"journal_is_not_anchored", "owner_marker_is_not_anchored", "owner_marker_is_torn",
     "work_directory_is_not_anchored", "public_directory_is_not_anchored",
     "manifest_is_not_anchored"}
CutShort ==
    {"retired_shard_is_gone", "published_shard_is_missing",
     "completed_transaction_owns_private_work", "unrecorded_retired_entry", "stale_work"}
Disagreements ==
    {"cleanup_inventory_changed", "owner_marker_changed", "foreign_work_entry",
     "published_prefix_changed", "manifest_commit_is_incomplete",
     "published_shard_identity_changed", "incomplete_published_output"}

(* A variable of the wrong type, or an entry retired under an intent of another     *)
(* kind.                                                                           *)
Finals == {Final(i) : i \in Shard}
PublicDirectories == {Directory(k) : k \in 0..Directories}
Entry ==
    {Temporary, Journal, OwnerInit, Partial, Manifest, Work, Verifying}
        \cup Inventoried \cup Finals \cup PublicDirectories
IntentKinds == {"inventory", "work", "shard", "directory"}
Retires(kind) ==
    CASE kind = "temporary" -> {Temporary} [] kind = "owner" -> {OwnerInit, Owner}
      [] kind = "manifest" -> {Partial}    [] kind = "journal" -> {Journal}
      [] kind = "inventory" -> Inventoried [] kind = "work" -> {Work}
      [] kind = "shard" -> Finals          [] kind = "directory" -> PublicDirectories
Retirement(kinds) ==
    {r \in [kind : kinds, entry : Entry, phase : {"intended", "quarantined", "gone"}] :
       r.entry \in Retires(r.kind)}
Journals ==
    [state : {"initializing", "owner_initializing", "building", "publishing", "rolled_back"},
     inventory : SUBSET Inventoried, removed : SUBSET Inventoried, prefix : 0..Shards,
     made : 0..Directories, making : {"none", "initializing", "staged"},
     undone : SUBSET (0..Shards), undo : 0..Shards, unmade : Seq(PublicDirectories)]
AnchorPhases ==
    [journal : {"none", "transition", "active", "retiring"},
     temporary : {"none", "initializing", "created", "active"},
     owner : {"none", "initializing", "created", "active"},
     manifest : {"none", "initializing", "created", "active", "published", "committed"}]
Labels ==
    {"idle", "down", "refused", "done", "recover", "begin", "handle", "recovered",
     "temporary", "work", "owner", "build", "built", "directories", "manifest", "verify",
     "verified", "discard", "retire", "retired", "prepare", "cleanup", "cleaned", "rollback",
     "unpublish", "mark", "remove"}
DiskTypeOK ==
    /\ fs \subseteq Entry /\ trash \subseteq Entry
    /\ content \in [Anchored -> {"empty", "torn", "full"}]
    /\ jrn \in Journals \cup {NoJournal}
    /\ anc \in AnchorPhases
    /\ intent \in Retirement(IntentKinds) \cup {NoDebt}
    /\ debt \in Retirement(AnchorKinds) \cup {NoDebt}
    /\ pc \in Labels /\ mode \in {"recover", "build", "handle", "unrolled"}
    /\ back \in Labels /\ refusal \in {"none"} \cup NotAnchored \cup CutShort \cup Disagreements
    /\ crashes \in 0..MaxCrashes /\ interrupts \in 0..MaxInterrupts /\ calls \in 0..MaxCalls
TypeOK == DiskTypeOK /\ discarded \in Nat

(* A reader trusts the shards once the manifest has its name.  However builds,     *)
(* crashes and exceptions follow each other, it is shown nothing or every shard,   *)
(* and a later candidate build or its recovery never disturbs what is shown        *)
(* (write_parquet_shards, _write_manifest, _recover_transaction).                  *)
Publication == INSTANCE AtomicPublication
                 WITH Data <- Shard, shown <- IF Manifest \in fs THEN Published ELSE {}
PublicationRefines == Publication!Spec

(* Whatever was cut short before it, a call that returns leaves the output complete *)
(* and nothing else: no work directory, no journal, no private file, nothing in the *)
(* trash and no intent; but for the trash of the verifications, where each crash    *)
(* may have left one directory for good (write_parquet_shards, _cleanup_work).      *)
OutputAlone ==
    /\ fs = {Manifest} \cup {Final(i) : i \in Shard}
             \cup {Directory(k) : k \in 1..Directories}
    /\ trash = {} /\ debts = <<NoDebt, NoDebt>> /\ jrn = NoJournal
CleanReturn == pc = "idle" /\ calls > 0 => OutputAlone /\ discarded <= crashes

(* Recovery fails closed while an identity is not anchored yet, and in the states  *)
(* of CutShort.  None of its other checks (cleanup inventory, owner marker,        *)
(* published prefix, manifest commit) ever refuses what this code, interrupted     *)
(* anywhere, left behind.                                                          *)
RefusesOnlyCutShort == refusal \in {"none"} \cup NotAnchored \cup CutShort

(* Every call comes to an end, however often recovery itself is cut short:         *)
(* retirements that resume each other never go round in circles.                   *)
CallsEnd == []<>(pc \in {"idle", "refused"})

(* Rolling published shards back can be resumed: the seam after the removal of a   *)
(* public artifact exists to show that a crash there is recovered from             *)
(* (_after_public_artifact_rollback_removal, and the test named                    *)
(* test_public_artifact_rollback_is_itself_crash_resumable).                       *)
RollbackIsResumable == refusal # "retired_shard_is_gone"
================================================================================
