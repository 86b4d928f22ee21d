------------------------------ MODULE Preparation ------------------------------
(* prepare_full_dataset of out_of_core/prepare.py, called again and again with *)
(* one generation's output directory: the raw source is copied to a verified   *)
(* snapshot, read in five passes, and what the passes make is published one    *)
(* immutable artifact after another, the descriptor last. A call may be killed *)
(* or raise anywhere, power may be lost, and the raw source may be edited      *)
(* while it is read; a later call adopts what it finds.                        *)
(* Of write_parquet_shards, whose inside is in ShardTransaction, only the end  *)
(* shows here, and that a later call may refuse what is left of it for good.   *)
EXTENDS PreparedArtifacts, Naturals, Sequences

CONSTANTS Block, Version, \* parts of the raw source, and what may be in a part
          MaxFaults, MaxEdits

PreparationAssumption ==
  /\ Manifest \in [Block -> Version] /\ MaxFaults \in Nat /\ MaxEdits \in Nat
  /\ None # {Manifest} /\ None \notin [Block -> Version]

Order == <<"config", "plan", "proof", "split", "membership", "splitManifest",
           "imputation", "anova", "calibration", "preprocessor", "features",
           "materialization", "shards", "verification", "descriptor", "returned">>
Passes == {"plan", "split", "imputation", "anova", "calibration", "materialization"}
DirectoryOf(a) ==
  IF a \in {"membership", "splitManifest"} THEN "split"
  ELSE IF a = "descriptor" THEN "control" ELSE "output"
Turn(step) == CHOOSE i \in DOMAIN Order : Order[i] = step
After(step) == Order[Turn(step) + 1]
Immutable == Artifact \ {"membership", "splitManifest"}

VARIABLES
  raw,      \* contents of the raw source
  stat,     \* what lstat tells of it: every edit changes it
  run,      \* the call under way
  faults, edits,
  halved,   \* a crash has left one half of the split publication
  leftover  \* the shards' directory holds a transaction that its recovery refuses,
            \* or the work directory of a verification
vars == <<raw, stat, disk, durable, run, faults, edits, halved, leftover>>

Idle == [step |-> "idle", pin |-> 0, snapshot |-> None, unread |-> {}, read |-> <<>>,
         made |-> {}, linked |-> FALSE]

Init ==
  /\ raw = Manifest /\ stat = 0
  /\ disk = [a \in Artifact |-> None] /\ durable = disk
  /\ run = Idle
  /\ faults = 0 /\ edits = 0 /\ halved = FALSE /\ leftover = FALSE

At(step) == run.step = step
Go(step) == run' = [run EXCEPT !.step = step, !.linked = FALSE]
Refuse == Go("refused")
Outside == UNCHANGED <<raw, stat, faults, edits, halved, leftover>>
Stored == UNCHANGED <<disk, durable>>
Over == run.step \in {"idle", "refused", "blocked", "raised", "returned"}

\* A call verifies the descriptor it finds, or starts to prepare.
Call ==
  /\ Over
  /\ run' = [Idle EXCEPT !.step = IF disk["descriptor"] # None THEN "verify" ELSE "config"]
  /\ Stored /\ Outside

\* verify_prepared_dataset: every artifact and the raw source, by checksum; the
\* shards' directory may hold nothing that another call has left.
Verify ==
  /\ At("verify")
  /\ IF raw = Manifest /\ \A a \in Artifact : disk[a] = {Manifest}
     THEN Go(IF leftover THEN "blocked" ELSE "returned") ELSE Refuse
  /\ Stored /\ Outside

-------------------------------------------------------------------------------
(* Passes over the source.                                                    *)

\* _assert_source_stat: the raw source is the file that was pinned.
Guarded == stat = run.pin

\* write_parquet_shards, which drives the last pass, first recovers what an earlier
\* transaction left and looks for stale work; what it does not undo it refuses, and
\* so does every later call.
RefuseLeftover ==
  /\ At("materialization") /\ run.unread = {} /\ run.read = <<>> /\ leftover
  /\ Go("blocked")
  /\ Stored /\ Outside

\* Planning pins the raw source and reads it; later passes read the snapshot.
StartPass ==
  /\ run.step \in Passes /\ run.unread = {} /\ run.read = <<>>
  /\ ~ (At("materialization") /\ leftover)
  /\ IF At("plan") \/ Guarded
     THEN run' = [run EXCEPT !.pin = IF At("plan") THEN stat ELSE @,
                             !.unread = Block, !.read = [b \in Block |-> None]]
     ELSE Refuse
  /\ Stored /\ Outside

ReadBlock ==
  /\ run.step \in Passes
  /\ \E b \in run.unread :
       IF Guarded
       THEN run' = [run EXCEPT !.unread = @ \ {b},
                      !.read[b] = IF At("plan") THEN raw[b] ELSE run.snapshot[b]]
       ELSE Refuse
  /\ Stored /\ Outside

\* The digest of a snapshot pass is compared with the snapshot's; what the
\* planning pass read becomes the snapshot.
EndPass ==
  /\ run.step \in Passes /\ run.unread = {} /\ run.read # <<>>
  /\ IF Guarded /\ (At("plan") \/ run.read = run.snapshot)
     THEN run' = [run EXCEPT !.step = After(@), !.read = <<>>,
                    !.snapshot = IF At("plan") THEN run.read ELSE @,
                    !.made = @ \cup {run.read}]
     ELSE Refuse
  /\ Stored /\ Outside

\* _verify_source_proof: every file of the snapshot is the manifest's.
ProofHolds == run.snapshot = Manifest

VerifyProof ==
  /\ At("proof")
  /\ IF ProofHolds THEN run' = [run EXCEPT !.step = "split", !.made = {}] ELSE Refuse
  /\ Stored /\ Outside

-------------------------------------------------------------------------------
(* Publications.                                                              *)

Content(a) == IF a = "config" THEN {Manifest} ELSE run.made

Show(a, content) ==
  /\ disk' = [disk EXCEPT ![a] = content]
  /\ UNCHANGED durable

\* fsync of the directory of a.
Flushed(a) ==
  /\ durable' = [x \in Artifact |->
                   IF DirectoryOf(x) = DirectoryOf(a) THEN disk[x] ELSE durable[x]]
  /\ UNCHANGED disk

\* _link_file_noreplace, of the artifact that comes next.
Link ==
  /\ run.step \in Immutable /\ ~ run.linked /\ disk[run.step] = None
  /\ Show(run.step, Content(run.step))
  /\ run' = [run EXCEPT !.linked = TRUE]
  /\ Outside

SyncDirectory ==
  /\ run.linked
  /\ Flushed(run.step)
  /\ Go(After(run.step))
  /\ Outside

\* An artifact that is there is compared, and kept as it is; of the shards'
\* directory the writer's lock and journal flush every entry.
Adopt ==
  /\ run.step \in Immutable /\ ~ run.linked /\ disk[run.step] # None
  /\ IF disk[run.step] = Content(run.step) THEN Go(After(run.step)) ELSE Refuse
  /\ IF At("shards") THEN Flushed("shards") ELSE Stored
  /\ Outside

\* verify_shard_manifest reads all rows of the shards again. It looks for stale work
\* too, of which the transaction that has just ended has left none.
VerifyShards ==
  /\ At("verification")
  /\ IF disk["shards"] = run.made THEN Go("descriptor") ELSE Refuse
  /\ Stored /\ Outside

Half == (disk["membership"] = None) # (disk["splitManifest"] = None)

\* os.replace of the membership, then of its manifest by write_json_atomic.
ReplaceMembership ==
  /\ At("membership") /\ ~ run.linked
  /\ disk["membership"] = None /\ disk["splitManifest"] = None
  /\ Show("membership", run.made)
  /\ run' = [run EXCEPT !.linked = TRUE]
  /\ Outside

ReplaceSplitManifest ==
  /\ At("splitManifest") /\ ~ run.linked
  /\ Show("splitManifest", run.made)
  /\ run' = [run EXCEPT !.linked = TRUE]
  /\ Outside

ExistingSplitMatches ==
  disk["membership"] = run.made /\ disk["splitManifest"] = run.made

\* (a variant that does not flush what an earlier call replaced)
AdoptSplitUnflushed ==
  /\ At("membership") /\ ~ run.linked
  /\ ExistingSplitMatches
  /\ Go("imputation")
  /\ Stored /\ Outside

\* _validate_existing: both halves are there and match.
AdoptSplit ==
  /\ At("membership") /\ ~ run.linked
  /\ ExistingSplitMatches
  /\ Flushed("membership")
  /\ Go("imputation")
  /\ Outside

RefuseSplit ==
  /\ At("membership") /\ ~ run.linked
  /\ Half \/ (disk["membership"] # None /\ ~ ExistingSplitMatches)
  /\ Refuse
  /\ Stored /\ Outside

-------------------------------------------------------------------------------
(* Exceptions.                                                                *)

\* (a variant whose except clause removes the manifest only)
PublishedSplitManifestOnly ==
  IF At("splitManifest") /\ run.linked THEN {"splitManifest"} ELSE {}

\* What build_split_plan published before it raised, the manifest to go first.
PublishedSplit ==
  CASE At("membership") /\ run.linked -> {"membership"}
    [] At("splitManifest") -> {"membership", "splitManifest"}
    [] OTHER -> {}

\* A call that ends too early while it writes shards or verifies them may leave a
\* transaction that was cut at a point its recovery refuses, or the work directory
\* of the verification.
Sharding == {"verify", "materialization", "shards", "verification"}
MayLeave ==
  \/ UNCHANGED leftover
  \/ run.step \in Sharding /\ leftover' = TRUE

\* An exception (a full disk, an interrupt) rises out of the call; the split takes
\* back what it has published, the shards clean up unless that fails as well.
Raise ==
  /\ ~ Over /\ run.step \notin {"undoMembership", "undoSplitManifest", "undone"}
  /\ faults < MaxFaults /\ faults' = faults + 1
  /\ Go(IF "splitManifest" \in PublishedSplit THEN "undoSplitManifest"
        ELSE IF "membership" \in PublishedSplit THEN "undoMembership" ELSE "raised")
  /\ MayLeave
  /\ Stored
  /\ UNCHANGED <<raw, stat, edits, halved>>

UndoSplitManifest ==
  /\ At("undoSplitManifest")
  /\ Show("splitManifest", None)
  /\ Go("undoMembership")
  /\ Outside

UndoMembership ==
  /\ At("undoMembership")
  /\ Show("membership", None)
  /\ Go("undone")
  /\ Outside

SyncUndone ==
  /\ At("undone")
  /\ Flushed("membership")
  /\ Go("raised")
  /\ Outside

-------------------------------------------------------------------------------
(* Faults and edits.                                                          *)

Kill ==
  /\ ~ Over
  /\ faults < MaxFaults /\ faults' = faults + 1
  /\ run' = Idle
  /\ halved' = (halved \/ Half)
  /\ MayLeave
  /\ Stored
  /\ UNCHANGED <<raw, stat, edits>>

\* A directory entry that was not flushed is there or not after a power loss, and so
\* is what a call has left of its shards.
PowerLoss ==
  /\ faults < MaxFaults /\ faults' = faults + 1
  /\ \E lost \in SUBSET {a \in Artifact : disk[a] # durable[a]} :
       disk' = [a \in Artifact |-> IF a \in lost THEN durable[a] ELSE disk[a]]
  /\ durable' = disk'
  /\ run' = Idle
  /\ halved' = (halved \/ Half')
  /\ leftover' = FALSE \/ MayLeave
  /\ UNCHANGED <<raw, stat, edits>>

\* Someone writes to the raw source, or puts the right contents back.
EditRaw ==
  /\ edits < MaxEdits /\ edits' = edits + 1
  /\ \/ \E b \in Block, v \in Version : raw[b] # v /\ raw' = [raw EXCEPT ![b] = v]
     \/ raw # Manifest /\ raw' = Manifest
  /\ stat' = stat + 1
  /\ Stored
  /\ UNCHANGED <<run, faults, halved, leftover>>

Step ==
  \/ Call \/ Verify \/ RefuseLeftover \/ StartPass \/ ReadBlock \/ EndPass \/ VerifyProof
  \/ Link \/ SyncDirectory \/ Adopt \/ VerifyShards
  \/ ReplaceMembership \/ ReplaceSplitManifest \/ AdoptSplit \/ RefuseSplit
  \/ UndoSplitManifest \/ UndoMembership \/ SyncUndone

Next == Step \/ Raise \/ Kill \/ PowerLoss \/ EditRaw

Spec == Init /\ [][Next]_vars

\* Calls run to their end, and the user calls again.
FairSpec == Spec /\ WF_vars(Step)

-------------------------------------------------------------------------------
\* The raw source is not, or was not when the call read it, what it must be.
SourceAtFault ==
  \/ raw # Manifest \/ stat # run.pin
  \/ run.snapshot \notin {None, Manifest}

\* A call is blocked by what an earlier one has left of its shards.
BlockedForCause ==
  /\ leftover
  /\ \A a \in Artifact \ {"shards", "descriptor"} : disk[a] # None

\* A call refuses to go on because of the raw source, or because a crash cut the
\* split publication in half. Nothing else that earlier calls left stands in its
\* way, except, once all but the shards and the descriptor is published, a shard
\* transaction cut where its recovery refuses or a verification's work directory.
RefusedForCause ==
  /\ At("refused") => SourceAtFault \/ (halved /\ Half)
  /\ At("blocked") => BlockedForCause

\* After the last fault and the last edit some call publishes the descriptor,
\* unless the source is wrong, a crash has halved the split, or a call that was cut
\* short has left something of its shards that every later call refuses.
PreparationFinishes ==
  <>[](disk["descriptor"] # None \/ raw # Manifest \/ (halved /\ Half) \/ leftover)

\* A call over the remains of killed calls is refused for its source alone: the
\* design's "forced termination during download, sharding, and training followed
\* by successful resume".
KilledCallsAreResumed == run.step \in {"refused", "blocked"} => SourceAtFault
===============================================================================
