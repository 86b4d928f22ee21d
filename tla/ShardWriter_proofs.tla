--------------------------- MODULE ShardWriter_proofs ---------------------------
(* Any number of saves and of faults: the journal is never refused, and saving it   *)
(* is an atomic durable write.  The invariant says what the disk, the slot being     *)
(* written and the anchor being written have to do with each other.                 *)
EXTENDS ShardJournal, ShardTransaction, WellFoundedInduction, TLAPS

Durable == LastAnchor(flushed.slots)

(* Only the slot that does not hold the newest durable anchor is ever in flux.      *)
SlotsFollow ==
    LET new == Newest(flushed.slots) IN
    /\ SlotsReadable(flushed.slots) /\ Durable \in Anchors
    /\ slots[new] = flushed.slots[new]
    /\ doing \notin {"fill", "sync"} => slots = flushed.slots
    /\ doing = "fill" => slots[Other(new)] = Torn
    /\ doing = "sync" =>
         slots[Other(new)] = Filled(flushed.slots[new].generation + 1, anchor)

(* Before the rewrite is recorded as started the journal is whole.                  *)
JournalWhole ==
    /\ Durable.phase = "active" => Durable.old = Durable.new
    /\ Durable.phase # "rewrite_started" => journal = Durable.old /\ flushed.journal = Durable.old

(* The anchor being written is the one that comes after the durable one.            *)
AnchorFollows ==
    /\ anchor.phase = "replace_intended" =>
         /\ Durable.phase = "active" /\ anchor.old = Durable.old
    /\ anchor.phase = "rewrite_started" =>
         /\ Durable.phase = "replace_intended" /\ anchor = Started(Durable)
    /\ anchor.phase = "active" =>
         /\ Durable.phase = "rewrite_started" /\ anchor = Active(Durable.new)
         /\ journal = Durable.new /\ flushed.journal = Durable.new

StageHolds ==
    /\ doing # "refused"
    /\ Durable.phase # "active" => saving = Durable.new
    /\ doing = "idle" => Durable.phase = "active" /\ saving = None
    /\ doing \in {"tear", "fill", "sync"} => AnchorFollows /\ saving = anchor.new
    /\ doing \in {"rewrite", "rewriting", "flush"} =>
         /\ Durable.phase = "rewrite_started" /\ anchor = Durable
    /\ doing = "flush" => journal = Durable.new

JournalInv == JournalTypeOK /\ SlotsFollow /\ JournalWhole /\ StageHolds
----------------------------------------------------------------------------------
USE DEF Slot, Other, Newest, LastAnchor, Filled, Torn, Active, Started, Anchors, SlotValue, Kept

(* Initially the first anchor is durable.                                           *)
LEMMA JournalInitHolds == JournalInit => JournalInv
  BY ValueAssumption, BoundAssumption
     DEF JournalInit, JournalInv, JournalTypeOK, SlotsFollow, JournalWhole, StageHolds, AnchorFollows, Durable, SlotsReadable

(* The slot that is written does not hold the newest durable anchor.                *)
LEMMA TargetIsOlder ==
  ASSUME JournalInv, doing \in {"tear", "fill"}
  PROVE  /\ Newest(slots) = Newest(flushed.slots)
         /\ slots[Newest(slots)] = flushed.slots[Newest(flushed.slots)]
  BY DEF JournalInv, JournalTypeOK, SlotsFollow, SlotsReadable

(* Once the bytes are complete, the slot that was written is the newest.            *)
LEMMA FilledIsNewest ==
  ASSUME JournalInv, doing = "sync"
  PROVE  Newest(slots) = Other(Newest(flushed.slots)) /\ LastAnchor(slots) = anchor /\ SlotsReadable(slots)
  BY DEF JournalInv, JournalTypeOK, SlotsFollow, SlotsReadable

LEMMA ReplaceKeeps == ASSUME JournalInv, NEW v \in Value, Replace(v) PROVE JournalInv'
  <1> USE DEF Replace, WriteAnchor, Intended, files
  <1>1. JournalTypeOK'
    BY ValueAssumption, BoundAssumption DEF JournalInv, JournalTypeOK, JournalWhole, StageHolds, Durable, SlotsFollow
  <1>2. SlotsFollow'
    BY DEF JournalInv, SlotsFollow, SlotsReadable, Durable
  <1>3. JournalWhole' /\ StageHolds'
    BY DEF JournalInv, JournalWhole, StageHolds, AnchorFollows, Durable
  <1> QED BY <1>1, <1>2, <1>3 DEF JournalInv

LEMMA TearSlotKeeps == ASSUME JournalInv, TearSlot PROVE JournalInv'
  <1>1. JournalTypeOK'
    BY DEF TearSlot, JournalInv, JournalTypeOK
  <1>2. SlotsFollow'
    BY TargetIsOlder DEF TearSlot, JournalInv, JournalTypeOK, SlotsFollow, SlotsReadable, Durable
  <1>3. JournalWhole' /\ StageHolds'
    BY DEF TearSlot, JournalInv, JournalWhole, StageHolds, AnchorFollows, Durable
  <1> QED BY <1>1, <1>2, <1>3 DEF JournalInv

LEMMA FillSlotKeeps == ASSUME JournalInv, FillSlot PROVE JournalInv'
  <1>1. JournalTypeOK'
    BY DEF FillSlot, JournalInv, JournalTypeOK
  <1>2. SlotsFollow'
    BY TargetIsOlder DEF FillSlot, JournalInv, JournalTypeOK, SlotsFollow, SlotsReadable, Durable
  <1>3. JournalWhole' /\ StageHolds'
    BY DEF FillSlot, JournalInv, JournalWhole, StageHolds, AnchorFollows, Durable
  <1> QED BY <1>1, <1>2, <1>3 DEF JournalInv

LEMMA SyncSlotsKeeps == ASSUME JournalInv, SyncSlots PROVE JournalInv'
  <1>1. Durable' = anchor /\ SlotsReadable(flushed.slots)'
    BY FilledIsNewest DEF SyncSlots, Durable, JournalInv, JournalTypeOK, SlotsReadable
  <1>2. JournalTypeOK'
    BY ValueAssumption DEF SyncSlots, WriteAnchor, JournalInv, JournalTypeOK
  <1>3. SlotsFollow'
    BY <1>1 DEF SyncSlots, WriteAnchor, JournalInv, JournalTypeOK, SlotsFollow
  <1>4. JournalWhole'
    BY <1>1 DEF SyncSlots, WriteAnchor, JournalInv, JournalTypeOK, JournalWhole, StageHolds, AnchorFollows
  <1>5. StageHolds'
    BY <1>1 DEF SyncSlots, WriteAnchor, JournalInv, JournalTypeOK, StageHolds, AnchorFollows
  <1> QED BY <1>2, <1>3, <1>4, <1>5 DEF JournalInv

LEMMA RewriteJournalKeeps == ASSUME JournalInv, RewriteJournal PROVE JournalInv'
  <1>1. JournalTypeOK'
    BY DEF RewriteJournal, JournalInv, JournalTypeOK
  <1>2. SlotsFollow'
    BY DEF RewriteJournal, JournalInv, SlotsFollow, SlotsReadable, Durable
  <1>3. JournalWhole' /\ StageHolds'
    BY DEF RewriteJournal, JournalInv, JournalWhole, StageHolds, Durable
  <1> QED BY <1>1, <1>2, <1>3 DEF JournalInv

LEMMA FillJournalKeeps == ASSUME JournalInv, FillJournal PROVE JournalInv'
  <1>1. JournalTypeOK'
    BY DEF FillJournal, JournalInv, JournalTypeOK
  <1>2. SlotsFollow'
    BY DEF FillJournal, JournalInv, SlotsFollow, SlotsReadable, Durable
  <1>3. JournalWhole' /\ StageHolds'
    BY DEF FillJournal, JournalInv, JournalWhole, StageHolds, Durable
  <1> QED BY <1>1, <1>2, <1>3 DEF JournalInv

(* The accepted anchor is begun once the journal is durable.                        *)
LEMMA FlushJournalKeeps == ASSUME JournalInv, FlushJournal PROVE JournalInv'
  <1> USE DEF FlushJournal, WriteAnchor
  <1>1. /\ flushed'.slots = flushed.slots /\ flushed'.journal = journal
        /\ Durable' = Durable /\ anchor' = Active(Durable.new)
        /\ Durable.phase = "rewrite_started" /\ journal = Durable.new
    BY DEF JournalInv, JournalTypeOK, StageHolds, Durable
  <1>2. JournalTypeOK'
    BY <1>1 DEF JournalInv, JournalTypeOK, SlotsFollow
  <1>3. SlotsFollow'
    BY <1>1 DEF JournalInv, SlotsFollow, SlotsReadable
  <1>4. JournalWhole' /\ StageHolds'
    BY <1>1 DEF JournalInv, JournalWhole, StageHolds, AnchorFollows
  <1> QED BY <1>2, <1>3, <1>4 DEF JournalInv

(* What a fault leaves on disk: the anchor that was durable, or the one being         *)
(* written if all of it arrived.                                                    *)
LEMMA FaultLeaves ==
  ASSUME JournalInv, NEW s \in [Slot -> SlotValue], Loses(s, flushed.slots, slots)
  PROVE  /\ SlotsReadable(s)
         /\ \/ LastAnchor(s) = Durable
            \/ doing = "sync" /\ LastAnchor(s) = anchor
  BY DEF JournalInv, JournalTypeOK, SlotsFollow, SlotsReadable, Durable, Loses

LEMMA KillKeeps == ASSUME JournalInv, Kill PROVE JournalInv'
  <1>1. Loses(slots, flushed.slots, slots)
    BY DEF Loses
  <1>2. /\ SlotsReadable(slots)
        /\ LastAnchor(slots) = Durable \/ (doing = "sync" /\ LastAnchor(slots) = anchor)
    BY <1>1, FaultLeaves DEF JournalInv, JournalTypeOK
  <1>3. JournalTypeOK'
    <2> HIDE DEF Anchors, SlotValue
    <2> QED BY BoundAssumption DEF Kill, JournalInv, JournalTypeOK
  <1>4. Durable' = LastAnchor(slots)
    BY DEF Kill, Durable
  <1>5. SlotsFollow'
    BY <1>2, <1>4 DEF Kill, JournalInv, JournalTypeOK, SlotsFollow
  <1>6. JournalWhole'
    BY <1>2, <1>4 DEF Kill, Saving, JournalInv, JournalTypeOK, JournalWhole, StageHolds, AnchorFollows
  <1>7. StageHolds'
    BY <1>2, <1>4 DEF Kill, Saving, JournalInv, JournalTypeOK, StageHolds, AnchorFollows
  <1> QED BY <1>3, <1>5, <1>6, <1>7 DEF JournalInv

LEMMA PowerLossLeaves ==
  ASSUME JournalInv, PowerLoss
  PROVE  /\ slots' \in [Slot -> SlotValue] /\ Loses(slots', flushed.slots, slots)
         /\ flushed'.slots = slots'
  <1>1. slots' \in [Slot -> SlotValue] /\ Loses(slots', flushed.slots, slots)
    BY DEF PowerLoss, JournalInv, JournalTypeOK
  <1>2. flushed'.slots = slots'
    BY DEF PowerLoss
  <1> QED BY <1>1, <1>2

LEMMA PowerLossKeeps == ASSUME JournalInv, PowerLoss PROVE JournalInv'
  <1>1. slots' \in [Slot -> SlotValue] /\ Loses(slots', flushed.slots, slots)
    BY PowerLossLeaves
  <1>2. /\ SlotsReadable(slots')
        /\ LastAnchor(slots') = Durable \/ (doing = "sync" /\ LastAnchor(slots') = anchor)
    BY <1>1, FaultLeaves
  <1>3. JournalTypeOK'
    <2> HIDE DEF Anchors, SlotValue
    <2> QED BY <1>1, BoundAssumption DEF PowerLoss, JournalInv, JournalTypeOK
  <1>4. Durable' = LastAnchor(slots') /\ flushed'.slots = slots' /\ flushed'.journal = journal'
    BY DEF PowerLoss, Durable
  <1>5. SlotsFollow'
    BY <1>2, <1>4 DEF PowerLoss, JournalInv, JournalTypeOK, SlotsFollow
  <1>6. JournalWhole'
    BY <1>2, <1>4 DEF PowerLoss, Saving, JournalInv, JournalTypeOK, JournalWhole, StageHolds, AnchorFollows
  <1>7. StageHolds'
    BY <1>2, <1>4 DEF PowerLoss, Saving, JournalInv, JournalTypeOK, StageHolds, AnchorFollows
  <1> QED BY <1>3, <1>5, <1>6, <1>7 DEF JournalInv

LEMMA RecoverKeeps == ASSUME JournalInv, Recover PROVE JournalInv'
  <1>1. ~Refused /\ LastAnchor(slots) = Durable
    BY DEF Recover, Refused, JournalInv, SlotsFollow, JournalWhole, Durable
  <1>2. JournalTypeOK'
    BY <1>1, ValueAssumption DEF Recover, WriteAnchor, files, JournalInv, JournalTypeOK, SlotsFollow
  <1>3. SlotsFollow'
    BY <1>1 DEF Recover, WriteAnchor, files, JournalInv, SlotsFollow, Durable
  <1>4. /\ UNCHANGED <<slots, journal, flushed>> /\ Durable' = Durable
        /\ \/ Durable.phase = "active" /\ doing' = "idle" /\ saving' = None
           \/ /\ Durable.phase = "replace_intended"
              /\ doing' = "tear" /\ anchor' = Started(Durable) /\ saving' = saving
           \/ /\ Durable.phase = "rewrite_started"
              /\ doing' = "rewrite" /\ anchor' = Durable /\ saving' = saving
    BY <1>1 DEF Recover, WriteAnchor, files, Durable
  <1>5. JournalWhole'
    BY <1>4 DEF JournalInv, JournalWhole
  <1>6. StageHolds'
    BY <1>4 DEF JournalInv, StageHolds, SlotsFollow, AnchorFollows
  <1> QED BY <1>2, <1>3, <1>5, <1>6 DEF JournalInv

(* Every step keeps the invariant.                                                  *)
LEMMA JournalStepKeeps == JournalInv /\ [JournalNext]_journalVars => JournalInv'
  <1> SUFFICES ASSUME JournalInv, [JournalNext]_journalVars PROVE JournalInv'
    OBVIOUS
  <1>1. CASE \E v \in Value : Replace(v)   BY <1>1, ReplaceKeeps
  <1>2. CASE TearSlot   BY <1>2, TearSlotKeeps
  <1>3. CASE FillSlot   BY <1>3, FillSlotKeeps
  <1>4. CASE SyncSlots   BY <1>4, SyncSlotsKeeps
  <1>5. CASE RewriteJournal \/ FillJournal \/ FlushJournal
    BY <1>5, RewriteJournalKeeps, FillJournalKeeps, FlushJournalKeeps
  <1>6. CASE Kill   BY <1>6, KillKeeps
  <1>7. CASE PowerLoss   BY <1>7, PowerLossKeeps
  <1>8. CASE Recover   BY <1>8, RecoverKeeps
  <1>9. CASE UNCHANGED journalVars
    <2>1. UNCHANGED <<slots, journal, flushed, doing, anchor, saving, saves, faults>>
      BY <1>9 DEF journalVars, files
    <2>2. Durable' = Durable /\ JournalTypeOK' /\ AnchorFollows' = AnchorFollows
      BY <2>1 DEF Durable, JournalInv, JournalTypeOK, AnchorFollows
    <2> QED
      BY <2>1, <2>2 DEF JournalInv, SlotsFollow, JournalWhole, StageHolds, SlotsReadable
  <1> QED
    BY <1>1, <1>2, <1>3, <1>4, <1>5, <1>6, <1>7, <1>8, <1>9 DEF JournalNext, JournalStopped

(* The types, for any values and aside.                                            *)
THEOREM JournalTypeCorrect == JournalSpec => []JournalTypeOK
  <1>1. JournalInv => JournalTypeOK   BY DEF JournalInv
  <1> QED BY <1>1, JournalInitHolds, JournalStepKeeps, PTL DEF JournalSpec

(* Whatever the faults, recovery accepts the anchor and the journal that it finds.  *)
THEOREM RecoveryAccepts == JournalSpec => []NeverRefused
  <1>1. JournalInv => NeverRefused
    BY DEF JournalInv, SlotsFollow, JournalWhole, StageHolds, NeverRefused, Refused, Durable
  <1> QED BY <1>1, JournalInitHolds, JournalStepKeeps, PTL DEF JournalSpec

(* A fault keeps what was durable or, if the anchor had arrived, what was being saved. *)
LEMMA FaultMaps == ASSUME JournalInv, Kill \/ PowerLoss PROVE Register!Crash
  <1>1. \E s \in [Slot -> SlotValue] :
          Loses(s, flushed.slots, slots) /\ flushed'.slots = s
    <2> HIDE DEF Anchors, SlotValue
    <2>1. CASE Kill
      <3>1. slots \in [Slot -> SlotValue] /\ Loses(slots, flushed.slots, slots) /\ flushed'.slots = slots
        BY <2>1 DEF Kill, Loses, JournalInv, JournalTypeOK
      <3> QED BY <3>1
    <2>2. CASE PowerLoss
      <3>1. slots' \in [Slot -> SlotValue] /\ Loses(slots', flushed.slots, slots) /\ flushed'.slots = slots'
        BY <2>2, PowerLossLeaves
      <3> QED BY <3>1
    <2> QED BY <2>1, <2>2
  <1>2. Durable' = Durable \/ (doing = "sync" /\ Durable' = anchor)
    BY <1>1, FaultLeaves DEF Durable
  <1>3. Kept(flushed.slots)' = Kept(flushed.slots) \/ (saving # None /\ Kept(flushed.slots)' = saving)
    BY <1>2, ValueAssumption DEF Durable, JournalInv, JournalTypeOK, StageHolds
  <1> QED BY <1>3 DEF Kill, PowerLoss, Saving, Register!Crash, JournalInv, StageHolds

(* The durable write of the intent keeps the value; that of the accepted anchor     *)
(* answers.                                                                         *)
LEMMA SyncMaps ==
  ASSUME JournalInv, SyncSlots
  PROVE  Register!Keep \/ Register!Answer \/ UNCHANGED <<Kept(flushed.slots), saving, doing \notin {"down", "refused"}>>
  <1>1. Durable' = anchor
    BY FilledIsNewest DEF SyncSlots, Durable, JournalInv, JournalTypeOK
  <1>2. /\ AnchorFollows /\ saving = anchor.new /\ saving # None /\ Durable.new = Kept(flushed.slots)
        /\ Kept(flushed.slots)' = anchor.new /\ anchor.phase \in {"active", "replace_intended", "rewrite_started"}
    BY <1>1, ValueAssumption DEF SyncSlots, Durable, JournalInv, JournalTypeOK, StageHolds
  <1>3. CASE anchor.phase = "replace_intended"
    BY <1>2, <1>3 DEF SyncSlots, WriteAnchor, Register!Keep
  <1>4. CASE anchor.phase = "rewrite_started"
    BY <1>2, <1>4 DEF SyncSlots, WriteAnchor, AnchorFollows, JournalInv, SlotsFollow
  <1>5. CASE anchor.phase = "active"
    BY <1>2, <1>5 DEF SyncSlots, WriteAnchor, AnchorFollows, Register!Answer
  <1> QED BY <1>2, <1>3, <1>4, <1>5

(* The rewrite in place behaves as an atomic durable write.                         *)
THEOREM JournalIsAtomic == JournalSpec => RegisterRefines
  <1> DEFINE RegisterVars == <<Kept(flushed.slots), saving, doing \notin {"down", "refused"}>>
  <1>1. JournalInit => Register!Init
    BY ValueAssumption, BoundAssumption DEF JournalInit, Register!Init
  <1>2. JournalInv /\ [JournalNext]_journalVars => [Register!Next]_RegisterVars
    <2> SUFFICES ASSUME JournalInv, [JournalNext]_journalVars PROVE [Register!Next]_RegisterVars
      OBVIOUS
    <2> USE DEF Register!Next
    <2>1. CASE \E v \in Value : Replace(v)
      BY <2>1 DEF Replace, WriteAnchor, files, Register!Ask, JournalInv, StageHolds
    <2>2. CASE TearSlot   BY <2>2 DEF TearSlot
    <2>3. CASE FillSlot   BY <2>3 DEF FillSlot
    <2>4. CASE SyncSlots   BY <2>4, SyncMaps
    <2>5. CASE RewriteJournal   BY <2>5 DEF RewriteJournal
    <2>6. CASE FillJournal   BY <2>6 DEF FillJournal
    <2>7. CASE FlushJournal
      <3>1. flushed'.slots = flushed.slots   BY <2>7 DEF FlushJournal, JournalInv, JournalTypeOK
      <3> QED BY <2>7, <3>1 DEF FlushJournal, WriteAnchor
    <2>8. CASE Kill \/ PowerLoss   BY <2>8, FaultMaps
    <2>9. CASE Recover
      <3>1. ~Refused
        BY <2>9 DEF Recover, Refused, JournalInv, SlotsFollow, JournalWhole, Durable
      <3> QED BY <2>9, <3>1 DEF Recover, WriteAnchor, files, Register!Restart
    <2>10. CASE UNCHANGED journalVars
      BY <2>10 DEF journalVars, files
    <2> QED
      BY <2>1, <2>2, <2>3, <2>4, <2>5, <2>6, <2>7, <2>8, <2>9, <2>10 DEF JournalNext, JournalStopped
  <1> QED
    BY <1>1, <1>2, JournalInitHolds, JournalStepKeeps, PTL DEF JournalSpec, RegisterRefines, Register!Spec

----------------------------------------------------------------------------------
(* THE TRANSACTION.  What is proved of it for any number of shards and directories, *)
(* of crashes, exceptions and calls: the types; that the manifest never shows       *)
(* anything but every shard; that a call that returns leaves nothing behind it; and *)
(* that recovery refuses only what was cut short.  The first invariant, ShownInv,   *)
(* says which private files, journal states and retirements go with which place of  *)
(* the build and carries the publication; the second, TidyInv, says where every     *)
(* entry of the output and of its trash may be, and carries the other two.          *)
HIDE DEF Slot, Other, Newest, LastAnchor, Filled, Torn, Active, Started, Anchors,
         SlotValue, Kept

(* Where a call is over; the other places belong to a mode, and a retirement comes  *)
(* back to one of them.                                                             *)
Ended == {"idle", "down", "refused"}
LabelsOf(m) ==
    CASE m = "build" -> {"temporary", "work", "owner", "build", "built", "directories",
                         "prepare", "cleanup", "cleaned", "manifest", "remove", "verify",
                         "verified", "discard", "done"}
      [] m = "recover" -> {"recover", "begin", "recovered", "prepare", "rollback", "unpublish",
                           "cleanup", "cleaned", "mark", "remove"}
      [] m = "handle" -> {"handle", "rollback", "unpublish", "prepare", "cleanup", "cleaned",
                          "mark", "remove"}
      [] m = "unrolled" -> {"prepare", "cleanup", "cleaned", "remove"}
BacksOf(m) ==
    CASE m = "build" -> {"cleanup", "cleaned", "verify", "done"}
      [] m = "recover" -> {"recover", "begin", "rollback", "unpublish", "cleanup", "cleaned"}
      [] m = "handle" -> {"handle", "unpublish", "cleanup", "cleaned", "down"}
      [] m = "unrolled" -> {"cleanup", "cleaned", "down"}

(* At is the place the mode has reached: while an entry is retired, the one that    *)
(* goes on afterwards.                                                              *)
Retiring == pc \in {"retire", "retired"}
At == IF Retiring THEN back ELSE pc
LabelsFit ==
    /\ pc \in Ended \cup LabelsOf(mode) \cup {"retire", "retired"}
    /\ Retiring => back \in BacksOf(mode)

(* Past these places the journal has its name, and its retirement is not under way. *)
WithJournal == {"work", "owner", "build", "built", "directories", "manifest", "prepare",
                "rollback", "unpublish", "cleanup", "cleaned", "mark", "remove", "recovered"}
JournalStands ==
    /\ Journal \in fs => jrn # NoJournal
    /\ Journal \notin fs /\ debt.kind # "journal" => intent = NoDebt /\ jrn = NoJournal
    /\ anc.journal = "retiring" <=> debt.kind = "journal"
    /\ At \in WithJournal => Journal \in fs /\ debt.kind # "journal"
    /\ Retiring /\ debt.kind # "journal" => At \in WithJournal \cup {"recover", "handle"}
    /\ pc = "begin" => jrn = NoJournal /\ intent = NoDebt
         /\ debt.kind \notin {"journal", "manifest"}

(* The journal is retired like every other entry, and last.                         *)
JournalLeaves ==
    /\ Journal \in trash => debt.kind = "journal" /\ Journal \notin fs
    /\ debt.kind = "journal" /\ debt.phase # "intended" => Journal \notin fs
    /\ debt.kind = "journal" /\ (debt.phase = "gone" \/ pc = "retired")
         => Journal \notin fs \cup trash
    /\ pc = "retired" => Due # NoDebt

(* The state the journal records goes with the place of the build.                  *)
StateFits ==
    /\ mode = "build" /\ pc = "temporary" => jrn = NoJournal \/ jrn.state = "initializing"
    /\ mode = "build" /\ pc = "work" => jrn.state = "initializing"
    /\ mode = "build" /\ pc = "owner" => jrn.state \in {"owner_initializing", "building"}
    /\ pc \in {"build", "built"} => jrn.state = "building"
    /\ pc \in {"directories", "manifest", "mark"} => jrn.state = "publishing"
    /\ jrn # NoJournal /\ jrn.making # "none" => jrn.made < Directories
    /\ jrn # NoJournal /\ jrn.state \notin {"publishing", "rolled_back"} => jrn.prefix = 0

(* The temporary file of a new journal is anchored before the journal takes its     *)
(* name.                                                                            *)
TemporaryWritten ==
    /\ pc = "begin" => anc.journal = "none" /\ anc.temporary = "none"
    /\ Build("temporary") =>
         /\ anc.journal # "none" => anc.temporary = "active"
         /\ anc.temporary \in {"created", "active"} /\ anc.journal # "transition"
              => Temporary \in fs
         /\ anc.journal = "transition" => Temporary \in fs \/ Journal \in fs

(* The anchor tells whether the manifest can have its name yet.                     *)
ManifestKnown ==
    /\ anc.manifest # "none" => jrn.state \in {"publishing", "rolled_back"}
    /\ jrn.state \in {"publishing", "rolled_back"}
         /\ anc.manifest \in {"none", "initializing", "created"}
         => Manifest \notin fs
    /\ anc.manifest = "active" /\ Partial \in fs => Manifest \notin fs
    /\ debt.kind = "manifest" => anc.manifest \in {"created", "active"} /\ Manifest \notin fs
    /\ mode = "build" /\ pc # "down" => debt.kind # "manifest" /\ intent.kind # "shard"

(* Nothing is rolled back under a manifest that has its name.                       *)
RollsBackUnseen ==
    /\ At \in {"rollback", "unpublish", "directories"} => Manifest \notin fs
    /\ mode = "recover" /\ At = "prepare" => Manifest \notin fs
    /\ intent.kind = "shard" => Manifest \notin fs

(* A build publishes the shards it has staged, in order.                            *)
AllStaged ==
    /\ pc = "built" => \A i \in Shard : Staged(i) \in fs
    /\ pc = "directories" =>
         /\ \A i \in Shard : Staged(i) \in fs \/ Final(i) \in fs
         /\ \A i \in 1..jrn.prefix : Final(i) \in fs
    /\ mode = "build" /\ jrn.state = "publishing" /\ pc \notin {"directories", "down"} =>
         Published = Shard

(* A manifest with its name names shards that are all there.                        *)
Shows == Manifest \in fs => Published = Shard

(* The first invariant.                                                             *)
ShownInv ==
    /\ DiskTypeOK /\ LabelsFit /\ JournalStands /\ JournalLeaves /\ StateFits
    /\ TemporaryWritten /\ ManifestKnown /\ RollsBackUnseen /\ AllStaged /\ Shows

(* What the disk holds, wherever the builder is. *)
Trashed ==
    /\ fs \cap trash = {} /\ trash \subseteq {debt.entry, intent.entry}
    /\ debt.phase \in {"quarantined", "gone"} => debt.entry \notin fs
    /\ debt.phase = "gone" => debt.entry \notin trash
    /\ intent.phase \in {"quarantined", "gone"} => intent.entry \notin fs
    /\ intent.phase = "gone" => intent.entry \notin trash

(* An entry that the anchor retires: what else is true until it is gone.            *)
AnchorOwes ==
    /\ debt.kind = "temporary" => jrn = NoJournal /\ anc.temporary \in {"created", "active"}
    /\ debt.kind = "owner" => jrn.state = "owner_initializing" /\ Work \in fs /\ intent = NoDebt
         /\ fs \cap {OwnerInit, Owner} \subseteq {debt.entry}
    /\ debt.kind = "journal" =>
         /\ intent.kind \in {"none", "work"} /\ jrn # NoJournal /\ Work \notin fs /\ CommitHolds
         /\ debt.phase # "intended" => trash \subseteq {Journal}

(* An entry that the journal retires.                                               *)
JournalOwes ==
    /\ intent.kind = "inventory" => Work \in fs /\ jrn.inventory # {}
         /\ jrn.state \in {"building", "publishing"}
    /\ intent.kind = "work" =>
         /\ Inventory = {} /\ OwnerInit \notin fs
         /\ jrn.state \in {"owner_initializing", "building", "publishing"}
    /\ intent.kind \in {"shard", "directory"} => jrn.state = "publishing" /\ Manifest \notin fs

(* Each private file has an identity in the anchor, and the journal state that goes *)
(* with it.                                                                         *)
PrivateFiles ==
    /\ jrn # NoJournal => anc.journal # "none"
    /\ Temporary \in fs => anc.temporary # "none" /\ jrn = NoJournal
    /\ Partial \in fs => anc.manifest \in {"initializing", "created", "active"}
    /\ OwnerInit \in fs => anc.owner # "none" /\ jrn.state = "owner_initializing" /\ Owner \notin fs
    /\ jrn.state \in {"none", "initializing"} => anc.owner = "none"
    /\ jrn.state = "owner_initializing" /\ anc.owner \in {"none", "initializing", "created"}
         => Owner \notin fs

(* The work directory holds the private files of the build, and nothing once the    *)
(* manifest is begun.                                                               *)
WorkHolds ==
    /\ Work \notin fs => Inventory = {} /\ OwnerInit \notin fs
    /\ jrn.state \in {"none", "initializing", "owner_initializing"} => Inventory \subseteq {Owner}
    /\ jrn.state \in {"none", "initializing"} => Owner \notin fs
    /\ anc.manifest # "none" => Work \notin fs
OutputGone == fs \cap (Finals \cup PublicDirectories) = {}

(* The manifest has its name only over the whole output; nothing is public outside  *)
(* of a publication.                                                                *)
OutputWhole ==
    /\ Manifest \in fs => Staging \notin fs /\ \A k \in 1..Directories : Directory(k) \in fs
    /\ jrn.state = "publishing" /\ Manifest \in fs => jrn.prefix = Shards
    /\ jrn.state = "rolled_back" => Manifest \notin fs
    /\ Staging \in fs => jrn.state = "publishing" /\ jrn.making # "none"
    /\ jrn.state # "publishing" /\ Manifest \notin fs => OutputGone
    /\ anc.manifest \in {"published", "committed"} => Manifest \in fs /\ jrn.state = "publishing"

(* A journal that does not publish records no directory and no undone shard.        *)
Fresh ==
    /\ jrn # NoJournal /\ jrn.state \notin {"publishing", "rolled_back"} =>
         jrn.made = 0 /\ jrn.making = "none" /\ jrn.unmade = <<>> /\ jrn.undone = {} /\ jrn.undo = 0
HasCandidate == IF jrn.making = "staged" THEN 1 ELSE 0

(* The public directories are a prefix of those recorded, less the ones already     *)
(* unmade from the end.                                                             *)
DirectoriesKnown ==
    jrn.state = "publishing" /\ Manifest \notin fs =>
        /\ \A k \in 1..Directories : Directory(k) \in fs =>
             /\ k < HasCandidate + jrn.made + 1 - Len(jrn.unmade)
             /\ k <= jrn.made \/ (jrn.making = "staged" /\ Staging \notin fs)
        /\ Staging \in fs => Len(jrn.unmade) = 0
        /\ intent.kind = "directory" =>
             /\ jrn.making = "initializing" => Staging \notin fs
             /\ intent.entry = Staging => Directory(jrn.made + 1) \notin fs /\ jrn.making = "staged"
             /\ intent.entry # Staging => Staging \notin fs
             /\ Len(jrn.unmade) < HasCandidate + jrn.made
             /\ \/ HasCandidate = 1 /\ Len(jrn.unmade) = 0
                     /\ intent.entry \in {Staging, Directory(jrn.made + 1)}
                \/ intent.entry = Directory(jrn.made + HasCandidate - Len(jrn.unmade))

(* The published shards are an initial segment, with the recorded prefix in it      *)
(* until a rollback begins.                                                         *)
ShardsKnown ==
    /\ \A i \in Published, j \in Shard : j < i => j \in Published
    /\ jrn.state = "publishing" /\ jrn.undone = {} /\ jrn.undo = 0
         => \A i \in 1..jrn.prefix : i \in Published
    /\ intent.kind = "shard" => jrn.undo # 0 /\ intent.entry = Final(jrn.undo)
         /\ \A j \in Published : j <= jrn.undo

(* What is left of the work directory is what its recorded inventory and progress   *)
(* say.                                                                             *)
InventoryKnown ==
    /\ jrn.state \in {"building", "publishing"} /\ jrn.inventory # {} /\ Work \in fs
         => ProgressHolds
    /\ jrn.state \in {"building", "publishing"} /\ jrn.inventory = {} /\ Work \in fs => Owner \in fs
    /\ jrn.state \in {"initializing", "owner_initializing"} => jrn.inventory = {}
         /\ jrn.removed = {}

(* Where the builder is. *)
AtRetired ==
    /\ pc = "retired" => Due.entry \notin fs \cup trash
    /\ debt.kind = "journal" /\ pc = "retired" => debt.phase = "gone"
    /\ Retiring /\ back = "cleaned" => intent.kind = "work"

(* Which intents can be open at which place.                                        *)
AtOwing ==
    /\ At \in WithJournal => debt.kind \in {"none", "owner"}
    /\ pc = "begin" => debt = NoDebt
    /\ At \in {"cleanup", "cleaned", "mark", "remove", "manifest"}
         => intent.kind \notin {"shard", "directory"}
    /\ mode # "recover" /\ At = "prepare" => intent.kind \notin {"shard", "directory"}
    /\ pc = "cleanup" /\ intent.kind = "work" => Work \in fs
    /\ pc \in {"cleaned", "mark", "remove", "manifest"} => debt = NoDebt
    /\ pc \in {"cleaned", "mark", "manifest"} => intent = NoDebt
    /\ pc = "remove" => intent.kind \in {"none", "work"}
    /\ mode = "handle" /\ At \in {"handle", "rollback"} => intent.kind \notin {"shard", "directory"}

(* A build has no intent open but the one it is retiring.                           *)
AtBuilding ==
    /\ mode = "build" /\ pc # "down" =>
         /\ debt.kind \in {"none", "journal"} /\ intent.kind \in {"none", "inventory", "work"}
         /\ ~ Retiring => debt = NoDebt /\ intent = NoDebt
         /\ debt = NoDebt \/ intent = NoDebt
         /\ jrn.state # "rolled_back"
    /\ Build("owner") /\ jrn.state = "building" => anc.owner = "active" /\ Owner \in fs
    /\ mode = "build" /\ pc \in {"owner", "build", "built", "directories"} => Work \in fs
    /\ mode = "build" /\ pc \in {"owner", "build", "built", "directories"} => jrn.inventory = {}
         /\ jrn.removed = {}
    /\ mode = "build" /\ Verifying \in fs => pc \in {"verified", "down"}
    /\ mode = "build" /\ pc \in {"verify", "verified", "discard", "done"} => Temporary \notin fs

(* Where the work directory is gone, and where its inventory has been taken.        *)
AtWork ==
    /\ pc \in {"cleaned", "mark", "remove", "manifest", "verify", "verified", "discard", "done"}
         => Work \notin fs
    /\ (At \in {"rollback", "unpublish"} /\ mode # "handle") \/ At = "cleanup" =>
         (Work \in fs /\ jrn.state \in {"building", "publishing"} => jrn.inventory # {})

(* What a build has published when it gets there.                                   *)
AtOutput ==
    /\ mode = "build" /\ jrn.state = "publishing" /\ pc \notin {"directories", "down"} =>
         /\ jrn.prefix = Shards /\ Staging \notin fs
              /\ \A k \in 1..Directories : Directory(k) \in fs
    /\ pc = "directories" =>
         /\ \A k \in 1..jrn.made : Directory(k) \in fs
         /\ jrn.making = "staged" /\ Staging \notin fs => Directory(jrn.made + 1) \in fs
         /\ jrn.unmade = <<>> /\ jrn.undone = {} /\ jrn.undo = 0
         /\ \A i \in Published : i <= jrn.prefix + 1
    /\ mode = "build" /\ At \in {"prepare", "cleanup", "cleaned", "remove"} =>
         jrn.state = "publishing" \/ (jrn.state = "building" /\ Manifest \in fs)
    /\ mode = "build" /\ debt.kind = "journal" => Manifest \in fs
    /\ mode = "build" /\ At \in {"directories", "prepare", "cleanup", "cleaned"}
         => anc.manifest = "none"
    /\ pc = "manifest" /\ anc.manifest = "created" => Partial \in fs
    /\ pc = "manifest" /\ anc.manifest = "active" => Partial \in fs \/ Manifest \in fs
    /\ mode = "build" /\ pc \in {"verify", "verified", "discard", "done"} => Manifest \in fs /\ jrn = NoJournal

(* What a rollback has undone when it gets there.                                   *)
AtUndoing ==
    /\ mode = "handle" /\ At = "handle" => jrn.state # "rolled_back"
    /\ mode \in {"recover", "handle"} /\ At \in {"cleanup", "cleaned", "mark"}
         /\ jrn.state = "publishing" => OutputGone
    /\ mode = "handle" /\ At = "prepare" /\ jrn.state = "publishing" => OutputGone
    /\ At \in {"rollback", "unpublish"} => jrn.state = "publishing"
    /\ At = "unpublish" /\ jrn.making = "initializing" => Staging \notin fs

(* Recovery goes past the manifest commit only once the anchor has settled it.      *)
AtCommit ==
    /\ mode = "recover" /\ At \in WithJournal => anc.manifest \in {"none", "published", "committed"}
    /\ mode = "recover" /\ At = "remove" /\ jrn.state = "publishing" => Manifest \in fs

(* The second invariant.                                                            *)
ReturnsAlone == pc = "idle" /\ calls > 0 => OutputAlone
OutputDisk == OutputWhole /\ Fresh /\ DirectoriesKnown /\ ShardsKnown
WorkDisk == JournalOwes /\ WorkHolds /\ InventoryKnown
Disk == Trashed /\ AnchorOwes /\ PrivateFiles /\ OutputDisk /\ WorkDisk
Places == AtRetired /\ AtOwing /\ AtBuilding /\ AtWork /\ AtOutput /\ AtUndoing /\ AtCommit
TidyInv == Disk /\ Places /\ RefusesOnlyCutShort /\ ReturnsAlone

(* What a step that does not touch the output, or the work directory, leaves as it  *)
(* was.                                                                             *)
OutputKept == \A e \in {Manifest} \cup Finals \cup PublicDirectories : e \in fs' <=> e \in fs
OutputRecordKept ==
    /\ jrn' = NoJournal <=> jrn = NoJournal
    /\ jrn'.state = jrn.state /\ jrn'.prefix = jrn.prefix /\ jrn'.made = jrn.made
         /\ jrn'.making = jrn.making
    /\ jrn'.undone = jrn.undone /\ jrn'.undo = jrn.undo /\ jrn'.unmade = jrn.unmade
WorkKept == \A e \in Inventoried \cup {Work, OwnerInit} : e \in fs' <=> e \in fs
WorkRecordKept == jrn'.state = jrn.state /\ jrn'.inventory = jrn.inventory
  /\ jrn'.removed = jrn.removed
IntentKept == intent'.kind = intent.kind /\ intent'.entry = intent.entry

USE SizeAssumption, LimitAssumption
USE DEF Goto, Temporary, Journal, OwnerInit, Owner, Partial, Manifest, Work, Runs, Staged,
        Final, Staging, Directory, Verifying, Nothing, NoDebt, NoJournal, disk, debts, process,
          aside, Build, Refuse

(* Entries, and the records of their retirements, have their types.                 *)
LEMMA EntriesTyped ==
  /\ {Temporary, Journal, OwnerInit, Owner, Partial, Manifest, Work, Runs, Staging,
       Verifying} \subseteq Entry
  /\ \A i \in Shard : Staged(i) \in Entry /\ Final(i) \in Entry
  /\ \A k \in 0..Directories : Directory(k) \in Entry
  /\ \A kind \in AnchorKinds \cup IntentKinds : Retires(kind) \subseteq Entry
  <1>1. {Temporary, Journal, OwnerInit, Owner, Partial, Manifest, Work, Runs,
          Verifying} \subseteq Entry
    BY DEF Entry, Inventoried
  <1>2. /\ \A i \in Shard : Staged(i) \in Entry /\ Final(i) \in Entry
        /\ \A k \in 0..Directories : Directory(k) \in Entry
    BY DEF Entry, Inventoried, Finals, PublicDirectories
  <1>3. Staging \in Entry
    <2>1. Staging = Directory(0) /\ 0 \in 0..Directories   OBVIOUS
    <2> QED BY <2>1, <1>2
  <1>4. \A kind \in AnchorKinds \cup IntentKinds : Retires(kind) \subseteq Entry
    <2> TAKE kind \in AnchorKinds \cup IntentKinds
    <2>1. kind \in {"temporary", "owner", "manifest", "journal", "inventory", "work", "shard",
            "directory"}
      BY DEF AnchorKinds, Anchored, IntentKinds
    <2>2. Retires(kind) \subseteq {Temporary, Journal, OwnerInit, Partial, Work} \cup Inventoried
                                    \cup Finals \cup PublicDirectories
      BY <2>1 DEF Retires, Inventoried
    <2> QED BY <2>2 DEF Entry
  <1> QED BY <1>1, <1>2, <1>3, <1>4

(* An intent made for an entry of its kind has its type.                            *)
LEMMA RetirementTyped ==
  ASSUME NEW kinds, NEW kind \in kinds, NEW entry \in Retires(kind),
         kind \in AnchorKinds \cup IntentKinds,
         NEW phase \in {"intended", "quarantined", "gone"}
  PROVE  [kind |-> kind, entry |-> entry, phase |-> phase] \in Retirement(kinds)
  BY EntriesTyped DEF Retirement

DebtsTyped ==
    /\ intent \in Retirement(IntentKinds) \cup {NoDebt}
    /\ debt \in Retirement(AnchorKinds) \cup {NoDebt}

(* Starting a retirement records an intent of the right type.                       *)
LEMMA RetireTyped ==
  ASSUME DebtsTyped, NEW kind \in AnchorKinds \cup IntentKinds, NEW entry \in Retires(kind),
         NEW label, Retire(kind, entry, label)
  PROVE  DebtsTyped'
  <1> DEFINE asked == [kind |-> kind, entry |-> entry, phase |-> "intended"]
  <1>1. CASE kind \in AnchorKinds
    <2>1. asked \in Retirement(AnchorKinds)   BY <1>1, RetirementTyped
    <2> QED BY <1>1, <2>1 DEF DebtsTyped, Retire
  <1>2. CASE kind \notin AnchorKinds
    <2>1. kind \in IntentKinds   BY <1>2
    <2>2. asked \in Retirement(IntentKinds)   BY <2>1, RetirementTyped
    <2> QED BY <1>2, <2>2 DEF DebtsTyped, Retire
  <1> QED BY <1>1, <1>2

(* What the retirement under way says. *)
LEMMA DueTyped ==
  ASSUME DebtsTyped, Due # NoDebt
  PROVE  /\ Due.kind \in AnchorKinds \cup IntentKinds /\ Due.entry \in Retires(Due.kind)
         /\ Due.phase \in {"intended", "quarantined", "gone"}
         /\ Due = [kind |-> Due.kind, entry |-> Due.entry, phase |-> Due.phase]
         /\ \/ Due = debt /\ debt # NoDebt /\ Due.kind \in AnchorKinds
            \/ Due = intent /\ debt = NoDebt /\ intent # NoDebt /\ Due.kind \in IntentKinds
  BY DEF DebtsTyped, Due, Retirement

(* An intent is absent exactly when its kind is none, and otherwise names an entry  *)
(* of its kind.                                                                     *)
LEMMA KindsTyped ==
  ASSUME DebtsTyped
  PROVE  /\ debt.kind \in AnchorKinds \cup {"none"} /\ intent.kind \in IntentKinds \cup {"none"}
         /\ debt.kind = "none" <=> debt = NoDebt
         /\ intent.kind = "none" <=> intent = NoDebt
         /\ debt # NoDebt => debt.entry \in Retires(debt.kind)
         /\ intent # NoDebt => intent.entry \in Retires(intent.kind)
  BY DEF DebtsTyped, Retirement, AnchorKinds, Anchored, IntentKinds

(* Which kind retires which entry. *)
LEMMA KindOfEntry ==
  ASSUME NEW kind \in AnchorKinds \cup IntentKinds, NEW e \in Retires(kind)
  PROVE  /\ e # Manifest /\ e # Verifying
         /\ e = Journal <=> kind = "journal"
         /\ e = Temporary <=> kind = "temporary"
         /\ e = Partial <=> kind = "manifest"
         /\ e = Work <=> kind = "work"
         /\ e \in Finals <=> kind = "shard"
         /\ e \in PublicDirectories <=> kind = "directory"
         /\ e \in Inventoried => kind = "inventory" \/ (kind = "owner" /\ e = Owner)
         /\ e = OwnerInit => kind = "owner"
  <1>1. kind \in {"temporary", "owner", "manifest", "journal", "inventory", "work", "shard",
          "directory"}
    BY DEF AnchorKinds, Anchored, IntentKinds
  <1> QED BY <1>1 DEF Retires, Inventoried, Finals, PublicDirectories

(* Recording progress moves the phase of the retirement under way and nothing else. *)
LEMMA PhaseTyped ==
  ASSUME DebtsTyped, Due # NoDebt, NEW phase \in {"quarantined", "gone"}, RecordPhase(phase)
  PROVE  /\ DebtsTyped'
         /\ debt'.kind = debt.kind /\ debt'.entry = debt.entry
         /\ intent'.kind = intent.kind /\ intent'.entry = intent.entry
         /\ debt' = NoDebt <=> debt = NoDebt
         /\ intent' = NoDebt <=> intent = NoDebt
         /\ debt # NoDebt => debt'.phase = phase /\ intent' = intent
         /\ debt = NoDebt => debt' = debt /\ intent'.phase = phase
         /\ Due'.kind = Due.kind /\ Due'.entry = Due.entry /\ Due'.phase = phase /\ Due' # NoDebt
  <1>1. CASE debt # NoDebt
    <2>1. PICK kind \in AnchorKinds, entry \in Entry, old \in {"intended", "quarantined", "gone"} :
             debt = [kind |-> kind, entry |-> entry, phase |-> old] /\ entry \in Retires(kind)
      BY <1>1 DEF DebtsTyped, Retirement
    <2>2. debt' = [kind |-> kind, entry |-> entry, phase |-> phase] /\ intent' = intent
      BY <1>1, <2>1 DEF RecordPhase
    <2>5. kind \in AnchorKinds \cup IntentKinds /\ phase \in {"intended", "quarantined", "gone"}
      OBVIOUS
    <2>6. [kind |-> kind, entry |-> entry, phase |-> phase] \in Retirement(AnchorKinds)
      BY <2>1, <2>5, RetirementTyped
    <2>3. debt' \in Retirement(AnchorKinds)   BY <2>2, <2>6
    <2>4. debt # NoDebt /\ debt' # NoDebt   BY <1>1, <2>2, <2>1, KindsTyped, <2>3
    <2> QED BY <1>1, <2>1, <2>2, <2>3, <2>4 DEF DebtsTyped, Due
  <1>2. CASE debt = NoDebt
    <2>1. PICK kind \in IntentKinds, entry \in Entry, old \in {"intended", "quarantined", "gone"} :
             intent = [kind |-> kind, entry |-> entry, phase |-> old] /\ entry \in Retires(kind)
      BY <1>2 DEF DebtsTyped, Retirement, Due
    <2>2. intent' = [kind |-> kind, entry |-> entry, phase |-> phase] /\ debt' = debt
      BY <1>2, <2>1 DEF RecordPhase
    <2>5. kind \in AnchorKinds \cup IntentKinds /\ phase \in {"intended", "quarantined", "gone"}
      OBVIOUS
    <2>6. [kind |-> kind, entry |-> entry, phase |-> phase] \in Retirement(IntentKinds)
      BY <2>1, <2>5, RetirementTyped
    <2>3. intent' \in Retirement(IntentKinds)   BY <2>2, <2>6
    <2> QED BY <1>2, <2>1, <2>2, <2>3 DEF DebtsTyped, Due
  <1> QED BY <1>1, <1>2

JournalStates == {"initializing", "owner_initializing", "building", "publishing", "rolled_back"}

(* A step edits some fields of the journal and keeps the others. *)
LEMMA RecordEdited ==
  ASSUME NEW A, NEW B, NEW C, NEW D, NEW E, NEW F, NEW G, NEW H, NEW K,
         NEW j \in [state : A, inventory : B, removed : C, prefix : D, made : E,
                     making : F, undone : G, undo : H, unmade : K],
         NEW a \in A, NEW b \in B, NEW c \in C, NEW d \in D, NEW e \in E,
         NEW f \in F, NEW g \in G, NEW h \in H, NEW k \in K
  PROVE  LET All == [state : A, inventory : B, removed : C, prefix : D, made : E,
             making : F, undone : G, undo : H, unmade : K] IN
         /\ [j EXCEPT !.state = a] \in All
         /\ [j EXCEPT !.inventory = b, !.removed = c] \in All
         /\ [j EXCEPT !.removed = c] \in All
         /\ [j EXCEPT !.making = f] \in All
         /\ [j EXCEPT !.made = e, !.making = f] \in All
         /\ [j EXCEPT !.prefix = d] \in All
         /\ [j EXCEPT !.undone = g, !.undo = h] \in All
         /\ [j EXCEPT !.undo = h] \in All
         /\ [j EXCEPT !.unmade = k] \in All
  OBVIOUS

(* The fields an edit does not name keep their values.                              *)
LEMMA FieldsKept ==
  ASSUME NEW j \in Journals, NEW x, NEW y
  PROVE
    /\ LET k == [j EXCEPT !.state = x] IN
         k.state = x /\ k.inventory = j.inventory /\ k.removed = j.removed /\ k.prefix = j.prefix
           /\ k.made = j.made /\ k.making = j.making /\ k.undone = j.undone /\ k.undo = j.undo
           /\ k.unmade = j.unmade
    /\ LET k == [j EXCEPT !.inventory = x, !.removed = y] IN
         k.state = j.state /\ k.inventory = x /\ k.removed = y /\ k.prefix = j.prefix
           /\ k.made = j.made /\ k.making = j.making /\ k.undone = j.undone /\ k.undo = j.undo
           /\ k.unmade = j.unmade
    /\ LET k == [j EXCEPT !.removed = x] IN
         k.state = j.state /\ k.inventory = j.inventory /\ k.removed = x /\ k.prefix = j.prefix
           /\ k.made = j.made /\ k.making = j.making /\ k.undone = j.undone /\ k.undo = j.undo
           /\ k.unmade = j.unmade
    /\ LET k == [j EXCEPT !.making = x] IN
         k.state = j.state /\ k.inventory = j.inventory /\ k.removed = j.removed
           /\ k.prefix = j.prefix /\ k.made = j.made /\ k.making = x /\ k.undone = j.undone
           /\ k.undo = j.undo /\ k.unmade = j.unmade
    /\ LET k == [j EXCEPT !.made = x, !.making = y] IN
         k.state = j.state /\ k.inventory = j.inventory /\ k.removed = j.removed
           /\ k.prefix = j.prefix /\ k.made = x /\ k.making = y /\ k.undone = j.undone
           /\ k.undo = j.undo /\ k.unmade = j.unmade
    /\ LET k == [j EXCEPT !.prefix = x] IN
         k.state = j.state /\ k.inventory = j.inventory /\ k.removed = j.removed /\ k.prefix = x
           /\ k.made = j.made /\ k.making = j.making /\ k.undone = j.undone /\ k.undo = j.undo
           /\ k.unmade = j.unmade
    /\ LET k == [j EXCEPT !.undone = x, !.undo = y] IN
         k.state = j.state /\ k.inventory = j.inventory /\ k.removed = j.removed
           /\ k.prefix = j.prefix /\ k.made = j.made /\ k.making = j.making /\ k.undone = x
           /\ k.undo = y /\ k.unmade = j.unmade
    /\ LET k == [j EXCEPT !.undo = x] IN
         k.state = j.state /\ k.inventory = j.inventory /\ k.removed = j.removed
           /\ k.prefix = j.prefix /\ k.made = j.made /\ k.making = j.making /\ k.undone = j.undone
           /\ k.undo = x /\ k.unmade = j.unmade
    /\ LET k == [j EXCEPT !.unmade = x] IN
         k.state = j.state /\ k.inventory = j.inventory /\ k.removed = j.removed
           /\ k.prefix = j.prefix /\ k.made = j.made /\ k.making = j.making /\ k.undone = j.undone
           /\ k.undo = j.undo /\ k.unmade = x
  BY DEF Journals

(* The fields of a journal have their types.                                        *)
LEMMA JournalThere == ASSUME NEW j \in Journals PROVE
  /\ j # NoJournal /\ j.state \in JournalStates /\ j.inventory \in SUBSET Inventoried
  /\ j.removed \in SUBSET Inventoried /\ j.prefix \in 0..Shards /\ j.made \in 0..Directories
  /\ j.making \in {"none", "initializing", "staged"} /\ j.undone \in SUBSET (0..Shards)
  /\ j.undo \in 0..Shards /\ j.unmade \in Seq(PublicDirectories)
  BY DEF Journals, JournalStates

(* Each edit that the code makes gives a journal again.                             *)
LEMMA StateEdited ==
  ASSUME NEW j \in Journals, NEW x \in JournalStates
  PROVE  LET k == [j EXCEPT !.state = x] IN
         /\ k \in Journals /\ k # NoJournal
         /\ k.state = x /\ k.inventory = j.inventory /\ k.removed = j.removed /\ k.prefix = j.prefix
              /\ k.made = j.made /\ k.making = j.making /\ k.undone = j.undone /\ k.undo = j.undo
              /\ k.unmade = j.unmade
  <1>1. [j EXCEPT !.state = x] \in Journals
    BY RecordEdited, JournalThere DEF Journals, JournalStates
  <1> QED BY <1>1, FieldsKept, JournalThere

LEMMA InventoryEdited ==
  ASSUME NEW j \in Journals, NEW x \in SUBSET Inventoried, NEW y \in SUBSET Inventoried
  PROVE  LET k == [j EXCEPT !.inventory = x, !.removed = y] IN
         /\ k \in Journals /\ k # NoJournal
         /\ k.state = j.state /\ k.inventory = x /\ k.removed = y /\ k.prefix = j.prefix
              /\ k.made = j.made /\ k.making = j.making /\ k.undone = j.undone /\ k.undo = j.undo
              /\ k.unmade = j.unmade
  <1>1. [j EXCEPT !.inventory = x, !.removed = y] \in Journals
    BY RecordEdited, JournalThere DEF Journals, JournalStates
  <1> QED BY <1>1, FieldsKept, JournalThere

LEMMA RemovedEdited ==
  ASSUME NEW j \in Journals, NEW x \in SUBSET Inventoried
  PROVE  LET k == [j EXCEPT !.removed = x] IN
         /\ k \in Journals /\ k # NoJournal
         /\ k.state = j.state /\ k.inventory = j.inventory /\ k.removed = x /\ k.prefix = j.prefix
              /\ k.made = j.made /\ k.making = j.making /\ k.undone = j.undone /\ k.undo = j.undo
              /\ k.unmade = j.unmade
  <1>1. [j EXCEPT !.removed = x] \in Journals
    BY RecordEdited, JournalThere DEF Journals, JournalStates
  <1> QED BY <1>1, FieldsKept, JournalThere

LEMMA MakingEdited ==
  ASSUME NEW j \in Journals, NEW x \in {"none", "initializing", "staged"}
  PROVE  LET k == [j EXCEPT !.making = x] IN
         /\ k \in Journals /\ k # NoJournal
         /\ k.state = j.state /\ k.inventory = j.inventory /\ k.removed = j.removed
              /\ k.prefix = j.prefix /\ k.made = j.made /\ k.making = x /\ k.undone = j.undone
              /\ k.undo = j.undo /\ k.unmade = j.unmade
  <1>1. [j EXCEPT !.making = x] \in Journals
    BY RecordEdited, JournalThere DEF Journals, JournalStates
  <1> QED BY <1>1, FieldsKept, JournalThere

LEMMA MadeEdited ==
  ASSUME NEW j \in Journals, NEW x \in 0..Directories, NEW y \in {"none", "initializing", "staged"}
  PROVE  LET k == [j EXCEPT !.made = x, !.making = y] IN
         /\ k \in Journals /\ k # NoJournal
         /\ k.state = j.state /\ k.inventory = j.inventory /\ k.removed = j.removed
              /\ k.prefix = j.prefix /\ k.made = x /\ k.making = y /\ k.undone = j.undone
              /\ k.undo = j.undo /\ k.unmade = j.unmade
  <1>1. [j EXCEPT !.made = x, !.making = y] \in Journals
    BY RecordEdited, JournalThere DEF Journals, JournalStates
  <1> QED BY <1>1, FieldsKept, JournalThere

LEMMA PrefixEdited ==
  ASSUME NEW j \in Journals, NEW x \in 0..Shards
  PROVE  LET k == [j EXCEPT !.prefix = x] IN
         /\ k \in Journals /\ k # NoJournal
         /\ k.state = j.state /\ k.inventory = j.inventory /\ k.removed = j.removed /\ k.prefix = x
              /\ k.made = j.made /\ k.making = j.making /\ k.undone = j.undone /\ k.undo = j.undo
              /\ k.unmade = j.unmade
  <1>1. [j EXCEPT !.prefix = x] \in Journals
    BY RecordEdited, JournalThere DEF Journals, JournalStates
  <1> QED BY <1>1, FieldsKept, JournalThere

LEMMA UndoneEdited ==
  ASSUME NEW j \in Journals, NEW x \in SUBSET (0..Shards), NEW y \in 0..Shards
  PROVE  LET k == [j EXCEPT !.undone = x, !.undo = y] IN
         /\ k \in Journals /\ k # NoJournal
         /\ k.state = j.state /\ k.inventory = j.inventory /\ k.removed = j.removed
              /\ k.prefix = j.prefix /\ k.made = j.made /\ k.making = j.making /\ k.undone = x
              /\ k.undo = y /\ k.unmade = j.unmade
  <1>1. [j EXCEPT !.undone = x, !.undo = y] \in Journals
    BY RecordEdited, JournalThere DEF Journals, JournalStates
  <1> QED BY <1>1, FieldsKept, JournalThere

LEMMA UndoEdited ==
  ASSUME NEW j \in Journals, NEW x \in 0..Shards
  PROVE  LET k == [j EXCEPT !.undo = x] IN
         /\ k \in Journals /\ k # NoJournal
         /\ k.state = j.state /\ k.inventory = j.inventory /\ k.removed = j.removed
              /\ k.prefix = j.prefix /\ k.made = j.made /\ k.making = j.making
              /\ k.undone = j.undone /\ k.undo = x /\ k.unmade = j.unmade
  <1>1. [j EXCEPT !.undo = x] \in Journals
    BY RecordEdited, JournalThere DEF Journals, JournalStates
  <1> QED BY <1>1, FieldsKept, JournalThere

LEMMA UnmadeEdited ==
  ASSUME NEW j \in Journals, NEW x \in Seq(PublicDirectories)
  PROVE  LET k == [j EXCEPT !.unmade = x] IN
         /\ k \in Journals /\ k # NoJournal
         /\ k.state = j.state /\ k.inventory = j.inventory /\ k.removed = j.removed
              /\ k.prefix = j.prefix /\ k.made = j.made /\ k.making = j.making
              /\ k.undone = j.undone /\ k.undo = j.undo /\ k.unmade = x
  <1>1. [j EXCEPT !.unmade = x] \in Journals
    BY RecordEdited, JournalThere DEF Journals, JournalStates
  <1> QED BY <1>1, FieldsKept, JournalThere

(* Past those places there is a journal.                                            *)
LEMMA InJournal ==
  ASSUME ShownInv, At \in WithJournal
  PROVE  jrn \in Journals /\ Journal \in fs /\ debt.kind # "journal"
  BY DEF ShownInv, JournalStands, DiskTypeOK

(* An open intent is written in a journal that has its name.                        *)
LEMMA IntentInJournal ==
  ASSUME ShownInv, intent # NoDebt, debt = NoDebt
  PROVE  jrn \in Journals /\ Journal \in fs
  <1>1. debt.kind # "journal"   OBVIOUS
  <1> QED BY <1>1 DEF ShownInv, JournalStands, DiskTypeOK

(* What the retirement under way can be about.                                      *)
LEMMA DueFacts ==
  ASSUME ShownInv, Due # NoDebt
  PROVE  /\ Due.kind \in AnchorKinds \cup IntentKinds /\ Due.entry \in Retires(Due.kind)
         /\ \/ Due = debt /\ debt # NoDebt /\ Due.kind \in AnchorKinds
            \/ Due = intent /\ debt = NoDebt /\ intent # NoDebt /\ Due.kind \in IntentKinds
         /\ Due.entry # Manifest
         /\ Due.entry = Journal <=> debt.kind = "journal"
         /\ Due.entry = Partial <=> debt.kind = "manifest"
         /\ (\E i \in Shard : Due.entry = Final(i)) => intent.kind = "shard"
         /\ debt.kind = "journal" => Due = debt
  <1>1. DebtsTyped   BY DEF ShownInv, DiskTypeOK, DebtsTyped
  <1>2. /\ Due.kind \in AnchorKinds \cup IntentKinds /\ Due.entry \in Retires(Due.kind)
        /\ \/ Due = debt /\ debt # NoDebt /\ Due.kind \in AnchorKinds
           \/ Due = intent /\ debt = NoDebt /\ intent # NoDebt /\ Due.kind \in IntentKinds
    BY <1>1, DueTyped
  <1>3. /\ Due.entry # Manifest
        /\ Due.entry = Journal <=> Due.kind = "journal"
        /\ Due.entry = Partial <=> Due.kind = "manifest"
        /\ Due.entry \in Finals <=> Due.kind = "shard"
    BY <1>2, KindOfEntry
  <1>4. debt.kind \in {"journal", "manifest"} => Due = debt
    BY DEF Due
  <1>5. "journal" \notin IntentKinds /\ "manifest" \notin IntentKinds /\ "shard" \notin AnchorKinds
    BY DEF IntentKinds, AnchorKinds, Anchored
  <1>6. (\E i \in Shard : Due.entry = Final(i)) => Due.entry \in Finals
    BY DEF Finals
  <1>7. NoDebt.kind = "none"   OBVIOUS
  <1> QED BY <1>2, <1>3, <1>4, <1>5, <1>6, <1>7

(* Which intents retire which entry.                                                *)
LEMMA WhatRetires ==
  /\ Temporary \in Retires("temporary") /\ OwnerInit \in Retires("owner")
       /\ Owner \in Retires("owner")
  /\ Partial \in Retires("manifest") /\ Journal \in Retires("journal") /\ Work \in Retires("work")
  /\ \A e \in Inventoried : e \in Retires("inventory")
  /\ \A i \in Shard : Final(i) \in Retires("shard")
  /\ \A e \in PublicDirectories : e \in Retires("directory")
  /\ {"temporary", "owner", "manifest", "journal"} \subseteq AnchorKinds \cup IntentKinds
  /\ {"inventory", "work", "shard", "directory"} \subseteq AnchorKinds \cup IntentKinds
  <1>1. /\ Temporary \in Retires("temporary") /\ OwnerInit \in Retires("owner")
             /\ Owner \in Retires("owner")
        /\ Partial \in Retires("manifest") /\ Journal \in Retires("journal")
             /\ Work \in Retires("work")
    BY DEF Retires
  <1>2. Retires("inventory") = Inventoried /\ Retires("shard") = Finals
          /\ Retires("directory") = PublicDirectories
    BY DEF Retires
  <1>3. \A i \in Shard : Final(i) \in Finals   BY DEF Finals
  <1> QED BY <1>1, <1>2, <1>3 DEF AnchorKinds, Anchored, IntentKinds

(* An edit of the anchor gives an anchor again.                                     *)
LEMMA AnchorEdited ==
  ASSUME NEW A, NEW B, NEW C, NEW D,
         NEW phases \in [journal : A, temporary : B, owner : C, manifest : D],
         NEW a \in A, NEW b \in B, NEW c \in C, NEW d \in D
  PROVE  LET All == [journal : A, temporary : B, owner : C, manifest : D] IN
         /\ [phases EXCEPT !.journal = a] \in All
         /\ [phases EXCEPT !.temporary = b] \in All
         /\ [phases EXCEPT !.owner = c] \in All
         /\ [phases EXCEPT !.manifest = d] \in All
         /\ [phases EXCEPT !.journal = a, !.temporary = b] \in All
         /\ [phases EXCEPT !.journal = a, !.owner = c] \in All
         /\ [phases EXCEPT !.journal = a, !.temporary = b, !.owner = c] \in All
  OBVIOUS

(* Where a retirement can come back to.                                             *)
LEMMA BackFacts ==
  ASSUME ShownInv, Retiring
  PROVE  /\ back \in {"recover", "begin", "handle", "rollback", "unpublish", "cleanup", "cleaned",
              "verify", "done", "down"}
         /\ mode = "build" => back \in {"cleanup", "cleaned", "verify", "done"}
         /\ debt.kind # "journal" => back \in WithJournal \cup {"recover", "handle"}
         /\ back \in WithJournal => debt.kind # "journal"
  <1>1. mode \in {"recover", "build", "handle", "unrolled"}   BY DEF ShownInv, DiskTypeOK
  <1>2. At = back   BY DEF At
  <1>3. back \in BacksOf(mode)   BY DEF ShownInv, LabelsFit
  <1>4. /\ back \in {"recover", "begin", "handle", "rollback", "unpublish", "cleanup", "cleaned",
             "verify", "done", "down"}
        /\ mode = "build" => back \in {"cleanup", "cleaned", "verify", "done"}
    BY <1>1, <1>3 DEF BacksOf
  <1> QED BY <1>2, <1>4 DEF ShownInv, JournalStands

(* A non-empty set of numbers has a least element, by the order being well-founded. *)
LEMMA NatLeast ==
  ASSUME NEW S \in SUBSET Nat, S # {}
  PROVE  \E m \in S : \A x \in S : m <= x
  <1> DEFINE Less == {p \in Nat \X Nat : p[1] < p[2]}
  <1>1. IsWellFoundedOn(Less, Nat)
    BY NatLessThanWellFounded DEF OpToRel
  <1>2. PICK m \in S : \A x \in S : ~ (<<x, m>> \in Less)   BY <1>1, WFMin
  <1>3. \A x \in S : ~ (x < m)   BY <1>2
  <1> QED BY <1>3

(* A non-empty set of bounded numbers has a greatest element.                       *)
LEMMA Greatest ==
  ASSUME NEW n \in Nat, NEW S \in SUBSET (0..n), S # {}
  PROVE  \E m \in S : \A x \in S : x <= m
  <1> DEFINE D == {n - x : x \in S}
  <1>1. D \in SUBSET Nat /\ D # {}
    <2>1. \A x \in S : x \in 0..n   OBVIOUS
    <2>2. \A x \in S : n - x \in Nat   BY <2>1
    <2> QED BY <2>2
  <1> HIDE DEF D
  <1>2. PICK d \in D : \A x \in D : d <= x   BY <1>1, NatLeast
  <1>3. PICK m \in S : d = n - m   BY <1>2 DEF D
  <1>4. \A x \in S : n - x \in D   BY DEF D
  <1> QED BY <1>2, <1>3, <1>4

(* The cleanup order always has a next entry: one of greatest depth.                *)
LEMMA DeepestThere ==
  ASSUME NEW S \in SUBSET Inventoried, S # {}
  PROVE  Deepest(S) \in S /\ \A e \in S : Depth(e) <= Depth(Deepest(S))
  <1>1. \A e \in Inventoried : Depth(e) \in 0..(Shards + 1)
    BY DEF Inventoried, Depth, Shard
  <1> DEFINE D == {Depth(e) : e \in S}
  <1>2. D \in SUBSET (0..(Shards + 1)) /\ D # {} /\ Shards + 1 \in Nat   BY <1>1
  <1> HIDE DEF D
  <1>3. PICK m \in D : \A x \in D : x <= m   BY <1>2, Greatest
  <1>4. PICK e \in S : m = Depth(e)   BY <1>3 DEF D
  <1>5. \A other \in S : Depth(other) \in D   BY DEF D
  <1>6. \A other \in S : Depth(other) <= Depth(e)   BY <1>3, <1>4, <1>5
  <1> QED BY <1>4, <1>6 DEF Deepest

(* The directories to unmake are public directories.                                *)
LEMMA MadeTyped ==
  ASSUME jrn \in Journals, jrn.making # "none" => jrn.made < Directories
  PROVE  MadeDirectories \in Seq(PublicDirectories)
  <1>1. jrn.made \in 0..Directories   BY JournalThere
  <1>2. \A k \in 0..Directories : Directory(k) \in PublicDirectories   BY DEF PublicDirectories
  <1>3. jrn.making = "staged" => Candidate \in PublicDirectories
    <2>1. Staging = Directory(0) /\ 0 \in 0..Directories   OBVIOUS
    <2>2. jrn.making = "staged" => jrn.made + 1 \in 0..Directories   BY <1>1
    <2> QED BY <1>2, <2>1, <2>2 DEF Candidate
  <1>4. (IF jrn.making = "staged" THEN <<Candidate>> ELSE <<>>) \in Seq(PublicDirectories)
    BY <1>3
  <1>5. [k \in 1..jrn.made |-> Directory(jrn.made + 1 - k)] \in Seq(PublicDirectories)
    BY <1>1, <1>2
  <1> QED BY <1>4, <1>5 DEF MadeDirectories

----------------------------------------------------------------------------------
(* EVERY STEP KEEPS ShownInv: one lemma for each action of ShardTransaction.        *)

LEMMA BeginKeeps == ASSUME ShownInv, Begin PROVE ShownInv'
  <1> USE
         DEF ShownInv, Begin, AnchorKinds, Retire, Resume, Rename, AnchoredWrite, Private, Retired,
             Due, RecordPhase, AfterRemoval, Recovering, ManifestSettled
  <1>1. DiskTypeOK'
    BY
       DEF DiskTypeOK, Labels, NotAnchored, CutShort, Disagreements, DebtsTyped, Anchored, Journals,
           AnchorPhases
  <1>2. LabelsFit'
    BY DEF LabelsFit, Retiring, BacksOf, LabelsOf, Ended, DiskTypeOK
  <1>3. JournalStands' /\ JournalLeaves'
    BY DEF JournalStands, JournalLeaves, Retiring, At, WithJournal, DiskTypeOK, AnchorPhases
  <1>4. TemporaryWritten'
    BY DEF TemporaryWritten, JournalStands, DiskTypeOK, AnchorPhases, Build
  <1>5. StateFits' /\ ManifestKnown'
    BY DEF StateFits, ManifestKnown, JournalStands, DiskTypeOK, AnchorPhases
  <1>6. RollsBackUnseen'
    BY DEF RollsBackUnseen, At, Retiring, ManifestKnown
  <1>7. AllStaged'
    BY DEF AllStaged, JournalStands, Published
  <1>8. Shows'
    BY DEF Shows, Published
  <1> QED BY <1>1, <1>2, <1>3, <1>4, <1>5, <1>6, <1>7, <1>8

LEMMA WriteTemporaryKeeps == ASSUME ShownInv, WriteTemporary PROVE ShownInv'
  <1> USE
         DEF ShownInv, WriteTemporary, AnchorKinds, Retire, Resume, Rename, AnchoredWrite, Private,
             Retired, Due, RecordPhase, AfterRemoval, Recovering, ManifestSettled
  <1>1. DiskTypeOK'
    BY EntriesTyped
       DEF DiskTypeOK, Labels, NotAnchored, CutShort, Disagreements, DebtsTyped, Anchored, AnchorPhases
  <1>2. LabelsFit'
    BY DEF LabelsFit, Retiring, BacksOf, LabelsOf, Ended, DiskTypeOK
  <1>3. JournalStands' /\ JournalLeaves'
    BY DEF JournalStands, JournalLeaves, Retiring, At, WithJournal, DiskTypeOK, AnchorPhases
  <1>4. TemporaryWritten'
    BY DEF TemporaryWritten, JournalStands, DiskTypeOK, AnchorPhases, Build
  <1>5. StateFits' /\ ManifestKnown'
    BY DEF StateFits, ManifestKnown, JournalStands, DiskTypeOK, AnchorPhases
  <1>6. RollsBackUnseen'
    BY DEF RollsBackUnseen, At, Retiring, ManifestKnown
  <1>7. AllStaged'
    BY DEF AllStaged, JournalStands, Published
  <1>8. Shows'
    BY DEF Shows, Published
  <1> QED BY <1>1, <1>2, <1>3, <1>4, <1>5, <1>6, <1>7, <1>8

LEMMA PublishJournalKeeps == ASSUME ShownInv, PublishJournal PROVE ShownInv'
  <1>a. NewTransaction \in Journals /\ NewTransaction # NoJournal
          /\ NewTransaction.state = "initializing" /\ NewTransaction.making = "none"
    BY DEF NewTransaction, Journals
  <1>c. anc \in AnchorPhases
    BY DEF ShownInv, DiskTypeOK
  <1>d. [anc EXCEPT !.journal = "transition"] \in AnchorPhases
    BY <1>c, AnchorEdited DEF AnchorPhases
  <1>e. [anc EXCEPT !.journal = "active", !.temporary = "none"] \in AnchorPhases
    BY <1>c, AnchorEdited DEF AnchorPhases
  <1>b. anc' \in AnchorPhases /\ anc'.manifest = anc.manifest
          /\ (anc'.journal = "retiring" <=> anc.journal = "retiring")
    BY <1>c, <1>d, <1>e DEF PublishJournal, AnchorPhases
  <1>q. debt.kind # "journal" /\ Journal \notin trash /\ anc.manifest = "none"
    BY DEF ShownInv, JournalStands, JournalLeaves, StateFits, ManifestKnown, PublishJournal, Build
  <1>r. \/ jrn' = jrn /\ fs' = fs /\ pc' = "temporary"
        \/ jrn' = NewTransaction /\ Journal \in fs' /\ pc' = "temporary"
        \/ jrn' = jrn /\ fs' = fs /\ Journal \in fs /\ pc' = "work"
    BY DEF PublishJournal, Rename, ShownInv, TemporaryWritten, Build
  <1>s. /\ pc = "temporary" /\ mode = "build" /\ debt' = debt /\ intent' = intent /\ trash' = trash
             /\ mode' = mode
        /\ (Partial \in fs' <=> Partial \in fs) /\ (Manifest \in fs' <=> Manifest \in fs)
    BY DEF PublishJournal, Rename, Build
  <1> USE <1>a, <1>c, <1>d, <1>e, <1>b, <1>q, <1>r, <1>s
         DEF ShownInv, PublishJournal, AnchorKinds, Retire, Resume, Rename, AnchoredWrite, Private,
             Retired, Due, RecordPhase, AfterRemoval, Recovering, ManifestSettled
  <1>1. DiskTypeOK'
    BY EntriesTyped
       DEF DiskTypeOK, Labels, NotAnchored, CutShort, Disagreements, DebtsTyped, Anchored, AnchorPhases
  <1>2. LabelsFit'
    BY DEF LabelsFit, Retiring, BacksOf, LabelsOf, Ended, DiskTypeOK
  <1>3. JournalStands' /\ JournalLeaves'
    BY DEF JournalStands, JournalLeaves, Retiring, At, WithJournal, DiskTypeOK, AnchorPhases
  <1>4. TemporaryWritten'
    BY DEF TemporaryWritten, JournalStands, DiskTypeOK, AnchorPhases, Build
  <1>5. StateFits' /\ ManifestKnown'
    BY <1>a, <1>b, <1>q, <1>r, <1>s DEF StateFits, ManifestKnown, JournalStands, NewTransaction
  <1>6. RollsBackUnseen'
    BY DEF RollsBackUnseen, At, Retiring, ManifestKnown
  <1>7. AllStaged'
    BY DEF AllStaged, JournalStands, Published
  <1>8. Shows'
    BY DEF Shows, Published
  <1> QED BY <1>1, <1>2, <1>3, <1>4, <1>5, <1>6, <1>7, <1>8

LEMMA MakeWorkKeeps == ASSUME ShownInv, MakeWork PROVE ShownInv'
  <1>0. jrn \in Journals /\ Journal \in fs /\ debt.kind # "journal"
    BY InJournal DEF MakeWork, Build, At, Retiring, WithJournal
  <1>a. jrn' = jrn \/ jrn' = [jrn EXCEPT !.state = "owner_initializing"]
    BY DEF MakeWork
  <1>e. LET k == [jrn EXCEPT !.state = "owner_initializing"] IN
        /\ k \in Journals /\ k # NoJournal
        /\ k.state = "owner_initializing" /\ k.inventory = jrn.inventory /\ k.removed = jrn.removed
             /\ k.prefix = jrn.prefix /\ k.made = jrn.made /\ k.making = jrn.making
             /\ k.undone = jrn.undone /\ k.undo = jrn.undo /\ k.unmade = jrn.unmade
    BY <1>0, StateEdited DEF JournalStates
  <1>b. jrn' = jrn \/ (jrn' \in Journals /\ jrn' # NoJournal /\ jrn'.state = "owner_initializing"
          /\ jrn'.prefix = jrn.prefix
            /\ jrn'.making = jrn.making /\ jrn'.made = jrn.made)
    BY <1>a, <1>e
  <1> USE <1>0, <1>a, <1>e, <1>b
         DEF ShownInv, MakeWork, AnchorKinds, Retire, Resume, Rename, AnchoredWrite, Private,
             Retired, Due, RecordPhase, AfterRemoval, Recovering, ManifestSettled
  <1>1. DiskTypeOK'
    BY EntriesTyped
       DEF DiskTypeOK, Labels, NotAnchored, CutShort, Disagreements, DebtsTyped, Anchored, AnchorPhases
  <1>2. LabelsFit'
    BY DEF LabelsFit, Retiring, BacksOf, LabelsOf, Ended, DiskTypeOK
  <1>3. JournalStands' /\ JournalLeaves'
    BY DEF JournalStands, JournalLeaves, Retiring, At, WithJournal, DiskTypeOK, AnchorPhases
  <1>4. TemporaryWritten'
    BY DEF TemporaryWritten, JournalStands, DiskTypeOK, AnchorPhases, Build
  <1>5. StateFits' /\ ManifestKnown'
    BY DEF StateFits, ManifestKnown, JournalStands, DiskTypeOK, AnchorPhases
  <1>6. RollsBackUnseen'
    BY DEF RollsBackUnseen, At, Retiring, ManifestKnown
  <1>7. AllStaged'
    BY DEF AllStaged, JournalStands, Published
  <1>8. Shows'
    BY DEF Shows, Published
  <1> QED BY <1>1, <1>2, <1>3, <1>4, <1>5, <1>6, <1>7, <1>8

LEMMA WriteOwnerMarkerKeeps == ASSUME ShownInv, WriteOwnerMarker PROVE ShownInv'
  <1> USE
         DEF ShownInv, WriteOwnerMarker, AnchorKinds, Retire, Resume, Rename, AnchoredWrite,
             Private, Retired, Due, RecordPhase, AfterRemoval, Recovering, ManifestSettled
  <1>1. DiskTypeOK'
    BY EntriesTyped
       DEF DiskTypeOK, Labels, NotAnchored, CutShort, Disagreements, DebtsTyped, Anchored, AnchorPhases
  <1>2. LabelsFit'
    BY DEF LabelsFit, Retiring, BacksOf, LabelsOf, Ended, DiskTypeOK
  <1>3. JournalStands' /\ JournalLeaves'
    BY DEF JournalStands, JournalLeaves, Retiring, At, WithJournal, DiskTypeOK, AnchorPhases
  <1>4. TemporaryWritten'
    BY DEF TemporaryWritten, JournalStands, DiskTypeOK, AnchorPhases, Build
  <1>5. StateFits' /\ ManifestKnown'
    BY DEF StateFits, ManifestKnown, JournalStands, DiskTypeOK, AnchorPhases
  <1>6. RollsBackUnseen'
    BY DEF RollsBackUnseen, At, Retiring, ManifestKnown
  <1>7. AllStaged'
    BY DEF AllStaged, JournalStands, Published
  <1>8. Shows'
    BY DEF Shows, Published
  <1> QED BY <1>1, <1>2, <1>3, <1>4, <1>5, <1>6, <1>7, <1>8

LEMMA StartBuildingKeeps == ASSUME ShownInv, StartBuilding PROVE ShownInv'
  <1>0. jrn \in Journals /\ Journal \in fs /\ debt.kind # "journal"
    BY InJournal DEF StartBuilding, Build, At, Retiring, WithJournal
  <1>a. jrn' = jrn \/ jrn' = [jrn EXCEPT !.state = "building"]
    BY DEF StartBuilding
  <1>e. LET k == [jrn EXCEPT !.state = "building"] IN
        /\ k \in Journals /\ k # NoJournal
        /\ k.state = "building" /\ k.inventory = jrn.inventory /\ k.removed = jrn.removed
             /\ k.prefix = jrn.prefix /\ k.made = jrn.made /\ k.making = jrn.making
             /\ k.undone = jrn.undone /\ k.undo = jrn.undo /\ k.unmade = jrn.unmade
    BY <1>0, StateEdited DEF JournalStates
  <1>b. jrn' = jrn \/ (jrn' \in Journals /\ jrn' # NoJournal /\ jrn'.state = "building"
          /\ jrn'.prefix = jrn.prefix
            /\ jrn'.making = jrn.making /\ jrn'.made = jrn.made)
    BY <1>a, <1>e
  <1> USE <1>0, <1>a, <1>e, <1>b
         DEF ShownInv, StartBuilding, AnchorKinds, Retire, Resume, Rename, AnchoredWrite, Private,
             Retired, Due, RecordPhase, AfterRemoval, Recovering, ManifestSettled
  <1>1. DiskTypeOK'
    BY EntriesTyped
       DEF DiskTypeOK, Labels, NotAnchored, CutShort, Disagreements, DebtsTyped, Anchored, AnchorPhases
  <1>2. LabelsFit'
    BY DEF LabelsFit, Retiring, BacksOf, LabelsOf, Ended, DiskTypeOK
  <1>3. JournalStands' /\ JournalLeaves'
    BY DEF JournalStands, JournalLeaves, Retiring, At, WithJournal, DiskTypeOK, AnchorPhases
  <1>4. TemporaryWritten'
    BY DEF TemporaryWritten, JournalStands, DiskTypeOK, AnchorPhases, Build
  <1>5. StateFits' /\ ManifestKnown'
    BY DEF StateFits, ManifestKnown, JournalStands, DiskTypeOK, AnchorPhases
  <1>6. RollsBackUnseen'
    BY DEF RollsBackUnseen, At, Retiring, ManifestKnown
  <1>7. AllStaged'
    BY DEF AllStaged, JournalStands, Published
  <1>8. Shows'
    BY DEF Shows, Published
  <1> QED BY <1>1, <1>2, <1>3, <1>4, <1>5, <1>6, <1>7, <1>8

LEMMA WriteRunsKeeps == ASSUME ShownInv, WriteRuns PROVE ShownInv'
  <1> USE
         DEF ShownInv, WriteRuns, AnchorKinds, Retire, Resume, Rename, AnchoredWrite, Private,
             Retired, Due, RecordPhase, AfterRemoval, Recovering, ManifestSettled
  <1>1. DiskTypeOK'
    BY EntriesTyped
       DEF DiskTypeOK, Labels, NotAnchored, CutShort, Disagreements, DebtsTyped, Anchored, AnchorPhases
  <1>2. LabelsFit'
    BY DEF LabelsFit, Retiring, BacksOf, LabelsOf, Ended, DiskTypeOK
  <1>3. JournalStands' /\ JournalLeaves'
    BY DEF JournalStands, JournalLeaves, Retiring, At, WithJournal, DiskTypeOK, AnchorPhases
  <1>4. TemporaryWritten'
    BY DEF TemporaryWritten, JournalStands, DiskTypeOK, AnchorPhases, Build
  <1>5. StateFits' /\ ManifestKnown'
    BY DEF StateFits, ManifestKnown, JournalStands, DiskTypeOK, AnchorPhases
  <1>6. RollsBackUnseen'
    BY DEF RollsBackUnseen, At, Retiring, ManifestKnown
  <1>7. AllStaged'
    BY DEF AllStaged, JournalStands, Published
  <1>8. Shows'
    BY DEF Shows, Published
  <1> QED BY <1>1, <1>2, <1>3, <1>4, <1>5, <1>6, <1>7, <1>8

LEMMA StageShardKeeps == ASSUME ShownInv, StageShard PROVE ShownInv'
  <1>t. \A i \in Shard : Staged(i) \in Entry
    BY EntriesTyped
  <1>a. PICK i \in Shard : /\ \A j \in 1..(i - 1) : Staged(j) \in fs
                        /\ fs' = fs \cup {Staged(i)}
                             /\ Goto(IF i = Shards THEN "built" ELSE "build")
    BY DEF StageShard
  <1> USE <1>t, <1>a
         DEF ShownInv, StageShard, AnchorKinds, Retire, Resume, Rename, AnchoredWrite, Private,
             Retired, Due, RecordPhase, AfterRemoval, Recovering, ManifestSettled
  <1>1. DiskTypeOK'
    BY DEF DiskTypeOK, Labels, NotAnchored, CutShort, Disagreements, DebtsTyped, Anchored, AnchorPhases
  <1>2. LabelsFit'
    BY DEF LabelsFit, Retiring, BacksOf, LabelsOf, Ended, DiskTypeOK
  <1>3. JournalStands' /\ JournalLeaves'
    BY DEF JournalStands, JournalLeaves, Retiring, At, WithJournal, DiskTypeOK, AnchorPhases
  <1>4. TemporaryWritten'
    BY DEF TemporaryWritten, JournalStands, DiskTypeOK, AnchorPhases, Build
  <1>5. StateFits' /\ ManifestKnown'
    BY DEF StateFits, ManifestKnown, JournalStands, DiskTypeOK, AnchorPhases
  <1>6. RollsBackUnseen'
    BY DEF RollsBackUnseen, At, Retiring, ManifestKnown
  <1>7. AllStaged'
    BY DEF AllStaged, JournalStands, Published, Shard
  <1>8. Shows'
    BY DEF Shows, Published
  <1> QED BY <1>1, <1>2, <1>3, <1>4, <1>5, <1>6, <1>7, <1>8

LEMMA BuiltKeeps == ASSUME ShownInv, Built PROVE ShownInv'
  <1>0. jrn \in Journals /\ Journal \in fs /\ debt.kind # "journal"
    BY InJournal DEF Built, Build, At, Retiring, WithJournal
  <1>a. jrn' = jrn \/ jrn' = [jrn EXCEPT !.state = "publishing"]
    BY DEF Built
  <1>e. LET k == [jrn EXCEPT !.state = "publishing"] IN
        /\ k \in Journals /\ k # NoJournal
        /\ k.state = "publishing" /\ k.inventory = jrn.inventory /\ k.removed = jrn.removed
             /\ k.prefix = jrn.prefix /\ k.made = jrn.made /\ k.making = jrn.making
             /\ k.undone = jrn.undone /\ k.undo = jrn.undo /\ k.unmade = jrn.unmade
    BY <1>0, StateEdited DEF JournalStates
  <1>b. jrn' = jrn \/ (jrn' \in Journals /\ jrn' # NoJournal /\ jrn'.state = "publishing"
          /\ jrn'.prefix = jrn.prefix
            /\ jrn'.making = jrn.making /\ jrn'.made = jrn.made)
    BY <1>a, <1>e
  <1> USE <1>0, <1>a, <1>e, <1>b
         DEF ShownInv, Built, AnchorKinds, Retire, Resume, Rename, AnchoredWrite, Private, Retired,
             Due, RecordPhase, AfterRemoval, Recovering, ManifestSettled
  <1>1. DiskTypeOK'
    BY EntriesTyped
       DEF DiskTypeOK, Labels, NotAnchored, CutShort, Disagreements, DebtsTyped, Anchored, AnchorPhases
  <1>2. LabelsFit'
    BY DEF LabelsFit, Retiring, BacksOf, LabelsOf, Ended, DiskTypeOK
  <1>3. JournalStands' /\ JournalLeaves'
    BY DEF JournalStands, JournalLeaves, Retiring, At, WithJournal, DiskTypeOK, AnchorPhases
  <1>4. TemporaryWritten'
    BY DEF TemporaryWritten, JournalStands, DiskTypeOK, AnchorPhases, Build
  <1>5. StateFits' /\ ManifestKnown'
    BY DEF StateFits, ManifestKnown, JournalStands, DiskTypeOK, AnchorPhases
  <1>6. RollsBackUnseen'
    BY DEF RollsBackUnseen, At, Retiring, ManifestKnown
  <1>7. AllStaged'
    BY DEF AllStaged, StateFits, Shows, Published, Shard
  <1>8. Shows'
    BY DEF Shows, Published
  <1> QED BY <1>1, <1>2, <1>3, <1>4, <1>5, <1>6, <1>7, <1>8

LEMMA MakeDirectoryKeeps == ASSUME ShownInv, MakeDirectory PROVE ShownInv'
  <1>0. jrn \in Journals /\ Journal \in fs /\ debt.kind # "journal"
    BY InJournal DEF MakeDirectory, Build, At, Retiring, WithJournal
  <1>m. jrn.made + 1 \in 1..Directories /\ jrn.made + 1 \in 0..Directories
          /\ jrn.made \in 0..Directories
    BY <1>0, JournalThere DEF MakeDirectory
  <1>n. "none" \in {"none", "initializing", "staged"}
    OBVIOUS
  <1>x. PICK more \in 0..Directories : more = jrn.made + 1
    BY <1>m
  <1>a. jrn' = jrn \/ jrn' = [jrn EXCEPT !.making = "initializing"]
          \/ jrn' = [jrn EXCEPT !.making = "staged"]
           \/ jrn' = [jrn EXCEPT !.made = jrn.made + 1, !.making = "none"]
    BY DEF MakeDirectory
  <1>e. LET k == [jrn EXCEPT !.making = "initializing"] IN
        /\ k \in Journals /\ k # NoJournal
        /\ k.state = jrn.state /\ k.inventory = jrn.inventory /\ k.removed = jrn.removed
             /\ k.prefix = jrn.prefix /\ k.made = jrn.made /\ k.making = "initializing"
             /\ k.undone = jrn.undone /\ k.undo = jrn.undo /\ k.unmade = jrn.unmade
    BY <1>0, MakingEdited
  <1>f. LET k == [jrn EXCEPT !.making = "staged"] IN
        /\ k \in Journals /\ k # NoJournal
        /\ k.state = jrn.state /\ k.inventory = jrn.inventory /\ k.removed = jrn.removed
             /\ k.prefix = jrn.prefix /\ k.made = jrn.made /\ k.making = "staged"
             /\ k.undone = jrn.undone /\ k.undo = jrn.undo /\ k.unmade = jrn.unmade
    BY <1>0, MakingEdited
  <1>g. [jrn EXCEPT !.made = more, !.making = "none"] \in Journals
    BY <1>0, <1>n, <1>x, MadeEdited
  <1>k. LET k == [jrn EXCEPT !.made = more, !.making = "none"] IN k.state = jrn.state
          /\ k.prefix = jrn.prefix /\ k.making = "none"
    BY <1>0 DEF Journals
  <1>h. jrn \in Journals => jrn # NoJournal
    BY JournalThere
  <1>b. /\ jrn' \in Journals /\ jrn' # NoJournal /\ jrn'.state = jrn.state
             /\ jrn'.prefix = jrn.prefix
        /\ jrn'.making # "none" => jrn'.made < Directories
    BY <1>0, <1>a, <1>m, <1>e, <1>f, <1>g, <1>k, <1>h, <1>x, JournalThere DEF MakeDirectory
  <1>c. fs' = fs \/ fs' = fs \cup {Staging} \/ fs' = (fs \ {Staging}) \cup {Directory(jrn.made + 1)}
    BY DEF MakeDirectory, Rename
  <1>d. (Manifest \in fs' <=> Manifest \in fs) /\ (Journal \in fs' <=> Journal \in fs)
          /\ (Partial \in fs' <=> Partial \in fs)
        /\ \A i \in Shard : (Staged(i) \in fs' <=> Staged(i) \in fs)
             /\ (Final(i) \in fs' <=> Final(i) \in fs)
    BY <1>c
  <1> USE <1>0, <1>m, <1>n, <1>x, <1>a, <1>e, <1>f, <1>g, <1>k, <1>h, <1>b, <1>c, <1>d
         DEF ShownInv, MakeDirectory, AnchorKinds, Retire, Resume, Rename, AnchoredWrite, Private,
             Retired, Due, RecordPhase, AfterRemoval, Recovering, ManifestSettled
  <1>1. DiskTypeOK'
    BY <1>m, EntriesTyped
       DEF DiskTypeOK, Labels, NotAnchored, CutShort, Disagreements, DebtsTyped, Anchored, AnchorPhases
  <1>2. LabelsFit'
    BY DEF LabelsFit, Retiring, BacksOf, LabelsOf, Ended, DiskTypeOK
  <1>3. JournalStands' /\ JournalLeaves'
    BY DEF JournalStands, JournalLeaves, Retiring, At, WithJournal, DiskTypeOK, AnchorPhases
  <1>4. TemporaryWritten'
    BY DEF TemporaryWritten, JournalStands, DiskTypeOK, AnchorPhases, Build
  <1>5. StateFits' /\ ManifestKnown'
    BY DEF StateFits, ManifestKnown, JournalStands, DiskTypeOK, AnchorPhases
  <1>6. RollsBackUnseen'
    BY DEF RollsBackUnseen, At, Retiring, ManifestKnown
  <1>7. AllStaged'
    BY <1>d DEF AllStaged, JournalStands, Published
  <1>8. Shows'
    BY DEF Shows, Published
  <1> QED BY <1>1, <1>2, <1>3, <1>4, <1>5, <1>6, <1>7, <1>8

LEMMA PublishShardKeeps == ASSUME ShownInv, PublishShard PROVE ShownInv'
  <1>0. jrn \in Journals /\ Journal \in fs /\ debt.kind # "journal"
    BY InJournal DEF PublishShard, Build, At, Retiring, WithJournal
  <1>m. jrn.prefix \in 0..Shards /\ (jrn.prefix # Shards => jrn.prefix + 1 \in Shard)
          /\ jrn.state = "publishing"
    BY <1>0, JournalThere DEF PublishShard, Shard, ShownInv, StateFits, Build
  <1>a. jrn' = jrn \/ (jrn.prefix # Shards /\ jrn' = [jrn EXCEPT !.prefix = jrn.prefix + 1])
    BY <1>m DEF PublishShard
  <1>e. jrn.prefix # Shards => LET k == [jrn EXCEPT !.prefix = jrn.prefix + 1] IN
        /\ k \in Journals /\ k # NoJournal
        /\ k.state = jrn.state /\ k.inventory = jrn.inventory /\ k.removed = jrn.removed
             /\ k.prefix = jrn.prefix + 1 /\ k.made = jrn.made /\ k.making = jrn.making
             /\ k.undone = jrn.undone /\ k.undo = jrn.undo /\ k.unmade = jrn.unmade
    BY <1>0, <1>m, PrefixEdited DEF Shard
  <1>h. jrn # NoJournal
    BY <1>0, JournalThere
  <1>b. jrn' \in Journals /\ jrn' # NoJournal /\ jrn'.state = jrn.state /\ jrn'.making = jrn.making
          /\ jrn'.made = jrn.made
          /\ (jrn' = jrn \/ jrn'.prefix = jrn.prefix + 1)
    BY <1>0, <1>a, <1>e, <1>h
  <1> USE <1>0, <1>m, <1>a, <1>e, <1>h, <1>b
         DEF ShownInv, PublishShard, AnchorKinds, Retire, Resume, Rename, AnchoredWrite, Private,
             Retired, Due, RecordPhase, AfterRemoval, Recovering, ManifestSettled
  <1>1. DiskTypeOK'
    BY <1>m, EntriesTyped
       DEF DiskTypeOK, Labels, NotAnchored, CutShort, Disagreements, DebtsTyped, Anchored, AnchorPhases
  <1>2. LabelsFit'
    BY DEF LabelsFit, Retiring, BacksOf, LabelsOf, Ended, DiskTypeOK
  <1>3. JournalStands' /\ JournalLeaves'
    BY DEF JournalStands, JournalLeaves, Retiring, At, WithJournal, DiskTypeOK, AnchorPhases
  <1>4. TemporaryWritten'
    BY DEF TemporaryWritten, JournalStands, DiskTypeOK, AnchorPhases, Build
  <1>5. StateFits' /\ ManifestKnown'
    BY DEF StateFits, ManifestKnown, JournalStands, DiskTypeOK, AnchorPhases
  <1>6. RollsBackUnseen'
    BY DEF RollsBackUnseen, At, Retiring, ManifestKnown
  <1>7. AllStaged'
    <2>1. CASE jrn.prefix # Shards /\ Staged(jrn.prefix + 1) \in fs
      BY <2>1 DEF AllStaged, Published, Shard
    <2>2. CASE jrn.prefix # Shards /\ Staged(jrn.prefix + 1) \notin fs
      <3>1. \A i \in 1..(jrn.prefix + 1) : i \in 1..jrn.prefix \/ i = jrn.prefix + 1   BY <1>m
      <3>2. Final(jrn.prefix + 1) \in fs   BY <2>2 DEF AllStaged
      <3> QED BY <2>2, <3>1, <3>2 DEF AllStaged
    <2>3. CASE jrn.prefix = Shards
      BY <2>3 DEF AllStaged, Published, Shard
    <2> QED BY <2>1, <2>2, <2>3
  <1>8. Shows'
    BY DEF Shows, Published
  <1> QED BY <1>1, <1>2, <1>3, <1>4, <1>5, <1>6, <1>7, <1>8

LEMMA WriteManifestKeeps == ASSUME ShownInv, WriteManifest PROVE ShownInv'
  <1> USE
         DEF ShownInv, WriteManifest, AnchorKinds, Retire, Resume, Rename, AnchoredWrite, Private,
             Retired, Due, RecordPhase, AfterRemoval, Recovering, ManifestSettled
  <1>1. DiskTypeOK'
    BY EntriesTyped
       DEF DiskTypeOK, Labels, NotAnchored, CutShort, Disagreements, DebtsTyped, Anchored, AnchorPhases
  <1>2. LabelsFit'
    BY DEF LabelsFit, Retiring, BacksOf, LabelsOf, Ended, DiskTypeOK
  <1>3. JournalStands' /\ JournalLeaves'
    BY DEF JournalStands, JournalLeaves, Retiring, At, WithJournal, DiskTypeOK, AnchorPhases
  <1>4. TemporaryWritten'
    BY DEF TemporaryWritten, JournalStands, DiskTypeOK, AnchorPhases, Build
  <1>5. StateFits' /\ ManifestKnown'
    BY DEF StateFits, ManifestKnown, JournalStands, DiskTypeOK, AnchorPhases
  <1>6. RollsBackUnseen'
    BY DEF RollsBackUnseen, At, Retiring, ManifestKnown
  <1>7. AllStaged'
    BY DEF AllStaged, JournalStands, Published
  <1>8. Shows'
    BY DEF AllStaged, StateFits, Shows, Published
  <1> QED BY <1>1, <1>2, <1>3, <1>4, <1>5, <1>6, <1>7, <1>8

LEMMA StartVerifyingKeeps == ASSUME ShownInv, StartVerifying PROVE ShownInv'
  <1> USE
         DEF ShownInv, StartVerifying, AnchorKinds, Retire, Resume, Rename, AnchoredWrite, Private,
             Retired, Due, RecordPhase, AfterRemoval, Recovering, ManifestSettled
  <1>1. DiskTypeOK'
    BY EntriesTyped
       DEF DiskTypeOK, Labels, NotAnchored, CutShort, Disagreements, DebtsTyped, Anchored, AnchorPhases
  <1>2. LabelsFit'
    BY DEF LabelsFit, Retiring, BacksOf, LabelsOf, Ended, DiskTypeOK
  <1>3. JournalStands' /\ JournalLeaves'
    BY DEF JournalStands, JournalLeaves, Retiring, At, WithJournal, DiskTypeOK, AnchorPhases
  <1>4. TemporaryWritten'
    BY DEF TemporaryWritten, JournalStands, DiskTypeOK, AnchorPhases, Build
  <1>5. StateFits' /\ ManifestKnown'
    BY DEF StateFits, ManifestKnown, JournalStands, DiskTypeOK, AnchorPhases
  <1>6. RollsBackUnseen'
    BY DEF RollsBackUnseen, At, Retiring, ManifestKnown
  <1>7. AllStaged'
    BY DEF AllStaged, JournalStands, Published
  <1>8. Shows'
    BY DEF Shows, Published
  <1> QED BY <1>1, <1>2, <1>3, <1>4, <1>5, <1>6, <1>7, <1>8

LEMMA MoveVerifyingKeeps == ASSUME ShownInv, MoveVerifying PROVE ShownInv'
  <1> USE
         DEF ShownInv, MoveVerifying, AnchorKinds, Retire, Resume, Rename, AnchoredWrite, Private,
             Retired, Due, RecordPhase, AfterRemoval, Recovering, ManifestSettled
  <1>1. DiskTypeOK'
    BY
       DEF DiskTypeOK, Labels, NotAnchored, CutShort, Disagreements, DebtsTyped, Anchored, Journals,
           AnchorPhases
  <1>2. LabelsFit'
    BY DEF LabelsFit, Retiring, BacksOf, LabelsOf, Ended, DiskTypeOK
  <1>3. JournalStands' /\ JournalLeaves'
    BY DEF JournalStands, JournalLeaves, Retiring, At, WithJournal, DiskTypeOK, AnchorPhases
  <1>4. TemporaryWritten'
    BY DEF TemporaryWritten, JournalStands, DiskTypeOK, AnchorPhases, Build
  <1>5. StateFits' /\ ManifestKnown'
    BY DEF StateFits, ManifestKnown, JournalStands, DiskTypeOK, AnchorPhases
  <1>6. RollsBackUnseen'
    BY DEF RollsBackUnseen, At, Retiring, ManifestKnown
  <1>7. AllStaged'
    BY DEF AllStaged, JournalStands, Published
  <1>8. Shows'
    BY DEF Shows, Published
  <1> QED BY <1>1, <1>2, <1>3, <1>4, <1>5, <1>6, <1>7, <1>8

LEMMA EndVerifyingKeeps == ASSUME ShownInv, EndVerifying PROVE ShownInv'
  <1> USE
         DEF ShownInv, EndVerifying, AnchorKinds, Retire, Resume, Rename, AnchoredWrite, Private,
             Retired, Due, RecordPhase, AfterRemoval, Recovering, ManifestSettled
  <1>1. DiskTypeOK'
    BY
       DEF DiskTypeOK, Labels, NotAnchored, CutShort, Disagreements, DebtsTyped, Anchored,
           Journals, AnchorPhases
  <1>2. LabelsFit'
    BY DEF LabelsFit, Retiring, BacksOf, LabelsOf, Ended, DiskTypeOK
  <1>3. JournalStands' /\ JournalLeaves'
    BY DEF JournalStands, JournalLeaves, Retiring, At, WithJournal, DiskTypeOK, AnchorPhases
  <1>4. TemporaryWritten'
    BY DEF TemporaryWritten, JournalStands, DiskTypeOK, AnchorPhases, Build
  <1>5. StateFits' /\ ManifestKnown'
    BY DEF StateFits, ManifestKnown, JournalStands, DiskTypeOK, AnchorPhases
  <1>6. RollsBackUnseen'
    BY DEF RollsBackUnseen, At, Retiring, ManifestKnown
  <1>7. AllStaged'
    BY DEF AllStaged, JournalStands, Published
  <1>8. Shows'
    BY DEF Shows, Published
  <1> QED BY <1>1, <1>2, <1>3, <1>4, <1>5, <1>6, <1>7, <1>8

LEMMA MoveToTrashKeeps == ASSUME ShownInv, MoveToTrash PROVE ShownInv'
  <1>t. DebtsTyped
    BY DEF ShownInv, DiskTypeOK, DebtsTyped
  <1>n. Due # NoDebt
    BY DEF MoveToTrash
  <1>u. /\ Due.entry # Manifest
        /\ Due.entry = Journal <=> debt.kind = "journal"
        /\ Due.entry = Partial <=> debt.kind = "manifest"
        /\ (\E i \in Shard : Due.entry = Final(i)) => intent.kind = "shard"
        /\ debt.kind = "journal" => Due = debt
    BY <1>n, DueFacts
  <1> USE <1>t, <1>n, <1>u DEF ShownInv, MoveToTrash
  <1>1. DiskTypeOK'
    BY
       DEF DiskTypeOK, Labels, NotAnchored, CutShort, Disagreements, DebtsTyped, Anchored, Journals,
           AnchorPhases
  <1>2. LabelsFit'
    BY DEF LabelsFit, Retiring, BacksOf, LabelsOf, Ended, DiskTypeOK
  <1>3. JournalStands' /\ JournalLeaves'
    BY DEF JournalStands, JournalLeaves, Retiring, At, WithJournal, DiskTypeOK, AnchorPhases
  <1>4. TemporaryWritten'
    BY DEF TemporaryWritten, JournalStands, DiskTypeOK, AnchorPhases, Build
  <1>5. StateFits' /\ ManifestKnown'
    BY DEF StateFits, ManifestKnown, JournalStands, DiskTypeOK, AnchorPhases
  <1>6. RollsBackUnseen'
    BY DEF RollsBackUnseen, At, Retiring, ManifestKnown
  <1>7. AllStaged'
    BY DEF AllStaged, JournalStands, Published, ManifestKnown
  <1>8. Shows'
    BY DEF Shows, Published, RollsBackUnseen
  <1> QED BY <1>1, <1>2, <1>3, <1>4, <1>5, <1>6, <1>7, <1>8

LEMMA RecordMoveKeeps == ASSUME ShownInv, RecordMove PROVE ShownInv'
  <1>t. DebtsTyped
    BY DEF ShownInv, DiskTypeOK, DebtsTyped
  <1>n. Due # NoDebt /\ "quarantined" \in {"quarantined", "gone"}
    BY DEF RecordMove
  <1>r. RecordPhase("quarantined")
    BY DEF RecordMove
  <1>u. /\ Due.entry # Manifest
        /\ Due.entry = Journal <=> debt.kind = "journal"
        /\ debt.kind = "journal" => Due = debt
    BY <1>n, DueFacts
  <1>p. /\ DebtsTyped'
        /\ debt'.kind = debt.kind /\ debt'.entry = debt.entry
        /\ intent'.kind = intent.kind /\ intent'.entry = intent.entry
        /\ debt' = NoDebt <=> debt = NoDebt
        /\ intent' = NoDebt <=> intent = NoDebt
        /\ Due'.kind = Due.kind /\ Due'.entry = Due.entry /\ Due' # NoDebt
        /\ debt.kind = "journal" => debt'.phase \in {Due.phase, "quarantined"}
    BY <1>t, <1>n, <1>r, <1>u, PhaseTyped
  <1> USE <1>t, <1>n, <1>r, <1>u, <1>p DEF ShownInv, RecordMove
  <1>1. DiskTypeOK'
    BY
       DEF DiskTypeOK, Labels, NotAnchored, CutShort, Disagreements, DebtsTyped, Anchored, Journals,
           AnchorPhases
  <1>2. LabelsFit'
    BY DEF LabelsFit, Retiring, BacksOf, LabelsOf, Ended, DiskTypeOK
  <1>3. JournalStands' /\ JournalLeaves'
    BY DEF JournalStands, JournalLeaves, Retiring, At, WithJournal
  <1>4. TemporaryWritten'
    BY DEF TemporaryWritten, Build
  <1>5. StateFits' /\ ManifestKnown'
    BY DEF StateFits, ManifestKnown, JournalStands, DiskTypeOK, AnchorPhases
  <1>6. RollsBackUnseen'
    BY DEF RollsBackUnseen, At, Retiring, ManifestKnown
  <1>7. AllStaged'
    BY DEF AllStaged, JournalStands, Published
  <1>8. Shows'
    BY DEF Shows, Published
  <1> QED BY <1>1, <1>2, <1>3, <1>4, <1>5, <1>6, <1>7, <1>8

LEMMA UnlinkKeeps == ASSUME ShownInv, Unlink PROVE ShownInv'
  <1>n. Due # NoDebt
    BY DEF Unlink, RecordsQuarantine
  <1>u. /\ Due.entry # Manifest
        /\ Due.entry = Journal <=> debt.kind = "journal"
        /\ Due.entry = Partial <=> debt.kind = "manifest"
        /\ (\E i \in Shard : Due.entry = Final(i)) => intent.kind = "shard"
        /\ debt.kind = "journal" => Due = debt
    BY <1>n, DueFacts
  <1> USE <1>n, <1>u
         DEF ShownInv, Unlink, AnchorKinds, Retire, Resume, Rename, AnchoredWrite, Private, Retired,
             Due, RecordPhase, AfterRemoval, Recovering, ManifestSettled
  <1>1. DiskTypeOK'
    BY
       DEF DiskTypeOK, Labels, NotAnchored, CutShort, Disagreements, DebtsTyped, Anchored, Journals,
           AnchorPhases
  <1>2. LabelsFit'
    BY DEF LabelsFit, Retiring, BacksOf, LabelsOf, Ended, DiskTypeOK
  <1>3. JournalStands' /\ JournalLeaves'
    BY DEF JournalStands, JournalLeaves, Retiring, At, WithJournal, DiskTypeOK, AnchorPhases
  <1>4. TemporaryWritten'
    BY DEF TemporaryWritten, JournalStands, DiskTypeOK, AnchorPhases, Build
  <1>5. StateFits' /\ ManifestKnown'
    BY DEF StateFits, ManifestKnown, JournalStands, DiskTypeOK, AnchorPhases
  <1>6. RollsBackUnseen'
    BY DEF RollsBackUnseen, At, Retiring, ManifestKnown
  <1>7. AllStaged'
    BY DEF AllStaged, JournalStands, Published
  <1>8. Shows'
    BY DEF Shows, Published
  <1> QED BY <1>1, <1>2, <1>3, <1>4, <1>5, <1>6, <1>7, <1>8

LEMMA RecordGoneKeeps == ASSUME ShownInv, RecordGone PROVE ShownInv'
  <1>t. DebtsTyped
    BY DEF ShownInv, DiskTypeOK, DebtsTyped
  <1>n. Due # NoDebt /\ "gone" \in {"quarantined", "gone"}
    BY DEF RecordGone
  <1>r. RecordPhase("gone") \/ (intent' = intent /\ debt' = debt)
    BY DEF RecordGone
  <1>u. /\ Due.entry # Manifest
        /\ Due.entry = Journal <=> debt.kind = "journal"
        /\ debt.kind = "journal" => Due = debt
    BY <1>n, DueFacts
  <1>p. /\ DebtsTyped'
        /\ debt'.kind = debt.kind /\ debt'.entry = debt.entry
        /\ intent'.kind = intent.kind /\ intent'.entry = intent.entry
        /\ debt' = NoDebt <=> debt = NoDebt
        /\ intent' = NoDebt <=> intent = NoDebt
        /\ Due'.kind = Due.kind /\ Due'.entry = Due.entry /\ Due' # NoDebt
        /\ debt.kind = "journal" => debt'.phase \in {Due.phase, "gone"}
    BY <1>t, <1>n, <1>r, <1>u, PhaseTyped DEF DebtsTyped, Due
  <1> USE <1>t, <1>n, <1>r, <1>u, <1>p DEF ShownInv, RecordGone
  <1>1. DiskTypeOK'
    BY
       DEF DiskTypeOK, Labels, NotAnchored, CutShort, Disagreements, DebtsTyped, Anchored, Journals,
           AnchorPhases
  <1>2. LabelsFit'
    BY DEF LabelsFit, Retiring, BacksOf, LabelsOf, Ended, DiskTypeOK
  <1>3. JournalStands' /\ JournalLeaves'
    BY DEF JournalStands, JournalLeaves, Retiring, At, WithJournal
  <1>4. TemporaryWritten'
    BY DEF TemporaryWritten, Build
  <1>5. StateFits' /\ ManifestKnown'
    BY DEF StateFits, ManifestKnown, JournalStands, DiskTypeOK, AnchorPhases
  <1>6. RollsBackUnseen'
    BY DEF RollsBackUnseen, At, Retiring, ManifestKnown
  <1>7. AllStaged'
    BY DEF AllStaged, JournalStands, Published
  <1>8. Shows'
    BY DEF Shows, Published
  <1> QED BY <1>1, <1>2, <1>3, <1>4, <1>5, <1>6, <1>7, <1>8

LEMMA ResumeGoneKeeps == ASSUME ShownInv, ResumeGone PROVE ShownInv'
  <1> USE
         DEF ShownInv, ResumeGone, AnchorKinds, Retire, Resume, Rename, AnchoredWrite, Private,
             Retired, Due, RecordPhase, AfterRemoval, Recovering, ManifestSettled
  <1>1. DiskTypeOK'
    BY
       DEF DiskTypeOK, Labels, NotAnchored, CutShort, Disagreements, DebtsTyped, Anchored, Journals,
           AnchorPhases
  <1>2. LabelsFit'
    BY DEF LabelsFit, Retiring, BacksOf, LabelsOf, Ended, DiskTypeOK
  <1>3. JournalStands' /\ JournalLeaves'
    BY DEF JournalStands, JournalLeaves, Retiring, At, WithJournal, DiskTypeOK, AnchorPhases
  <1>4. TemporaryWritten'
    BY DEF TemporaryWritten, JournalStands, DiskTypeOK, AnchorPhases, Build
  <1>5. StateFits' /\ ManifestKnown'
    BY DEF StateFits, ManifestKnown, JournalStands, DiskTypeOK, AnchorPhases
  <1>6. RollsBackUnseen'
    BY DEF RollsBackUnseen, At, Retiring, ManifestKnown
  <1>7. AllStaged'
    BY DEF AllStaged, JournalStands, Published
  <1>8. Shows'
    BY DEF Shows, Published
  <1> QED BY <1>1, <1>2, <1>3, <1>4, <1>5, <1>6, <1>7, <1>8

LEMMA RetireLostKeeps == ASSUME ShownInv, RetireLost PROVE ShownInv'
  <1> USE
         DEF ShownInv, RetireLost, AnchorKinds, Retire, Resume, Rename, AnchoredWrite, Private,
             Retired, Due, RecordPhase, AfterRemoval, Recovering, ManifestSettled
  <1>1. DiskTypeOK'
    BY
       DEF DiskTypeOK, Labels, NotAnchored, CutShort, Disagreements, DebtsTyped, Anchored, Journals,
           AnchorPhases
  <1>2. LabelsFit'
    BY DEF LabelsFit, Retiring, BacksOf, LabelsOf, Ended, DiskTypeOK
  <1>3. JournalStands' /\ JournalLeaves'
    BY DEF JournalStands, JournalLeaves, Retiring, At, WithJournal, DiskTypeOK, AnchorPhases
  <1>4. TemporaryWritten'
    BY DEF TemporaryWritten, JournalStands, DiskTypeOK, AnchorPhases, Build
  <1>5. StateFits' /\ ManifestKnown'
    BY DEF StateFits, ManifestKnown, JournalStands, DiskTypeOK, AnchorPhases
  <1>6. RollsBackUnseen'
    BY DEF RollsBackUnseen, At, Retiring, ManifestKnown
  <1>7. AllStaged'
    BY DEF AllStaged, JournalStands, Published
  <1>8. Shows'
    BY DEF Shows, Published
  <1> QED BY <1>1, <1>2, <1>3, <1>4, <1>5, <1>6, <1>7, <1>8

LEMMA RefuseUnreadableKeeps == ASSUME ShownInv, RefuseUnreadable PROVE ShownInv'
  <1> USE
         DEF ShownInv, RefuseUnreadable, AnchorKinds, Retire, Resume, Rename, AnchoredWrite,
             Private, Retired, Due, RecordPhase, AfterRemoval, Recovering, ManifestSettled
  <1>1. DiskTypeOK'
    BY
       DEF DiskTypeOK, Labels, NotAnchored, CutShort, Disagreements, DebtsTyped, Anchored, Journals,
           AnchorPhases
  <1>2. LabelsFit'
    BY DEF LabelsFit, Retiring, BacksOf, LabelsOf, Ended, DiskTypeOK
  <1>3. JournalStands' /\ JournalLeaves'
    BY DEF JournalStands, JournalLeaves, Retiring, At, WithJournal, DiskTypeOK, AnchorPhases
  <1>4. TemporaryWritten'
    BY DEF TemporaryWritten, JournalStands, DiskTypeOK, AnchorPhases, Build
  <1>5. StateFits' /\ ManifestKnown'
    BY DEF StateFits, ManifestKnown, JournalStands, DiskTypeOK, AnchorPhases
  <1>6. RollsBackUnseen'
    BY DEF RollsBackUnseen, At, Retiring, ManifestKnown
  <1>7. AllStaged'
    BY DEF AllStaged, JournalStands, Published
  <1>8. Shows'
    BY DEF Shows, Published
  <1> QED BY <1>1, <1>2, <1>3, <1>4, <1>5, <1>6, <1>7, <1>8

LEMMA FinishPrivateFileKeeps == ASSUME ShownInv, FinishPrivateFile PROVE ShownInv'
  <1>n. Due # NoDebt /\ Due.kind \in {"temporary", "owner", "manifest"}
    BY DEF FinishPrivateFile, Retired, Anchored
  <1>u. Due = debt
    BY <1>n, DueFacts DEF IntentKinds
  <1>c. anc \in AnchorPhases
    BY DEF ShownInv, DiskTypeOK
  <1>a. /\ anc' \in AnchorPhases /\ anc'.journal = anc.journal
        /\ IF Due.kind = "manifest" THEN anc'.manifest = "none" ELSE anc'.manifest = anc.manifest
        /\ Due.kind # "temporary" => anc'.temporary = anc.temporary
    BY <1>n, <1>c DEF FinishPrivateFile, AnchorPhases
  <1>b. /\ pc = "retired" /\ pc' = back /\ debt' = NoDebt /\ intent' = intent /\ fs' = fs
             /\ trash' = trash /\ jrn' = jrn
        /\ back' = back /\ mode' = mode
    BY DEF FinishPrivateFile, Retired
  <1>v. /\ back \in {"recover", "begin", "handle", "rollback", "unpublish", "cleanup", "cleaned",
             "verify", "done", "down"}
        /\ mode = "build" => back \in {"cleanup", "cleaned", "verify", "done"}
        /\ debt.kind # "journal" => back \in WithJournal \cup {"recover", "handle"}
        /\ back \in WithJournal => debt.kind # "journal"
    BY BackFacts DEF FinishPrivateFile, Retired, Retiring
  <1> USE <1>n, <1>u, <1>c, <1>a, <1>b, <1>v DEF ShownInv
  <1>1. DiskTypeOK'
    BY DEF DiskTypeOK, DebtsTyped, Labels, Retired, Retirement, FinishPrivateFile
  <1>2. LabelsFit'
    BY DEF LabelsFit, Retiring, BacksOf, LabelsOf, Ended, DiskTypeOK
  <1>3. JournalStands' /\ JournalLeaves'
    BY DEF JournalStands, JournalLeaves, Retiring, At, WithJournal
  <1>4. TemporaryWritten'
    BY DEF TemporaryWritten, Build, WithJournal
  <1>5. StateFits' /\ ManifestKnown'
    BY DEF StateFits, ManifestKnown, JournalStands, WithJournal
  <1>6. RollsBackUnseen'
    BY DEF RollsBackUnseen, At, Retiring, ManifestKnown
  <1>7. AllStaged'
    BY DEF AllStaged, JournalStands, Published, WithJournal
  <1>8. Shows'
    BY DEF Shows, Published
  <1> QED BY <1>1, <1>2, <1>3, <1>4, <1>5, <1>6, <1>7, <1>8

LEMMA FinishInventoryEntryKeeps == ASSUME ShownInv, FinishInventoryEntry PROVE ShownInv'
  <1>n. Due # NoDebt /\ Due.kind \in {"inventory"}
    BY DEF FinishInventoryEntry, Retired
  <1>u. debt = NoDebt /\ intent # NoDebt /\ Due = intent
    BY <1>n, DueFacts DEF AnchorKinds, Anchored
  <1>0. jrn \in Journals /\ Journal \in fs
    BY <1>u, IntentInJournal
  <1>k. intent.entry \in Inventoried
    BY <1>n, <1>u, DueFacts DEF Retires
  <1>g. jrn.removed \cup {intent.entry} \in SUBSET Inventoried
    BY <1>0, <1>k, JournalThere
  <1>e. LET k == [jrn EXCEPT !.removed = jrn.removed \cup {intent.entry}] IN
        /\ k \in Journals /\ k # NoJournal
        /\ k.state = jrn.state /\ k.inventory = jrn.inventory
             /\ k.removed = jrn.removed \cup {intent.entry} /\ k.prefix = jrn.prefix
             /\ k.made = jrn.made /\ k.making = jrn.making /\ k.undone = jrn.undone
             /\ k.undo = jrn.undo /\ k.unmade = jrn.unmade
    BY <1>0, <1>g, RemovedEdited
  <1>b. /\ pc = "retired" /\ pc' = back /\ debt' = NoDebt /\ intent' = NoDebt /\ fs' = fs
             /\ trash' = trash /\ anc' = anc
        /\ back' = back /\ mode' = mode
    BY <1>u DEF FinishInventoryEntry, Retired
  <1>c. /\ jrn' \in Journals /\ jrn' # NoJournal /\ jrn'.state = jrn.state
             /\ jrn'.prefix = jrn.prefix
        /\ jrn'.made = jrn.made /\ jrn'.making = jrn.making
    BY <1>0, <1>e, <1>u, JournalThere DEF FinishInventoryEntry
  <1>v. /\ back \in {"recover", "begin", "handle", "rollback", "unpublish", "cleanup", "cleaned",
             "verify", "done", "down"}
        /\ mode = "build" => back \in {"cleanup", "cleaned", "verify", "done"}
        /\ debt.kind # "journal" => back \in WithJournal \cup {"recover", "handle"}
        /\ back \in WithJournal => debt.kind # "journal"
    BY BackFacts DEF FinishInventoryEntry, Retired, Retiring
  <1> USE <1>n, <1>u, <1>0, <1>k, <1>g, <1>e, <1>b, <1>c, <1>v DEF ShownInv
  <1>1. DiskTypeOK'
    BY DEF DiskTypeOK, DebtsTyped, Labels, Retired, Retirement, FinishInventoryEntry
  <1>2. LabelsFit'
    BY DEF LabelsFit, Retiring, BacksOf, LabelsOf, Ended, DiskTypeOK
  <1>3. JournalStands' /\ JournalLeaves'
    BY DEF JournalStands, JournalLeaves, Retiring, At, WithJournal
  <1>4. TemporaryWritten'
    BY DEF TemporaryWritten, Build, WithJournal
  <1>5. StateFits' /\ ManifestKnown'
    BY DEF StateFits, ManifestKnown, JournalStands, WithJournal
  <1>6. RollsBackUnseen'
    BY DEF RollsBackUnseen, At, Retiring, ManifestKnown
  <1>7. AllStaged'
    BY DEF AllStaged, JournalStands, Published, WithJournal
  <1>8. Shows'
    BY DEF Shows, Published
  <1> QED BY <1>1, <1>2, <1>3, <1>4, <1>5, <1>6, <1>7, <1>8

LEMMA FinishWorkKeeps == ASSUME ShownInv, FinishWork PROVE ShownInv'
  <1>n. Due # NoDebt /\ Due.kind \in {"work"}
    BY DEF FinishWork, Retired
  <1>u. debt = NoDebt /\ intent # NoDebt /\ Due = intent
    BY <1>n, DueFacts DEF AnchorKinds, Anchored
  <1>0. jrn \in Journals /\ Journal \in fs
    BY <1>u, IntentInJournal
  <1>e. jrn' = jrn
    BY DEF FinishWork
  <1>b. /\ pc = "retired" /\ pc' = back /\ debt' = NoDebt /\ intent' = NoDebt /\ fs' = fs
             /\ trash' = trash /\ anc' = anc
        /\ back' = back /\ mode' = mode
    BY <1>u DEF FinishWork, Retired
  <1>c. /\ jrn' \in Journals /\ jrn' # NoJournal /\ jrn'.state = jrn.state
             /\ jrn'.prefix = jrn.prefix
        /\ jrn'.made = jrn.made /\ jrn'.making = jrn.making
    BY <1>0, <1>e, <1>u, JournalThere DEF FinishWork
  <1>v. /\ back \in {"recover", "begin", "handle", "rollback", "unpublish", "cleanup", "cleaned",
             "verify", "done", "down"}
        /\ mode = "build" => back \in {"cleanup", "cleaned", "verify", "done"}
        /\ debt.kind # "journal" => back \in WithJournal \cup {"recover", "handle"}
        /\ back \in WithJournal => debt.kind # "journal"
    BY BackFacts DEF FinishWork, Retired, Retiring
  <1> USE <1>n, <1>u, <1>0, <1>e, <1>b, <1>c, <1>v DEF ShownInv
  <1>1. DiskTypeOK'
    BY DEF DiskTypeOK, DebtsTyped, Labels, Retired, Retirement, FinishWork
  <1>2. LabelsFit'
    BY DEF LabelsFit, Retiring, BacksOf, LabelsOf, Ended, DiskTypeOK
  <1>3. JournalStands' /\ JournalLeaves'
    BY DEF JournalStands, JournalLeaves, Retiring, At, WithJournal
  <1>4. TemporaryWritten'
    BY DEF TemporaryWritten, Build, WithJournal
  <1>5. StateFits' /\ ManifestKnown'
    BY DEF StateFits, ManifestKnown, JournalStands, WithJournal
  <1>6. RollsBackUnseen'
    BY DEF RollsBackUnseen, At, Retiring, ManifestKnown
  <1>7. AllStaged'
    BY DEF AllStaged, JournalStands, Published, WithJournal
  <1>8. Shows'
    BY DEF Shows, Published
  <1> QED BY <1>1, <1>2, <1>3, <1>4, <1>5, <1>6, <1>7, <1>8

LEMMA FinishShardKeeps == ASSUME ShownInv, FinishShard PROVE ShownInv'
  <1>n. Due # NoDebt /\ Due.kind \in {"shard"}
    BY DEF FinishShard, Retired
  <1>u. debt = NoDebt /\ intent # NoDebt /\ Due = intent
    BY <1>n, DueFacts DEF AnchorKinds, Anchored
  <1>0. jrn \in Journals /\ Journal \in fs
    BY <1>u, IntentInJournal
  <1>g. jrn.undone \cup {jrn.undo} \in SUBSET (0..Shards) /\ 0 \in 0..Shards
    BY <1>0, JournalThere
  <1>f. [jrn EXCEPT !.undone = jrn.undone \cup {jrn.undo}, !.undo = 0] \in Journals
    BY <1>0, <1>g, UndoneEdited
  <1>e. LET k == [jrn EXCEPT !.undone = jrn.undone \cup {jrn.undo}, !.undo = 0] IN
        k \in Journals /\ k.state = jrn.state /\ k.prefix = jrn.prefix /\ k.made = jrn.made
          /\ k.making = jrn.making
    BY <1>0, <1>f DEF Journals
  <1>b. /\ pc = "retired" /\ pc' = back /\ debt' = NoDebt /\ intent' = NoDebt /\ fs' = fs
             /\ trash' = trash /\ anc' = anc
        /\ back' = back /\ mode' = mode
    BY <1>u DEF FinishShard, Retired
  <1>c. /\ jrn' \in Journals /\ jrn' # NoJournal /\ jrn'.state = jrn.state
             /\ jrn'.prefix = jrn.prefix
        /\ jrn'.made = jrn.made /\ jrn'.making = jrn.making
    BY <1>0, <1>e, <1>u, JournalThere DEF FinishShard
  <1>v. /\ back \in {"recover", "begin", "handle", "rollback", "unpublish", "cleanup", "cleaned",
             "verify", "done", "down"}
        /\ mode = "build" => back \in {"cleanup", "cleaned", "verify", "done"}
        /\ debt.kind # "journal" => back \in WithJournal \cup {"recover", "handle"}
        /\ back \in WithJournal => debt.kind # "journal"
    BY BackFacts DEF FinishShard, Retired, Retiring
  <1> USE <1>n, <1>u, <1>0, <1>g, <1>f, <1>e, <1>b, <1>c, <1>v DEF ShownInv
  <1>1. DiskTypeOK'
    BY DEF DiskTypeOK, DebtsTyped, Labels, Retired, Retirement, FinishShard
  <1>2. LabelsFit'
    BY DEF LabelsFit, Retiring, BacksOf, LabelsOf, Ended, DiskTypeOK
  <1>3. JournalStands' /\ JournalLeaves'
    BY DEF JournalStands, JournalLeaves, Retiring, At, WithJournal
  <1>4. TemporaryWritten'
    BY DEF TemporaryWritten, Build, WithJournal
  <1>5. StateFits' /\ ManifestKnown'
    BY DEF StateFits, ManifestKnown, JournalStands, WithJournal
  <1>6. RollsBackUnseen'
    BY DEF RollsBackUnseen, At, Retiring, ManifestKnown
  <1>7. AllStaged'
    BY DEF AllStaged, JournalStands, Published, WithJournal
  <1>8. Shows'
    BY DEF Shows, Published
  <1> QED BY <1>1, <1>2, <1>3, <1>4, <1>5, <1>6, <1>7, <1>8

LEMMA FinishDirectoryKeeps == ASSUME ShownInv, FinishDirectory PROVE ShownInv'
  <1>n. Due # NoDebt /\ Due.kind \in {"directory"}
    BY DEF FinishDirectory, Retired
  <1>u. debt = NoDebt /\ intent # NoDebt /\ Due = intent
    BY <1>n, DueFacts DEF AnchorKinds, Anchored
  <1>0. jrn \in Journals /\ Journal \in fs
    BY <1>u, IntentInJournal
  <1>k. Due.entry \in PublicDirectories
    BY <1>n, <1>u, DueFacts DEF Retires
  <1>g. Append(jrn.unmade, Due.entry) \in Seq(PublicDirectories)
    BY <1>0, <1>k, JournalThere
  <1>e. LET k == [jrn EXCEPT !.unmade = Append(jrn.unmade, Due.entry)] IN
        /\ k \in Journals /\ k # NoJournal
        /\ k.state = jrn.state /\ k.inventory = jrn.inventory /\ k.removed = jrn.removed
             /\ k.prefix = jrn.prefix /\ k.made = jrn.made /\ k.making = jrn.making
             /\ k.undone = jrn.undone /\ k.undo = jrn.undo
             /\ k.unmade = Append(jrn.unmade, Due.entry)
    BY <1>0, <1>g, UnmadeEdited
  <1>b. /\ pc = "retired" /\ pc' = back /\ debt' = NoDebt /\ intent' = NoDebt /\ fs' = fs
             /\ trash' = trash /\ anc' = anc
        /\ back' = back /\ mode' = mode
    BY <1>u DEF FinishDirectory, Retired
  <1>c. /\ jrn' \in Journals /\ jrn' # NoJournal /\ jrn'.state = jrn.state
             /\ jrn'.prefix = jrn.prefix
        /\ jrn'.made = jrn.made /\ jrn'.making = jrn.making
    BY <1>0, <1>e, <1>u, JournalThere DEF FinishDirectory
  <1>v. /\ back \in {"recover", "begin", "handle", "rollback", "unpublish", "cleanup", "cleaned",
             "verify", "done", "down"}
        /\ mode = "build" => back \in {"cleanup", "cleaned", "verify", "done"}
        /\ debt.kind # "journal" => back \in WithJournal \cup {"recover", "handle"}
        /\ back \in WithJournal => debt.kind # "journal"
    BY BackFacts DEF FinishDirectory, Retired, Retiring
  <1> USE <1>n, <1>u, <1>0, <1>k, <1>g, <1>e, <1>b, <1>c, <1>v DEF ShownInv
  <1>1. DiskTypeOK'
    BY DEF DiskTypeOK, DebtsTyped, Labels, Retired, Retirement, FinishDirectory
  <1>2. LabelsFit'
    BY DEF LabelsFit, Retiring, BacksOf, LabelsOf, Ended, DiskTypeOK
  <1>3. JournalStands' /\ JournalLeaves'
    BY DEF JournalStands, JournalLeaves, Retiring, At, WithJournal
  <1>4. TemporaryWritten'
    BY DEF TemporaryWritten, Build, WithJournal
  <1>5. StateFits' /\ ManifestKnown'
    BY DEF StateFits, ManifestKnown, JournalStands, WithJournal
  <1>6. RollsBackUnseen'
    BY DEF RollsBackUnseen, At, Retiring, ManifestKnown
  <1>7. AllStaged'
    BY DEF AllStaged, JournalStands, Published, WithJournal
  <1>8. Shows'
    BY DEF Shows, Published
  <1> QED BY <1>1, <1>2, <1>3, <1>4, <1>5, <1>6, <1>7, <1>8

LEMMA FinishJournalKeeps == ASSUME ShownInv, FinishJournal PROVE ShownInv'
  <1>n. Due # NoDebt /\ Due.kind = "journal"
    BY DEF FinishJournal, Retired
  <1>u. Due = debt /\ debt.kind = "journal"
    BY <1>n, DueFacts DEF IntentKinds
  <1>c. anc \in AnchorPhases
    BY DEF ShownInv, DiskTypeOK
  <1>a. anc' \in AnchorPhases /\ anc'.journal = "none" /\ anc'.manifest = "none"
          /\ anc'.temporary = "none"
    BY <1>c DEF FinishJournal, AnchorPhases
  <1>b. /\ pc = "retired" /\ pc' = back /\ debt' = NoDebt /\ intent' = NoDebt /\ fs' = fs
             /\ trash' = trash /\ jrn' = NoJournal
        /\ back' = back /\ mode' = mode
    BY DEF FinishJournal, Retired
  <1>d. Journal \notin fs \cup trash
    BY <1>u, <1>b DEF ShownInv, JournalLeaves
  <1>v. /\ back \in {"recover", "begin", "handle", "rollback", "unpublish", "cleanup", "cleaned",
             "verify", "done", "down"}
        /\ mode = "build" => back \in {"cleanup", "cleaned", "verify", "done"}
        /\ debt.kind # "journal" => back \in WithJournal \cup {"recover", "handle"}
        /\ back \in WithJournal => debt.kind # "journal"
    BY BackFacts DEF FinishJournal, Retired, Retiring
  <1> USE <1>n, <1>u, <1>c, <1>a, <1>b, <1>d, <1>v DEF ShownInv
  <1>1. DiskTypeOK'
    BY DEF DiskTypeOK, DebtsTyped, Labels, Retired, Retirement, FinishJournal
  <1>2. LabelsFit'
    BY DEF LabelsFit, Retiring, BacksOf, LabelsOf, Ended, DiskTypeOK
  <1>3. JournalStands' /\ JournalLeaves'
    BY DEF JournalStands, JournalLeaves, Retiring, At, WithJournal
  <1>4. TemporaryWritten'
    BY DEF TemporaryWritten, Build, WithJournal
  <1>5. StateFits' /\ ManifestKnown'
    BY DEF StateFits, ManifestKnown, JournalStands, WithJournal
  <1>6. RollsBackUnseen'
    BY DEF RollsBackUnseen, At, Retiring, ManifestKnown
  <1>7. AllStaged'
    BY DEF AllStaged, JournalStands, Published, WithJournal
  <1>8. Shows'
    BY DEF Shows, Published
  <1> QED BY <1>1, <1>2, <1>3, <1>4, <1>5, <1>6, <1>7, <1>8

LEMMA PrepareCleanupKeeps == ASSUME ShownInv, PrepareCleanup PROVE ShownInv'
  <1>0. jrn \in Journals /\ Journal \in fs /\ debt.kind # "journal"
    BY InJournal DEF PrepareCleanup, Build, At, Retiring, WithJournal
  <1>a. jrn' = jrn \/ jrn' = [jrn EXCEPT !.inventory = Inventory, !.removed = {}]
    BY DEF PrepareCleanup, Resume
  <1>g. Inventory \in SUBSET Inventoried /\ {} \in SUBSET Inventoried
    BY DEF Inventory
  <1>f. [jrn EXCEPT !.inventory = Inventory, !.removed = {}] \in Journals
    BY <1>0, <1>g, InventoryEdited
  <1>e. LET k == [jrn EXCEPT !.inventory = Inventory, !.removed = {}] IN
        k.state = jrn.state /\ k.prefix = jrn.prefix /\ k.made = jrn.made /\ k.making = jrn.making
    BY <1>0, <1>f DEF Journals
  <1>c. /\ jrn' \in Journals /\ jrn' # NoJournal /\ jrn'.state = jrn.state
             /\ jrn'.prefix = jrn.prefix
        /\ jrn'.made = jrn.made /\ jrn'.making = jrn.making
    BY <1>0, <1>a, <1>e, <1>f, JournalThere
  <1> USE <1>0, <1>a, <1>g, <1>f, <1>e, <1>c
         DEF ShownInv, PrepareCleanup, AnchorKinds, Retire, Resume, Rename, AnchoredWrite, Private,
             Retired, Due, RecordPhase, AfterRemoval, Recovering, ManifestSettled
  <1>1. DiskTypeOK'
    BY DEF DiskTypeOK, Labels, NotAnchored, CutShort, Disagreements, DebtsTyped, Anchored, AnchorPhases
  <1>2. LabelsFit'
    BY DEF LabelsFit, Retiring, BacksOf, LabelsOf, Ended, DiskTypeOK
  <1>3. JournalStands' /\ JournalLeaves'
    BY DEF JournalStands, JournalLeaves, Retiring, At, WithJournal, DiskTypeOK, AnchorPhases
  <1>4. TemporaryWritten'
    BY DEF TemporaryWritten, JournalStands, DiskTypeOK, AnchorPhases, Build
  <1>5. StateFits' /\ ManifestKnown'
    BY DEF StateFits, ManifestKnown, JournalStands, DiskTypeOK, AnchorPhases
  <1>6. RollsBackUnseen'
    BY DEF RollsBackUnseen, At, Retiring, ManifestKnown
  <1>7. AllStaged'
    BY DEF AllStaged, JournalStands, Published
  <1>8. Shows'
    BY DEF Shows, Published
  <1> QED BY <1>1, <1>2, <1>3, <1>4, <1>5, <1>6, <1>7, <1>8

LEMMA CleanupOwnerKeeps == ASSUME ShownInv, CleanupOwner PROVE ShownInv'
  <1>t. DebtsTyped
    BY DEF ShownInv, DiskTypeOK, DebtsTyped
  <1>r. \/ intent' = intent /\ debt' = debt
        \/ Retire("work", Work, "cleaned") \/ Retire("owner", OwnerInit, "cleanup")
             \/ Retire("owner", Owner, "cleanup")
    BY DEF CleanupOwner, Resume
  <1>k. {"work", "owner"} \subseteq AnchorKinds \cup IntentKinds
    BY WhatRetires
  <1>d. DebtsTyped'
    BY <1>t, <1>r, <1>k, WhatRetires, RetireTyped DEF DebtsTyped
  <1> USE <1>t, <1>r, <1>k, <1>d
         DEF ShownInv, CleanupOwner, AnchorKinds, Retire, Resume, Rename, AnchoredWrite, Private,
             Retired, Due, RecordPhase, AfterRemoval, Recovering, ManifestSettled
  <1>1. DiskTypeOK'
    BY <1>d
       DEF DiskTypeOK, Labels, NotAnchored, CutShort, Disagreements, DebtsTyped, Anchored, AnchorPhases
  <1>2. LabelsFit'
    BY DEF LabelsFit, Retiring, BacksOf, LabelsOf, Ended, DiskTypeOK
  <1>3. JournalStands' /\ JournalLeaves'
    BY DEF JournalStands, JournalLeaves, Retiring, At, WithJournal, DiskTypeOK, AnchorPhases
  <1>4. TemporaryWritten'
    BY DEF TemporaryWritten, JournalStands, DiskTypeOK, AnchorPhases, Build
  <1>5. StateFits' /\ ManifestKnown'
    BY DEF StateFits, ManifestKnown, JournalStands, DiskTypeOK, AnchorPhases
  <1>6. RollsBackUnseen'
    BY DEF RollsBackUnseen, At, Retiring, ManifestKnown
  <1>7. AllStaged'
    BY DEF AllStaged, JournalStands, Published
  <1>8. Shows'
    BY DEF Shows, Published
  <1> QED BY <1>1, <1>2, <1>3, <1>4, <1>5, <1>6, <1>7, <1>8

LEMMA CleanupWorkKeeps == ASSUME ShownInv, CleanupWork PROVE ShownInv'
  <1>t. DebtsTyped
    BY DEF ShownInv, DiskTypeOK, DebtsTyped
  <1>0. jrn \in Journals /\ Journal \in fs /\ debt.kind # "journal"
    BY InJournal DEF CleanupWork, Build, At, Retiring, WithJournal
  <1>r. \/ intent' = intent /\ debt' = debt
        \/ Retire("work", Work, "cleaned")
        \/ Expected # {} /\ Retire("inventory", Deepest(Expected), "cleanup")
    BY DEF CleanupWork, Resume
  <1>k. {"work", "inventory"} \subseteq AnchorKinds \cup IntentKinds
    BY WhatRetires
  <1>g. Expected # {} => Deepest(Expected) \in Inventoried
    BY <1>0, JournalThere, DeepestThere DEF Expected
  <1>d. DebtsTyped'
    BY <1>t, <1>r, <1>k, <1>g, WhatRetires, RetireTyped DEF DebtsTyped
  <1> USE <1>t, <1>0, <1>r, <1>k, <1>g, <1>d
         DEF ShownInv, CleanupWork, AnchorKinds, Retire, Resume, Rename, AnchoredWrite, Private,
             Retired, Due, RecordPhase, AfterRemoval, Recovering, ManifestSettled
  <1>1. DiskTypeOK'
    BY <1>d
       DEF DiskTypeOK, Labels, NotAnchored, CutShort, Disagreements, DebtsTyped, Anchored, AnchorPhases
  <1>2. LabelsFit'
    BY DEF LabelsFit, Retiring, BacksOf, LabelsOf, Ended, DiskTypeOK
  <1>3. JournalStands' /\ JournalLeaves'
    BY DEF JournalStands, JournalLeaves, Retiring, At, WithJournal, DiskTypeOK, AnchorPhases
  <1>4. TemporaryWritten'
    BY DEF TemporaryWritten, JournalStands, DiskTypeOK, AnchorPhases, Build
  <1>5. StateFits' /\ ManifestKnown'
    BY DEF StateFits, ManifestKnown, JournalStands, DiskTypeOK, AnchorPhases
  <1>6. RollsBackUnseen'
    BY DEF RollsBackUnseen, At, Retiring, ManifestKnown
  <1>7. AllStaged'
    BY DEF AllStaged, JournalStands, Published
  <1>8. Shows'
    BY DEF Shows, Published
  <1> QED BY <1>1, <1>2, <1>3, <1>4, <1>5, <1>6, <1>7, <1>8

LEMMA CleanedKeeps == ASSUME ShownInv, Cleaned PROVE ShownInv'
  <1> USE
         DEF ShownInv, Cleaned, AnchorKinds, Retire, Resume, Rename, AnchoredWrite, Private,
             Retired, Due, RecordPhase, AfterRemoval, Recovering, ManifestSettled
  <1>1. DiskTypeOK'
    BY
       DEF DiskTypeOK, Labels, NotAnchored, CutShort, Disagreements, DebtsTyped, Anchored, Journals,
           AnchorPhases
  <1>2. LabelsFit'
    BY DEF LabelsFit, Retiring, BacksOf, LabelsOf, Ended, DiskTypeOK
  <1>3. JournalStands' /\ JournalLeaves'
    BY DEF JournalStands, JournalLeaves, Retiring, At, WithJournal, DiskTypeOK, AnchorPhases
  <1>4. TemporaryWritten'
    BY DEF TemporaryWritten, JournalStands, DiskTypeOK, AnchorPhases, Build
  <1>5. StateFits' /\ ManifestKnown'
    BY DEF StateFits, ManifestKnown, JournalStands, DiskTypeOK, AnchorPhases
  <1>6. RollsBackUnseen'
    BY DEF RollsBackUnseen, At, Retiring, ManifestKnown
  <1>7. AllStaged'
    BY DEF AllStaged, JournalStands, Published
  <1>8. Shows'
    BY DEF Shows, Published
  <1> QED BY <1>1, <1>2, <1>3, <1>4, <1>5, <1>6, <1>7, <1>8

LEMMA RollbackKeeps == ASSUME ShownInv, Rollback PROVE ShownInv'
  <1> USE
         DEF ShownInv, Rollback, AnchorKinds, Retire, Resume, Rename, AnchoredWrite, Private,
             Retired, Due, RecordPhase, AfterRemoval, Recovering, ManifestSettled
  <1>1. DiskTypeOK'
    BY
       DEF DiskTypeOK, Labels, NotAnchored, CutShort, Disagreements, DebtsTyped, Anchored, Journals,
           AnchorPhases
  <1>2. LabelsFit'
    BY DEF LabelsFit, Retiring, BacksOf, LabelsOf, Ended, DiskTypeOK
  <1>3. JournalStands' /\ JournalLeaves'
    BY DEF JournalStands, JournalLeaves, Retiring, At, WithJournal, DiskTypeOK, AnchorPhases
  <1>4. TemporaryWritten'
    BY DEF TemporaryWritten, JournalStands, DiskTypeOK, AnchorPhases, Build
  <1>5. StateFits' /\ ManifestKnown'
    BY DEF StateFits, ManifestKnown, JournalStands, DiskTypeOK, AnchorPhases
  <1>6. RollsBackUnseen'
    BY DEF RollsBackUnseen, At, Retiring, ManifestKnown
  <1>7. AllStaged'
    BY DEF AllStaged, JournalStands, Published
  <1>8. Shows'
    BY DEF Shows, Published
  <1> QED BY <1>1, <1>2, <1>3, <1>4, <1>5, <1>6, <1>7, <1>8

LEMMA UnpublishKeeps == ASSUME ShownInv, Unpublish PROVE ShownInv'
  <1>t. DebtsTyped
    BY DEF ShownInv, DiskTypeOK, DebtsTyped
  <1>0. jrn \in Journals /\ Journal \in fs /\ debt.kind # "journal"
    BY InJournal DEF Unpublish, Build, At, Retiring, WithJournal
  <1>l. Published # {} =>
          \E last \in Published : /\ last = (CHOOSE i \in Published : \A j \in Published : j <= i)
                                /\ last \in Shard /\ last \in 0..Shards
    <2>1. Published \in SUBSET (0..Shards) /\ Published \subseteq Shard /\ Shards \in Nat
      BY DEF Published, Shard
    <2> QED BY <2>1, Greatest
  <1>m. Len(jrn.unmade) < Len(MadeDirectories)
          => MadeDirectories[Len(jrn.unmade) + 1] \in PublicDirectories
    BY <1>0, MadeTyped, JournalThere DEF ShownInv, StateFits
  <1>r. \/ intent' = intent /\ debt' = debt /\ jrn' = jrn
        \/ \E last \in Shard : last \in 0..Shards /\ jrn' = [jrn EXCEPT !.undo = last]
             /\ Retire("shard", Final(last), "unpublish")
        \/ \E e \in PublicDirectories : jrn' = jrn /\ Retire("directory", e, "unpublish")
    BY <1>l, <1>m DEF Unpublish, Resume
  <1>k. {"shard", "directory"} \subseteq AnchorKinds \cup IntentKinds
    BY WhatRetires
  <1>d. DebtsTyped'
    BY <1>t, <1>r, <1>k, WhatRetires, RetireTyped DEF DebtsTyped
  <1>c. /\ jrn' \in Journals /\ jrn' # NoJournal /\ jrn'.state = jrn.state
             /\ jrn'.prefix = jrn.prefix
        /\ jrn'.made = jrn.made /\ jrn'.making = jrn.making
    <2>1. CASE jrn' = jrn   BY <2>1, <1>0, JournalThere
    <2>2. CASE jrn' # jrn
      <3>1. PICK last \in 0..Shards : jrn' = [jrn EXCEPT !.undo = last]   BY <2>2, <1>r
      <3>2. [jrn EXCEPT !.undo = last] \in Journals   BY <1>0, UndoEdited
      <3> QED BY <1>0, <3>1, <3>2, JournalThere DEF Journals
    <2> QED BY <2>1, <2>2
  <1>n. mode # "build" /\ debt'.kind = debt.kind
    BY <1>r
       DEF Unpublish, ShownInv, LabelsFit, LabelsOf, DiskTypeOK, Ended, Retire, AnchorKinds, Anchored
  <1> USE <1>t, <1>0, <1>l, <1>m, <1>r, <1>k, <1>d, <1>c, <1>n
         DEF ShownInv, Unpublish, AnchorKinds, Retire, Resume, Rename, AnchoredWrite, Private,
             Retired, Due, RecordPhase, AfterRemoval, Recovering, ManifestSettled
  <1>1. DiskTypeOK'
    BY <1>d
       DEF DiskTypeOK, Labels, NotAnchored, CutShort, Disagreements, DebtsTyped, Anchored, AnchorPhases
  <1>2. LabelsFit'
    BY DEF LabelsFit, Retiring, BacksOf, LabelsOf, Ended, DiskTypeOK
  <1>3. JournalStands' /\ JournalLeaves'
    BY DEF JournalStands, JournalLeaves, Retiring, At, WithJournal, DiskTypeOK, AnchorPhases
  <1>4. TemporaryWritten'
    BY DEF TemporaryWritten, JournalStands, DiskTypeOK, AnchorPhases, Build
  <1>5. StateFits' /\ ManifestKnown'
    <2>1. /\ fs' = fs /\ anc' = anc /\ mode' = mode /\ pc' \in {"retire", "prepare", "cleanup"}
      BY DEF Unpublish
    <2> QED BY <2>1, <1>c, <1>n DEF StateFits, ManifestKnown
  <1>6. RollsBackUnseen'
    BY DEF RollsBackUnseen, At, Retiring, ManifestKnown
  <1>7. AllStaged'
    BY DEF AllStaged, JournalStands, Published
  <1>8. Shows'
    BY DEF Shows, Published
  <1> QED BY <1>1, <1>2, <1>3, <1>4, <1>5, <1>6, <1>7, <1>8

LEMMA MarkRolledBackKeeps == ASSUME ShownInv, MarkRolledBack PROVE ShownInv'
  <1>0. jrn \in Journals /\ Journal \in fs /\ debt.kind # "journal"
    BY InJournal DEF MarkRolledBack, Build, At, Retiring, WithJournal
  <1>a. jrn' = jrn \/ jrn' = [jrn EXCEPT !.state = "rolled_back"]
    BY DEF MarkRolledBack
  <1>e. LET k == [jrn EXCEPT !.state = "rolled_back"] IN
        /\ k \in Journals /\ k # NoJournal
        /\ k.state = "rolled_back" /\ k.inventory = jrn.inventory /\ k.removed = jrn.removed
             /\ k.prefix = jrn.prefix /\ k.made = jrn.made /\ k.making = jrn.making
             /\ k.undone = jrn.undone /\ k.undo = jrn.undo /\ k.unmade = jrn.unmade
    BY <1>0, StateEdited DEF JournalStates
  <1>b. jrn' = jrn \/ (jrn' \in Journals /\ jrn' # NoJournal /\ jrn'.state = "rolled_back"
          /\ jrn'.prefix = jrn.prefix
            /\ jrn'.making = jrn.making /\ jrn'.made = jrn.made)
    BY <1>a, <1>e
  <1> USE <1>0, <1>a, <1>e, <1>b
         DEF ShownInv, MarkRolledBack, AnchorKinds, Retire, Resume, Rename, AnchoredWrite, Private,
             Retired, Due, RecordPhase, AfterRemoval, Recovering, ManifestSettled
  <1>1. DiskTypeOK'
    BY EntriesTyped
       DEF DiskTypeOK, Labels, NotAnchored, CutShort, Disagreements, DebtsTyped, Anchored, AnchorPhases
  <1>2. LabelsFit'
    BY DEF LabelsFit, Retiring, BacksOf, LabelsOf, Ended, DiskTypeOK
  <1>3. JournalStands' /\ JournalLeaves'
    BY DEF JournalStands, JournalLeaves, Retiring, At, WithJournal, DiskTypeOK, AnchorPhases
  <1>4. TemporaryWritten'
    BY DEF TemporaryWritten, JournalStands, DiskTypeOK, AnchorPhases, Build
  <1>5. StateFits' /\ ManifestKnown'
    BY DEF StateFits, ManifestKnown, JournalStands, DiskTypeOK, AnchorPhases
  <1>6. RollsBackUnseen'
    BY DEF RollsBackUnseen, At, Retiring, ManifestKnown
  <1>7. AllStaged'
    BY DEF AllStaged, JournalStands, Published
  <1>8. Shows'
    BY DEF Shows, Published
  <1> QED BY <1>1, <1>2, <1>3, <1>4, <1>5, <1>6, <1>7, <1>8

LEMMA RemoveTransactionKeeps == ASSUME ShownInv, RemoveTransaction PROVE ShownInv'
  <1>c. anc \in AnchorPhases
    BY DEF ShownInv, DiskTypeOK
  <1>e. [anc EXCEPT !.manifest = "committed"] \in AnchorPhases
    BY <1>c, AnchorEdited DEF AnchorPhases
  <1>f. [anc EXCEPT !.journal = "retiring"] \in AnchorPhases
    BY <1>c, AnchorEdited DEF AnchorPhases
  <1>b. anc' \in AnchorPhases
    BY <1>c, <1>e, <1>f DEF RemoveTransaction
  <1>l. AfterRemoval \in Labels
    BY DEF AfterRemoval, Labels
  <1>t. DebtsTyped
    BY DEF ShownInv, DiskTypeOK, DebtsTyped
  <1>r. \/ intent' = intent /\ debt' = debt
        \/ Retire("journal", Journal, AfterRemoval)
    BY DEF RemoveTransaction, Resume, AfterRemoval, Recovering
  <1>k. {"journal"} \subseteq AnchorKinds \cup IntentKinds
    BY WhatRetires
  <1>d. DebtsTyped'
    BY <1>t, <1>r, <1>k, WhatRetires, RetireTyped DEF DebtsTyped
  <1> USE <1>c, <1>e, <1>f, <1>b, <1>l, <1>t, <1>r, <1>k, <1>d
         DEF ShownInv, RemoveTransaction, AnchorKinds, Retire, Resume, Rename, AnchoredWrite,
             Private, Retired, Due, RecordPhase, AfterRemoval, Recovering, ManifestSettled
  <1>1. DiskTypeOK'
    BY DEF DiskTypeOK, Labels, NotAnchored, CutShort, Disagreements, DebtsTyped, Anchored, AnchorPhases
  <1>2. LabelsFit'
    BY DEF LabelsFit, Retiring, BacksOf, LabelsOf, Ended, DiskTypeOK
  <1>3. JournalStands' /\ JournalLeaves'
    BY DEF JournalStands, JournalLeaves, Retiring, At, WithJournal, DiskTypeOK, AnchorPhases
  <1>4. TemporaryWritten'
    BY DEF TemporaryWritten, JournalStands, DiskTypeOK, AnchorPhases, Build
  <1>5. StateFits' /\ ManifestKnown'
    BY DEF StateFits, ManifestKnown, JournalStands, DiskTypeOK, AnchorPhases
  <1>6. RollsBackUnseen'
    BY DEF RollsBackUnseen, At, Retiring, ManifestKnown
  <1>7. AllStaged'
    BY DEF AllStaged, JournalStands, Published
  <1>8. Shows'
    BY DEF Shows, Published
  <1> QED BY <1>1, <1>2, <1>3, <1>4, <1>5, <1>6, <1>7, <1>8

LEMMA CompleteJournalRetirementKeeps == ASSUME ShownInv, CompleteJournalRetirement PROVE ShownInv'
  <1> USE
         DEF ShownInv, CompleteJournalRetirement, AnchorKinds, Retire, Resume, Rename,
             AnchoredWrite, Private, Retired, Due, RecordPhase, AfterRemoval, Recovering,
             ManifestSettled
  <1>1. DiskTypeOK'
    BY
       DEF DiskTypeOK, Labels, NotAnchored, CutShort, Disagreements, DebtsTyped, Anchored, Journals,
           AnchorPhases
  <1>2. LabelsFit'
    BY DEF LabelsFit, Retiring, BacksOf, LabelsOf, Ended, DiskTypeOK
  <1>3. JournalStands' /\ JournalLeaves'
    BY DEF JournalStands, JournalLeaves, Retiring, At, WithJournal, DiskTypeOK, AnchorPhases
  <1>4. TemporaryWritten'
    BY DEF TemporaryWritten, JournalStands, DiskTypeOK, AnchorPhases, Build
  <1>5. StateFits' /\ ManifestKnown'
    BY DEF StateFits, ManifestKnown, JournalStands, DiskTypeOK, AnchorPhases
  <1>6. RollsBackUnseen'
    BY DEF RollsBackUnseen, At, Retiring, ManifestKnown
  <1>7. AllStaged'
    BY DEF AllStaged, JournalStands, Published
  <1>8. Shows'
    BY DEF Shows, Published
  <1> QED BY <1>1, <1>2, <1>3, <1>4, <1>5, <1>6, <1>7, <1>8

LEMMA RecoverManifestKeeps == ASSUME ShownInv, RecoverManifest PROVE ShownInv'
  <1>c. anc \in AnchorPhases
    BY DEF ShownInv, DiskTypeOK
  <1>e. [anc EXCEPT !.manifest = "none"] \in AnchorPhases
    BY <1>c, AnchorEdited DEF AnchorPhases
  <1>f. [anc EXCEPT !.manifest = "published"] \in AnchorPhases
    BY <1>c, AnchorEdited DEF AnchorPhases
  <1>b. anc' \in AnchorPhases
    BY <1>c, <1>e, <1>f DEF RecoverManifest, Resume
  <1>t. DebtsTyped
    BY DEF ShownInv, DiskTypeOK, DebtsTyped
  <1>r. \/ intent' = intent /\ debt' = debt
        \/ Retire("manifest", Partial, pc)
    BY DEF RecoverManifest, Resume, AfterRemoval, Recovering
  <1>k. {"manifest"} \subseteq AnchorKinds \cup IntentKinds
    BY WhatRetires
  <1>d. DebtsTyped'
    BY <1>t, <1>r, <1>k, WhatRetires, RetireTyped DEF DebtsTyped
  <1>g. /\ fs' = fs /\ trash' = trash /\ jrn' = jrn /\ intent' = intent /\ mode' = mode
        /\ anc'.journal = anc.journal /\ anc'.temporary = anc.temporary /\ anc.journal # "retiring"
        /\ pc \in {"recover", "handle"} /\ mode \in {"recover", "handle"}
    BY <1>c
       DEF RecoverManifest, Resume, Retire, AnchorKinds, Anchored, Recovering, AnchorPhases,
           ShownInv, LabelsFit, LabelsOf, DiskTypeOK, Ended
  <1>h. \/ debt' = debt
        \/ /\ debt.kind # "manifest" /\ debt'.kind = "manifest" /\ debt'.phase = "intended"
                /\ debt' # NoDebt
           /\ anc' = anc /\ pc' = "retire"
           /\ (anc.manifest = "created" \/ (anc.manifest = "active" /\ Partial \in fs))
    BY DEF RecoverManifest, Resume, Retire, AnchorKinds, Anchored
  <1>o. \/ anc' = anc
        \/ debt' = debt /\ debt.kind # "manifest" /\ anc.manifest = "initializing"
             /\ anc'.manifest = "none"
        \/ debt' = debt /\ anc.manifest = "active" /\ Partial \notin fs /\ Manifest \in fs
             /\ anc'.manifest = "published"
    BY <1>c DEF RecoverManifest, Resume, AnchorPhases
  <1>l. pc' \in {"retire", "rollback", "refused", "down", pc} /\ (pc' = "retire" => back' = pc)
    BY <1>g DEF RecoverManifest, Resume, Retire
  <1>m. pc' = "rollback" => debt' = debt /\ anc' = anc /\ debt.kind # "manifest"
          /\ anc.manifest \in {"initializing", "created"}
    BY <1>g DEF RecoverManifest, Resume, Retire
  <1>i. debt.kind # "journal" /\ (anc.manifest # "none" => jrn # NoJournal /\ Journal \in fs)
    BY <1>g DEF ShownInv, JournalStands, ManifestKnown
  <1> USE <1>c, <1>e, <1>f, <1>b, <1>t, <1>r, <1>k, <1>d, <1>g, <1>h, <1>o, <1>l, <1>m, <1>i
         DEF ShownInv
  <1>1. DiskTypeOK'
    BY
       DEF RecoverManifest, Resume, Retire, AnchorKinds, Recovering, DiskTypeOK, Labels, NotAnchored,
           CutShort, Disagreements, DebtsTyped, Anchored, AnchorPhases
  <1>2. LabelsFit'
    BY
       DEF RecoverManifest, Resume, Retire, AnchorKinds, Recovering, LabelsFit, Retiring, BacksOf,
           LabelsOf, Ended, DiskTypeOK
  <1>3. JournalStands' /\ JournalLeaves'
    BY DEF JournalStands, JournalLeaves, Retiring, At, WithJournal, DiskTypeOK, AnchorPhases
  <1>4. TemporaryWritten'
    BY DEF TemporaryWritten, Build
  <1>5. StateFits' /\ ManifestKnown'
    BY DEF StateFits, ManifestKnown, JournalStands, DiskTypeOK, AnchorPhases
  <1>6. RollsBackUnseen'
    BY DEF RollsBackUnseen, At, Retiring, ManifestKnown
  <1>7. AllStaged'
    BY DEF AllStaged, JournalStands, Published
  <1>8. Shows'
    BY DEF Shows, Published
  <1> QED BY <1>1, <1>2, <1>3, <1>4, <1>5, <1>6, <1>7, <1>8

LEMMA RecoverWithoutJournalKeeps == ASSUME ShownInv, RecoverWithoutJournal PROVE ShownInv'
  <1>c. anc \in AnchorPhases
    BY DEF ShownInv, DiskTypeOK
  <1>e. [anc EXCEPT !.temporary = "none"] \in AnchorPhases
    BY <1>c, AnchorEdited DEF AnchorPhases
  <1>f. [anc EXCEPT !.journal = "none", !.owner = "none"] \in AnchorPhases
    BY <1>c, AnchorEdited DEF AnchorPhases
  <1>b. anc' \in AnchorPhases
    BY <1>c, <1>e, <1>f DEF RecoverWithoutJournal, Resume
  <1>t. DebtsTyped
    BY DEF ShownInv, DiskTypeOK, DebtsTyped
  <1>r. \/ intent' = intent /\ debt' = debt
        \/ Retire("temporary", Temporary, "recover")
    BY DEF RecoverWithoutJournal, Resume, AfterRemoval, Recovering
  <1>k. {"temporary"} \subseteq AnchorKinds \cup IntentKinds
    BY WhatRetires
  <1>d. DebtsTyped'
    BY <1>t, <1>r, <1>k, WhatRetires, RetireTyped DEF DebtsTyped
  <1>g. /\ fs' = fs /\ trash' = trash /\ jrn' = jrn /\ intent' = intent /\ mode' = mode
             /\ mode = "recover" /\ pc = "recover"
        /\ anc'.manifest = anc.manifest /\ anc'.journal # "retiring" /\ anc.journal # "retiring"
             /\ Journal \notin fs
        /\ (anc' # anc => debt' = debt)
    BY <1>c
       DEF RecoverWithoutJournal, Resume, Retire, AnchorKinds, Anchored, Recovering, AnchorPhases
  <1>i. debt.kind # "journal" /\ jrn = NoJournal /\ intent = NoDebt
    BY <1>g DEF ShownInv, JournalStands
  <1>j. anc.manifest = "none" /\ debt.kind # "manifest"
    BY <1>i DEF ShownInv, ManifestKnown
  <1>h. /\ \/ debt' = debt
           \/ debt'.kind = "temporary" /\ debt'.phase = "intended" /\ debt' # NoDebt
    BY <1>c
       DEF RecoverWithoutJournal, Resume, Retire, AnchorKinds, Anchored, AnchorPhases, Recovering
  <1>l. pc' \in {"retire", "refused", "begin", pc} /\ (pc' = "retire" => back' = pc)
    BY <1>g DEF RecoverWithoutJournal, Resume, Retire
  <1>m. pc' = "begin" => anc'.journal = "none" /\ anc'.temporary = "none"
    BY <1>g, <1>c DEF RecoverWithoutJournal, Resume, Retire, AnchorPhases
  <1> USE <1>c, <1>e, <1>f, <1>b, <1>t, <1>r, <1>k, <1>d, <1>g, <1>i, <1>j, <1>h, <1>l, <1>m
         DEF ShownInv
  <1>1. DiskTypeOK'
    BY
       DEF RecoverWithoutJournal, Resume, Retire, AnchorKinds, Recovering, DiskTypeOK, Labels,
           NotAnchored, CutShort, Disagreements, DebtsTyped, Anchored, AnchorPhases
  <1>2. LabelsFit'
    BY DEF LabelsFit, Retiring, BacksOf, LabelsOf, Ended, DiskTypeOK
  <1>3. JournalStands' /\ JournalLeaves'
    BY DEF JournalStands, JournalLeaves, Retiring, At, WithJournal, DiskTypeOK, AnchorPhases
  <1>4. TemporaryWritten'
    BY DEF TemporaryWritten, Build
  <1>5. StateFits' /\ ManifestKnown'
    BY DEF StateFits, ManifestKnown, JournalStands, DiskTypeOK, AnchorPhases
  <1>6. RollsBackUnseen'
    BY DEF RollsBackUnseen, At, Retiring, ManifestKnown
  <1>7. AllStaged'
    BY DEF AllStaged, JournalStands, Published
  <1>8. Shows'
    BY DEF Shows, Published
  <1> QED BY <1>1, <1>2, <1>3, <1>4, <1>5, <1>6, <1>7, <1>8

LEMMA NormalizeAnchorKeeps == ASSUME ShownInv, NormalizeAnchor PROVE ShownInv'
  <1>c. anc \in AnchorPhases
    BY DEF ShownInv, DiskTypeOK
  <1>o. anc.owner \in {"none", "initializing", "created", "active"}
    BY <1>c DEF AnchorPhases
  <1>e. [anc EXCEPT !.journal = "active", !.temporary = "none",
          !.owner = anc.owner] \in AnchorPhases
    BY <1>c, <1>o, AnchorEdited DEF AnchorPhases
  <1>f. [anc EXCEPT !.journal = "active", !.temporary = "none", !.owner = "none"] \in AnchorPhases
    BY <1>c, AnchorEdited DEF AnchorPhases
  <1>b. anc' \in AnchorPhases
    BY <1>e, <1>f DEF NormalizeAnchor
  <1>g. anc'.journal = "active" /\ anc'.manifest = anc.manifest /\ anc'.temporary = "none"
    BY <1>c DEF NormalizeAnchor, AnchorPhases
  <1> USE <1>c, <1>o, <1>e, <1>f, <1>b, <1>g
         DEF ShownInv, NormalizeAnchor, AnchorKinds, Retire, Resume, Rename, AnchoredWrite, Private,
             Retired, Due, RecordPhase, AfterRemoval, Recovering, ManifestSettled
  <1>1. DiskTypeOK'
    BY DEF DiskTypeOK, Labels, NotAnchored, CutShort, Disagreements, DebtsTyped, Anchored, AnchorPhases
  <1>2. LabelsFit'
    BY DEF LabelsFit, Retiring, BacksOf, LabelsOf, Ended, DiskTypeOK
  <1>3. JournalStands' /\ JournalLeaves'
    BY DEF JournalStands, JournalLeaves, Retiring, At, WithJournal, DiskTypeOK, AnchorPhases
  <1>4. TemporaryWritten'
    BY DEF TemporaryWritten, JournalStands, DiskTypeOK, AnchorPhases, Build
  <1>5. StateFits' /\ ManifestKnown'
    BY DEF StateFits, ManifestKnown, JournalStands, DiskTypeOK, AnchorPhases
  <1>6. RollsBackUnseen'
    BY DEF RollsBackUnseen, At, Retiring, ManifestKnown
  <1>7. AllStaged'
    BY DEF AllStaged, JournalStands, Published
  <1>8. Shows'
    BY DEF Shows, Published
  <1> QED BY <1>1, <1>2, <1>3, <1>4, <1>5, <1>6, <1>7, <1>8

LEMMA RecoverTransactionKeeps == ASSUME ShownInv, RecoverTransaction PROVE ShownInv'
  <1> USE
         DEF ShownInv, RecoverTransaction, AnchorKinds, Retire, Resume, Rename, AnchoredWrite,
             Private, Retired, Due, RecordPhase, AfterRemoval, Recovering, ManifestSettled
  <1>1. DiskTypeOK'
    BY
       DEF DiskTypeOK, Labels, NotAnchored, CutShort, Disagreements, DebtsTyped, Anchored, Journals,
           AnchorPhases
  <1>2. LabelsFit'
    BY DEF LabelsFit, Retiring, BacksOf, LabelsOf, Ended, DiskTypeOK
  <1>3. JournalStands' /\ JournalLeaves'
    BY DEF JournalStands, JournalLeaves, Retiring, At, WithJournal, DiskTypeOK, AnchorPhases
  <1>4. TemporaryWritten'
    BY DEF TemporaryWritten, JournalStands, DiskTypeOK, AnchorPhases, Build
  <1>5. StateFits' /\ ManifestKnown'
    BY DEF StateFits, ManifestKnown, JournalStands, DiskTypeOK, AnchorPhases
  <1>6. RollsBackUnseen'
    BY DEF RollsBackUnseen, At, Retiring, ManifestKnown
  <1>7. AllStaged'
    BY DEF AllStaged, JournalStands, Published
  <1>8. Shows'
    BY DEF Shows, Published
  <1> QED BY <1>1, <1>2, <1>3, <1>4, <1>5, <1>6, <1>7, <1>8

LEMMA CallKeeps == ASSUME ShownInv, Call PROVE ShownInv'
  <1> USE
         DEF ShownInv, Call, AnchorKinds, Retire, Resume, Rename, AnchoredWrite, Private, Retired,
             Due, RecordPhase, AfterRemoval, Recovering, ManifestSettled
  <1>1. DiskTypeOK'
    BY
       DEF DiskTypeOK, Labels, NotAnchored, CutShort, Disagreements, DebtsTyped, Anchored, Journals,
           AnchorPhases
  <1>2. LabelsFit'
    BY DEF LabelsFit, Retiring, BacksOf, LabelsOf, Ended, DiskTypeOK
  <1>3. JournalStands' /\ JournalLeaves'
    BY DEF JournalStands, JournalLeaves, Retiring, At, WithJournal, DiskTypeOK, AnchorPhases
  <1>4. TemporaryWritten'
    BY DEF TemporaryWritten, JournalStands, DiskTypeOK, AnchorPhases, Build
  <1>5. StateFits' /\ ManifestKnown'
    BY DEF StateFits, ManifestKnown, JournalStands, DiskTypeOK, AnchorPhases
  <1>6. RollsBackUnseen'
    BY DEF RollsBackUnseen, At, Retiring, ManifestKnown
  <1>7. AllStaged'
    BY DEF AllStaged, JournalStands, Published
  <1>8. Shows'
    BY DEF Shows, Published
  <1> QED BY <1>1, <1>2, <1>3, <1>4, <1>5, <1>6, <1>7, <1>8

LEMMA ReturnKeeps == ASSUME ShownInv, Return PROVE ShownInv'
  <1> USE
         DEF ShownInv, Return, AnchorKinds, Retire, Resume, Rename, AnchoredWrite, Private, Retired,
             Due, RecordPhase, AfterRemoval, Recovering, ManifestSettled
  <1>1. DiskTypeOK'
    BY
       DEF DiskTypeOK, Labels, NotAnchored, CutShort, Disagreements, DebtsTyped, Anchored, Journals,
           AnchorPhases
  <1>2. LabelsFit'
    BY DEF LabelsFit, Retiring, BacksOf, LabelsOf, Ended, DiskTypeOK
  <1>3. JournalStands' /\ JournalLeaves'
    BY DEF JournalStands, JournalLeaves, Retiring, At, WithJournal, DiskTypeOK, AnchorPhases
  <1>4. TemporaryWritten'
    BY DEF TemporaryWritten, JournalStands, DiskTypeOK, AnchorPhases, Build
  <1>5. StateFits' /\ ManifestKnown'
    BY DEF StateFits, ManifestKnown, JournalStands, DiskTypeOK, AnchorPhases
  <1>6. RollsBackUnseen'
    BY DEF RollsBackUnseen, At, Retiring, ManifestKnown
  <1>7. AllStaged'
    BY DEF AllStaged, JournalStands, Published
  <1>8. Shows'
    BY DEF Shows, Published
  <1> QED BY <1>1, <1>2, <1>3, <1>4, <1>5, <1>6, <1>7, <1>8

LEMMA CrashKeeps == ASSUME ShownInv, Crash PROVE ShownInv'
  <1> USE
         DEF ShownInv, Crash, AnchorKinds, Retire, Resume, Rename, AnchoredWrite, Private, Retired,
             Due, RecordPhase, AfterRemoval, Recovering, ManifestSettled
  <1>1. DiskTypeOK'
    BY
       DEF DiskTypeOK, Labels, NotAnchored, CutShort, Disagreements, DebtsTyped, Anchored, Journals,
           AnchorPhases
  <1>2. LabelsFit'
    BY DEF LabelsFit, Retiring, BacksOf, LabelsOf, Ended, DiskTypeOK
  <1>3. JournalStands' /\ JournalLeaves'
    BY DEF JournalStands, JournalLeaves, Retiring, At, WithJournal, DiskTypeOK, AnchorPhases
  <1>4. TemporaryWritten'
    BY DEF TemporaryWritten, JournalStands, DiskTypeOK, AnchorPhases, Build
  <1>5. StateFits' /\ ManifestKnown'
    BY DEF StateFits, ManifestKnown, JournalStands, DiskTypeOK, AnchorPhases
  <1>6. RollsBackUnseen'
    BY DEF RollsBackUnseen, At, Retiring, ManifestKnown
  <1>7. AllStaged'
    BY DEF AllStaged, JournalStands, Published
  <1>8. Shows'
    BY DEF Shows, Published
  <1> QED BY <1>1, <1>2, <1>3, <1>4, <1>5, <1>6, <1>7, <1>8

LEMMA InterruptKeeps == ASSUME ShownInv, Interrupt PROVE ShownInv'
  <1> USE
         DEF ShownInv, Interrupt, AnchorKinds, Retire, Resume, Rename, AnchoredWrite, Private,
             Retired, Due, RecordPhase, AfterRemoval, Recovering, ManifestSettled
  <1>1. DiskTypeOK'
    BY
       DEF DiskTypeOK, Labels, NotAnchored, CutShort, Disagreements, DebtsTyped, Anchored, Journals,
           AnchorPhases
  <1>2. LabelsFit'
    BY DEF LabelsFit, Retiring, BacksOf, LabelsOf, Ended, DiskTypeOK
  <1>3. JournalStands' /\ JournalLeaves'
    BY DEF JournalStands, JournalLeaves, Retiring, At, WithJournal, DiskTypeOK, AnchorPhases
  <1>4. TemporaryWritten'
    BY DEF TemporaryWritten, JournalStands, DiskTypeOK, AnchorPhases, Build
  <1>5. StateFits' /\ ManifestKnown'
    BY DEF StateFits, ManifestKnown, JournalStands, DiskTypeOK, AnchorPhases
  <1>6. RollsBackUnseen'
    BY DEF RollsBackUnseen, At, Retiring, ManifestKnown
  <1>7. AllStaged'
    BY DEF AllStaged, JournalStands, Published
  <1>8. Shows'
    BY DEF Shows, Published
  <1> QED BY <1>1, <1>2, <1>3, <1>4, <1>5, <1>6, <1>7, <1>8

(* Initially there is nothing on the disk.                                          *)
LEMMA ShownInit == Init => ShownInv
  <1> SUFFICES ASSUME Init PROVE ShownInv
    OBVIOUS
  <1> USE DEF Init
  <1>1. DiskTypeOK
    BY DEF DiskTypeOK, Anchored, AnchorPhases, Labels
  <1>2. LabelsFit /\ JournalStands /\ JournalLeaves
    BY DEF LabelsFit, Ended, Retiring, JournalStands, JournalLeaves, At, WithJournal
  <1>3. StateFits /\ TemporaryWritten /\ ManifestKnown
    BY DEF StateFits, TemporaryWritten, ManifestKnown
  <1>4. RollsBackUnseen /\ AllStaged /\ Shows
    BY DEF RollsBackUnseen, At, Retiring, AllStaged, Shows
  <1> QED BY <1>1, <1>2, <1>3, <1>4 DEF ShownInv

(* Idling keeps the first invariant.                                                *)
LEMMA StutterKeeps == ASSUME ShownInv, UNCHANGED vars PROVE ShownInv'
  <1> USE DEF vars, ShownInv
  <1>1. DiskTypeOK' /\ LabelsFit'
    BY DEF DiskTypeOK, LabelsFit, Retiring
  <1>2. JournalStands' /\ JournalLeaves' /\ StateFits' /\ TemporaryWritten' /\ ManifestKnown'
    BY
       DEF JournalStands, JournalLeaves, StateFits, TemporaryWritten, ManifestKnown, Due, At,
           Retiring
  <1>3. RollsBackUnseen' /\ AllStaged' /\ Shows'
    BY DEF RollsBackUnseen, At, Retiring, AllStaged, Shows, Published
  <1> QED BY <1>1, <1>2, <1>3

(* Every step keeps the first invariant.                                            *)
LEMMA NextKeeps == ShownInv /\ [Next]_vars => ShownInv'
  <1> SUFFICES ASSUME ShownInv, [Next]_vars PROVE ShownInv'
    OBVIOUS
  <1> USE BeginKeeps, WriteTemporaryKeeps, PublishJournalKeeps, MakeWorkKeeps,
         WriteOwnerMarkerKeeps, StartBuildingKeeps, WriteRunsKeeps, StageShardKeeps, BuiltKeeps,
         MakeDirectoryKeeps, PublishShardKeeps, WriteManifestKeeps, StartVerifyingKeeps,
         MoveVerifyingKeeps, EndVerifyingKeeps,
         MoveToTrashKeeps, RecordMoveKeeps, UnlinkKeeps, RecordGoneKeeps, ResumeGoneKeeps, RetireLostKeeps,
         RefuseUnreadableKeeps, FinishPrivateFileKeeps, FinishInventoryEntryKeeps, FinishWorkKeeps,
         FinishShardKeeps, FinishDirectoryKeeps, FinishJournalKeeps, PrepareCleanupKeeps,
         CleanupOwnerKeeps, CleanupWorkKeeps, CleanedKeeps, RollbackKeeps, UnpublishKeeps,
         MarkRolledBackKeeps, RemoveTransactionKeeps, CompleteJournalRetirementKeeps, RecoverManifestKeeps,
         RecoverWithoutJournalKeeps, NormalizeAnchorKeeps, RecoverTransactionKeeps, CallKeeps, ReturnKeeps,
         CrashKeeps, InterruptKeeps
  <1>1. CASE Step   BY <1>1 DEF Step
  <1>2. CASE Stopped   BY <1>2, StutterKeeps DEF Stopped
  <1>3. CASE UNCHANGED vars   BY <1>3, StutterKeeps
  <1> QED BY <1>1, <1>2, <1>3 DEF Next

(* Whatever the crashes and exceptions, disk, journal, anchor and place of the      *)
(* build agree (ShardWriter.write_parquet_shards, _recover_transaction).            *)
THEOREM ShownInvHolds == Spec => []ShownInv
  <1>1. Init => ShownInv   BY ShownInit
  <1>2. ShownInv /\ [Next]_vars => ShownInv'   BY NextKeeps
  <1> QED BY <1>1, <1>2, PTL DEF Spec

(* No step takes a manifest that has its name away.                                 *)
LEMMA ManifestStays == ASSUME ShownInv, [Next]_vars, Manifest \in fs PROVE Manifest \in fs'
  <1>1. CASE MoveToTrash
    <2>1. Due # NoDebt   BY <1>1 DEF MoveToTrash
    <2>2. Due.entry # Manifest   BY <2>1, DueFacts
    <2> QED BY <1>1, <2>2 DEF MoveToTrash
  <1> USE DEF Next, Step, vars
  <1>2. CASE WriteTemporary \/ WriteOwnerMarker \/ WriteManifest
    BY <1>2 DEF WriteTemporary, WriteOwnerMarker, WriteManifest, AnchoredWrite, Rename
  <1>3. CASE PublishJournal \/ MakeWork \/ WriteRuns \/ StageShard \/ MakeDirectory \/ PublishShard
          \/ StartVerifying \/ MoveVerifying
    BY <1>3
       DEF PublishJournal, MakeWork, WriteRuns, StageShard, MakeDirectory, PublishShard,
           StartVerifying, MoveVerifying, Rename
  <1>4. CASE fs' = fs   BY <1>4
  <1>5. fs' = fs \/ MoveToTrash \/ WriteTemporary \/ WriteOwnerMarker \/ WriteManifest
          \/ PublishJournal \/ MakeWork \/ WriteRuns \/ StageShard \/ MakeDirectory \/ PublishShard
          \/ StartVerifying \/ MoveVerifying
    <2>1. CASE StartBuilding \/ Built \/ RecordMove \/ Unlink \/ RecordGone \/ ResumeGone
            \/ RetireLost \/ RefuseUnreadable
      BY <2>1
         DEF StartBuilding, Built, RecordMove, Unlink, RecordGone, ResumeGone, RetireLost,
             RefuseUnreadable
    <2>2. CASE Begin \/ FinishPrivateFile \/ FinishInventoryEntry \/ FinishWork \/ FinishShard
            \/ FinishDirectory \/ FinishJournal
      BY <2>2
         DEF Begin, FinishPrivateFile, FinishInventoryEntry, FinishWork, FinishShard,
             FinishDirectory, FinishJournal
    <2>3. CASE PrepareCleanup \/ CleanupOwner \/ CleanupWork \/ Cleaned \/ Rollback \/ Unpublish
            \/ MarkRolledBack
      BY <2>3
         DEF PrepareCleanup, CleanupOwner, CleanupWork, Cleaned, Rollback, Unpublish,
             MarkRolledBack, Resume
    <2>4. CASE RemoveTransaction \/ CompleteJournalRetirement \/ RecoverManifest
            \/ RecoverWithoutJournal \/ NormalizeAnchor \/ RecoverTransaction
      BY <2>4
         DEF RemoveTransaction, CompleteJournalRetirement, RecoverManifest, RecoverWithoutJournal,
             NormalizeAnchor, RecoverTransaction, Resume
    <2>5. CASE Call \/ Return \/ Crash \/ Interrupt \/ Stopped \/ UNCHANGED vars
      BY <2>5 DEF Call, Return, Crash, Interrupt, Stopped
    <2>6. CASE EndVerifying   BY <2>6 DEF EndVerifying
    <2> QED BY <2>1, <2>2, <2>3, <2>4, <2>5, <2>6
  <1> QED BY <1>1, <1>2, <1>3, <1>4, <1>5

(* A reader is shown nothing or every shard, and once shown they stay: the          *)
(* transaction implements the atomic publication, for any number of shards,         *)
(* crashes, exceptions and calls (_write_manifest, _recover_transaction).           *)
THEOREM ShownAtomically == Spec => PublicationRefines
  <1> DEFINE shows == IF Manifest \in fs THEN Published ELSE {}
  <1>1. Init => Publication!Init   BY DEF Init, Publication!Init
  <1>2. ShownInv /\ ShownInv' /\ [Next]_vars => [Publication!Publish]_(shows)
    <2> SUFFICES ASSUME ShownInv, ShownInv', [Next]_vars PROVE Publication!Publish \/ shows' = shows
      OBVIOUS
    <2>1. /\ Manifest \in fs => Published = Shard
          /\ Manifest \in fs' => Published' = Shard
      BY DEF ShownInv, Shows
    <2>2. CASE Manifest \in fs
      <3>1. Manifest \in fs'   BY <2>2, ManifestStays
      <3> QED BY <2>1, <2>2, <3>1
    <2>3. CASE Manifest \notin fs
      BY <2>1, <2>3 DEF Publication!Publish
    <2> QED BY <2>2, <2>3
  <1> QED BY <1>1, <1>2, ShownInvHolds, PTL DEF Spec, PublicationRefines, Publication!Spec

----------------------------------------------------------------------------------
(* WHAT THE STEPS LEAVE ALONE: frames for the parts of TidyInv.                     *)

LEMMA EntriesApart ==
  /\ Finals \cap PublicDirectories = {} /\ Finals \cap Inventoried = {}
       /\ PublicDirectories \cap Inventoried = {}
  /\ {Temporary, Journal, OwnerInit, Partial, Manifest, Work,
       Verifying} \cap (Finals \cup PublicDirectories \cup Inventoried) = {}
  /\ \A i \in Shard : Final(i) \in Finals /\ Staged(i) \in Inventoried
  /\ \A k \in 0..Directories : Directory(k) \in PublicDirectories
  /\ \A k \in 1..Directories : Directory(k) \in PublicDirectories
  /\ Staging \in PublicDirectories /\ Runs \in Inventoried /\ Owner \in Inventoried
  <1>1. 0 \in 0..Directories /\ Staging = Directory(0)   OBVIOUS
  <1> QED BY <1>1 DEF Finals, PublicDirectories, Inventoried

(* An open intent names an entry of its kind and no other.                          *)
LEMMA OwedEntries ==
  ASSUME DiskTypeOK
  PROVE  /\ debt.kind \in {"none", "temporary", "owner", "manifest", "journal"}
         /\ intent.kind \in {"none", "inventory", "work", "shard", "directory"}
         /\ debt.kind = "none" <=> debt = NoDebt
         /\ intent.kind = "none" <=> intent = NoDebt
         /\ debt.entry = Temporary <=> debt.kind = "temporary"
         /\ debt.entry = Journal <=> debt.kind = "journal"
         /\ debt.entry = Partial <=> debt.kind = "manifest"
         /\ debt.entry \in {OwnerInit, Owner} <=> debt.kind = "owner"
         /\ debt.entry = Owner => debt.kind = "owner"
         /\ debt.entry = OwnerInit => debt.kind = "owner"
         /\ debt.entry \notin {Manifest, Verifying, Work, Runs} \cup Finals \cup PublicDirectories
         /\ debt.entry \in Inventoried => debt.entry = Owner
         /\ intent.entry = Work <=> intent.kind = "work"
         /\ intent.entry \in Finals <=> intent.kind = "shard"
         /\ intent.entry \in PublicDirectories <=> intent.kind = "directory"
         /\ intent.entry \in Inventoried <=> intent.kind = "inventory"
         /\ intent.entry \notin {Temporary, Journal, OwnerInit, Partial, Manifest, Verifying}
  <1>1. DebtsTyped   BY DEF DiskTypeOK, DebtsTyped
  <1>2. /\ Nothing \notin {Temporary, Journal, OwnerInit, Owner, Partial, Manifest, Verifying, Work,
             Runs}
        /\ Nothing \notin Finals /\ Nothing \notin PublicDirectories /\ Nothing \notin Inventoried
    BY DEF Finals, PublicDirectories, Inventoried
  <1>3. debt = NoDebt => debt.kind = "none" /\ debt.entry = Nothing
    OBVIOUS
  <1>4. intent = NoDebt => intent.kind = "none" /\ intent.entry = Nothing
    OBVIOUS
  <1>5. debt # NoDebt =>
          /\ debt.kind \in {"temporary", "owner", "manifest", "journal"}
          /\ debt.entry \in Retires(debt.kind)
    BY <1>1, KindsTyped DEF AnchorKinds, Anchored
  <1>6. debt # NoDebt =>
          /\ debt.entry = Temporary <=> debt.kind = "temporary"
          /\ debt.entry = Journal <=> debt.kind = "journal"
          /\ debt.entry = Partial <=> debt.kind = "manifest"
          /\ debt.entry \in {OwnerInit, Owner} <=> debt.kind = "owner"
          /\ debt.entry \notin {Manifest, Verifying, Work, Runs}
    BY <1>5 DEF Retires
  <1>7. debt # NoDebt =>
          /\ debt.entry \notin Finals /\ debt.entry \notin PublicDirectories
          /\ debt.entry \in Inventoried => debt.entry = Owner
    BY <1>5 DEF Retires, Finals, PublicDirectories, Inventoried
  <1>8. intent # NoDebt =>
          /\ intent.kind \in {"inventory", "work", "shard", "directory"}
          /\ intent.entry \in Retires(intent.kind)
    BY <1>1, KindsTyped DEF IntentKinds
  <1>9. intent # NoDebt =>
          /\ intent.entry = Work <=> intent.kind = "work"
          /\ intent.entry \in Finals <=> intent.kind = "shard"
          /\ intent.entry \in PublicDirectories <=> intent.kind = "directory"
          /\ intent.entry \in Inventoried <=> intent.kind = "inventory"
          /\ intent.entry \notin {Temporary, Journal, OwnerInit, Partial, Manifest, Verifying}
    <2>1. Retires("inventory") = Inventoried /\ Retires("work") = {Work}
            /\ Retires("shard") = Finals
             /\ Retires("directory") = PublicDirectories
      BY DEF Retires
    <2> QED BY <1>8, <2>1, EntriesApart
  <1> QED BY <1>2, <1>3, <1>4, <1>5, <1>6, <1>7, <1>8, <1>9

(* A step that creates one entry which no intent names keeps the trash apart from   *)
(* the disk.                                                                        *)
LEMMA TrashedFrame ==
  ASSUME Trashed, NEW e, fs' \subseteq fs \cup {e}, e \in fs' => e \in fs
           \/ e \notin {debt.entry, intent.entry},
         trash' = trash, debt' = debt, intent' = intent
  PROVE  Trashed'
  BY DEF Trashed

(* Writing an anchored file changes that file and its phase only.                   *)
LEMMA AnchoredEffect ==
  ASSUME anc \in AnchorPhases
  PROVE
    /\ AnchoredWrite("temporary") =>
         /\ fs' = fs \/ (fs' = fs \cup {Temporary} /\ anc.temporary = "initializing" /\ anc' = anc)
         /\ anc'.journal = anc.journal /\ anc'.owner = anc.owner /\ anc'.manifest = anc.manifest
         /\ anc.temporary # "active"
         /\ anc'.temporary \in {"initializing", "created", "active"}
         /\ anc.temporary \in {"created", "active"} => anc'.temporary \in {"created", "active"}
    /\ AnchoredWrite("owner") =>
         /\ fs' = fs \/ (fs' = fs \cup {OwnerInit} /\ anc.owner = "initializing" /\ anc' = anc)
         /\ anc'.journal = anc.journal /\ anc'.temporary = anc.temporary
              /\ anc'.manifest = anc.manifest
         /\ anc.owner # "active"
         /\ anc'.owner \in {"initializing", "created", "active"}
    /\ AnchoredWrite("manifest") =>
         /\ fs' = fs \/ (fs' = fs \cup {Partial} /\ anc.manifest = "initializing" /\ anc' = anc)
         /\ anc'.journal = anc.journal /\ anc'.temporary = anc.temporary /\ anc'.owner = anc.owner
         /\ anc.manifest \in {"none", "initializing", "created"}
         /\ anc'.manifest \in {"initializing", "created", "active"}
         /\ anc'.manifest # "initializing" /\ anc.manifest # "created" => Partial \in fs
         /\ anc.manifest = "created" => anc'.manifest \in {"created", "active"}
  BY DEF AnchoredWrite, AnchorPhases, Private

(* Before the inventory is taken, the work directory may grow.                      *)
LEMMA WorkGrows ==
  ASSUME WorkDisk, jrn' = jrn, jrn.state = "building", jrn.inventory = {}, Work \in fs,
           fs \subseteq fs',
         intent' = intent, intent.kind = "none", anc'.manifest = anc.manifest
  PROVE  WorkDisk'
  BY DEF WorkDisk, JournalOwes, WorkHolds, InventoryKnown, Inventory, Inventoried

(* What is said of an output that a step leaves alone.                              *)
LEMMA OutputSame ==
  ASSUME OutputKept
  PROVE  /\ Published' = Published /\ (OutputGone' <=> OutputGone)
         /\ Manifest \in fs' <=> Manifest \in fs
         /\ Staging \in fs' <=> Staging \in fs
         /\ \A k \in 0..Directories : Directory(k) \in fs' <=> Directory(k) \in fs
         /\ \A k \in 1..Directories : Directory(k) \in fs' <=> Directory(k) \in fs
         /\ \A i \in Shard : Final(i) \in fs' <=> Final(i) \in fs
  BY EntriesApart DEF OutputKept, OutputGone, Published

(* When a publication is over, what is said of the output is settled.               *)
LEMMA OutputSettled ==
  ASSUME OutputDisk, OutputKept, jrn'.state # "publishing", jrn'.state = "rolled_back"
           => Manifest \notin fs, Staging \notin fs, Manifest \notin fs => OutputGone,
         Fresh', intent'.kind \notin {"shard", "directory"}, anc'.manifest \notin {"published",
           "committed"}
  PROVE  OutputDisk'
  BY OutputSame DEF OutputDisk, OutputWhole, DirectoriesKnown, ShardsKnown

(* Among the entries of the work directory, no two have the same depth.             *)
LEMMA DepthApart ==
  ASSUME NEW e \in Inventoried, NEW other \in Inventoried, Depth(other) <= Depth(e), other # e
  PROVE  Depth(other) < Depth(e)
  BY DEF Inventoried, Depth, Shard

(* Arithmetic of the rollback of directories: the last one that is left has been    *)
(* unmade.                                                                          *)
LEMMA OneLess ==
  ASSUME NEW h \in {0, 1}, NEW m \in Nat, NEW l \in Nat, NEW k \in Nat, k < h + m + 1 - l,
           k # m + h - l
  PROVE  k < h + m + 1 - (l + 1)
  OBVIOUS

(* Without an open intent the trash is empty.                                       *)
LEMMA NothingTrashed ==
  ASSUME DiskTypeOK, Trashed, debt = NoDebt, intent = NoDebt
  PROVE  trash = {}
  <1>1. Nothing \notin Entry   BY DEF Entry, Inventoried, Finals, PublicDirectories
  <1>2. trash \subseteq {Nothing}   BY DEF Trashed
  <1> QED BY <1>1, <1>2 DEF DiskTypeOK

(* Directories are unmade from the last one made to the first, the candidate before *)
(* all others.                                                                      *)
LEMMA MadeFacts ==
  ASSUME jrn \in Journals
  PROVE  /\ Len(MadeDirectories) = HasCandidate + jrn.made
         /\ \A k \in 1..(HasCandidate + jrn.made) :
              MadeDirectories[k] = IF HasCandidate = 1
                /\ k = 1 THEN Candidate ELSE Directory(jrn.made + 1 + HasCandidate - k)
  <1> DEFINE made == [k \in 1..jrn.made |-> Directory(jrn.made + 1 - k)]
  <1>1. jrn.made \in Nat   BY JournalThere
  <1>2. \A k \in 1..jrn.made : Directory(jrn.made + 1 - k) \in {"directory"} \X Int   BY <1>1
  <1>3. made \in Seq({"directory"} \X Int) /\ Len(made) = jrn.made
    BY <1>1, <1>2
  <1>4. \A k \in 1..jrn.made : made[k] = Directory(jrn.made + 1 - k)   OBVIOUS
  <1>5. Candidate \in {"directory"} \X Int   BY <1>1 DEF Candidate
  <1> HIDE DEF made
  <1>6. CASE jrn.making = "staged"
    <2>1. MadeDirectories = <<Candidate>> \o made /\ HasCandidate = 1
      BY <1>6 DEF MadeDirectories, HasCandidate, made
    <2>2. <<Candidate>> \in Seq({"directory"} \X Int) /\ Len(<<Candidate>>) = 1
            /\ <<Candidate>>[1] = Candidate
      BY <1>5
    <2>3. Len(MadeDirectories) = 1 + jrn.made   BY <1>3, <2>1, <2>2
    <2>4. MadeDirectories[1] = Candidate   BY <1>1, <1>3, <2>1, <2>2
    <2>5. ASSUME NEW k \in 1..(1 + jrn.made), k # 1
          PROVE  MadeDirectories[k] = Directory(jrn.made + 1 + 1 - k)
      <3>1. k - 1 \in 1..jrn.made   BY <1>1, <2>5
      <3>2. MadeDirectories[k] = made[k - 1]   BY <1>1, <1>3, <2>1, <2>2, <2>5
      <3>3. jrn.made + 1 - (k - 1) = jrn.made + 1 + 1 - k   BY <1>1
      <3> QED BY <1>4, <3>1, <3>2, <3>3
    <2> QED BY <2>1, <2>3, <2>4, <2>5
  <1>7. CASE jrn.making # "staged"
    <2>1. MadeDirectories = <<>> \o made /\ HasCandidate = 0
      BY <1>7 DEF MadeDirectories, HasCandidate, made
    <2>2. MadeDirectories = made   BY <1>3, <2>1
    <2>3. \A k \in 1..jrn.made : jrn.made + 1 + 0 - k = jrn.made + 1 - k   BY <1>1
    <2> QED BY <1>1, <1>3, <1>4, <2>1, <2>2, <2>3
  <1> QED BY <1>6, <1>7

(* Arithmetic of the rollback of directories: the next one to unmake.               *)
LEMMA NextIndex ==
  ASSUME NEW h \in {0, 1}, NEW m \in Nat, NEW l \in Nat, l < h + m
  PROVE  /\ m + 1 + h - (l + 1) = m + h - l /\ m + h - l # 0
         /\ l + 1 \in 1..(h + m) /\ (l + 1 = 1 <=> l = 0)
  OBVIOUS

(* Arithmetic of the rollback of directories: when all are unmade, none is left.    *)
LEMMA NoneLeft ==
  ASSUME NEW h \in {0, 1}, NEW m \in Nat, NEW l \in Nat, NEW k \in Nat, h + m <= l,
           k < h + m + 1 - l
  PROVE  k = 0
  OBVIOUS

(* A step that changes no entry and no record keeps what is said of the disk.       *)
LEMMA DiskFrame ==
  ASSUME Disk, fs' = fs, trash' = trash, jrn' = jrn, anc' = anc, intent' = intent, debt' = debt
  PROVE  Disk'
  <1>1. Trashed' /\ AnchorOwes' /\ PrivateFiles'
    BY DEF Disk, Trashed, AnchorOwes, PrivateFiles, CommitHolds, Published
  <1>2. OutputWhole' /\ Fresh'
    BY DEF Disk, OutputDisk, OutputWhole, Fresh, OutputGone
  <1>3. DirectoriesKnown' /\ ShardsKnown'
    BY DEF Disk, OutputDisk, DirectoriesKnown, ShardsKnown, HasCandidate, Published
  <1>4. WorkDisk'
    BY
       DEF Disk, WorkDisk, JournalOwes, WorkHolds, InventoryKnown, Inventory, ProgressHolds,
           Expected
  <1> QED BY <1>1, <1>2, <1>3, <1>4 DEF Disk, OutputDisk

(* A step that leaves the output and its record alone keeps what is said of it.     *)
LEMMA OutputFrame ==
  ASSUME OutputDisk, DiskTypeOK, StateFits, OutputKept, OutputRecordKept, IntentKept
           \/ intent'.kind \notin {"shard", "directory"},
         anc'.manifest \in {"published", "committed"} => anc.manifest \in {"published", "committed"}
  PROVE  OutputDisk'
  <1>1. /\ Manifest \in fs' <=> Manifest \in fs
        /\ \A i \in Shard : Final(i) \in fs' <=> Final(i) \in fs
        /\ \A k \in 0..Directories : Directory(k) \in fs' <=> Directory(k) \in fs
    BY DEF OutputKept, Finals, PublicDirectories
  <1>2. Staging \in fs' <=> Staging \in fs
    <2>1. 0 \in 0..Directories /\ Staging = Directory(0)   OBVIOUS
    <2> QED BY <2>1, <1>1
  <1>3. Published' = Published /\ (OutputGone' <=> OutputGone)
    BY <1>1 DEF Published, OutputGone, OutputKept
  <1>4. OutputWhole' /\ Fresh'
    <2>1. \A k \in 1..Directories : k \in 0..Directories   OBVIOUS
    <2> QED BY <1>1, <1>2, <1>3, <2>1 DEF OutputDisk, OutputWhole, Fresh, OutputRecordKept
  <1>5. DirectoriesKnown'
    <2>1. \A k \in 1..Directories : k \in 0..Directories   OBVIOUS
    <2>2. HasCandidate' = HasCandidate   BY DEF HasCandidate, OutputRecordKept
    <2>3. jrn.state = "publishing" => jrn \in Journals
      <3>1. NoJournal.state = "none"   OBVIOUS
      <3> QED BY <3>1 DEF DiskTypeOK
    <2>5. jrn.state = "publishing" /\ jrn.making = "staged" => jrn.made + 1 \in 0..Directories
      BY <2>3, JournalThere DEF StateFits
    <2>4. jrn.state = "publishing" /\ jrn.making = "staged"
            => (Directory(jrn.made + 1) \in fs' <=> Directory(jrn.made + 1) \in fs)
      BY <2>5, <1>1
    <2> QED BY <1>1, <1>2, <2>1, <2>2, <2>4
               DEF OutputDisk, DirectoriesKnown, OutputRecordKept, IntentKept
  <1>6. ShardsKnown'
    BY <1>3 DEF OutputDisk, ShardsKnown, OutputRecordKept, IntentKept
  <1> QED BY <1>4, <1>5, <1>6 DEF OutputDisk

(* The same for the work directory and its record.                                  *)
LEMMA WorkFrame ==
  ASSUME WorkDisk, DiskTypeOK, WorkKept, WorkRecordKept, IntentKept,
         Manifest \in fs' => Manifest \in fs, anc'.manifest # "none" => anc.manifest # "none"
  PROVE  WorkDisk'
  <1>1. /\ Work \in fs' <=> Work \in fs
        /\ OwnerInit \in fs' <=> OwnerInit \in fs
        /\ Inventory' = Inventory
    BY DEF WorkKept, Inventory
  <1>2. Owner \in fs' <=> Owner \in fs
    BY DEF WorkKept, Inventoried
  <1>3. intent.kind = "inventory" => (intent.entry \in fs' <=> intent.entry \in fs)
    <2>1. DebtsTyped   BY DEF DiskTypeOK, DebtsTyped
    <2>2. intent.kind = "inventory" => intent.entry \in Retires("inventory")   BY <2>1, KindsTyped
    <2> QED BY <2>2 DEF Retires, WorkKept
  <1>4. Expected' = Expected   BY DEF Expected, WorkRecordKept
  <1>5. ProgressHolds => ProgressHolds'
    BY <1>1, <1>3, <1>4 DEF ProgressHolds, WorkRecordKept, IntentKept
  <1>6. JournalOwes' /\ WorkHolds'
    BY <1>1, <1>2 DEF WorkDisk, JournalOwes, WorkHolds, WorkRecordKept, IntentKept
  <1>7. InventoryKnown'
    BY <1>1, <1>2, <1>5 DEF WorkDisk, InventoryKnown, WorkRecordKept
  <1> QED BY <1>6, <1>7 DEF WorkDisk

(* When a build is done, the output is complete and nothing else is on the disk.    *)
LEMMA DoneClean ==
  ASSUME ShownInv, TidyInv, pc = "done"
  PROVE  OutputAlone
  <1> USE DEF ShownInv, TidyInv, Disk, Places, OutputDisk, WorkDisk
  <1>1. mode = "build"   BY DEF LabelsFit, LabelsOf, Ended, DiskTypeOK
  <1>2. Manifest \in fs /\ jrn = NoJournal   BY <1>1 DEF AtOutput
  <1>3. debt = NoDebt /\ intent = NoDebt   BY <1>1 DEF AtBuilding, Retiring
  <1>4. trash = {}
    <2>1. trash \subseteq {Nothing}   BY <1>3 DEF Trashed
    <2>2. Nothing \notin Entry   BY DEF Entry, Inventoried, Finals, PublicDirectories
    <2> QED BY <2>1, <2>2 DEF DiskTypeOK
  <1>5. Work \notin fs /\ Verifying \notin fs   BY <1>1 DEF AtWork, AtBuilding
  <1>6. Inventory = {} /\ OwnerInit \notin fs   BY <1>5 DEF WorkHolds
  <1>7. Journal \notin fs   BY <1>2 DEF JournalStands
  <1>8. anc.manifest = "none"   BY <1>2 DEF ManifestKnown
  <1>9. Partial \notin fs   BY <1>8 DEF PrivateFiles
  <1>10. Staging \notin fs /\ \A k \in 1..Directories : Directory(k) \in fs
    BY <1>2 DEF OutputWhole
  <1>11. \A i \in Shard : Final(i) \in fs   BY <1>2 DEF Shows, Published
  <1>12. Temporary \notin fs   BY <1>1 DEF AtBuilding
  <1>13. fs \subseteq {Manifest} \cup {Final(i) : i \in Shard} \cup {Directory(k) : k \in 1..Directories}
    <2>1. fs \subseteq {Manifest} \cup Finals \cup PublicDirectories
      BY <1>5, <1>6, <1>7, <1>9, <1>12 DEF DiskTypeOK, Entry, Inventory
    <2>2. \A k \in 0..Directories : k = 0 \/ k \in 1..Directories   OBVIOUS
    <2>3. \A e \in PublicDirectories : e = Staging \/ e \in {Directory(k) : k \in 1..Directories}
      BY <2>2 DEF PublicDirectories
    <2> QED BY <2>1, <2>3, <1>10 DEF Finals
  <1>14. fs = {Manifest} \cup {Final(i) : i \in Shard} \cup {Directory(k) : k \in 1..Directories}
    BY <1>2, <1>10, <1>11, <1>13
  <1> QED BY <1>2, <1>3, <1>4, <1>14 DEF OutputAlone
----------------------------------------------------------------------------------
(* EVERY STEP KEEPS TidyInv: one lemma for each action.  Each relies on ShownInv    *)
(* before and after the step.                                                       *)

LEMMA BeginTidies == ASSUME ShownInv, ShownInv', TidyInv, Begin PROVE TidyInv'
  <1>z. fs' = fs /\ trash' = trash /\ jrn' = jrn /\ anc' = anc /\ intent' = intent /\ debt' = debt
    BY DEF Begin, Resume
  <1> USE <1>z
         DEF ShownInv, TidyInv, Disk, Places, OutputDisk, WorkDisk, Begin, AnchorKinds, Retire,
             Resume, Rename, AnchoredWrite, Private, Retired, Due, RecordPhase, AfterRemoval,
             Recovering, ManifestSettled
  <1>1. Disk'
    BY DiskFrame
  <1>2. AtRetired'
    BY DEF AtRetired, Retiring
  <1>3. AtOwing'
    BY DEF AtOwing, At, Retiring, WithJournal
  <1>4. AtBuilding'
    BY DEF AtBuilding, Retiring, Build, AtOwing, JournalStands
  <1>5. AtWork'
    BY DEF AtWork, At, Retiring
  <1>6. AtOutput'
    BY DEF AtOutput, At, Retiring, Published, JournalStands
  <1>7. AtUndoing'
    BY DEF AtUndoing, At, Retiring, OutputGone, Finals, PublicDirectories
  <1>8. AtCommit'
    BY DEF AtCommit, At, Retiring, WithJournal
  <1>9. RefusesOnlyCutShort'
    BY DEF RefusesOnlyCutShort, NotAnchored, CutShort
  <1>10. ReturnsAlone'
    BY DEF ReturnsAlone
  <1> QED BY <1>1, <1>2, <1>3, <1>4, <1>5, <1>6, <1>7, <1>8, <1>9, <1>10

LEMMA WriteTemporaryTidies == ASSUME ShownInv, ShownInv', TidyInv, WriteTemporary PROVE TidyInv'
  <1>c. anc \in AnchorPhases
    BY DEF ShownInv, DiskTypeOK
  <1>w. debt = NoDebt /\ intent = NoDebt /\ debt.kind = "none" /\ intent.kind = "none"
    BY DEF TidyInv, Places, AtBuilding, Retiring, WriteTemporary, Build
  <1>g. /\ debt' = debt /\ intent' = intent /\ trash' = trash /\ mode' = mode /\ refusal' = refusal
             /\ mode = "build" /\ jrn' = jrn /\ pc = "temporary" /\ pc' = "temporary"
        /\ fs' \subseteq fs \cup {Temporary} /\ fs \subseteq fs'
        /\ anc'.journal = anc.journal /\ anc'.owner = anc.owner /\ anc'.manifest = anc.manifest
        /\ anc'.temporary # "none" /\ anc.temporary # "active"
    BY <1>c, AnchoredEffect DEF WriteTemporary, Build
  <1> USE <1>c, <1>w, <1>g DEF ShownInv, TidyInv, Disk, Places, OutputDisk, WorkDisk
  <1>1. Trashed'
    BY TrashedFrame, OwedEntries, EntriesApart
  <1>2. AnchorOwes'
    BY DEF AnchorOwes, CommitHolds, Published
  <1>3. PrivateFiles'
    BY DEF PrivateFiles, TemporaryWritten, Build
  <1>4. OutputDisk'
    BY OutputFrame, EntriesApart DEF OutputKept, OutputRecordKept, IntentKept
  <1>5. WorkDisk'
    BY WorkFrame, EntriesApart DEF WorkKept, WorkRecordKept, IntentKept
  <1>6. AtRetired'
    BY DEF AtRetired, Retiring
  <1>7. AtOwing'
    BY DEF AtOwing, At, Retiring, WithJournal
  <1>8. AtBuilding'
    BY DEF AtBuilding, Retiring, Build
  <1>9. AtWork'
    BY DEF AtWork, At, Retiring
  <1>10. AtOutput'
    BY DEF AtOutput, At, Retiring, Published
  <1>11. AtUndoing'
    BY DEF AtUndoing, At, Retiring
  <1>12. AtCommit'
    BY DEF AtCommit, At, Retiring, WithJournal
  <1>13. RefusesOnlyCutShort'
    BY DEF RefusesOnlyCutShort, NotAnchored, CutShort
  <1>14. ReturnsAlone'
    BY DEF ReturnsAlone
  <1> QED BY <1>1, <1>2, <1>3, <1>4, <1>5, <1>6, <1>7, <1>8, <1>9, <1>10, <1>11, <1>12, <1>13, <1>14

LEMMA PublishJournalTidies == ASSUME ShownInv, ShownInv', TidyInv, PublishJournal PROVE TidyInv'
  <1>c. anc \in AnchorPhases
    BY DEF ShownInv, DiskTypeOK
  <1>w. debt = NoDebt /\ intent = NoDebt /\ debt.kind = "none" /\ intent.kind = "none"
    BY DEF TidyInv, Places, AtBuilding, Retiring, PublishJournal, Build
  <1>n. NewTransaction.state = "initializing" /\ NewTransaction.inventory = {}
          /\ NewTransaction.removed = {}
        /\ NewTransaction.made = 0 /\ NewTransaction.making = "none" /\ NewTransaction.prefix = 0
        /\ NewTransaction.unmade = <<>> /\ NewTransaction.undone = {} /\ NewTransaction.undo = 0
    BY DEF NewTransaction
  <1>g. /\ debt' = debt /\ intent' = intent /\ trash' = trash /\ mode' = mode /\ refusal' = refusal
             /\ mode = "build" /\ pc = "temporary" /\ pc' \in {"temporary", "work"}
        /\ anc'.manifest = anc.manifest /\ anc'.owner = anc.owner /\ anc'.journal # "none"
        /\ \/ jrn' = jrn /\ fs' = fs /\ Temporary \notin fs /\ pc' = "work"
           \/ jrn' = jrn /\ fs' = fs /\ anc'.temporary = anc.temporary /\ pc' = "temporary"
           \/ jrn' = NewTransaction /\ Temporary \in fs /\ fs' = (fs \ {Temporary}) \cup {Journal}
                /\ pc' = "temporary"
    BY <1>c DEF PublishJournal, Build, Rename, AnchorPhases
  <1>h. jrn = NoJournal \/ jrn.state = "initializing"
    BY <1>g DEF ShownInv, StateFits
  <1> USE <1>c, <1>w, <1>n, <1>g, <1>h DEF ShownInv, TidyInv, Disk, Places, OutputDisk, WorkDisk
  <1>1. Trashed'
    BY TrashedFrame, OwedEntries, EntriesApart
  <1>2. AnchorOwes'
    BY DEF AnchorOwes, CommitHolds, Published
  <1>3. PrivateFiles'
    BY DEF PrivateFiles
  <1>4. OutputDisk'
    <2>1. Fresh'
      BY DEF Fresh
    <2>2. OutputKept   BY EntriesApart DEF OutputKept
    <2>3. anc'.manifest \notin {"published", "committed"}
      BY DEF ManifestKnown
    <2>4. Staging \notin fs /\ (Manifest \notin fs => OutputGone) /\ jrn'.state # "publishing"
      BY DEF OutputWhole
    <2> QED BY <2>1, <2>2, <2>3, <2>4, OutputSettled
  <1>5. WorkDisk'
    BY EntriesApart DEF WorkDisk, JournalOwes, WorkHolds, InventoryKnown, Inventory, Inventoried
  <1>6. AtRetired'
    BY DEF AtRetired, Retiring
  <1>7. AtOwing'
    BY DEF AtOwing, At, Retiring, WithJournal
  <1>8. AtBuilding'
    BY DEF AtBuilding, Retiring, Build
  <1>9. AtWork'
    BY DEF AtWork, At, Retiring
  <1>10. AtOutput'
    BY DEF AtOutput, At, Retiring, Published
  <1>11. AtUndoing'
    BY DEF AtUndoing, At, Retiring
  <1>12. AtCommit'
    BY DEF AtCommit, At, Retiring, WithJournal
  <1>13. RefusesOnlyCutShort'
    BY DEF RefusesOnlyCutShort, NotAnchored, CutShort
  <1>14. ReturnsAlone'
    BY DEF ReturnsAlone
  <1> QED BY <1>1, <1>2, <1>3, <1>4, <1>5, <1>6, <1>7, <1>8, <1>9, <1>10, <1>11, <1>12, <1>13, <1>14

LEMMA MakeWorkTidies == ASSUME ShownInv, ShownInv', TidyInv, MakeWork PROVE TidyInv'
  <1>c. anc \in AnchorPhases
    BY DEF ShownInv, DiskTypeOK
  <1>w. debt = NoDebt /\ intent = NoDebt /\ debt.kind = "none" /\ intent.kind = "none"
    BY DEF TidyInv, Places, AtBuilding, Retiring, MakeWork, Build
  <1>0. jrn \in Journals /\ Journal \in fs /\ debt.kind # "journal"
    BY InJournal DEF MakeWork, Build, At, Retiring, WithJournal
  <1>p. pc = "work" /\ mode = "build" /\ jrn.state = "initializing" /\ jrn # NoJournal
    BY <1>0, JournalThere DEF ShownInv, StateFits, MakeWork, Build
  <1>e. LET k == [jrn EXCEPT !.state = "owner_initializing"] IN
        /\ k \in Journals /\ k # NoJournal
        /\ k.state = "owner_initializing" /\ k.inventory = jrn.inventory /\ k.removed = jrn.removed
             /\ k.prefix = jrn.prefix /\ k.made = jrn.made /\ k.making = jrn.making
             /\ k.undone = jrn.undone /\ k.undo = jrn.undo /\ k.unmade = jrn.unmade
    BY <1>0, StateEdited DEF JournalStates
  <1>g. /\ debt' = debt /\ intent' = intent /\ trash' = trash /\ mode' = mode /\ refusal' = refusal
             /\ mode = "build" /\ anc' = anc
        /\ \/ fs' = fs \cup {Work} /\ jrn' = jrn /\ pc' = "work" /\ Work \notin fs
           \/ fs' = fs /\ jrn'.state = "owner_initializing" /\ pc' = "owner" /\ Work \in fs
    BY <1>c, <1>e, <1>p DEF AnchorPhases, MakeWork
  <1>h. jrn' # NoJournal /\ jrn'.inventory = jrn.inventory /\ jrn'.removed = jrn.removed
          /\ jrn'.prefix = jrn.prefix /\ jrn'.made = jrn.made /\ jrn'.making = jrn.making
          /\ jrn'.undone = jrn.undone /\ jrn'.undo = jrn.undo /\ jrn'.unmade = jrn.unmade
    BY <1>e, <1>p DEF MakeWork
  <1> USE <1>c, <1>w, <1>0, <1>p, <1>e, <1>g, <1>h
         DEF ShownInv, TidyInv, Disk, Places, OutputDisk, WorkDisk
  <1>1. Trashed'
    BY TrashedFrame, OwedEntries, EntriesApart
  <1>2. AnchorOwes'
    BY DEF AnchorOwes, CommitHolds, Published
  <1>3. PrivateFiles'
    BY DEF PrivateFiles, WorkHolds
  <1>4. OutputDisk'
    <2>1. Fresh'
      BY DEF Fresh
    <2>2. OutputKept   BY EntriesApart DEF OutputKept
    <2>3. anc'.manifest \notin {"published", "committed"}
      BY DEF ManifestKnown
    <2>4. Staging \notin fs /\ (Manifest \notin fs => OutputGone) /\ jrn'.state # "publishing"
      BY DEF OutputWhole
    <2> QED BY <2>1, <2>2, <2>3, <2>4, OutputSettled
  <1>5. WorkDisk'
    <2>1. Inventory' = Inventory   BY EntriesApart DEF Inventory
    <2>2. anc.manifest = "none"   BY DEF ManifestKnown
    <2> QED BY <2>1, <2>2 DEF WorkDisk, JournalOwes, WorkHolds, InventoryKnown
  <1>6. AtRetired'
    BY DEF AtRetired, Retiring
  <1>7. AtOwing'
    BY DEF AtOwing, At, Retiring, WithJournal
  <1>8. AtBuilding'
    BY DEF AtBuilding, Retiring, Build, InventoryKnown
  <1>9. AtWork'
    BY DEF AtWork, At, Retiring
  <1>10. AtOutput'
    BY DEF AtOutput, At, Retiring, Published
  <1>11. AtUndoing'
    BY DEF AtUndoing, At, Retiring
  <1>12. AtCommit'
    BY DEF AtCommit, At, Retiring, WithJournal
  <1>13. RefusesOnlyCutShort'
    BY DEF RefusesOnlyCutShort, NotAnchored, CutShort
  <1>14. ReturnsAlone'
    BY DEF ReturnsAlone
  <1> QED BY <1>1, <1>2, <1>3, <1>4, <1>5, <1>6, <1>7, <1>8, <1>9, <1>10, <1>11, <1>12, <1>13, <1>14

LEMMA WriteOwnerMarkerTidies == ASSUME ShownInv, ShownInv', TidyInv, WriteOwnerMarker PROVE TidyInv'
  <1>c. anc \in AnchorPhases
    BY DEF ShownInv, DiskTypeOK
  <1>w. debt = NoDebt /\ intent = NoDebt /\ debt.kind = "none" /\ intent.kind = "none"
    BY DEF TidyInv, Places, AtBuilding, Retiring, WriteOwnerMarker, Build
  <1>g. /\ debt' = debt /\ intent' = intent /\ trash' = trash /\ mode' = mode /\ refusal' = refusal
             /\ mode = "build" /\ jrn' = jrn /\ pc = "owner" /\ pc' = "owner"
        /\ anc'.journal = anc.journal /\ anc'.temporary = anc.temporary
             /\ anc'.manifest = anc.manifest
        /\ anc'.owner # "none"
        /\ \/ fs' = fs /\ anc.owner # "active"
           \/ fs' = fs \cup {OwnerInit} /\ anc.owner = "initializing" /\ anc' = anc
           \/ fs' = (fs \ {OwnerInit}) \cup {Owner} /\ anc.owner = "active" /\ anc' = anc
                /\ OwnerInit \in fs
    BY <1>c, AnchoredEffect DEF WriteOwnerMarker, Build, Rename
  <1>b. jrn.state = "owner_initializing" /\ Work \in fs /\ jrn.inventory = {} /\ jrn.removed = {}
    BY <1>g DEF TidyInv, Places, AtBuilding, Disk, PrivateFiles, ShownInv, StateFits, Build
  <1> USE <1>c, <1>w, <1>g, <1>b DEF ShownInv, TidyInv, Disk, Places, OutputDisk, WorkDisk
  <1>1. Trashed'
    BY TrashedFrame, OwedEntries, EntriesApart
  <1>2. AnchorOwes'
    BY DEF AnchorOwes, CommitHolds, Published
  <1>3. PrivateFiles'
    BY <1>c DEF PrivateFiles, AnchorPhases
  <1>4. OutputDisk'
    BY OutputFrame, EntriesApart DEF OutputKept, OutputRecordKept, IntentKept
  <1>5. WorkDisk'
    BY EntriesApart DEF WorkDisk, JournalOwes, WorkHolds, InventoryKnown, Inventory
  <1>6. AtRetired'
    BY DEF AtRetired, Retiring
  <1>7. AtOwing'
    BY DEF AtOwing, At, Retiring, WithJournal
  <1>8. AtBuilding'
    BY DEF AtBuilding, Retiring, Build
  <1>9. AtWork'
    BY DEF AtWork, At, Retiring
  <1>10. AtOutput'
    BY DEF AtOutput, At, Retiring, Published
  <1>11. AtUndoing'
    BY DEF AtUndoing, At, Retiring
  <1>12. AtCommit'
    BY DEF AtCommit, At, Retiring, WithJournal
  <1>13. RefusesOnlyCutShort'
    BY DEF RefusesOnlyCutShort, NotAnchored, CutShort
  <1>14. ReturnsAlone'
    BY DEF ReturnsAlone
  <1> QED BY <1>1, <1>2, <1>3, <1>4, <1>5, <1>6, <1>7, <1>8, <1>9, <1>10, <1>11, <1>12, <1>13, <1>14

LEMMA StartBuildingTidies == ASSUME ShownInv, ShownInv', TidyInv, StartBuilding PROVE TidyInv'
  <1>c. anc \in AnchorPhases
    BY DEF ShownInv, DiskTypeOK
  <1>w. debt = NoDebt /\ intent = NoDebt /\ debt.kind = "none" /\ intent.kind = "none"
    BY DEF TidyInv, Places, AtBuilding, Retiring, StartBuilding, Build
  <1>0. jrn \in Journals /\ Journal \in fs /\ debt.kind # "journal"
    BY InJournal DEF StartBuilding, Build, At, Retiring, WithJournal
  <1>p. pc = "owner" /\ mode = "build" /\ jrn.state \in {"owner_initializing", "building"}
          /\ jrn # NoJournal
    BY <1>0, JournalThere DEF ShownInv, StateFits, StartBuilding, Build
  <1>e. LET k == [jrn EXCEPT !.state = "building"] IN
        /\ k \in Journals /\ k # NoJournal
        /\ k.state = "building" /\ k.inventory = jrn.inventory /\ k.removed = jrn.removed
             /\ k.prefix = jrn.prefix /\ k.made = jrn.made /\ k.making = jrn.making
             /\ k.undone = jrn.undone /\ k.undo = jrn.undo /\ k.unmade = jrn.unmade
    BY <1>0, StateEdited DEF JournalStates
  <1>g. /\ debt' = debt /\ intent' = intent /\ trash' = trash /\ mode' = mode /\ refusal' = refusal
             /\ mode = "build" /\ fs' = fs /\ anc.owner = "active" /\ Owner \in fs
        /\ \/ jrn'.state = "building" /\ pc' = "owner" /\ anc' = anc
           \/ jrn' = jrn /\ jrn.state = "building" /\ pc' = "build"
        /\ anc'.journal = anc.journal /\ anc'.temporary = anc.temporary
             /\ anc'.manifest = anc.manifest
    BY <1>c, <1>e, <1>p DEF AnchorPhases, StartBuilding
  <1>h. jrn' # NoJournal /\ jrn'.inventory = jrn.inventory /\ jrn'.removed = jrn.removed
          /\ jrn'.prefix = jrn.prefix /\ jrn'.made = jrn.made /\ jrn'.making = jrn.making
          /\ jrn'.undone = jrn.undone /\ jrn'.undo = jrn.undo /\ jrn'.unmade = jrn.unmade
    BY <1>e, <1>p DEF StartBuilding
  <1>i. jrn.inventory = {} /\ jrn.removed = {} /\ Work \in fs
    BY <1>p DEF TidyInv, Places, AtBuilding
  <1> USE <1>c, <1>w, <1>0, <1>p, <1>e, <1>g, <1>h, <1>i
         DEF ShownInv, TidyInv, Disk, Places, OutputDisk, WorkDisk
  <1>1. Trashed'
    BY TrashedFrame, OwedEntries, EntriesApart
  <1>2. AnchorOwes'
    BY DEF AnchorOwes, CommitHolds, Published
  <1>3. PrivateFiles'
    BY DEF PrivateFiles
  <1>4. OutputDisk'
    <2>1. Fresh'
      BY DEF Fresh
    <2>2. OutputKept   BY EntriesApart DEF OutputKept
    <2>3. anc'.manifest \notin {"published", "committed"}
      BY DEF ManifestKnown
    <2>4. Staging \notin fs /\ (Manifest \notin fs => OutputGone) /\ jrn'.state # "publishing"
      BY DEF OutputWhole
    <2> QED BY <2>1, <2>2, <2>3, <2>4, OutputSettled
  <1>5. WorkDisk'
    <2>1. Inventory' = Inventory   BY DEF Inventory
    <2> QED BY <2>1 DEF WorkDisk, JournalOwes, WorkHolds, InventoryKnown
  <1>6. AtRetired'
    BY DEF AtRetired, Retiring
  <1>7. AtOwing'
    BY DEF AtOwing, At, Retiring, WithJournal
  <1>8. AtBuilding'
    BY DEF AtBuilding, Retiring, Build
  <1>9. AtWork'
    BY DEF AtWork, At, Retiring
  <1>10. AtOutput'
    BY DEF AtOutput, At, Retiring, Published
  <1>11. AtUndoing'
    BY DEF AtUndoing, At, Retiring
  <1>12. AtCommit'
    BY DEF AtCommit, At, Retiring, WithJournal
  <1>13. RefusesOnlyCutShort'
    BY DEF RefusesOnlyCutShort, NotAnchored, CutShort
  <1>14. ReturnsAlone'
    BY DEF ReturnsAlone
  <1> QED BY <1>1, <1>2, <1>3, <1>4, <1>5, <1>6, <1>7, <1>8, <1>9, <1>10, <1>11, <1>12, <1>13, <1>14

LEMMA WriteRunsTidies == ASSUME ShownInv, ShownInv', TidyInv, WriteRuns PROVE TidyInv'
  <1>w. debt = NoDebt /\ intent = NoDebt /\ debt.kind = "none" /\ intent.kind = "none"
    BY DEF TidyInv, Places, AtBuilding, Retiring, WriteRuns, Build
  <1>g. /\ debt' = debt /\ intent' = intent /\ trash' = trash /\ mode' = mode /\ refusal' = refusal
             /\ mode = "build" /\ jrn' = jrn /\ anc' = anc /\ pc = "build" /\ pc' = "build"
             /\ fs' = fs \cup {Runs}
    BY DEF WriteRuns, Build
  <1>b. jrn.state = "building" /\ jrn.inventory = {} /\ Work \in fs /\ fs \subseteq fs'
    BY <1>g DEF TidyInv, Places, AtBuilding, ShownInv, StateFits
  <1> USE <1>w, <1>g, <1>b DEF ShownInv, TidyInv, Disk, Places, OutputDisk, WorkDisk
  <1>1. Trashed'
    BY TrashedFrame, OwedEntries, EntriesApart
  <1>2. AnchorOwes'
    BY DEF AnchorOwes, CommitHolds, Published
  <1>3. PrivateFiles'
    BY DEF PrivateFiles
  <1>4. OutputDisk'
    BY OutputFrame, EntriesApart DEF OutputKept, OutputRecordKept, IntentKept
  <1>5. WorkDisk'
    BY WorkGrows
  <1>6. AtRetired'
    BY DEF AtRetired, Retiring
  <1>7. AtOwing'
    BY DEF AtOwing, At, Retiring, WithJournal
  <1>8. AtBuilding'
    BY DEF AtBuilding, Retiring, Build
  <1>9. AtWork'
    BY DEF AtWork, At, Retiring
  <1>10. AtOutput'
    BY DEF AtOutput, At, Retiring, Published
  <1>11. AtUndoing'
    BY DEF AtUndoing, At, Retiring
  <1>12. AtCommit'
    BY DEF AtCommit, At, Retiring, WithJournal
  <1>13. RefusesOnlyCutShort'
    BY DEF RefusesOnlyCutShort, NotAnchored, CutShort
  <1>14. ReturnsAlone'
    BY DEF ReturnsAlone
  <1> QED BY <1>1, <1>2, <1>3, <1>4, <1>5, <1>6, <1>7, <1>8, <1>9, <1>10, <1>11, <1>12, <1>13, <1>14

LEMMA StageShardTidies == ASSUME ShownInv, ShownInv', TidyInv, StageShard PROVE TidyInv'
  <1>w. debt = NoDebt /\ intent = NoDebt /\ debt.kind = "none" /\ intent.kind = "none"
    BY DEF TidyInv, Places, AtBuilding, Retiring, StageShard, Build
  <1>g. /\ debt' = debt /\ intent' = intent /\ trash' = trash /\ mode' = mode /\ refusal' = refusal
             /\ mode = "build" /\ jrn' = jrn /\ anc' = anc /\ pc = "build"
             /\ pc' \in {"build", "built"}
        /\ \E i \in Shard : fs' = fs \cup {Staged(i)}
    BY DEF StageShard, Build
  <1>b. jrn.state = "building" /\ jrn.inventory = {} /\ Work \in fs /\ fs \subseteq fs'
    BY <1>g DEF TidyInv, Places, AtBuilding, ShownInv, StateFits
  <1> USE <1>w, <1>g, <1>b DEF ShownInv, TidyInv, Disk, Places, OutputDisk, WorkDisk
  <1>1. Trashed'
    BY TrashedFrame, OwedEntries, EntriesApart
  <1>2. AnchorOwes'
    BY DEF AnchorOwes, CommitHolds, Published
  <1>3. PrivateFiles'
    BY DEF PrivateFiles
  <1>4. OutputDisk'
    BY OutputFrame, EntriesApart DEF OutputKept, OutputRecordKept, IntentKept
  <1>5. WorkDisk'
    BY WorkGrows
  <1>6. AtRetired'
    BY DEF AtRetired, Retiring
  <1>7. AtOwing'
    BY DEF AtOwing, At, Retiring, WithJournal
  <1>8. AtBuilding'
    BY DEF AtBuilding, Retiring, Build
  <1>9. AtWork'
    BY DEF AtWork, At, Retiring
  <1>10. AtOutput'
    BY DEF AtOutput, At, Retiring, Published
  <1>11. AtUndoing'
    BY DEF AtUndoing, At, Retiring
  <1>12. AtCommit'
    BY DEF AtCommit, At, Retiring, WithJournal
  <1>13. RefusesOnlyCutShort'
    BY DEF RefusesOnlyCutShort, NotAnchored, CutShort
  <1>14. ReturnsAlone'
    BY DEF ReturnsAlone
  <1> QED BY <1>1, <1>2, <1>3, <1>4, <1>5, <1>6, <1>7, <1>8, <1>9, <1>10, <1>11, <1>12, <1>13, <1>14

LEMMA BuiltTidies == ASSUME ShownInv, ShownInv', TidyInv, Built PROVE TidyInv'
  <1>c. anc \in AnchorPhases
    BY DEF ShownInv, DiskTypeOK
  <1>w. debt = NoDebt /\ intent = NoDebt /\ debt.kind = "none" /\ intent.kind = "none"
    BY DEF TidyInv, Places, AtBuilding, Retiring, Built, Build
  <1>0. jrn \in Journals /\ Journal \in fs /\ debt.kind # "journal"
    BY InJournal DEF Built, Build, At, Retiring, WithJournal
  <1>p. pc = "built" /\ mode = "build" /\ jrn.state = "building" /\ jrn # NoJournal
    BY <1>0, JournalThere DEF ShownInv, StateFits, Built, Build
  <1>e. LET k == [jrn EXCEPT !.state = "publishing"] IN
        /\ k \in Journals /\ k # NoJournal
        /\ k.state = "publishing" /\ k.inventory = jrn.inventory /\ k.removed = jrn.removed
             /\ k.prefix = jrn.prefix /\ k.made = jrn.made /\ k.making = jrn.making
             /\ k.undone = jrn.undone /\ k.undo = jrn.undo /\ k.unmade = jrn.unmade
    BY <1>0, StateEdited DEF JournalStates
  <1>g. /\ debt' = debt /\ intent' = intent /\ trash' = trash /\ mode' = mode /\ refusal' = refusal
             /\ mode = "build" /\ fs' = fs /\ anc' = anc
        /\ \/ jrn' = jrn /\ Manifest \in fs /\ pc' = "prepare"
           \/ jrn'.state = "publishing" /\ Manifest \notin fs /\ pc' = "directories"
    BY <1>c, <1>e, <1>p DEF AnchorPhases, Built
  <1>h. jrn' # NoJournal /\ jrn'.inventory = jrn.inventory /\ jrn'.removed = jrn.removed
          /\ jrn'.prefix = jrn.prefix /\ jrn'.made = jrn.made /\ jrn'.making = jrn.making
          /\ jrn'.undone = jrn.undone /\ jrn'.undo = jrn.undo /\ jrn'.unmade = jrn.unmade
    BY <1>e, <1>p DEF Built
  <1>i. jrn.inventory = {} /\ jrn.removed = {} /\ Work \in fs
    BY <1>p DEF TidyInv, Places, AtBuilding
  <1>k. jrn.made = 0 /\ jrn.making = "none" /\ jrn.unmade = <<>> /\ jrn.undone = {} /\ jrn.undo = 0
          /\ jrn.prefix = 0
    BY <1>p DEF TidyInv, Disk, OutputDisk, Fresh, ShownInv, StateFits
  <1> USE <1>c, <1>w, <1>0, <1>p, <1>e, <1>g, <1>h, <1>i, <1>k
         DEF ShownInv, TidyInv, Disk, Places, OutputDisk, WorkDisk
  <1>1. Trashed'
    BY TrashedFrame, OwedEntries, EntriesApart
  <1>2. AnchorOwes'
    BY DEF AnchorOwes, CommitHolds, Published
  <1>3. PrivateFiles'
    BY DEF PrivateFiles
  <1>4. OutputDisk'
    <2>1. CASE jrn' = jrn
      BY <2>1, OutputFrame DEF OutputKept, OutputRecordKept, IntentKept
    <2>2. CASE Manifest \notin fs /\ jrn'.state = "publishing"
      <3>1. Manifest \notin fs =>
            /\ Published = {} /\ Staging \notin fs
                 /\ \A k \in 1..Directories : Directory(k) \notin fs
      BY EntriesApart DEF OutputWhole, OutputGone, Published
      <3>2. OutputWhole' /\ Fresh'
        BY <2>2, <3>1 DEF OutputWhole, Fresh, ManifestKnown
      <3>3. DirectoriesKnown'
        BY <2>2, <3>1 DEF DirectoriesKnown
      <3>4. ShardsKnown'
        BY <2>2, <3>1 DEF ShardsKnown, Published
      <3> QED BY <3>2, <3>3, <3>4
    <2> QED BY <2>1, <2>2
  <1>5. WorkDisk'
    <2>1. Inventory' = Inventory   BY DEF Inventory
    <2>2. Owner \in fs   BY DEF InventoryKnown
    <2> QED BY <2>1, <2>2 DEF WorkDisk, JournalOwes, WorkHolds, InventoryKnown
  <1>6. AtRetired'
    BY DEF AtRetired, Retiring
  <1>7. AtOwing'
    BY DEF AtOwing, At, Retiring, WithJournal
  <1>8. AtBuilding'
    BY DEF AtBuilding, Retiring, Build
  <1>9. AtWork'
    BY DEF AtWork, At, Retiring
  <1>10. AtOutput'
    <2>1. Manifest \notin fs =>
            /\ Published = {} /\ Staging \notin fs
                 /\ \A k \in 1..Directories : Directory(k) \notin fs
      BY EntriesApart DEF OutputWhole, OutputGone, Published
    <2>2. Published' = Published /\ 1..0 = {}   BY DEF Published
    <2> QED BY <2>1, <2>2 DEF AtOutput, At, Retiring, ManifestKnown
  <1>11. AtUndoing'
    BY DEF AtUndoing, At, Retiring
  <1>12. AtCommit'
    BY DEF AtCommit, At, Retiring, WithJournal
  <1>13. RefusesOnlyCutShort'
    BY DEF RefusesOnlyCutShort, NotAnchored, CutShort
  <1>14. ReturnsAlone'
    BY DEF ReturnsAlone
  <1> QED BY <1>1, <1>2, <1>3, <1>4, <1>5, <1>6, <1>7, <1>8, <1>9, <1>10, <1>11, <1>12, <1>13, <1>14

LEMMA MakeDirectoryTidies == ASSUME ShownInv, ShownInv', TidyInv, MakeDirectory PROVE TidyInv'
  <1>c. anc \in AnchorPhases
    BY DEF ShownInv, DiskTypeOK
  <1>w. debt = NoDebt /\ intent = NoDebt /\ debt.kind = "none" /\ intent.kind = "none"
    BY DEF TidyInv, Places, AtBuilding, Retiring, MakeDirectory, Build
  <1>0. jrn \in Journals /\ Journal \in fs /\ debt.kind # "journal"
    BY InJournal DEF MakeDirectory, Build, At, Retiring, WithJournal
  <1>p. /\ pc = "directories" /\ mode = "build" /\ jrn.state = "publishing" /\ jrn # NoJournal
             /\ Manifest \notin fs /\ jrn.made < Directories
        /\ jrn.unmade = <<>> /\ jrn.undone = {} /\ jrn.undo = 0 /\ Work \in fs /\ jrn.inventory = {}
        /\ \A k \in 1..jrn.made : Directory(k) \in fs
    BY <1>0, JournalThere
       DEF MakeDirectory, Build, ShownInv, StateFits, RollsBackUnseen, At, Retiring, TidyInv,
           Places, AtOutput, AtBuilding
  <1>m. jrn.made \in Nat /\ jrn.made \in 0..Directories /\ jrn.made + 1 \in 1..Directories
          /\ jrn.made + 1 \in 0..Directories
    BY <1>0, <1>p, JournalThere
  <1>n. "none" \in {"none", "initializing", "staged"}
    OBVIOUS
  <1>x. PICK more \in 0..Directories : more = jrn.made + 1
    BY <1>m
  <1>a. jrn' = jrn \/ jrn' = [jrn EXCEPT !.making = "initializing"]
          \/ jrn' = [jrn EXCEPT !.making = "staged"]
           \/ jrn' = [jrn EXCEPT !.made = jrn.made + 1, !.making = "none"]
    BY DEF MakeDirectory
  <1>q. [jrn EXCEPT !.made = more, !.making = "none"] \in Journals
    BY <1>0, <1>n, <1>x, MadeEdited
  <1>e. LET k == [jrn EXCEPT !.making = "initializing"] IN
        /\ k \in Journals /\ k # NoJournal
        /\ k.state = jrn.state /\ k.inventory = jrn.inventory /\ k.removed = jrn.removed
             /\ k.prefix = jrn.prefix /\ k.made = jrn.made /\ k.making = "initializing"
             /\ k.undone = jrn.undone /\ k.undo = jrn.undo /\ k.unmade = jrn.unmade
    BY <1>0, MakingEdited
  <1>f. LET k == [jrn EXCEPT !.making = "staged"] IN
        /\ k \in Journals /\ k # NoJournal
        /\ k.state = jrn.state /\ k.inventory = jrn.inventory /\ k.removed = jrn.removed
             /\ k.prefix = jrn.prefix /\ k.made = jrn.made /\ k.making = "staged"
             /\ k.undone = jrn.undone /\ k.undo = jrn.undo /\ k.unmade = jrn.unmade
    BY <1>0, MakingEdited
  <1>r. LET k == [jrn EXCEPT !.made = more, !.making = "none"] IN
        /\ k # NoJournal /\ k.made = more /\ k.making = "none" /\ k.state = jrn.state
             /\ k.inventory = jrn.inventory /\ k.removed = jrn.removed
        /\ k.prefix = jrn.prefix /\ k.undone = jrn.undone /\ k.undo = jrn.undo
             /\ k.unmade = jrn.unmade
    BY <1>0, <1>q, JournalThere DEF Journals
  <1>g. /\ debt' = debt /\ intent' = intent /\ trash' = trash /\ mode' = mode /\ refusal' = refusal
             /\ mode = "build" /\ anc' = anc /\ pc' = "directories"
        /\ \/ fs' = fs /\ jrn.making = "none" /\ jrn'.making = "initializing"
                /\ jrn'.made = jrn.made
           \/ fs' = fs \cup {Staging} /\ jrn.making = "initializing" /\ jrn' = jrn
           \/ fs' = fs /\ jrn.making = "initializing" /\ Staging \in fs /\ jrn'.making = "staged"
                /\ jrn'.made = jrn.made
           \/ fs' = (fs \ {Staging}) \cup {Directory(jrn.made + 1)} /\ jrn.making = "staged"
                /\ jrn' = jrn
           \/ fs' = fs /\ jrn.making = "staged" /\ Staging \notin fs /\ jrn'.making = "none"
                /\ jrn'.made = jrn.made + 1
    BY <1>e, <1>f, <1>r, <1>x DEF MakeDirectory, Build, Rename
  <1>h. /\ jrn' # NoJournal /\ jrn'.state = jrn.state /\ jrn'.inventory = jrn.inventory
             /\ jrn'.removed = jrn.removed
        /\ jrn'.prefix = jrn.prefix /\ jrn'.undone = jrn.undone /\ jrn'.undo = jrn.undo
             /\ jrn'.unmade = jrn.unmade
    BY <1>a, <1>e, <1>f, <1>r, <1>x, <1>p
  <1>d. /\ fs' \subseteq fs \cup {Staging, Directory(jrn.made + 1)} /\ \A e \in fs : e = Staging
             \/ e \in fs'
    BY <1>g
  <1> USE <1>c, <1>w, <1>0, <1>p, <1>m, <1>n, <1>x, <1>a, <1>q, <1>e, <1>f, <1>r, <1>g, <1>h, <1>d
         DEF ShownInv, TidyInv, Disk, Places, OutputDisk, WorkDisk
  <1>1. Trashed'
    <2>1. Directory(jrn.made + 1) \notin {debt.entry, intent.entry}
            /\ Staging \notin {debt.entry, intent.entry}
      BY OwedEntries, EntriesApart
    <2> QED BY <2>1 DEF Trashed
  <1>2. AnchorOwes'
    BY DEF AnchorOwes, CommitHolds, Published
  <1>3. PrivateFiles'
    BY EntriesApart DEF PrivateFiles
  <1>4. OutputDisk'
    <2>1. Published' = Published /\ Manifest \notin fs'
      BY EntriesApart DEF Published
    <2>2. OutputWhole' /\ Fresh'
      BY <2>1 DEF OutputWhole, Fresh, ManifestKnown
    <2>3. Len(jrn.unmade) = 0   OBVIOUS
    <2>4. \A k \in 1..Directories : Directory(k) \in fs => k \in Nat /\ (k <= jrn.made
            \/ (jrn.making = "staged" /\ Staging \notin fs))
             /\ k < HasCandidate + jrn.made + 1
      BY <2>3 DEF DirectoriesKnown
    <2>5. DirectoriesKnown'
      <3>1. /\ HasCandidate \in {0, 1} /\ HasCandidate' \in {0, 1}
            /\ (HasCandidate = 1 <=> jrn.making = "staged")
                 /\ (HasCandidate' = 1 <=> jrn'.making = "staged")
        BY DEF HasCandidate
      <3>2. jrn.making = "none" => Staging \notin fs   BY DEF OutputWhole
      <3>3. ASSUME NEW k \in 1..Directories, Directory(k) \in fs'
            PROVE  /\ k < HasCandidate' + jrn'.made + 1
                   /\ k <= jrn'.made \/ (jrn'.making = "staged" /\ Staging \notin fs')
        <4>1. CASE Directory(k) \in fs
          <5>1. k \in Nat /\ (k <= jrn.made \/ (jrn.making = "staged" /\ Staging \notin fs))
                  /\ k < HasCandidate + jrn.made + 1
            BY <2>4, <4>1
          <5>2. k <= jrn'.made \/ (jrn'.making = "staged" /\ Staging \notin fs')
            BY <5>1, <3>1, <3>2
          <5>3. k < HasCandidate' + jrn'.made + 1
            <6>1. jrn'.made \in Nat   OBVIOUS
            <6>2. CASE k <= jrn'.made   BY <5>1, <6>1, <6>2, <3>1
            <6>3. CASE jrn'.making = "staged"
              <7>1. jrn'.made = jrn.made   BY <6>3
              <7>2. HasCandidate' = 1   BY <6>3, <3>1
              <7> QED BY <5>1, <7>1, <7>2, <3>1, <6>1
            <6> QED BY <5>2, <6>2, <6>3
          <5> QED BY <5>2, <5>3
        <4>2. CASE Directory(k) \notin fs
          <5>1. k = jrn.made + 1 /\ jrn.making = "staged" /\ jrn' = jrn /\ Staging \notin fs'
            BY <3>3, <4>2
          <5> QED BY <5>1, <3>1
        <4> QED BY <4>1, <4>2
      <3>4. Len(jrn'.unmade) = 0   BY <2>3
      <3>5. jrn'.made \in Nat   OBVIOUS
      <3> QED BY <3>1, <3>3, <3>4, <3>5 DEF DirectoriesKnown
    <2>6. ShardsKnown'
      BY <2>1 DEF ShardsKnown
    <2> QED BY <2>2, <2>5, <2>6
  <1>5. WorkDisk'
    <2>1. Inventory' = Inventory /\ (Work \in fs' <=> Work \in fs)
            /\ (Owner \in fs' <=> Owner \in fs) /\ (OwnerInit \in fs' <=> OwnerInit \in fs)
      BY EntriesApart DEF Inventory
    <2> QED BY <2>1 DEF WorkDisk, JournalOwes, WorkHolds, InventoryKnown
  <1>6. AtRetired'
    BY DEF AtRetired, Retiring
  <1>7. AtOwing'
    BY DEF AtOwing, At, Retiring, WithJournal
  <1>8. AtBuilding'
    BY EntriesApart DEF AtBuilding, Retiring, Build
  <1>9. AtWork'
    BY DEF AtWork, At, Retiring
  <1>10. AtOutput'
    <2>1. Published' = Published
      BY EntriesApart DEF Published
    <2>2. /\ jrn.making = "staged" /\ Staging \notin fs => Directory(jrn.made + 1) \in fs
          /\ \A i \in Published : i <= jrn.prefix + 1
      BY DEF AtOutput
    <2>3. \A k \in 1..jrn.made : Directory(k) \in fs'
      <3> SUFFICES ASSUME NEW k \in 1..jrn.made PROVE Directory(k) \in fs'
        OBVIOUS
      <3>1. Directory(k) \in fs   BY <1>p
      <3>2. k \in Int /\ k # 0   BY <1>m
      <3>3. Directory(k) # Staging   BY <3>2
      <3> QED BY <3>1, <3>3, <1>d
    <2>4. \A k \in 1..jrn'.made : Directory(k) \in fs'
      <3>1. \A k \in 1..jrn'.made : k \in 1..jrn.made \/ (k = jrn.made + 1 /\ jrn.making = "staged"
              /\ Staging \notin fs /\ fs' = fs)
        OBVIOUS
      <3> QED BY <3>1, <2>2, <2>3
    <2>5. jrn'.making = "staged" /\ Staging \notin fs' => Directory(jrn'.made + 1) \in fs'
      BY <2>2
    <2> QED BY <2>1, <2>2, <2>4, <2>5 DEF AtOutput, At, Retiring
  <1>11. AtUndoing'
    BY DEF AtUndoing, At, Retiring, OutputGone, Finals, PublicDirectories
  <1>12. AtCommit'
    BY DEF AtCommit, At, Retiring, WithJournal
  <1>13. RefusesOnlyCutShort'
    BY DEF RefusesOnlyCutShort, NotAnchored, CutShort
  <1>14. ReturnsAlone'
    BY DEF ReturnsAlone
  <1> QED BY <1>1, <1>2, <1>3, <1>4, <1>5, <1>6, <1>7, <1>8, <1>9, <1>10, <1>11, <1>12, <1>13, <1>14

LEMMA PublishShardTidies == ASSUME ShownInv, ShownInv', TidyInv, PublishShard PROVE TidyInv'
  <1>w. debt = NoDebt /\ intent = NoDebt /\ debt.kind = "none" /\ intent.kind = "none"
    BY DEF TidyInv, Places, AtBuilding, Retiring, PublishShard, Build
  <1>0. jrn \in Journals /\ Journal \in fs /\ debt.kind # "journal"
    BY InJournal DEF PublishShard, Build, At, Retiring, WithJournal
  <1>p. /\ pc = "directories" /\ mode = "build" /\ jrn.state = "publishing" /\ jrn # NoJournal
             /\ Manifest \notin fs /\ jrn.made = Directories
        /\ jrn.unmade = <<>> /\ jrn.undone = {} /\ jrn.undo = 0 /\ Work \in fs /\ jrn.inventory = {}
             /\ jrn.removed = {} /\ Owner \in fs
        /\ \A k \in 1..jrn.made : Directory(k) \in fs
    BY <1>0, JournalThere
       DEF PublishShard, Build, ShownInv, StateFits, RollsBackUnseen, At, Retiring, TidyInv, Disk,
           WorkDisk, InventoryKnown, Places, AtOutput, AtBuilding
  <1>q. /\ \A i \in Shard : Staged(i) \in fs \/ Final(i) \in fs
        /\ \A i \in 1..jrn.prefix : Final(i) \in fs
        /\ \A i \in Published : i <= jrn.prefix + 1
    BY <1>p DEF ShownInv, AllStaged, TidyInv, Places, AtOutput
  <1>s. jrn.making = "none" /\ Staging \notin fs
    BY <1>p, <1>0, JournalThere DEF ShownInv, StateFits, TidyInv, Disk, OutputDisk, OutputWhole
  <1>m. jrn.prefix \in 0..Shards /\ jrn.prefix \in Nat
          /\ (jrn.prefix < Shards <=> jrn.prefix # Shards) /\ (jrn.prefix # Shards
          => jrn.prefix + 1 \in Shard)
    BY <1>0, JournalThere DEF Shard
  <1>e. jrn.prefix # Shards => LET k == [jrn EXCEPT !.prefix = jrn.prefix + 1] IN
        /\ k \in Journals /\ k # NoJournal
        /\ k.state = jrn.state /\ k.inventory = jrn.inventory /\ k.removed = jrn.removed
             /\ k.prefix = jrn.prefix + 1 /\ k.made = jrn.made /\ k.making = jrn.making
             /\ k.undone = jrn.undone /\ k.undo = jrn.undo /\ k.unmade = jrn.unmade
    BY <1>0, <1>m, PrefixEdited DEF Shard
  <1>g. /\ debt' = debt /\ intent' = intent /\ trash' = trash /\ mode' = mode /\ refusal' = refusal
             /\ mode = "build" /\ anc' = anc
        /\ \/ fs' = (fs \ {Staged(jrn.prefix + 1)}) \cup {Final(jrn.prefix + 1)}
                /\ jrn.prefix # Shards /\ Staged(jrn.prefix + 1) \in fs /\ jrn' = jrn
                /\ pc' = "directories"
           \/ fs' = fs /\ jrn.prefix # Shards /\ Staged(jrn.prefix + 1) \notin fs
                /\ jrn'.prefix = jrn.prefix + 1 /\ pc' = "directories"
           \/ fs' = fs /\ jrn.prefix = Shards /\ jrn' = jrn /\ pc' = "prepare"
    BY <1>e, <1>m DEF PublishShard, Build, Rename
  <1>h. /\ jrn' # NoJournal /\ jrn'.inventory = jrn.inventory /\ jrn'.removed = jrn.removed
             /\ jrn'.made = jrn.made /\ jrn'.making = jrn.making /\ jrn'.undone = jrn.undone
             /\ jrn'.undo = jrn.undo /\ jrn'.unmade = jrn.unmade /\ jrn'.state = jrn.state
    BY <1>e, <1>p, <1>m DEF PublishShard
  <1>d. jrn.prefix # Shards =>
          /\ Staged(jrn.prefix + 1) \in Inventoried /\ Final(jrn.prefix + 1) \in Finals
          /\ Final(jrn.prefix + 1) \notin {debt.entry, intent.entry}
               /\ Staged(jrn.prefix + 1) # Owner
    BY <1>m, <1>w, OwedEntries, EntriesApart DEF ShownInv
  <1>k. \A k \in 1..Directories : Directory(k) \in fs' <=> Directory(k) \in fs
    BY <1>g
  <1>r. \A i \in Shard : Final(i) \in fs' <=> Final(i) \in fs \/ (fs' # fs /\ i = jrn.prefix + 1)
    <2>1. CASE fs' = fs   BY <2>1
    <2>2. CASE fs' # fs
      <3>1. fs' = (fs \ {Staged(jrn.prefix + 1)}) \cup {Final(jrn.prefix + 1)}   BY <2>2, <1>g
      <3>2. \A i \in Shard : Final(i) = Final(jrn.prefix + 1) <=> i = jrn.prefix + 1   OBVIOUS
      <3>3. \A i \in Shard : Final(i) # Staged(jrn.prefix + 1)   OBVIOUS
      <3> QED BY <2>2, <3>1, <3>2, <3>3
    <2> QED BY <2>1, <2>2
  <1> USE <1>w, <1>0, <1>p, <1>q, <1>s, <1>m, <1>e, <1>g, <1>h, <1>d, <1>k, <1>r
         DEF ShownInv, TidyInv, Disk, Places, OutputDisk, WorkDisk
  <1>1. Trashed'
    BY DEF Trashed
  <1>2. AnchorOwes'
    BY DEF AnchorOwes, CommitHolds, Published
  <1>3. PrivateFiles'
    BY EntriesApart DEF PrivateFiles
  <1>4. OutputDisk'
    <2>1. Manifest \notin fs' /\ Staging \notin fs'
      BY EntriesApart
    <2>2. OutputWhole' /\ Fresh'
      BY <2>1 DEF OutputWhole, Fresh, ManifestKnown
    <2>3. HasCandidate' = HasCandidate   BY DEF HasCandidate
    <2>4. DirectoriesKnown'
      BY <2>1, <2>3 DEF DirectoriesKnown
    <2>5. \A i \in Published', j \in Shard : j < i => j \in Published'
      <3> SUFFICES ASSUME NEW i \in Published', NEW j \in Shard, j < i PROVE j \in Published'
        OBVIOUS
      <3>1. i \in Published \/ (fs' # fs /\ i = jrn.prefix + 1)   BY DEF Published
      <3>2. i \in Published => j \in Published   BY DEF ShardsKnown
      <3>3. i = jrn.prefix + 1 => j \in 1..jrn.prefix   BY DEF Shard
      <3> QED BY <3>1, <3>2, <3>3 DEF Published
    <2>6. \A i \in 1..jrn'.prefix : i \in Published'
      <3> SUFFICES ASSUME NEW i \in 1..jrn'.prefix PROVE i \in Published'   OBVIOUS
      <3>1. jrn'.prefix \in Nat /\ (jrn'.prefix = jrn.prefix \/ (jrn'.prefix = jrn.prefix + 1
              /\ fs' = fs /\ jrn.prefix # Shards /\ Staged(jrn.prefix + 1) \notin fs))
        OBVIOUS
      <3>2. i \in 1..jrn.prefix \/ (i = jrn.prefix + 1 /\ fs' = fs /\ jrn.prefix # Shards
              /\ Staged(jrn.prefix + 1) \notin fs)
        BY <3>1
      <3>3. i \in Shard   BY <3>2 DEF Shard
      <3>4. Final(i) \in fs   BY <3>2
      <3> QED BY <3>3, <3>4 DEF Published
    <2>7. ShardsKnown'
      BY <2>5, <2>6 DEF ShardsKnown
    <2> QED BY <2>2, <2>4, <2>7
  <1>5. WorkDisk'
    <2>1. Work \in fs' /\ Owner \in fs' /\ anc'.manifest = anc.manifest
      BY EntriesApart
    <2> QED BY <2>1 DEF WorkDisk, JournalOwes, WorkHolds, InventoryKnown
  <1>6. AtRetired'
    BY DEF AtRetired, Retiring
  <1>7. AtOwing'
    BY DEF AtOwing, At, Retiring, WithJournal
  <1>8. AtBuilding'
    BY EntriesApart DEF AtBuilding, Retiring, Build
  <1>9. AtWork'
    BY DEF AtWork, At, Retiring
  <1>10. AtOutput'
    <2>1. \A i \in Published' : i <= jrn.prefix + 1 /\ i \in Nat
      BY DEF Published, Shard
    <2>2. jrn'.prefix \in Nat /\ (jrn'.prefix = jrn.prefix \/ jrn'.prefix = jrn.prefix + 1)
      OBVIOUS
    <2>3. pc' = "directories" => \A i \in Published' : i <= jrn'.prefix + 1
      BY <2>1, <2>2
    <2>4. Staging \notin fs'
      BY EntriesApart
    <2>5. pc' = "prepare" => jrn'.prefix = Shards
      OBVIOUS
    <2> QED BY <2>3, <2>4, <2>5 DEF AtOutput, At, Retiring
  <1>11. AtUndoing'
    BY DEF AtUndoing, At, Retiring
  <1>12. AtCommit'
    BY DEF AtCommit, At, Retiring, WithJournal
  <1>13. RefusesOnlyCutShort'
    BY DEF RefusesOnlyCutShort, NotAnchored, CutShort
  <1>14. ReturnsAlone'
    BY DEF ReturnsAlone
  <1> QED BY <1>1, <1>2, <1>3, <1>4, <1>5, <1>6, <1>7, <1>8, <1>9, <1>10, <1>11, <1>12, <1>13, <1>14

LEMMA WriteManifestTidies == ASSUME ShownInv, ShownInv', TidyInv, WriteManifest PROVE TidyInv'
  <1>c. anc \in AnchorPhases
    BY DEF ShownInv, DiskTypeOK
  <1>w. debt = NoDebt /\ intent = NoDebt /\ debt.kind = "none" /\ intent.kind = "none"
    BY DEF TidyInv, Places, AtBuilding, Retiring, WriteManifest, Build
  <1>0. jrn \in Journals /\ Journal \in fs /\ debt.kind # "journal"
    BY InJournal DEF WriteManifest, Build, At, Retiring, WithJournal
  <1>p. /\ pc = "manifest" /\ mode = "build" /\ jrn.state = "publishing" /\ jrn # NoJournal
             /\ Work \notin fs
    BY <1>0, JournalThere DEF WriteManifest, Build, ShownInv, StateFits, TidyInv, Places, AtWork
  <1>s. jrn.prefix = Shards /\ Staging \notin fs /\ \A k \in 1..Directories : Directory(k) \in fs
    BY <1>p DEF TidyInv, Places, AtOutput
  <1>g. /\ debt' = debt /\ intent' = intent /\ trash' = trash /\ mode' = mode /\ refusal' = refusal
             /\ mode = "build" /\ jrn' = jrn /\ pc' \in {"manifest", "remove"}
             /\ anc'.journal = anc.journal /\ anc'.temporary = anc.temporary
             /\ anc'.owner = anc.owner
        /\ \/ fs' = fs /\ anc.manifest \in {"none", "initializing", "created"}
                /\ anc'.manifest \in {"initializing", "created", "active"} /\ pc' = "manifest"
              /\ (anc'.manifest # "initializing" /\ anc.manifest # "created" => Partial \in fs)
           \/ fs' = fs \cup {Partial} /\ anc.manifest = "initializing" /\ anc' = anc
                /\ pc' = "manifest"
           \/ fs' = (fs \ {Partial}) \cup {Manifest} /\ anc.manifest = "active" /\ anc' = anc
                /\ Partial \in fs /\ pc' = "manifest"
           \/ fs' = fs /\ anc.manifest = "active" /\ Partial \notin fs
                /\ anc'.manifest = "published" /\ pc' = "remove"
    BY <1>c, AnchoredEffect DEF WriteManifest, Build, Rename, AnchorPhases
  <1> USE <1>c, <1>w, <1>0, <1>p, <1>s, <1>g
         DEF ShownInv, TidyInv, Disk, Places, OutputDisk, WorkDisk
  <1>1. Trashed'
    BY TrashedFrame, OwedEntries, EntriesApart
  <1>2. AnchorOwes'
    BY DEF AnchorOwes, CommitHolds, Published
  <1>3. PrivateFiles'
    BY DEF PrivateFiles
  <1>4. OutputDisk'
    <2>0. anc.manifest = "active" /\ Partial \notin fs => Manifest \in fs
      BY DEF AtOutput
    <2>1. /\ \A k \in 1..Directories : Directory(k) \in fs'
          /\ Staging \notin fs' /\ Published' = Published /\ HasCandidate' = HasCandidate
      BY EntriesApart DEF Published, HasCandidate
    <2>2. OutputWhole' /\ Fresh'
      BY <2>0, <2>1 DEF OutputWhole, Fresh, ManifestKnown
    <2>3. Manifest \notin fs' => \A k \in 1..Directories : Directory(k) \in fs'
            => Directory(k) \in fs
      BY EntriesApart
    <2>4. DirectoriesKnown'
      BY <2>0, <2>1, <2>3 DEF DirectoriesKnown
    <2>5. ShardsKnown'
      BY <2>1 DEF ShardsKnown
    <2> QED BY <2>2, <2>4, <2>5
  <1>5. WorkDisk'
    <2>1. Inventory' = Inventory /\ Work \notin fs' /\ (OwnerInit \in fs' <=> OwnerInit \in fs)
            /\ (Owner \in fs' <=> Owner \in fs)
      BY EntriesApart DEF Inventory
    <2> QED BY <2>1 DEF WorkDisk, JournalOwes, WorkHolds, InventoryKnown
  <1>6. AtRetired'
    BY DEF AtRetired, Retiring
  <1>7. AtOwing'
    BY DEF AtOwing, At, Retiring, WithJournal
  <1>8. AtBuilding'
    BY DEF AtBuilding, Retiring, Build
  <1>9. AtWork'
    BY DEF AtWork, At, Retiring
  <1>10. AtOutput'
    BY DEF AtOutput, At, Retiring, Published
  <1>11. AtUndoing'
    BY DEF AtUndoing, At, Retiring
  <1>12. AtCommit'
    BY DEF AtCommit, At, Retiring, WithJournal
  <1>13. RefusesOnlyCutShort'
    BY DEF RefusesOnlyCutShort, NotAnchored, CutShort
  <1>14. ReturnsAlone'
    BY DEF ReturnsAlone
  <1> QED BY <1>1, <1>2, <1>3, <1>4, <1>5, <1>6, <1>7, <1>8, <1>9, <1>10, <1>11, <1>12, <1>13, <1>14

LEMMA StartVerifyingTidies == ASSUME ShownInv, ShownInv', TidyInv, StartVerifying PROVE TidyInv'
  <1>w. debt = NoDebt /\ intent = NoDebt /\ debt.kind = "none" /\ intent.kind = "none"
    BY DEF TidyInv, Places, AtBuilding, Retiring, StartVerifying, Build
  <1>g. /\ debt' = debt /\ intent' = intent /\ trash' = trash /\ mode' = mode /\ refusal' = refusal
             /\ mode = "build" /\ jrn' = jrn /\ anc' = anc /\ pc = "verify" /\ pc' = "verified"
             /\ fs' = fs \cup {Verifying}
    BY DEF StartVerifying, Build
  <1> USE <1>w, <1>g DEF ShownInv, TidyInv, Disk, Places, OutputDisk, WorkDisk
  <1>1. Trashed'
    BY TrashedFrame, OwedEntries, EntriesApart
  <1>2. AnchorOwes'
    BY DEF AnchorOwes, CommitHolds, Published
  <1>3. PrivateFiles'
    BY DEF PrivateFiles
  <1>4. OutputDisk'
    BY OutputFrame, EntriesApart DEF OutputKept, OutputRecordKept, IntentKept
  <1>5. WorkDisk'
    BY WorkFrame, EntriesApart DEF WorkKept, WorkRecordKept, IntentKept
  <1>6. AtRetired'
    BY DEF AtRetired, Retiring
  <1>7. AtOwing'
    BY DEF AtOwing, At, Retiring, WithJournal
  <1>8. AtBuilding'
    BY DEF AtBuilding, Retiring, Build
  <1>9. AtWork'
    BY DEF AtWork, At, Retiring
  <1>10. AtOutput'
    BY DEF AtOutput, At, Retiring, Published
  <1>11. AtUndoing'
    BY DEF AtUndoing, At, Retiring
  <1>12. AtCommit'
    BY DEF AtCommit, At, Retiring, WithJournal
  <1>13. RefusesOnlyCutShort'
    BY DEF RefusesOnlyCutShort, NotAnchored, CutShort
  <1>14. ReturnsAlone'
    BY DEF ReturnsAlone
  <1> QED BY <1>1, <1>2, <1>3, <1>4, <1>5, <1>6, <1>7, <1>8, <1>9, <1>10, <1>11, <1>12, <1>13, <1>14

LEMMA MoveVerifyingTidies == ASSUME ShownInv, ShownInv', TidyInv, MoveVerifying PROVE TidyInv'
  <1>w. debt = NoDebt /\ intent = NoDebt /\ debt.kind = "none" /\ intent.kind = "none"
    BY DEF TidyInv, Places, AtBuilding, Retiring, MoveVerifying, Build
  <1>g. /\ debt' = debt /\ intent' = intent /\ trash' = trash /\ mode' = mode /\ refusal' = refusal
             /\ mode = "build" /\ jrn' = jrn /\ anc' = anc /\ pc = "verified" /\ pc' = "discard"
             /\ fs' = fs \ {Verifying}
    BY DEF MoveVerifying, Build
  <1> USE <1>w, <1>g DEF ShownInv, TidyInv, Disk, Places, OutputDisk, WorkDisk
  <1>1. Trashed'
    BY TrashedFrame, OwedEntries, EntriesApart
  <1>2. AnchorOwes'
    BY DEF AnchorOwes, CommitHolds, Published
  <1>3. PrivateFiles'
    BY DEF PrivateFiles
  <1>4. OutputDisk'
    BY OutputFrame, EntriesApart DEF OutputKept, OutputRecordKept, IntentKept
  <1>5. WorkDisk'
    BY WorkFrame, EntriesApart DEF WorkKept, WorkRecordKept, IntentKept
  <1>6. AtRetired'
    BY DEF AtRetired, Retiring
  <1>7. AtOwing'
    BY DEF AtOwing, At, Retiring, WithJournal
  <1>8. AtBuilding'
    BY DEF AtBuilding, Retiring, Build
  <1>9. AtWork'
    BY DEF AtWork, At, Retiring
  <1>10. AtOutput'
    BY DEF AtOutput, At, Retiring, Published
  <1>11. AtUndoing'
    BY DEF AtUndoing, At, Retiring
  <1>12. AtCommit'
    BY DEF AtCommit, At, Retiring, WithJournal
  <1>13. RefusesOnlyCutShort'
    BY DEF RefusesOnlyCutShort, NotAnchored, CutShort
  <1>14. ReturnsAlone'
    BY DEF ReturnsAlone
  <1> QED BY <1>1, <1>2, <1>3, <1>4, <1>5, <1>6, <1>7, <1>8, <1>9, <1>10, <1>11, <1>12, <1>13, <1>14

LEMMA EndVerifyingTidies == ASSUME ShownInv, ShownInv', TidyInv, EndVerifying PROVE TidyInv'
  <1>z. fs' = fs /\ trash' = trash /\ jrn' = jrn /\ anc' = anc /\ intent' = intent /\ debt' = debt
    BY DEF EndVerifying
  <1> USE <1>z
         DEF ShownInv, TidyInv, Disk, Places, OutputDisk, WorkDisk, EndVerifying, Due
  <1>1. Disk'
    BY DiskFrame
  <1>2. AtRetired'
    BY DEF AtRetired, Retiring
  <1>3. AtOwing'
    BY DEF AtOwing, At, Retiring, WithJournal
  <1>4. AtBuilding'
    BY DEF AtBuilding, Retiring, Build
  <1>5. AtWork'
    BY DEF AtWork, At, Retiring
  <1>6. AtOutput'
    BY DEF AtOutput, At, Retiring, Published
  <1>7. AtUndoing'
    BY DEF AtUndoing, At, Retiring, OutputGone, Finals, PublicDirectories
  <1>8. AtCommit'
    BY DEF AtCommit, At, Retiring, WithJournal
  <1>9. RefusesOnlyCutShort'
    BY DEF RefusesOnlyCutShort, NotAnchored, CutShort
  <1>10. ReturnsAlone'
    BY DEF ReturnsAlone
  <1> QED BY <1>1, <1>2, <1>3, <1>4, <1>5, <1>6, <1>7, <1>8, <1>9, <1>10

LEMMA MoveToTrashTidies == ASSUME ShownInv, ShownInv', TidyInv, MoveToTrash PROVE TidyInv'
  <1>n. Due # NoDebt
    BY DEF MoveToTrash
  <1>e. PICK e : e = Due.entry
    OBVIOUS
  <1>x. \/ debt # NoDebt /\ debt.kind # "none" /\ e = debt.entry /\ Due.phase = debt.phase
             /\ Due.kind = debt.kind
        \/ debt = NoDebt /\ intent # NoDebt /\ intent.kind # "none" /\ e = intent.entry
             /\ Due.phase = intent.phase /\ Due.kind = intent.kind
    BY <1>n, <1>e, DueFacts, OwedEntries DEF ShownInv
  <1>o. /\ debt.kind \in {"none", "temporary", "owner", "manifest", "journal"}
             /\ intent.kind \in {"none", "inventory", "work", "shard", "directory"}
        /\ e = Temporary => debt.kind = "temporary"
        /\ e = Journal <=> debt.kind = "journal"
        /\ e = Partial => debt.kind = "manifest"
        /\ e = OwnerInit => debt.kind = "owner"
        /\ e = Owner => debt.kind = "owner" \/ intent.kind = "inventory"
        /\ e \in Inventoried => e = Owner \/ intent.kind = "inventory"
        /\ debt.kind # "none" => e \notin {Work} \cup Finals \cup PublicDirectories
        /\ e = Work => intent.kind = "work"
        /\ e \in Finals => intent.kind = "shard"
        /\ e \in PublicDirectories => intent.kind = "directory"
        /\ debt.kind = "none" /\ intent.kind = "inventory" => e \in Inventoried
        /\ debt.kind = "none" /\ intent.kind = "shard" => e \in Finals
        /\ debt.kind = "none" /\ intent.kind = "directory" => e \in PublicDirectories
        /\ e # Manifest /\ e # Verifying
        /\ debt.kind = "owner" => intent.kind = "none"
        /\ debt.kind # "none" /\ e \in Inventoried => debt.kind = "owner"
    <2>1. DiskTypeOK   BY DEF ShownInv
    <2>2. debt.kind = "owner" => intent.kind = "none"
      BY DEF TidyInv, Disk, AnchorOwes
    <2>3. CASE debt # NoDebt /\ e = debt.entry
      BY <2>1, <2>2, <2>3, OwedEntries, EntriesApart
    <2>4. CASE debt = NoDebt /\ intent # NoDebt /\ e = intent.entry
      BY <2>1, <2>2, <2>4, OwedEntries, EntriesApart
    <2> QED BY <1>x, <2>3, <2>4
  <1>g. /\ fs' = fs \ {e} /\ trash' = trash \cup {e} /\ e \in fs /\ Due.phase = "intended"
             /\ jrn' = jrn /\ anc' = anc /\ intent' = intent /\ debt' = debt
        /\ pc = "retire" /\ pc' = "retire" /\ back' = back /\ mode' = mode /\ refusal' = refusal
    BY <1>e DEF MoveToTrash
  <1> USE <1>n, <1>e, <1>x, <1>o, <1>g DEF ShownInv, TidyInv, Disk, Places, OutputDisk, WorkDisk
  <1>1. Trashed'
    BY OwedEntries DEF Trashed, AnchorOwes
  <1>2. AnchorOwes'
    <2>1. debt.kind = "journal" => Published' = Published
      BY EntriesApart DEF Published
    <2> QED BY <2>1 DEF AnchorOwes, CommitHolds
  <1>3. PrivateFiles'
    BY DEF PrivateFiles
  <1>4. OutputDisk'
    <2>1. CASE intent.kind = "shard" /\ e = intent.entry
      <3>1. Manifest \notin fs /\ jrn.state = "publishing" /\ e = Final(jrn.undo) /\ jrn.undo # 0
              /\ \A j \in Published : j <= jrn.undo
        BY <2>1 DEF JournalOwes, ShardsKnown
      <3>2. \A k \in 0..Directories : Directory(k) \in fs' <=> Directory(k) \in fs
        BY <3>1
      <3>3. \A i \in Shard : Final(i) = e <=> i = jrn.undo
        BY <3>1
      <3>4. Published' = Published \ {jrn.undo}
        BY <3>3 DEF Published
      <3>5. Staging \in fs' <=> Staging \in fs   BY <3>1
      <3>6. OutputWhole' /\ Fresh'   BY <3>1, <3>5 DEF OutputWhole, Fresh
      <3>7. \A k \in 1..Directories : Directory(k) \in fs' <=> Directory(k) \in fs
        BY <3>1
      <3>8. DirectoriesKnown'
        BY <3>1, <3>5, <3>7, <2>1 DEF DirectoriesKnown, HasCandidate
      <3>9. \A i \in Published : i \in Nat   BY DEF Published, Shard
      <3>10. jrn.undo \in Nat
        <4>1. NoJournal.state # "publishing"   OBVIOUS
        <4>2. jrn \in Journals   BY <4>1, <3>1 DEF DiskTypeOK
        <4> QED BY <4>2, JournalThere
      <3>11. \A j \in Shard : j \in Nat   BY DEF Shard
      <3>12. ShardsKnown'   BY <3>1, <3>4, <3>9, <3>10, <3>11 DEF ShardsKnown
      <3> QED BY <3>6, <3>8, <3>12
    <2>2. CASE intent.kind = "directory" /\ e = intent.entry
      <3>1. Manifest \notin fs /\ jrn.state = "publishing"
        BY <2>2 DEF JournalOwes
      <3>2. Published' = Published   BY <2>2, EntriesApart, OwedEntries DEF Published
      <3>3. OutputWhole' /\ Fresh' /\ ShardsKnown'
        BY <3>1, <3>2 DEF OutputWhole, Fresh, ShardsKnown
      <3>4. DirectoriesKnown'
        BY <3>1, <2>2 DEF DirectoriesKnown, HasCandidate
      <3> QED BY <3>3, <3>4
    <2>3. CASE e \notin Finals \cup PublicDirectories
      BY <2>3, OutputFrame, EntriesApart DEF OutputKept, OutputRecordKept, IntentKept
    <2> QED BY <2>1, <2>2, <2>3
  <1>5. WorkDisk'
    <2>1. CASE e = Work
      <3>1. Inventory' = Inventory /\ Inventory = {} /\ OwnerInit \notin fs /\ intent.kind = "work"
        BY <2>1, EntriesApart DEF JournalOwes, Inventory
      <3> QED BY <2>1, <3>1 DEF WorkDisk, JournalOwes, WorkHolds, InventoryKnown
    <2>2. CASE debt.kind = "none" /\ intent.kind = "inventory"
      <3>1. /\ Work \in fs' /\ jrn.inventory # {} /\ ProgressHolds
                 /\ jrn.state \in {"building", "publishing"}
            /\ e = intent.entry /\ e \in Inventoried /\ OwnerInit \in fs' <=> OwnerInit \in fs
        BY <2>2, EntriesApart DEF JournalOwes, InventoryKnown
      <3>2. Inventory' = Inventory \ {e}   BY DEF Inventory
      <3>3. Expected' = Expected   BY DEF Expected
      <3>4. Inventory = Expected /\ e \notin fs'   BY <3>1, <2>2 DEF ProgressHolds
      <3>5. ProgressHolds'   BY <3>1, <3>2, <3>3, <3>4, <2>2 DEF ProgressHolds
      <3> QED BY <2>2, <3>1, <3>2, <3>5 DEF WorkDisk, JournalOwes, WorkHolds, InventoryKnown
    <2>3. CASE debt.kind = "owner"
      <3>1. jrn.state = "owner_initializing" /\ Work \in fs' /\ Inventory' \subseteq Inventory
        BY <2>3 DEF AnchorOwes, Inventory
      <3> QED BY <2>3, <3>1 DEF WorkDisk, JournalOwes, WorkHolds, InventoryKnown
    <2>4. CASE e \notin Inventoried \cup {Work, OwnerInit}
      BY <2>4, WorkFrame DEF WorkKept, WorkRecordKept, IntentKept
    <2> QED BY <2>1, <2>2, <2>3, <2>4
  <1>6. AtRetired'
    BY DEF AtRetired, Retiring
  <1>7. AtOwing'
    BY DEF AtOwing, At, Retiring, WithJournal
  <1>8. AtBuilding'
    BY EntriesApart DEF AtBuilding, Retiring, Build
  <1>9. AtWork'
    BY DEF AtWork, At, Retiring
  <1>10. AtOutput'
    <2>1. mode = "build" => e \notin PublicDirectories
      BY DEF AtBuilding
    <2>2. mode = "build" => \A k \in 1..Directories : Directory(k) \in fs => Directory(k) \in fs'
      BY <2>1, EntriesApart
    <2> QED BY <2>2 DEF AtOutput, At, Retiring
  <1>11. AtUndoing'
    BY DEF AtUndoing, At, Retiring, OutputGone, Finals, PublicDirectories
  <1>12. AtCommit'
    BY DEF AtCommit, At, Retiring, WithJournal
  <1>13. RefusesOnlyCutShort'
    BY DEF RefusesOnlyCutShort, NotAnchored, CutShort
  <1>14. ReturnsAlone'
    BY DEF ReturnsAlone
  <1> QED BY <1>1, <1>2, <1>3, <1>4, <1>5, <1>6, <1>7, <1>8, <1>9, <1>10, <1>11, <1>12, <1>13, <1>14

LEMMA RecordMoveTidies == ASSUME ShownInv, ShownInv', TidyInv, RecordMove PROVE TidyInv'
  <1>t. DebtsTyped
    BY DEF ShownInv, DiskTypeOK, DebtsTyped
  <1>n. Due # NoDebt /\ "quarantined" \in {"quarantined", "gone"}
    BY DEF RecordMove
  <1>e. PICK e : e = Due.entry
    OBVIOUS
  <1>x. \/ debt # NoDebt /\ debt.kind # "none" /\ e = debt.entry /\ Due.phase = debt.phase
             /\ Due.kind = debt.kind
        \/ debt = NoDebt /\ intent # NoDebt /\ intent.kind # "none" /\ e = intent.entry
             /\ Due.phase = intent.phase /\ Due.kind = intent.kind
    BY <1>n, <1>e, DueFacts, OwedEntries DEF ShownInv
  <1>o. /\ debt.kind \in {"none", "temporary", "owner", "manifest", "journal"}
             /\ intent.kind \in {"none", "inventory", "work", "shard", "directory"}
        /\ e = Temporary => debt.kind = "temporary"
        /\ e = Journal <=> debt.kind = "journal"
        /\ e = Partial => debt.kind = "manifest"
        /\ e = OwnerInit => debt.kind = "owner"
        /\ e = Owner => debt.kind = "owner" \/ intent.kind = "inventory"
        /\ e \in Inventoried => e = Owner \/ intent.kind = "inventory"
        /\ debt.kind # "none" => e \notin {Work} \cup Finals \cup PublicDirectories
        /\ e = Work => intent.kind = "work"
        /\ e \in Finals => intent.kind = "shard"
        /\ e \in PublicDirectories => intent.kind = "directory"
        /\ debt.kind = "none" /\ intent.kind = "inventory" => e \in Inventoried
        /\ debt.kind = "none" /\ intent.kind = "shard" => e \in Finals
        /\ debt.kind = "none" /\ intent.kind = "directory" => e \in PublicDirectories
        /\ e # Manifest /\ e # Verifying
        /\ debt.kind = "owner" => intent.kind = "none"
        /\ debt.kind # "none" /\ e \in Inventoried => debt.kind = "owner"
    <2>1. DiskTypeOK   BY DEF ShownInv
    <2>2. debt.kind = "owner" => intent.kind = "none"
      BY DEF TidyInv, Disk, AnchorOwes
    <2>3. CASE debt # NoDebt /\ e = debt.entry
      BY <2>1, <2>2, <2>3, OwedEntries, EntriesApart
    <2>4. CASE debt = NoDebt /\ intent # NoDebt /\ e = intent.entry
      BY <2>1, <2>2, <2>4, OwedEntries, EntriesApart
    <2> QED BY <1>x, <2>3, <2>4
  <1>r. RecordPhase("quarantined")
    BY DEF RecordMove
  <1>p. /\ debt'.kind = debt.kind /\ debt'.entry = debt.entry
        /\ intent'.kind = intent.kind /\ intent'.entry = intent.entry
        /\ debt' = NoDebt <=> debt = NoDebt
        /\ intent' = NoDebt <=> intent = NoDebt
        /\ Due'.entry = e
        /\ debt' = debt \/ (debt # NoDebt /\ debt'.phase = "quarantined")
        /\ intent' = intent \/ (debt = NoDebt /\ intent'.phase = "quarantined")
    BY <1>t, <1>n, <1>r, <1>e, PhaseTyped DEF Due
  <1>g. /\ fs' = fs /\ trash' = trash /\ jrn' = jrn /\ anc' = anc /\ e \in trash
        /\ pc = "retire" /\ pc' = "retire" /\ back' = back /\ mode' = mode /\ refusal' = refusal
        /\ debt.kind = "journal" => trash \subseteq {Journal}
    BY <1>e, <1>o, <1>x DEF RecordMove, Readable, ShownInv, TidyInv, Disk, Trashed, JournalLeaves
  <1> USE <1>t, <1>n, <1>e, <1>x, <1>o, <1>r, <1>p, <1>g
         DEF ShownInv, TidyInv, Disk, Places, OutputDisk, WorkDisk
  <1>1. Trashed'
    BY DEF Trashed
  <1>2. AnchorOwes'
    BY DEF AnchorOwes, CommitHolds, Published
  <1>3. PrivateFiles'
    BY DEF PrivateFiles
  <1>4. OutputDisk'
    BY OutputFrame DEF OutputKept, OutputRecordKept, IntentKept
  <1>5. WorkDisk'
    BY WorkFrame DEF WorkKept, WorkRecordKept, IntentKept
  <1>6. AtRetired'
    BY DEF AtRetired, Retiring
  <1>7. AtOwing'
    BY DEF AtOwing, At, Retiring, WithJournal
  <1>8. AtBuilding'
    BY DEF AtBuilding, Retiring, Build
  <1>9. AtWork'
    BY DEF AtWork, At, Retiring
  <1>10. AtOutput'
    BY DEF AtOutput, At, Retiring, Published
  <1>11. AtUndoing'
    BY DEF AtUndoing, At, Retiring, OutputGone, Finals, PublicDirectories
  <1>12. AtCommit'
    BY DEF AtCommit, At, Retiring, WithJournal
  <1>13. RefusesOnlyCutShort'
    BY DEF RefusesOnlyCutShort, NotAnchored, CutShort
  <1>14. ReturnsAlone'
    BY DEF ReturnsAlone
  <1> QED BY <1>1, <1>2, <1>3, <1>4, <1>5, <1>6, <1>7, <1>8, <1>9, <1>10, <1>11, <1>12, <1>13, <1>14

LEMMA UnlinkTidies == ASSUME ShownInv, ShownInv', TidyInv, Unlink PROVE TidyInv'
  <1>n. Due # NoDebt
    BY DEF Unlink, RecordsQuarantine
  <1>e. PICK e : e = Due.entry
    OBVIOUS
  <1>x. \/ debt # NoDebt /\ debt.kind # "none" /\ e = debt.entry /\ Due.phase = debt.phase
             /\ Due.kind = debt.kind
        \/ debt = NoDebt /\ intent # NoDebt /\ intent.kind # "none" /\ e = intent.entry
             /\ Due.phase = intent.phase /\ Due.kind = intent.kind
    BY <1>n, <1>e, DueFacts, OwedEntries DEF ShownInv
  <1>o. /\ debt.kind \in {"none", "temporary", "owner", "manifest", "journal"}
             /\ intent.kind \in {"none", "inventory", "work", "shard", "directory"}
        /\ e = Temporary => debt.kind = "temporary"
        /\ e = Journal <=> debt.kind = "journal"
        /\ e = Partial => debt.kind = "manifest"
        /\ e = OwnerInit => debt.kind = "owner"
        /\ e = Owner => debt.kind = "owner" \/ intent.kind = "inventory"
        /\ e \in Inventoried => e = Owner \/ intent.kind = "inventory"
        /\ debt.kind # "none" => e \notin {Work} \cup Finals \cup PublicDirectories
        /\ e = Work => intent.kind = "work"
        /\ e \in Finals => intent.kind = "shard"
        /\ e \in PublicDirectories => intent.kind = "directory"
        /\ debt.kind = "none" /\ intent.kind = "inventory" => e \in Inventoried
        /\ debt.kind = "none" /\ intent.kind = "shard" => e \in Finals
        /\ debt.kind = "none" /\ intent.kind = "directory" => e \in PublicDirectories
        /\ e # Manifest /\ e # Verifying
        /\ debt.kind = "owner" => intent.kind = "none"
        /\ debt.kind # "none" /\ e \in Inventoried => debt.kind = "owner"
    <2>1. DiskTypeOK   BY DEF ShownInv
    <2>2. debt.kind = "owner" => intent.kind = "none"
      BY DEF TidyInv, Disk, AnchorOwes
    <2>3. CASE debt # NoDebt /\ e = debt.entry
      BY <2>1, <2>2, <2>3, OwedEntries, EntriesApart
    <2>4. CASE debt = NoDebt /\ intent # NoDebt /\ e = intent.entry
      BY <2>1, <2>2, <2>4, OwedEntries, EntriesApart
    <2> QED BY <1>x, <2>3, <2>4
  <1>g. /\ fs' = fs /\ trash' = trash \ {e} /\ jrn' = jrn /\ anc' = anc /\ intent' = intent
             /\ debt' = debt /\ e \in trash
        /\ pc = "retire" /\ pc' \in {"retire", "retired"} /\ back' = back /\ mode' = mode
             /\ refusal' = refusal
        /\ debt.kind = "journal" => pc' = "retire"
        /\ Due'.entry = e
    <2>1. debt.kind = "journal" => Due = debt   BY DEF Due
    <2> QED BY <2>1, <1>e DEF Unlink, RecordsGone, Due
  <1>f. e \notin fs
    BY <1>g DEF TidyInv, Disk, Trashed
  <1> USE <1>n, <1>e, <1>x, <1>o, <1>g, <1>f
         DEF ShownInv, TidyInv, Disk, Places, OutputDisk, WorkDisk
  <1>1. Trashed'
    BY DEF Trashed
  <1>2. AnchorOwes'
    BY DEF AnchorOwes, CommitHolds, Published
  <1>3. PrivateFiles'
    BY DEF PrivateFiles
  <1>4. OutputDisk'
    BY OutputFrame DEF OutputKept, OutputRecordKept, IntentKept
  <1>5. WorkDisk'
    BY WorkFrame DEF WorkKept, WorkRecordKept, IntentKept
  <1>6. AtRetired'
    BY DEF AtRetired, Retiring
  <1>7. AtOwing'
    BY DEF AtOwing, At, Retiring, WithJournal
  <1>8. AtBuilding'
    BY DEF AtBuilding, Retiring, Build
  <1>9. AtWork'
    BY DEF AtWork, At, Retiring
  <1>10. AtOutput'
    BY DEF AtOutput, At, Retiring, Published
  <1>11. AtUndoing'
    BY DEF AtUndoing, At, Retiring, OutputGone, Finals, PublicDirectories
  <1>12. AtCommit'
    BY DEF AtCommit, At, Retiring, WithJournal
  <1>13. RefusesOnlyCutShort'
    BY DEF RefusesOnlyCutShort, NotAnchored, CutShort
  <1>14. ReturnsAlone'
    BY DEF ReturnsAlone
  <1> QED BY <1>1, <1>2, <1>3, <1>4, <1>5, <1>6, <1>7, <1>8, <1>9, <1>10, <1>11, <1>12, <1>13, <1>14

LEMMA RecordGoneTidies == ASSUME ShownInv, ShownInv', TidyInv, RecordGone PROVE TidyInv'
  <1>t. DebtsTyped
    BY DEF ShownInv, DiskTypeOK, DebtsTyped
  <1>n. Due # NoDebt /\ "gone" \in {"quarantined", "gone"}
    BY DEF RecordGone
  <1>e. PICK e : e = Due.entry
    OBVIOUS
  <1>x. \/ debt # NoDebt /\ debt.kind # "none" /\ e = debt.entry /\ Due.phase = debt.phase
             /\ Due.kind = debt.kind
        \/ debt = NoDebt /\ intent # NoDebt /\ intent.kind # "none" /\ e = intent.entry
             /\ Due.phase = intent.phase /\ Due.kind = intent.kind
    BY <1>n, <1>e, DueFacts, OwedEntries DEF ShownInv
  <1>o. /\ debt.kind \in {"none", "temporary", "owner", "manifest", "journal"}
             /\ intent.kind \in {"none", "inventory", "work", "shard", "directory"}
        /\ e = Temporary => debt.kind = "temporary"
        /\ e = Journal <=> debt.kind = "journal"
        /\ e = Partial => debt.kind = "manifest"
        /\ e = OwnerInit => debt.kind = "owner"
        /\ e = Owner => debt.kind = "owner" \/ intent.kind = "inventory"
        /\ e \in Inventoried => e = Owner \/ intent.kind = "inventory"
        /\ debt.kind # "none" => e \notin {Work} \cup Finals \cup PublicDirectories
        /\ e = Work => intent.kind = "work"
        /\ e \in Finals => intent.kind = "shard"
        /\ e \in PublicDirectories => intent.kind = "directory"
        /\ debt.kind = "none" /\ intent.kind = "inventory" => e \in Inventoried
        /\ debt.kind = "none" /\ intent.kind = "shard" => e \in Finals
        /\ debt.kind = "none" /\ intent.kind = "directory" => e \in PublicDirectories
        /\ e # Manifest /\ e # Verifying
        /\ debt.kind = "owner" => intent.kind = "none"
        /\ debt.kind # "none" /\ e \in Inventoried => debt.kind = "owner"
    <2>1. DiskTypeOK   BY DEF ShownInv
    <2>2. debt.kind = "owner" => intent.kind = "none"
      BY DEF TidyInv, Disk, AnchorOwes
    <2>3. CASE debt # NoDebt /\ e = debt.entry
      BY <2>1, <2>2, <2>3, OwedEntries, EntriesApart
    <2>4. CASE debt = NoDebt /\ intent # NoDebt /\ e = intent.entry
      BY <2>1, <2>2, <2>4, OwedEntries, EntriesApart
    <2> QED BY <1>x, <2>3, <2>4
  <1>r. RecordPhase("gone") \/ (intent' = intent /\ debt' = debt)
    BY DEF RecordGone
  <1>p. /\ debt'.kind = debt.kind /\ debt'.entry = debt.entry
        /\ intent'.kind = intent.kind /\ intent'.entry = intent.entry
        /\ debt' = NoDebt <=> debt = NoDebt
        /\ intent' = NoDebt <=> intent = NoDebt
        /\ Due'.entry = e
        /\ debt' = debt \/ (debt # NoDebt /\ debt'.phase = "gone")
        /\ intent' = intent \/ (debt = NoDebt /\ intent'.phase = "gone")
    BY <1>t, <1>n, <1>r, <1>e, PhaseTyped DEF Due
  <1>g. /\ fs' = fs /\ trash' = trash /\ jrn' = jrn /\ anc' = anc /\ e \notin trash
             /\ Due.phase = "quarantined"
        /\ pc = "retire" /\ pc' = "retired" /\ back' = back /\ mode' = mode /\ refusal' = refusal
        /\ debt.kind = "journal" => debt'.phase = "gone"
    <2>1. debt.kind = "journal" => RecordsGone
      <3>1. debt.kind = "journal" => Due = debt   BY DEF Due
      <3> QED BY <3>1 DEF RecordsGone
    <2> QED BY <1>e, <1>n, <1>t, <1>o, <1>x, <2>1, PhaseTyped DEF RecordGone
  <1>f. e \notin fs
    BY <1>g, <1>x DEF TidyInv, Disk, Trashed
  <1> USE <1>t, <1>n, <1>e, <1>x, <1>o, <1>r, <1>p, <1>g, <1>f
         DEF ShownInv, TidyInv, Disk, Places, OutputDisk, WorkDisk
  <1>1. Trashed'
    BY DEF Trashed
  <1>2. AnchorOwes'
    BY DEF AnchorOwes, CommitHolds, Published
  <1>3. PrivateFiles'
    BY DEF PrivateFiles
  <1>4. OutputDisk'
    BY OutputFrame DEF OutputKept, OutputRecordKept, IntentKept
  <1>5. WorkDisk'
    BY WorkFrame DEF WorkKept, WorkRecordKept, IntentKept
  <1>6. AtRetired'
    BY DEF AtRetired, Retiring
  <1>7. AtOwing'
    BY DEF AtOwing, At, Retiring, WithJournal
  <1>8. AtBuilding'
    BY DEF AtBuilding, Retiring, Build
  <1>9. AtWork'
    BY DEF AtWork, At, Retiring
  <1>10. AtOutput'
    BY DEF AtOutput, At, Retiring, Published
  <1>11. AtUndoing'
    BY DEF AtUndoing, At, Retiring, OutputGone, Finals, PublicDirectories
  <1>12. AtCommit'
    BY DEF AtCommit, At, Retiring, WithJournal
  <1>13. RefusesOnlyCutShort'
    BY DEF RefusesOnlyCutShort, NotAnchored, CutShort
  <1>14. ReturnsAlone'
    BY DEF ReturnsAlone
  <1> QED BY <1>1, <1>2, <1>3, <1>4, <1>5, <1>6, <1>7, <1>8, <1>9, <1>10, <1>11, <1>12, <1>13, <1>14

LEMMA ResumeGoneTidies == ASSUME ShownInv, ShownInv', TidyInv, ResumeGone PROVE TidyInv'
  <1>z. fs' = fs /\ trash' = trash /\ jrn' = jrn /\ anc' = anc /\ intent' = intent /\ debt' = debt
    BY DEF ResumeGone, Resume
  <1> USE <1>z
         DEF ShownInv, TidyInv, Disk, Places, OutputDisk, WorkDisk, ResumeGone, AnchorKinds, Retire,
             Resume, Rename, AnchoredWrite, Private, Retired, Due, RecordPhase, AfterRemoval,
             Recovering, ManifestSettled
  <1>1. Disk'
    BY DiskFrame
  <1>2. AtRetired'
    BY DEF AtRetired, Retiring, Trashed
  <1>3. AtOwing'
    BY DEF AtOwing, At, Retiring, WithJournal
  <1>4. AtBuilding'
    BY DEF AtBuilding, Retiring, Build
  <1>5. AtWork'
    BY DEF AtWork, At, Retiring
  <1>6. AtOutput'
    BY DEF AtOutput, At, Retiring, Published
  <1>7. AtUndoing'
    BY DEF AtUndoing, At, Retiring, OutputGone, Finals, PublicDirectories
  <1>8. AtCommit'
    BY DEF AtCommit, At, Retiring, WithJournal
  <1>9. RefusesOnlyCutShort'
    BY DEF RefusesOnlyCutShort, NotAnchored, CutShort
  <1>10. ReturnsAlone'
    BY DEF ReturnsAlone
  <1> QED BY <1>1, <1>2, <1>3, <1>4, <1>5, <1>6, <1>7, <1>8, <1>9, <1>10

LEMMA RetireLostTidies == ASSUME ShownInv, ShownInv', TidyInv, RetireLost PROVE TidyInv'
  <1>z. fs' = fs /\ trash' = trash /\ jrn' = jrn /\ anc' = anc /\ intent' = intent /\ debt' = debt
    BY DEF RetireLost, Resume
  <1> USE <1>z
         DEF ShownInv, TidyInv, Disk, Places, OutputDisk, WorkDisk, RetireLost, AnchorKinds, Retire,
             Resume, Rename, AnchoredWrite, Private, Retired, Due, RecordPhase, AfterRemoval,
             Recovering, ManifestSettled
  <1>1. Disk'
    BY DiskFrame
  <1>2. AtRetired'
    BY DEF AtRetired, Retiring
  <1>3. AtOwing'
    BY DEF AtOwing, At, Retiring, WithJournal
  <1>4. AtBuilding'
    BY DEF AtBuilding, Retiring, Build
  <1>5. AtWork'
    BY DEF AtWork, At, Retiring
  <1>6. AtOutput'
    BY DEF AtOutput, At, Retiring, Published
  <1>7. AtUndoing'
    BY DEF AtUndoing, At, Retiring, OutputGone, Finals, PublicDirectories
  <1>8. AtCommit'
    BY DEF AtCommit, At, Retiring, WithJournal
  <1>9. RefusesOnlyCutShort'
    BY DEF RefusesOnlyCutShort, NotAnchored, CutShort
  <1>10. ReturnsAlone'
    BY DEF ReturnsAlone
  <1> QED BY <1>1, <1>2, <1>3, <1>4, <1>5, <1>6, <1>7, <1>8, <1>9, <1>10

LEMMA RefuseUnreadableTidies == ASSUME ShownInv, ShownInv', TidyInv, RefuseUnreadable PROVE TidyInv'
  <1>z. fs' = fs /\ trash' = trash /\ jrn' = jrn /\ anc' = anc /\ intent' = intent /\ debt' = debt
    BY DEF RefuseUnreadable, Resume
  <1> USE <1>z
         DEF ShownInv, TidyInv, Disk, Places, OutputDisk, WorkDisk, RefuseUnreadable, AnchorKinds,
             Retire, Resume, Rename, AnchoredWrite, Private, Retired, Due, RecordPhase, AfterRemoval,
             Recovering, ManifestSettled
  <1>1. Disk'
    BY DiskFrame
  <1>2. AtRetired'
    BY DEF AtRetired, Retiring
  <1>3. AtOwing'
    BY DEF AtOwing, At, Retiring, WithJournal
  <1>4. AtBuilding'
    BY DEF AtBuilding, Retiring, Build
  <1>5. AtWork'
    BY DEF AtWork, At, Retiring
  <1>6. AtOutput'
    BY DEF AtOutput, At, Retiring, Published
  <1>7. AtUndoing'
    BY DEF AtUndoing, At, Retiring, OutputGone, Finals, PublicDirectories
  <1>8. AtCommit'
    BY DEF AtCommit, At, Retiring, WithJournal
  <1>9. RefusesOnlyCutShort'
    BY DEF RefusesOnlyCutShort, NotAnchored, CutShort
  <1>10. ReturnsAlone'
    BY DEF ReturnsAlone
  <1> QED BY <1>1, <1>2, <1>3, <1>4, <1>5, <1>6, <1>7, <1>8, <1>9, <1>10

LEMMA FinishPrivateFileTidies == ASSUME ShownInv, ShownInv', TidyInv,
  FinishPrivateFile PROVE TidyInv'
  <1>n. Due # NoDebt /\ Due.kind \in {"temporary", "owner", "manifest"}
    BY DEF FinishPrivateFile, Retired, Anchored
  <1>e. PICK e : e = Due.entry
    OBVIOUS
  <1>x. \/ debt # NoDebt /\ debt.kind # "none" /\ e = debt.entry /\ Due.phase = debt.phase
             /\ Due.kind = debt.kind
        \/ debt = NoDebt /\ intent # NoDebt /\ intent.kind # "none" /\ e = intent.entry
             /\ Due.phase = intent.phase /\ Due.kind = intent.kind
    BY <1>n, <1>e, DueFacts, OwedEntries DEF ShownInv
  <1>o. /\ debt.kind \in {"none", "temporary", "owner", "manifest", "journal"}
             /\ intent.kind \in {"none", "inventory", "work", "shard", "directory"}
        /\ e = Temporary => debt.kind = "temporary"
        /\ e = Journal <=> debt.kind = "journal"
        /\ e = Partial => debt.kind = "manifest"
        /\ e = OwnerInit => debt.kind = "owner"
        /\ e = Owner => debt.kind = "owner" \/ intent.kind = "inventory"
        /\ e \in Inventoried => e = Owner \/ intent.kind = "inventory"
        /\ debt.kind # "none" => e \notin {Work} \cup Finals \cup PublicDirectories
        /\ e = Work => intent.kind = "work"
        /\ e \in Finals => intent.kind = "shard"
        /\ e \in PublicDirectories => intent.kind = "directory"
        /\ debt.kind = "none" /\ intent.kind = "inventory" => e \in Inventoried
        /\ debt.kind = "none" /\ intent.kind = "shard" => e \in Finals
        /\ debt.kind = "none" /\ intent.kind = "directory" => e \in PublicDirectories
        /\ e # Manifest /\ e # Verifying
        /\ debt.kind = "owner" => intent.kind = "none"
        /\ debt.kind # "none" /\ e \in Inventoried => debt.kind = "owner"
    <2>1. DiskTypeOK   BY DEF ShownInv
    <2>2. debt.kind = "owner" => intent.kind = "none"
      BY DEF TidyInv, Disk, AnchorOwes
    <2>3. CASE debt # NoDebt /\ e = debt.entry
      BY <2>1, <2>2, <2>3, OwedEntries, EntriesApart
    <2>4. CASE debt = NoDebt /\ intent # NoDebt /\ e = intent.entry
      BY <2>1, <2>2, <2>4, OwedEntries, EntriesApart
    <2> QED BY <1>x, <2>3, <2>4
  <1>v. /\ back \in {"recover", "begin", "handle", "rollback", "unpublish", "cleanup", "cleaned",
             "verify", "done", "down"}
        /\ mode = "build" => back \in {"cleanup", "cleaned", "verify", "done"}
        /\ debt.kind # "journal"
             => back \in {"handle", "recover", "rollback", "unpublish", "cleanup", "cleaned"}
        /\ debt.kind = "journal" => back \notin WithJournal
    BY BackFacts DEF FinishPrivateFile, Retired, Retiring, WithJournal
  <1>s. debt # NoDebt /\ debt.kind = Due.kind /\ e = debt.entry
    BY <1>n, <1>x, <1>o, OwedEntries DEF ShownInv
  <1>g. /\ pc = "retired" /\ pc' = back /\ fs' = fs /\ trash' = trash /\ back' = back
             /\ mode' = mode /\ refusal' = refusal
        /\ e \notin fs \cup trash /\ debt' = NoDebt /\ intent' = intent
        /\ debt'.kind = "none" /\ debt'.entry = Nothing /\ jrn' = jrn
    BY <1>e, <1>s DEF FinishPrivateFile, Retired, TidyInv, Places, AtRetired
  <1>c. anc \in AnchorPhases
    BY DEF ShownInv, DiskTypeOK
  <1>f. /\ anc'.journal = anc.journal
        /\ anc'.temporary = IF debt.kind = "temporary" THEN "none" ELSE anc.temporary
        /\ anc'.owner = IF debt.kind = "owner" THEN "none" ELSE anc.owner
        /\ anc'.manifest = IF debt.kind = "manifest" THEN "none" ELSE anc.manifest
    BY <1>n, <1>s, <1>c DEF FinishPrivateFile, AnchorPhases
  <1> USE <1>n, <1>e, <1>x, <1>o, <1>v, <1>s, <1>g, <1>c, <1>f
         DEF ShownInv, TidyInv, Disk, Places, OutputDisk, WorkDisk
  <1>1. Trashed'
    BY DEF Trashed
  <1>2. AnchorOwes'
    BY DEF AnchorOwes, CommitHolds, Published
  <1>3. PrivateFiles'
    BY OwedEntries DEF PrivateFiles, AnchorOwes
  <1>4. OutputDisk'
    BY OutputFrame DEF OutputKept, OutputRecordKept, IntentKept
  <1>5. WorkDisk'
    BY WorkFrame DEF WorkKept, WorkRecordKept, IntentKept
  <1>6. AtRetired'
    BY DEF AtRetired, Retiring
  <1>7. AtOwing'
    BY DEF AtOwing, At, Retiring, WithJournal, AtRetired, AnchorOwes
  <1>8. AtBuilding'
    BY DEF AtBuilding, Retiring, Build
  <1>9. AtWork'
    BY DEF AtWork, At, Retiring, AtOwing, WithJournal, AtRetired, AnchorOwes
  <1>10. AtOutput'
    BY DEF AtOutput, At, Retiring, AtBuilding
  <1>11. AtUndoing'
    BY DEF AtUndoing, At, Retiring, OutputGone, Finals, PublicDirectories
  <1>12. AtCommit'
    BY DEF AtCommit, At, Retiring, WithJournal
  <1>13. RefusesOnlyCutShort'
    BY DEF RefusesOnlyCutShort, NotAnchored, CutShort
  <1>14. ReturnsAlone'
    BY DEF ReturnsAlone
  <1> QED BY <1>1, <1>2, <1>3, <1>4, <1>5, <1>6, <1>7, <1>8, <1>9, <1>10, <1>11, <1>12, <1>13, <1>14

LEMMA FinishInventoryEntryTidies == ASSUME ShownInv, ShownInv', TidyInv,
  FinishInventoryEntry PROVE TidyInv'
  <1>n. Due # NoDebt /\ Due.kind = "inventory"
    BY DEF FinishInventoryEntry, Retired, Anchored
  <1>e. PICK e : e = Due.entry
    OBVIOUS
  <1>x. \/ debt # NoDebt /\ debt.kind # "none" /\ e = debt.entry /\ Due.phase = debt.phase
             /\ Due.kind = debt.kind
        \/ debt = NoDebt /\ intent # NoDebt /\ intent.kind # "none" /\ e = intent.entry
             /\ Due.phase = intent.phase /\ Due.kind = intent.kind
    BY <1>n, <1>e, DueFacts, OwedEntries DEF ShownInv
  <1>o. /\ debt.kind \in {"none", "temporary", "owner", "manifest", "journal"}
             /\ intent.kind \in {"none", "inventory", "work", "shard", "directory"}
        /\ e = Temporary => debt.kind = "temporary"
        /\ e = Journal <=> debt.kind = "journal"
        /\ e = Partial => debt.kind = "manifest"
        /\ e = OwnerInit => debt.kind = "owner"
        /\ e = Owner => debt.kind = "owner" \/ intent.kind = "inventory"
        /\ e \in Inventoried => e = Owner \/ intent.kind = "inventory"
        /\ debt.kind # "none" => e \notin {Work} \cup Finals \cup PublicDirectories
        /\ e = Work => intent.kind = "work"
        /\ e \in Finals => intent.kind = "shard"
        /\ e \in PublicDirectories => intent.kind = "directory"
        /\ debt.kind = "none" /\ intent.kind = "inventory" => e \in Inventoried
        /\ debt.kind = "none" /\ intent.kind = "shard" => e \in Finals
        /\ debt.kind = "none" /\ intent.kind = "directory" => e \in PublicDirectories
        /\ e # Manifest /\ e # Verifying
        /\ debt.kind = "owner" => intent.kind = "none"
        /\ debt.kind # "none" /\ e \in Inventoried => debt.kind = "owner"
    <2>1. DiskTypeOK   BY DEF ShownInv
    <2>2. debt.kind = "owner" => intent.kind = "none"
      BY DEF TidyInv, Disk, AnchorOwes
    <2>3. CASE debt # NoDebt /\ e = debt.entry
      BY <2>1, <2>2, <2>3, OwedEntries, EntriesApart
    <2>4. CASE debt = NoDebt /\ intent # NoDebt /\ e = intent.entry
      BY <2>1, <2>2, <2>4, OwedEntries, EntriesApart
    <2> QED BY <1>x, <2>3, <2>4
  <1>v. /\ back \in {"recover", "begin", "handle", "rollback", "unpublish", "cleanup", "cleaned",
             "verify", "done", "down"}
        /\ mode = "build" => back \in {"cleanup", "cleaned", "verify", "done"}
        /\ debt.kind # "journal"
             => back \in {"handle", "recover", "rollback", "unpublish", "cleanup", "cleaned"}
        /\ debt.kind = "journal" => back \notin WithJournal
    BY BackFacts DEF FinishInventoryEntry, Retired, Retiring, WithJournal
  <1>s. debt = NoDebt /\ debt.kind = "none" /\ intent # NoDebt /\ intent.kind = Due.kind
          /\ e = intent.entry
    BY <1>n, <1>x, <1>o, OwedEntries DEF ShownInv
  <1>g. /\ pc = "retired" /\ pc' = back /\ fs' = fs /\ trash' = trash /\ back' = back
             /\ mode' = mode /\ refusal' = refusal
        /\ e \notin fs \cup trash /\ debt' = NoDebt /\ intent' = NoDebt
        /\ debt'.kind = "none" /\ debt'.entry = Nothing /\ intent'.kind = "none"
             /\ intent'.entry = Nothing
    BY <1>e, <1>s DEF FinishInventoryEntry, Retired, TidyInv, Places, AtRetired
  <1>q. anc' = anc
    BY DEF FinishInventoryEntry
  <1>0. jrn \in Journals /\ jrn # NoJournal /\ Journal \in fs
    BY <1>s, IntentInJournal, JournalThere
  <1>g2. jrn.removed \cup {e} \in SUBSET Inventoried
    BY <1>0, <1>s, <1>n, <1>o, JournalThere
  <1>b. LET k == [jrn EXCEPT !.removed = jrn.removed \cup {e}] IN
        /\ k \in Journals /\ k # NoJournal
        /\ k.state = jrn.state /\ k.inventory = jrn.inventory /\ k.removed = jrn.removed \cup {e}
             /\ k.prefix = jrn.prefix /\ k.made = jrn.made /\ k.making = jrn.making
             /\ k.undone = jrn.undone /\ k.undo = jrn.undo /\ k.unmade = jrn.unmade
    BY <1>0, <1>g2, RemovedEdited
  <1>h. jrn' # NoJournal /\ jrn'.state = jrn.state /\ jrn'.inventory = jrn.inventory
          /\ jrn'.removed = jrn.removed \cup {e} /\ jrn'.prefix = jrn.prefix /\ jrn'.made = jrn.made
          /\ jrn'.making = jrn.making /\ jrn'.undone = jrn.undone /\ jrn'.undo = jrn.undo
          /\ jrn'.unmade = jrn.unmade
    BY <1>b, <1>s DEF FinishInventoryEntry
  <1>k. Work \in fs /\ jrn.inventory # {} /\ jrn.state \in {"building", "publishing"}
          /\ ProgressHolds
    BY <1>n, <1>s DEF TidyInv, Disk, WorkDisk, JournalOwes, InventoryKnown
  <1> USE <1>n, <1>e, <1>x, <1>o, <1>v, <1>s, <1>g, <1>q, <1>0, <1>g2, <1>b, <1>h, <1>k
         DEF ShownInv, TidyInv, Disk, Places, OutputDisk, WorkDisk
  <1>1. Trashed'
    BY DEF Trashed
  <1>2. AnchorOwes'
    BY DEF AnchorOwes, CommitHolds, Published
  <1>3. PrivateFiles'
    BY DEF PrivateFiles
  <1>4. OutputDisk'
    BY OutputFrame DEF OutputKept, OutputRecordKept, IntentKept
  <1>5. WorkDisk'
    <2>1. /\ Expected # {} /\ e = Deepest(Expected) /\ Inventory = Expected \ {e}
               /\ jrn.removed \subseteq jrn.inventory
          /\ \A gone \in jrn.removed, other \in Expected : Depth(other) < Depth(gone)
      BY DEF ProgressHolds
    <2>2. Expected \in SUBSET Inventoried   BY JournalThere DEF Expected
    <2>3. e \in Expected /\ \A other \in Expected : Depth(other) <= Depth(e)
      BY <2>1, <2>2, DeepestThere
    <2>4. \A other \in Expected \ {e} : Depth(other) < Depth(e)
      BY <2>2, <2>3, DepthApart
    <2>5. Expected' = Expected \ {e} /\ Inventory' = Inventory
      BY <2>3 DEF Expected, Inventory
    <2>6. ProgressHolds'
      BY <2>1, <2>3, <2>4, <2>5 DEF ProgressHolds, Expected
    <2> QED BY <2>5, <2>6 DEF WorkDisk, JournalOwes, WorkHolds, InventoryKnown
  <1>6. AtRetired'
    BY DEF AtRetired, Retiring
  <1>7. AtOwing'
    BY DEF AtOwing, At, Retiring, WithJournal, AtRetired
  <1>8. AtBuilding'
    BY DEF AtBuilding, Retiring, Build
  <1>9. AtWork'
    BY DEF AtWork, At, Retiring, AtRetired
  <1>10. AtOutput'
    BY DEF AtOutput, At, Retiring, AtBuilding
  <1>11. AtUndoing'
    BY DEF AtUndoing, At, Retiring, OutputGone, Finals, PublicDirectories
  <1>12. AtCommit'
    BY DEF AtCommit, At, Retiring, WithJournal
  <1>13. RefusesOnlyCutShort'
    BY DEF RefusesOnlyCutShort, NotAnchored, CutShort
  <1>14. ReturnsAlone'
    BY DEF ReturnsAlone
  <1> QED BY <1>1, <1>2, <1>3, <1>4, <1>5, <1>6, <1>7, <1>8, <1>9, <1>10, <1>11, <1>12, <1>13, <1>14

LEMMA FinishWorkTidies == ASSUME ShownInv, ShownInv', TidyInv, FinishWork PROVE TidyInv'
  <1>n. Due # NoDebt /\ Due.kind = "work"
    BY DEF FinishWork, Retired, Anchored
  <1>e. PICK e : e = Due.entry
    OBVIOUS
  <1>x. \/ debt # NoDebt /\ debt.kind # "none" /\ e = debt.entry /\ Due.phase = debt.phase
             /\ Due.kind = debt.kind
        \/ debt = NoDebt /\ intent # NoDebt /\ intent.kind # "none" /\ e = intent.entry
             /\ Due.phase = intent.phase /\ Due.kind = intent.kind
    BY <1>n, <1>e, DueFacts, OwedEntries DEF ShownInv
  <1>o. /\ debt.kind \in {"none", "temporary", "owner", "manifest", "journal"}
             /\ intent.kind \in {"none", "inventory", "work", "shard", "directory"}
        /\ e = Temporary => debt.kind = "temporary"
        /\ e = Journal <=> debt.kind = "journal"
        /\ e = Partial => debt.kind = "manifest"
        /\ e = OwnerInit => debt.kind = "owner"
        /\ e = Owner => debt.kind = "owner" \/ intent.kind = "inventory"
        /\ e \in Inventoried => e = Owner \/ intent.kind = "inventory"
        /\ debt.kind # "none" => e \notin {Work} \cup Finals \cup PublicDirectories
        /\ e = Work => intent.kind = "work"
        /\ e \in Finals => intent.kind = "shard"
        /\ e \in PublicDirectories => intent.kind = "directory"
        /\ debt.kind = "none" /\ intent.kind = "inventory" => e \in Inventoried
        /\ debt.kind = "none" /\ intent.kind = "shard" => e \in Finals
        /\ debt.kind = "none" /\ intent.kind = "directory" => e \in PublicDirectories
        /\ e # Manifest /\ e # Verifying
        /\ debt.kind = "owner" => intent.kind = "none"
        /\ debt.kind # "none" /\ e \in Inventoried => debt.kind = "owner"
    <2>1. DiskTypeOK   BY DEF ShownInv
    <2>2. debt.kind = "owner" => intent.kind = "none"
      BY DEF TidyInv, Disk, AnchorOwes
    <2>3. CASE debt # NoDebt /\ e = debt.entry
      BY <2>1, <2>2, <2>3, OwedEntries, EntriesApart
    <2>4. CASE debt = NoDebt /\ intent # NoDebt /\ e = intent.entry
      BY <2>1, <2>2, <2>4, OwedEntries, EntriesApart
    <2> QED BY <1>x, <2>3, <2>4
  <1>v. /\ back \in {"recover", "begin", "handle", "rollback", "unpublish", "cleanup", "cleaned",
             "verify", "done", "down"}
        /\ mode = "build" => back \in {"cleanup", "cleaned", "verify", "done"}
        /\ debt.kind # "journal"
             => back \in {"handle", "recover", "rollback", "unpublish", "cleanup", "cleaned"}
        /\ debt.kind = "journal" => back \notin WithJournal
    BY BackFacts DEF FinishWork, Retired, Retiring, WithJournal
  <1>s. debt = NoDebt /\ debt.kind = "none" /\ intent # NoDebt /\ intent.kind = Due.kind
          /\ e = intent.entry
    BY <1>n, <1>x, <1>o, OwedEntries DEF ShownInv
  <1>g. /\ pc = "retired" /\ pc' = back /\ fs' = fs /\ trash' = trash /\ back' = back
             /\ mode' = mode /\ refusal' = refusal
        /\ e \notin fs \cup trash /\ debt' = NoDebt /\ intent' = NoDebt
        /\ debt'.kind = "none" /\ debt'.entry = Nothing /\ intent'.kind = "none"
             /\ intent'.entry = Nothing /\ jrn' = jrn
    BY <1>e, <1>s DEF FinishWork, Retired, TidyInv, Places, AtRetired
  <1>q. anc' = anc
    BY DEF FinishWork
  <1>0. jrn \in Journals /\ jrn # NoJournal /\ Journal \in fs
    BY <1>s, IntentInJournal, JournalThere
  <1>k. Work \notin fs
    BY <1>n, <1>s, <1>g, OwedEntries DEF ShownInv
  <1> USE <1>n, <1>e, <1>x, <1>o, <1>v, <1>s, <1>g, <1>q, <1>0, <1>k
         DEF ShownInv, TidyInv, Disk, Places, OutputDisk, WorkDisk
  <1>1. Trashed'
    BY DEF Trashed
  <1>2. AnchorOwes'
    BY DEF AnchorOwes, CommitHolds, Published
  <1>3. PrivateFiles'
    BY DEF PrivateFiles
  <1>4. OutputDisk'
    BY OutputFrame DEF OutputKept, OutputRecordKept, IntentKept
  <1>5. WorkDisk'
    <2>1. Inventory' = Inventory   BY DEF Inventory
    <2> QED BY <2>1 DEF WorkDisk, JournalOwes, WorkHolds, InventoryKnown
  <1>6. AtRetired'
    BY DEF AtRetired, Retiring
  <1>7. AtOwing'
    BY DEF AtOwing, At, Retiring, WithJournal, AtRetired
  <1>8. AtBuilding'
    BY DEF AtBuilding, Retiring, Build
  <1>9. AtWork'
    BY DEF AtWork, At, Retiring
  <1>10. AtOutput'
    BY DEF AtOutput, At, Retiring, AtBuilding
  <1>11. AtUndoing'
    BY DEF AtUndoing, At, Retiring, OutputGone, Finals, PublicDirectories
  <1>12. AtCommit'
    BY DEF AtCommit, At, Retiring, WithJournal
  <1>13. RefusesOnlyCutShort'
    BY DEF RefusesOnlyCutShort, NotAnchored, CutShort
  <1>14. ReturnsAlone'
    BY DEF ReturnsAlone
  <1> QED BY <1>1, <1>2, <1>3, <1>4, <1>5, <1>6, <1>7, <1>8, <1>9, <1>10, <1>11, <1>12, <1>13, <1>14

LEMMA FinishShardTidies == ASSUME ShownInv, ShownInv', TidyInv, FinishShard PROVE TidyInv'
  <1>n. Due # NoDebt /\ Due.kind = "shard"
    BY DEF FinishShard, Retired, Anchored
  <1>e. PICK e : e = Due.entry
    OBVIOUS
  <1>x. \/ debt # NoDebt /\ debt.kind # "none" /\ e = debt.entry /\ Due.phase = debt.phase
             /\ Due.kind = debt.kind
        \/ debt = NoDebt /\ intent # NoDebt /\ intent.kind # "none" /\ e = intent.entry
             /\ Due.phase = intent.phase /\ Due.kind = intent.kind
    BY <1>n, <1>e, DueFacts, OwedEntries DEF ShownInv
  <1>o. /\ debt.kind \in {"none", "temporary", "owner", "manifest", "journal"}
             /\ intent.kind \in {"none", "inventory", "work", "shard", "directory"}
        /\ e = Temporary => debt.kind = "temporary"
        /\ e = Journal <=> debt.kind = "journal"
        /\ e = Partial => debt.kind = "manifest"
        /\ e = OwnerInit => debt.kind = "owner"
        /\ e = Owner => debt.kind = "owner" \/ intent.kind = "inventory"
        /\ e \in Inventoried => e = Owner \/ intent.kind = "inventory"
        /\ debt.kind # "none" => e \notin {Work} \cup Finals \cup PublicDirectories
        /\ e = Work => intent.kind = "work"
        /\ e \in Finals => intent.kind = "shard"
        /\ e \in PublicDirectories => intent.kind = "directory"
        /\ debt.kind = "none" /\ intent.kind = "inventory" => e \in Inventoried
        /\ debt.kind = "none" /\ intent.kind = "shard" => e \in Finals
        /\ debt.kind = "none" /\ intent.kind = "directory" => e \in PublicDirectories
        /\ e # Manifest /\ e # Verifying
        /\ debt.kind = "owner" => intent.kind = "none"
        /\ debt.kind # "none" /\ e \in Inventoried => debt.kind = "owner"
    <2>1. DiskTypeOK   BY DEF ShownInv
    <2>2. debt.kind = "owner" => intent.kind = "none"
      BY DEF TidyInv, Disk, AnchorOwes
    <2>3. CASE debt # NoDebt /\ e = debt.entry
      BY <2>1, <2>2, <2>3, OwedEntries, EntriesApart
    <2>4. CASE debt = NoDebt /\ intent # NoDebt /\ e = intent.entry
      BY <2>1, <2>2, <2>4, OwedEntries, EntriesApart
    <2> QED BY <1>x, <2>3, <2>4
  <1>v. /\ back \in {"recover", "begin", "handle", "rollback", "unpublish", "cleanup", "cleaned",
             "verify", "done", "down"}
        /\ mode = "build" => back \in {"cleanup", "cleaned", "verify", "done"}
        /\ debt.kind # "journal"
             => back \in {"handle", "recover", "rollback", "unpublish", "cleanup", "cleaned"}
        /\ debt.kind = "journal" => back \notin WithJournal
    BY BackFacts DEF FinishShard, Retired, Retiring, WithJournal
  <1>s. debt = NoDebt /\ debt.kind = "none" /\ intent # NoDebt /\ intent.kind = Due.kind
          /\ e = intent.entry
    BY <1>n, <1>x, <1>o, OwedEntries DEF ShownInv
  <1>g. /\ pc = "retired" /\ pc' = back /\ fs' = fs /\ trash' = trash /\ back' = back
             /\ mode' = mode /\ refusal' = refusal
        /\ e \notin fs \cup trash /\ debt' = NoDebt /\ intent' = NoDebt
        /\ debt'.kind = "none" /\ debt'.entry = Nothing /\ intent'.kind = "none"
             /\ intent'.entry = Nothing
    BY <1>e, <1>s DEF FinishShard, Retired, TidyInv, Places, AtRetired
  <1>q. anc' = anc
    BY DEF FinishShard
  <1>0. jrn \in Journals /\ jrn # NoJournal /\ Journal \in fs
    BY <1>s, IntentInJournal, JournalThere
  <1>g2. jrn.undone \cup {jrn.undo} \in SUBSET (0..Shards) /\ 0 \in 0..Shards
    BY <1>0, JournalThere
  <1>f. [jrn EXCEPT !.undone = jrn.undone \cup {jrn.undo}, !.undo = 0] \in Journals
    BY <1>0, <1>g2, UndoneEdited
  <1>b. LET k == [jrn EXCEPT !.undone = jrn.undone \cup {jrn.undo}, !.undo = 0] IN
        /\ k # NoJournal /\ k.state = jrn.state /\ k.inventory = jrn.inventory
             /\ k.removed = jrn.removed /\ k.prefix = jrn.prefix /\ k.made = jrn.made
        /\ k.making = jrn.making /\ k.undone = jrn.undone \cup {jrn.undo} /\ k.unmade = jrn.unmade
    BY <1>0, <1>f, JournalThere DEF Journals
  <1>h. /\ jrn' # NoJournal /\ jrn'.state = jrn.state /\ jrn'.inventory = jrn.inventory
             /\ jrn'.removed = jrn.removed /\ jrn'.prefix = jrn.prefix /\ jrn'.made = jrn.made
        /\ jrn'.making = jrn.making /\ jrn'.undone # {} /\ jrn'.unmade = jrn.unmade
    BY <1>b DEF FinishShard
  <1>k. jrn.state = "publishing"
    BY <1>n, <1>s DEF TidyInv, Disk, WorkDisk, JournalOwes
  <1> USE <1>n, <1>e, <1>x, <1>o, <1>v, <1>s, <1>g, <1>q, <1>0, <1>g2, <1>f, <1>b, <1>h, <1>k
         DEF ShownInv, TidyInv, Disk, Places, OutputDisk, WorkDisk
  <1>1. Trashed'
    BY DEF Trashed
  <1>2. AnchorOwes'
    BY DEF AnchorOwes, CommitHolds, Published
  <1>3. PrivateFiles'
    BY DEF PrivateFiles
  <1>4. OutputDisk'
    BY DEF OutputWhole, OutputGone, Fresh, DirectoriesKnown, HasCandidate, ShardsKnown, Published
  <1>5. WorkDisk'
    <2>1. Inventory' = Inventory /\ (ProgressHolds => ProgressHolds')
      BY DEF Inventory, ProgressHolds, Expected
    <2> QED BY <2>1 DEF WorkDisk, JournalOwes, WorkHolds, InventoryKnown
  <1>6. AtRetired'
    BY DEF AtRetired, Retiring
  <1>7. AtOwing'
    BY DEF AtOwing, At, Retiring, WithJournal, AtRetired
  <1>8. AtBuilding'
    BY DEF AtBuilding, Retiring, Build
  <1>9. AtWork'
    BY DEF AtWork, At, Retiring, AtRetired
  <1>10. AtOutput'
    BY DEF AtOutput, At, Retiring, AtBuilding
  <1>11. AtUndoing'
    BY DEF AtUndoing, At, Retiring, OutputGone, Finals, PublicDirectories
  <1>12. AtCommit'
    BY DEF AtCommit, At, Retiring, WithJournal
  <1>13. RefusesOnlyCutShort'
    BY DEF RefusesOnlyCutShort, NotAnchored, CutShort
  <1>14. ReturnsAlone'
    BY DEF ReturnsAlone
  <1> QED BY <1>1, <1>2, <1>3, <1>4, <1>5, <1>6, <1>7, <1>8, <1>9, <1>10, <1>11, <1>12, <1>13, <1>14

LEMMA FinishDirectoryTidies == ASSUME ShownInv, ShownInv', TidyInv, FinishDirectory PROVE TidyInv'
  <1>n. Due # NoDebt /\ Due.kind = "directory"
    BY DEF FinishDirectory, Retired, Anchored
  <1>e. PICK e : e = Due.entry
    OBVIOUS
  <1>x. \/ debt # NoDebt /\ debt.kind # "none" /\ e = debt.entry /\ Due.phase = debt.phase
             /\ Due.kind = debt.kind
        \/ debt = NoDebt /\ intent # NoDebt /\ intent.kind # "none" /\ e = intent.entry
             /\ Due.phase = intent.phase /\ Due.kind = intent.kind
    BY <1>n, <1>e, DueFacts, OwedEntries DEF ShownInv
  <1>o. /\ debt.kind \in {"none", "temporary", "owner", "manifest", "journal"}
             /\ intent.kind \in {"none", "inventory", "work", "shard", "directory"}
        /\ e = Temporary => debt.kind = "temporary"
        /\ e = Journal <=> debt.kind = "journal"
        /\ e = Partial => debt.kind = "manifest"
        /\ e = OwnerInit => debt.kind = "owner"
        /\ e = Owner => debt.kind = "owner" \/ intent.kind = "inventory"
        /\ e \in Inventoried => e = Owner \/ intent.kind = "inventory"
        /\ debt.kind # "none" => e \notin {Work} \cup Finals \cup PublicDirectories
        /\ e = Work => intent.kind = "work"
        /\ e \in Finals => intent.kind = "shard"
        /\ e \in PublicDirectories => intent.kind = "directory"
        /\ debt.kind = "none" /\ intent.kind = "inventory" => e \in Inventoried
        /\ debt.kind = "none" /\ intent.kind = "shard" => e \in Finals
        /\ debt.kind = "none" /\ intent.kind = "directory" => e \in PublicDirectories
        /\ e # Manifest /\ e # Verifying
        /\ debt.kind = "owner" => intent.kind = "none"
        /\ debt.kind # "none" /\ e \in Inventoried => debt.kind = "owner"
    <2>1. DiskTypeOK   BY DEF ShownInv
    <2>2. debt.kind = "owner" => intent.kind = "none"
      BY DEF TidyInv, Disk, AnchorOwes
    <2>3. CASE debt # NoDebt /\ e = debt.entry
      BY <2>1, <2>2, <2>3, OwedEntries, EntriesApart
    <2>4. CASE debt = NoDebt /\ intent # NoDebt /\ e = intent.entry
      BY <2>1, <2>2, <2>4, OwedEntries, EntriesApart
    <2> QED BY <1>x, <2>3, <2>4
  <1>v. /\ back \in {"recover", "begin", "handle", "rollback", "unpublish", "cleanup", "cleaned",
             "verify", "done", "down"}
        /\ mode = "build" => back \in {"cleanup", "cleaned", "verify", "done"}
        /\ debt.kind # "journal"
             => back \in {"handle", "recover", "rollback", "unpublish", "cleanup", "cleaned"}
        /\ debt.kind = "journal" => back \notin WithJournal
    BY BackFacts DEF FinishDirectory, Retired, Retiring, WithJournal
  <1>s. debt = NoDebt /\ debt.kind = "none" /\ intent # NoDebt /\ intent.kind = Due.kind
          /\ e = intent.entry
    BY <1>n, <1>x, <1>o, OwedEntries DEF ShownInv
  <1>g. /\ pc = "retired" /\ pc' = back /\ fs' = fs /\ trash' = trash /\ back' = back
             /\ mode' = mode /\ refusal' = refusal
        /\ e \notin fs \cup trash /\ debt' = NoDebt /\ intent' = NoDebt
        /\ debt'.kind = "none" /\ debt'.entry = Nothing /\ intent'.kind = "none"
             /\ intent'.entry = Nothing
    BY <1>e, <1>s DEF FinishDirectory, Retired, TidyInv, Places, AtRetired
  <1>q. anc' = anc
    BY DEF FinishDirectory
  <1>0. jrn \in Journals /\ jrn # NoJournal /\ Journal \in fs
    BY <1>s, IntentInJournal, JournalThere
  <1>g2. Append(jrn.unmade, e) \in Seq(PublicDirectories)
           /\ Len(Append(jrn.unmade, e)) = Len(jrn.unmade) + 1 /\ Len(jrn.unmade) \in Nat
    BY <1>0, <1>s, <1>n, <1>o, JournalThere
  <1>b. LET k == [jrn EXCEPT !.unmade = Append(jrn.unmade, e)] IN
        /\ k \in Journals /\ k # NoJournal
        /\ k.state = jrn.state /\ k.inventory = jrn.inventory /\ k.removed = jrn.removed
             /\ k.prefix = jrn.prefix /\ k.made = jrn.made /\ k.making = jrn.making
             /\ k.undone = jrn.undone /\ k.undo = jrn.undo /\ k.unmade = Append(jrn.unmade, e)
    BY <1>0, <1>g2, UnmadeEdited
  <1>h. jrn' # NoJournal /\ jrn'.state = jrn.state /\ jrn'.inventory = jrn.inventory
          /\ jrn'.removed = jrn.removed /\ jrn'.prefix = jrn.prefix /\ jrn'.made = jrn.made
          /\ jrn'.making = jrn.making /\ jrn'.undone = jrn.undone /\ jrn'.undo = jrn.undo
          /\ Len(jrn'.unmade) = Len(jrn.unmade) + 1
    BY <1>b, <1>g2, <1>e DEF FinishDirectory
  <1>k. jrn.state = "publishing" /\ Manifest \notin fs /\ jrn.made \in Nat
    BY <1>n, <1>s, <1>0, JournalThere DEF TidyInv, Disk, WorkDisk, JournalOwes
  <1> USE <1>n, <1>e, <1>x, <1>o, <1>v, <1>s, <1>g, <1>q, <1>0, <1>g2, <1>b, <1>h, <1>k
         DEF ShownInv, TidyInv, Disk, Places, OutputDisk, WorkDisk
  <1>1. Trashed'
    BY DEF Trashed
  <1>2. AnchorOwes'
    BY DEF AnchorOwes, CommitHolds, Published
  <1>3. PrivateFiles'
    BY DEF PrivateFiles
  <1>4. OutputDisk'
    <2>1. OutputWhole' /\ Fresh' /\ ShardsKnown'
      BY DEF OutputWhole, OutputGone, Fresh, ShardsKnown, Published
    <2>2. HasCandidate \in {0, 1} /\ HasCandidate' = HasCandidate   BY DEF HasCandidate
    <2>3. Staging \notin fs   BY DEF DirectoriesKnown
    <2>4. \A k \in 1..Directories : Directory(k) \in fs
            => k < HasCandidate + jrn.made + 1 - Len(jrn.unmade)
      BY DEF DirectoriesKnown
    <2>5. Directory(jrn.made + HasCandidate - Len(jrn.unmade)) \notin fs
      <3>1. \/ HasCandidate = 1 /\ Len(jrn.unmade) = 0 /\ e \in {Staging, Directory(jrn.made + 1)}
            \/ e = Directory(jrn.made + HasCandidate - Len(jrn.unmade))
        BY DEF DirectoriesKnown
      <3>2. e = Staging => Directory(jrn.made + 1) \notin fs   BY DEF DirectoriesKnown
      <3>3. CASE HasCandidate = 1 /\ Len(jrn.unmade) = 0
        <4>1. jrn.made + HasCandidate - Len(jrn.unmade) = jrn.made + 1   BY <3>3
        <4> QED BY <3>1, <3>2, <4>1
      <3> QED BY <3>1, <3>3
    <2>6. \A k \in 1..Directories : Directory(k) \in fs
            => k < HasCandidate + jrn.made + 1 - (Len(jrn.unmade) + 1)
      <3> SUFFICES ASSUME NEW k \in 1..Directories, Directory(k) \in fs
                   PROVE  k < HasCandidate + jrn.made + 1 - (Len(jrn.unmade) + 1)
        OBVIOUS
      <3>1. k < HasCandidate + jrn.made + 1 - Len(jrn.unmade)   BY <2>4
      <3>2. k # jrn.made + HasCandidate - Len(jrn.unmade)   BY <2>5
      <3>3. k \in Nat   OBVIOUS
      <3> QED BY <2>2, <3>1, <3>2, <3>3, OneLess
    <2>7. DirectoriesKnown'
      BY <2>2, <2>3, <2>6 DEF DirectoriesKnown
    <2> QED BY <2>1, <2>7
  <1>5. WorkDisk'
    <2>1. Inventory' = Inventory /\ (ProgressHolds => ProgressHolds')
      BY DEF Inventory, ProgressHolds, Expected
    <2> QED BY <2>1 DEF WorkDisk, JournalOwes, WorkHolds, InventoryKnown
  <1>6. AtRetired'
    BY DEF AtRetired, Retiring
  <1>7. AtOwing'
    BY DEF AtOwing, At, Retiring, WithJournal, AtRetired
  <1>8. AtBuilding'
    BY DEF AtBuilding, Retiring, Build
  <1>9. AtWork'
    BY DEF AtWork, At, Retiring, AtRetired
  <1>10. AtOutput'
    BY DEF AtOutput, At, Retiring, AtBuilding
  <1>11. AtUndoing'
    BY DEF AtUndoing, At, Retiring, OutputGone, Finals, PublicDirectories
  <1>12. AtCommit'
    BY DEF AtCommit, At, Retiring, WithJournal
  <1>13. RefusesOnlyCutShort'
    BY DEF RefusesOnlyCutShort, NotAnchored, CutShort
  <1>14. ReturnsAlone'
    BY DEF ReturnsAlone
  <1> QED BY <1>1, <1>2, <1>3, <1>4, <1>5, <1>6, <1>7, <1>8, <1>9, <1>10, <1>11, <1>12, <1>13, <1>14

LEMMA FinishJournalTidies == ASSUME ShownInv, ShownInv', TidyInv, FinishJournal PROVE TidyInv'
  <1>n. Due # NoDebt /\ Due.kind = "journal"
    BY DEF FinishJournal, Retired, Anchored
  <1>e. PICK e : e = Due.entry
    OBVIOUS
  <1>x. \/ debt # NoDebt /\ debt.kind # "none" /\ e = debt.entry /\ Due.phase = debt.phase
             /\ Due.kind = debt.kind
        \/ debt = NoDebt /\ intent # NoDebt /\ intent.kind # "none" /\ e = intent.entry
             /\ Due.phase = intent.phase /\ Due.kind = intent.kind
    BY <1>n, <1>e, DueFacts, OwedEntries DEF ShownInv
  <1>o. /\ debt.kind \in {"none", "temporary", "owner", "manifest", "journal"}
             /\ intent.kind \in {"none", "inventory", "work", "shard", "directory"}
        /\ e = Temporary => debt.kind = "temporary"
        /\ e = Journal <=> debt.kind = "journal"
        /\ e = Partial => debt.kind = "manifest"
        /\ e = OwnerInit => debt.kind = "owner"
        /\ e = Owner => debt.kind = "owner" \/ intent.kind = "inventory"
        /\ e \in Inventoried => e = Owner \/ intent.kind = "inventory"
        /\ debt.kind # "none" => e \notin {Work} \cup Finals \cup PublicDirectories
        /\ e = Work => intent.kind = "work"
        /\ e \in Finals => intent.kind = "shard"
        /\ e \in PublicDirectories => intent.kind = "directory"
        /\ debt.kind = "none" /\ intent.kind = "inventory" => e \in Inventoried
        /\ debt.kind = "none" /\ intent.kind = "shard" => e \in Finals
        /\ debt.kind = "none" /\ intent.kind = "directory" => e \in PublicDirectories
        /\ e # Manifest /\ e # Verifying
        /\ debt.kind = "owner" => intent.kind = "none"
        /\ debt.kind # "none" /\ e \in Inventoried => debt.kind = "owner"
    <2>1. DiskTypeOK   BY DEF ShownInv
    <2>2. debt.kind = "owner" => intent.kind = "none"
      BY DEF TidyInv, Disk, AnchorOwes
    <2>3. CASE debt # NoDebt /\ e = debt.entry
      BY <2>1, <2>2, <2>3, OwedEntries, EntriesApart
    <2>4. CASE debt = NoDebt /\ intent # NoDebt /\ e = intent.entry
      BY <2>1, <2>2, <2>4, OwedEntries, EntriesApart
    <2> QED BY <1>x, <2>3, <2>4
  <1>v. /\ back \in {"recover", "begin", "handle", "rollback", "unpublish", "cleanup", "cleaned",
             "verify", "done", "down"}
        /\ mode = "build" => back \in {"cleanup", "cleaned", "verify", "done"}
        /\ debt.kind # "journal"
             => back \in {"handle", "recover", "rollback", "unpublish", "cleanup", "cleaned"}
        /\ debt.kind = "journal" => back \notin WithJournal
    BY BackFacts DEF FinishJournal, Retired, Retiring, WithJournal
  <1>s. debt # NoDebt /\ debt.kind = Due.kind /\ e = debt.entry
    BY <1>n, <1>x, <1>o, OwedEntries DEF ShownInv
  <1>g. /\ pc = "retired" /\ pc' = back /\ fs' = fs /\ trash' = trash /\ back' = back
             /\ mode' = mode /\ refusal' = refusal
        /\ e \notin fs \cup trash /\ debt' = NoDebt /\ intent' = NoDebt
        /\ debt'.kind = "none" /\ debt'.entry = Nothing /\ intent'.kind = "none"
             /\ intent'.entry = Nothing /\ jrn' = NoJournal /\ jrn'.state = "none"
    BY <1>e, <1>s DEF FinishJournal, Retired, TidyInv, Places, AtRetired
  <1>c. anc \in AnchorPhases
    BY DEF ShownInv, DiskTypeOK
  <1>f. anc'.journal = "none" /\ anc'.manifest = "none" /\ anc'.temporary = "none"
          /\ anc'.owner = "none"
    BY <1>c DEF FinishJournal, AnchorPhases
  <1>k. trash \subseteq {Journal} /\ jrn # NoJournal /\ Work \notin fs /\ CommitHolds
    BY <1>n, <1>s, <1>g DEF TidyInv, Disk, AnchorOwes, Places, AtRetired
  <1> USE <1>n, <1>e, <1>x, <1>o, <1>v, <1>s, <1>g, <1>c, <1>f, <1>k
         DEF ShownInv, TidyInv, Disk, Places, OutputDisk, WorkDisk
  <1>1. Trashed'
    BY OwedEntries DEF Trashed
  <1>2. AnchorOwes'
    BY DEF AnchorOwes, CommitHolds, Published
  <1>3. PrivateFiles'
    BY DEF PrivateFiles, WorkHolds, CommitHolds
  <1>4. OutputDisk'
    <2>1. Fresh'   BY DEF Fresh
    <2>2. OutputKept   BY DEF OutputKept
    <2>3. Staging \notin fs /\ (Manifest \notin fs => OutputGone)
      BY DEF CommitHolds, OutputWhole
    <2> QED BY <2>1, <2>2, <2>3, OutputSettled
  <1>5. WorkDisk'
    <2>1. Inventory' = Inventory /\ Inventory = {} /\ Owner \notin fs /\ OwnerInit \notin fs
      BY EntriesApart DEF Inventory, WorkHolds
    <2> QED BY <2>1 DEF WorkDisk, JournalOwes, WorkHolds, InventoryKnown
  <1>6. AtRetired'
    BY DEF AtRetired, Retiring
  <1>7. AtOwing'
    BY DEF AtOwing, At, Retiring, WithJournal, AtRetired
  <1>8. AtBuilding'
    BY DEF AtBuilding, Retiring, Build, PrivateFiles
  <1>9. AtWork'
    BY DEF AtWork, At, Retiring
  <1>10. AtOutput'
    BY DEF AtOutput, At, Retiring, AtBuilding, WithJournal
  <1>11. AtUndoing'
    BY DEF AtUndoing, At, Retiring, WithJournal
  <1>12. AtCommit'
    BY DEF AtCommit, At, Retiring
  <1>13. RefusesOnlyCutShort'
    BY DEF RefusesOnlyCutShort, NotAnchored, CutShort
  <1>14. ReturnsAlone'
    BY DEF ReturnsAlone
  <1> QED BY <1>1, <1>2, <1>3, <1>4, <1>5, <1>6, <1>7, <1>8, <1>9, <1>10, <1>11, <1>12, <1>13, <1>14

LEMMA PrepareCleanupTidies == ASSUME ShownInv, ShownInv', TidyInv, PrepareCleanup PROVE TidyInv'
  <1>0. jrn \in Journals /\ Journal \in fs /\ debt.kind # "journal"
    BY InJournal DEF PrepareCleanup, Build, At, Retiring, WithJournal
  <1>w. /\ jrn # NoJournal /\ debt.kind \in {"none", "owner"} /\ pc = "prepare"
             /\ mode \in {"recover", "build", "handle", "unrolled"}
        /\ intent.kind = "work" <=> intent.entry = Work
    BY <1>0, JournalThere, OwedEntries
       DEF PrepareCleanup, ShownInv, TidyInv, Places, AtOwing, At, Retiring, WithJournal, DiskTypeOK
  <1>k. Work \in fs /\ jrn.state \in {"building", "publishing"} =>
          /\ jrn.inventory # {} => ProgressHolds
          /\ jrn.inventory = {} => Owner \in fs /\ OwnerInit \notin fs /\ intent.kind # "inventory"
    BY DEF TidyInv, Disk, WorkDisk, InventoryKnown, JournalOwes, PrivateFiles
  <1>g2. Inventory \in SUBSET Inventoried /\ {} \in SUBSET Inventoried
    BY DEF Inventory
  <1>b1. [jrn EXCEPT !.inventory = Inventory, !.removed = {}] \in Journals
    BY <1>0, <1>g2, InventoryEdited
  <1>b. LET k == [jrn EXCEPT !.inventory = Inventory, !.removed = {}] IN
        /\ k # NoJournal /\ k.inventory = Inventory /\ k.removed = {} /\ k.state = jrn.state
             /\ k.prefix = jrn.prefix /\ k.made = jrn.made /\ k.making = jrn.making
             /\ k.undone = jrn.undone /\ k.undo = jrn.undo /\ k.unmade = jrn.unmade
    BY <1>0, <1>b1, JournalThere DEF Journals
  <1>g. /\ fs' = fs /\ trash' = trash /\ anc' = anc /\ debt' = debt /\ intent' = intent
             /\ mode' = mode /\ refusal' = refusal
        /\ jrn' # NoJournal /\ jrn'.state = jrn.state /\ jrn'.prefix = jrn.prefix
             /\ jrn'.made = jrn.made /\ jrn'.making = jrn.making /\ jrn'.undone = jrn.undone
             /\ jrn'.undo = jrn.undo /\ jrn'.unmade = jrn.unmade
        /\ At' = IF mode = "recover" /\ jrn.state = "publishing" THEN "rollback" ELSE "cleanup"
        /\ \/ pc' = "retire" /\ jrn' = jrn /\ intent.kind = "work" /\ Work \notin fs
           \/ pc' # "retire" /\ jrn' = jrn /\ (Work \in fs
                /\ jrn.state \in {"building", "publishing"} => jrn.inventory # {})
                /\ (Work \in fs \/ intent.kind # "work")
           \/ pc' # "retire" /\ jrn'.inventory = Inventory /\ jrn'.removed = {} /\ Work \in fs
                /\ jrn.state \in {"building", "publishing"} /\ jrn.inventory = {}
        /\ pc' \in {"retire", "rollback", "cleanup"} /\ (pc' # "retire" => pc' = At')
             /\ (pc' = "retire" => back' = At')
    BY <1>w, <1>k, <1>b DEF PrepareCleanup, Resume, At, Retiring
  <1> USE <1>0, <1>w, <1>k, <1>g2, <1>b1, <1>b, <1>g
         DEF ShownInv, TidyInv, Disk, Places, OutputDisk, WorkDisk
  <1>1. Trashed'
    BY DEF Trashed
  <1>2. AnchorOwes'
    BY DEF AnchorOwes, CommitHolds, Published
  <1>3. PrivateFiles'
    BY DEF PrivateFiles
  <1>4. OutputDisk'
    BY OutputFrame DEF OutputKept, OutputRecordKept, IntentKept
  <1>5. WorkDisk'
    <2>1. CASE jrn' = jrn
      BY <2>1, WorkFrame DEF WorkKept, WorkRecordKept, IntentKept
    <2>2. CASE /\ jrn'.inventory = Inventory /\ jrn'.removed = {} /\ Work \in fs
               /\ jrn.state \in {"building", "publishing"} /\ jrn.inventory = {}
      <3>1. Inventory' = Inventory /\ Expected' = Inventory /\ Inventory # {}
        BY <1>k, <2>2, EntriesApart DEF Inventory, Expected
      <3>2. ProgressHolds'   BY <1>k, <2>2, <3>1 DEF ProgressHolds
      <3> QED BY <1>k, <2>2, <3>1, <3>2 DEF WorkDisk, JournalOwes, WorkHolds, InventoryKnown
    <2> QED BY <2>1, <2>2
  <1>6. AtRetired'
    BY DEF AtRetired, Retiring
  <1>7. AtOwing'
    BY DEF AtOwing, At, Retiring, WithJournal, JournalOwes
  <1>8. AtBuilding'
    BY DEF AtBuilding, Retiring, Build
  <1>9. AtWork'
    <2>1. Work \in fs /\ jrn.state \in {"building", "publishing"} => jrn'.inventory # {}
      <3>1. Owner \in fs => Inventory # {}   BY EntriesApart DEF Inventory
      <3> QED BY <3>1
    <2> QED BY <2>1 DEF AtWork, At, Retiring
  <1>10. AtOutput'
    BY DEF AtOutput, At, Retiring, Published
  <1>11. AtUndoing'
    BY DEF AtUndoing, At, Retiring, OutputGone, Finals, PublicDirectories
  <1>12. AtCommit'
    BY DEF AtCommit, At, Retiring, WithJournal
  <1>13. RefusesOnlyCutShort'
    BY DEF RefusesOnlyCutShort, NotAnchored, CutShort
  <1>14. ReturnsAlone'
    BY DEF ReturnsAlone
  <1> QED BY <1>1, <1>2, <1>3, <1>4, <1>5, <1>6, <1>7, <1>8, <1>9, <1>10, <1>11, <1>12, <1>13, <1>14

LEMMA CleanupOwnerTidies == ASSUME ShownInv, ShownInv', TidyInv, CleanupOwner PROVE TidyInv'
  <1>c. anc \in AnchorPhases
    BY DEF ShownInv, DiskTypeOK
  <1>0. jrn \in Journals /\ Journal \in fs /\ debt.kind # "journal"
    BY InJournal DEF CleanupOwner, Build, At, Retiring, WithJournal
  <1>p. /\ pc = "cleanup" /\ Work \in fs /\ jrn.state = "owner_initializing" /\ mode # "build"
             /\ jrn # NoJournal
        /\ debt.kind \in {"none", "owner"}
        /\ OwnerInit \in fs => anc.owner # "none" /\ Owner \notin fs
        /\ anc.owner \in {"none", "initializing", "created"} => Owner \notin fs
        /\ debt.kind = "none" <=> debt = NoDebt
        /\ intent.kind = "none" <=> intent = NoDebt
    BY <1>0, JournalThere, OwedEntries
       DEF CleanupOwner, ShownInv, TidyInv, Disk, PrivateFiles, Places, AtOwing, AtOutput, At,
           Retiring, WithJournal
  <1>n. Due = NoDebt => debt = NoDebt /\ intent = NoDebt
    BY DEF Due
  <1>g. /\ fs' = fs /\ trash' = trash /\ jrn' = jrn /\ mode' = mode
        /\ anc'.journal = anc.journal /\ anc'.temporary = anc.temporary
             /\ anc'.manifest = anc.manifest
        /\ refusal' = refusal \/ refusal' \in NotAnchored
        /\ \/ pc' = "retire" /\ back' = "cleaned" /\ intent.kind = "work" /\ debt' = debt
                /\ intent' = intent /\ anc' = anc
           \/ pc' = "retire" /\ back' = "cleanup" /\ debt.kind = "owner" /\ debt' = debt
                /\ intent' = intent /\ anc' = anc
           \/ pc' = "retire" /\ back' = "cleaned" /\ debt = NoDebt /\ intent = NoDebt
                /\ Owner \notin fs /\ OwnerInit \notin fs
                /\ debt' = debt /\ intent' = [kind |-> "work", entry |-> Work, phase |-> "intended"]
                     /\ anc' = anc
           \/ pc' = "retire" /\ back' = "cleanup" /\ debt = NoDebt /\ intent = NoDebt
                /\ intent' = intent /\ anc' = anc
                /\ debt' = [kind |-> "owner",
                     entry |-> IF OwnerInit \in fs THEN OwnerInit ELSE Owner, phase |-> "intended"]
           \/ pc' \in {"cleanup", "refused", "down"} /\ debt' = debt /\ intent' = intent
                /\ debt = NoDebt /\ intent = NoDebt /\
                (anc'.owner = anc.owner \/ (anc'.owner = "none" /\ anc.owner = "initializing"
                  /\ OwnerInit \notin fs))
    BY <1>c, <1>p, <1>n
       DEF CleanupOwner, Resume, Retire, AnchorKinds, Anchored, NotAnchored, AnchorPhases
  <1> USE <1>c, <1>0, <1>p, <1>n, <1>g DEF ShownInv, TidyInv, Disk, Places, OutputDisk, WorkDisk
  <1>1. Trashed'
    <2>1. debt = NoDebt /\ intent = NoDebt => trash = {}   BY NothingTrashed
    <2> QED BY <2>1 DEF Trashed
  <1>2. AnchorOwes'
    BY DEF AnchorOwes
  <1>3. PrivateFiles'
    BY DEF PrivateFiles
  <1>4. OutputDisk'
    BY OutputFrame DEF OutputKept, OutputRecordKept, IntentKept
  <1>5. WorkDisk'
    <2>1. Inventory' = Inventory /\ (Owner \notin fs => Inventory = {})
      BY DEF Inventory, WorkHolds
    <2>2. intent.kind # "inventory"   BY DEF JournalOwes
    <2> QED BY <2>1, <2>2 DEF WorkDisk, JournalOwes, WorkHolds, InventoryKnown
  <1>6. AtRetired'
    BY DEF AtRetired, Retiring
  <1>7. AtOwing'
    BY DEF AtOwing, At, Retiring, WithJournal
  <1>8. AtBuilding'
    BY DEF AtBuilding, Retiring, Build
  <1>9. AtWork'
    BY DEF AtWork, At, Retiring
  <1>10. AtOutput'
    BY DEF AtOutput, At, Retiring, Published
  <1>11. AtUndoing'
    BY DEF AtUndoing, At, Retiring, OutputGone, Finals, PublicDirectories
  <1>12. AtCommit'
    BY DEF AtCommit, At, Retiring, WithJournal
  <1>13. RefusesOnlyCutShort'
    BY DEF RefusesOnlyCutShort, NotAnchored, CutShort
  <1>14. ReturnsAlone'
    BY DEF ReturnsAlone
  <1> QED BY <1>1, <1>2, <1>3, <1>4, <1>5, <1>6, <1>7, <1>8, <1>9, <1>10, <1>11, <1>12, <1>13, <1>14

LEMMA CleanupWorkTidies == ASSUME ShownInv, ShownInv', TidyInv, CleanupWork PROVE TidyInv'
  <1>0. jrn \in Journals /\ Journal \in fs /\ debt.kind # "journal"
    BY InJournal DEF CleanupWork, Build, At, Retiring, WithJournal
  <1>p. /\ pc = "cleanup" /\ jrn # NoJournal /\ debt.kind \in {"none", "owner"}
             /\ intent.kind \in {"none", "inventory", "work"}
        /\ debt.kind = "owner" => jrn.state = "owner_initializing" /\ Work \in fs
        /\ intent.kind = "work" => Work \in fs
        /\ intent.kind = "inventory" => Work \in fs
        /\ debt.kind = "none" <=> debt = NoDebt
        /\ intent.kind = "none" <=> intent = NoDebt
        /\ Work \in fs /\ jrn.state \in {"building", "publishing"} => ProgressHolds
             /\ jrn.inventory # {} /\ OwnerInit \notin fs
    BY <1>0, JournalThere, OwedEntries
       DEF CleanupWork, ShownInv, TidyInv, Disk, AnchorOwes, WorkDisk, JournalOwes, PrivateFiles,
           InventoryKnown, Places, AtOwing, AtWork, At, Retiring, WithJournal
  <1>g. /\ fs' = fs /\ trash' = trash /\ jrn' = jrn /\ mode' = mode /\ anc' = anc /\ debt' = debt
        /\ refusal' = refusal \/ refusal' \in NotAnchored
        /\ \/ pc' = "cleaned" /\ Work \notin fs /\ intent' = intent
           \/ pc' \in {"refused", "down"} /\ intent' = intent
           \/ pc' = "retire" /\ back' = "cleaned" /\ intent.kind = "work" /\ intent' = intent
           \/ pc' = "retire" /\ back' = "cleanup" /\ intent.kind = "inventory" /\ intent' = intent
           \/ pc' = "retire" /\ back' = "cleaned" /\ intent = NoDebt /\ debt = NoDebt
                /\ Expected = {} /\ Work \in fs /\ jrn.state \in {"building", "publishing"}
                /\ intent' = [kind |-> "work", entry |-> Work, phase |-> "intended"]
           \/ pc' = "retire" /\ back' = "cleanup" /\ intent = NoDebt /\ debt = NoDebt
                /\ Expected # {} /\ Work \in fs /\ jrn.state \in {"building", "publishing"}
                /\ intent' = [kind |-> "inventory", entry |-> Deepest(Expected),
                     phase |-> "intended"]
    BY <1>p DEF CleanupWork, Resume, Retire, AnchorKinds, Anchored, NotAnchored
  <1> USE <1>0, <1>p, <1>g DEF ShownInv, TidyInv, Disk, Places, OutputDisk, WorkDisk
  <1>1. Trashed'
    <2>1. debt = NoDebt /\ intent = NoDebt => trash = {}   BY NothingTrashed
    <2> QED BY <2>1 DEF Trashed
  <1>2. AnchorOwes'
    BY DEF AnchorOwes
  <1>3. PrivateFiles'
    BY DEF PrivateFiles
  <1>4. OutputDisk'
    BY OutputFrame DEF OutputKept, OutputRecordKept, IntentKept
  <1>5. WorkDisk'
    <2>1. CASE intent' = intent
      BY <2>1, WorkFrame DEF WorkKept, WorkRecordKept, IntentKept
    <2>2. CASE /\ intent = NoDebt /\ Work \in fs /\ jrn.state \in {"building", "publishing"}
            /\ Expected = {}
               /\ intent' = [kind |-> "work", entry |-> Work, phase |-> "intended"]
      <3>1. Inventory' = Inventory /\ Inventory = {} /\ Expected' = Expected
        BY <1>p, <2>2 DEF ProgressHolds, Inventory, Expected
      <3>2. ProgressHolds'   BY <1>p, <2>2, <3>1 DEF ProgressHolds
      <3> QED BY <1>p, <2>2, <3>1, <3>2 DEF WorkDisk, JournalOwes, WorkHolds, InventoryKnown
    <2>3. CASE /\ intent = NoDebt /\ Work \in fs /\ jrn.state \in {"building", "publishing"}
            /\ Expected # {}
               /\ intent' = [kind |-> "inventory", entry |-> Deepest(Expected),
                    phase |-> "intended"]
      <3>1. Inventory' = Inventory /\ Inventory = Expected /\ Expected' = Expected
        BY <1>p, <2>3 DEF ProgressHolds, Inventory, Expected
      <3>2. Expected \in SUBSET Inventoried   BY <3>1 DEF Inventory
      <3>3. Deepest(Expected) \in Expected   BY <2>3, <3>2, DeepestThere
      <3>4. Deepest(Expected) \in fs   BY <3>1, <3>3 DEF Inventory
      <3>5. ProgressHolds'   BY <1>p, <2>3, <3>1, <3>4 DEF ProgressHolds
      <3> QED BY <1>p, <2>3, <3>1, <3>5 DEF WorkDisk, JournalOwes, WorkHolds, InventoryKnown
    <2> QED BY <1>g, <2>1, <2>2, <2>3
  <1>6. AtRetired'
    BY DEF AtRetired, Retiring
  <1>7. AtOwing'
    BY DEF AtOwing, At, Retiring, WithJournal
  <1>8. AtBuilding'
    BY DEF AtBuilding, Retiring, Build
  <1>9. AtWork'
    BY DEF AtWork, At, Retiring
  <1>10. AtOutput'
    BY DEF AtOutput, At, Retiring, Published
  <1>11. AtUndoing'
    BY DEF AtUndoing, At, Retiring, OutputGone, Finals, PublicDirectories
  <1>12. AtCommit'
    BY DEF AtCommit, At, Retiring, WithJournal
  <1>13. RefusesOnlyCutShort'
    BY DEF RefusesOnlyCutShort, NotAnchored, CutShort
  <1>14. ReturnsAlone'
    BY DEF ReturnsAlone
  <1> QED BY <1>1, <1>2, <1>3, <1>4, <1>5, <1>6, <1>7, <1>8, <1>9, <1>10, <1>11, <1>12, <1>13, <1>14

LEMMA CleanedTidies == ASSUME ShownInv, ShownInv', TidyInv, Cleaned PROVE TidyInv'
  <1>z. fs' = fs /\ trash' = trash /\ jrn' = jrn /\ anc' = anc /\ intent' = intent /\ debt' = debt
    BY DEF Cleaned, Resume
  <1> USE <1>z
         DEF ShownInv, TidyInv, Disk, Places, OutputDisk, WorkDisk, Cleaned, AnchorKinds, Retire,
             Resume, Rename, AnchoredWrite, Private, Retired, Due, RecordPhase, AfterRemoval,
             Recovering, ManifestSettled
  <1>1. Disk'
    BY DiskFrame
  <1>2. AtRetired'
    BY DEF AtRetired, Retiring
  <1>3. AtOwing'
    BY DEF AtOwing, At, Retiring, WithJournal
  <1>4. AtBuilding'
    BY DEF AtBuilding, Retiring, Build
  <1>5. AtWork'
    BY DEF AtWork, At, Retiring
  <1>6. AtOutput'
    BY DEF AtOutput, At, Retiring, Published
  <1>7. AtUndoing'
    BY DEF AtUndoing, At, Retiring, OutputGone, Finals, PublicDirectories
  <1>8. AtCommit'
    BY DEF AtCommit, At, Retiring, WithJournal
  <1>9. RefusesOnlyCutShort'
    BY DEF RefusesOnlyCutShort, NotAnchored, CutShort
  <1>10. ReturnsAlone'
    BY DEF ReturnsAlone
  <1> QED BY <1>1, <1>2, <1>3, <1>4, <1>5, <1>6, <1>7, <1>8, <1>9, <1>10

LEMMA RollbackTidies == ASSUME ShownInv, ShownInv', TidyInv, Rollback PROVE TidyInv'
  <1>z. fs' = fs /\ trash' = trash /\ jrn' = jrn /\ anc' = anc /\ intent' = intent /\ debt' = debt
    BY DEF Rollback, Resume
  <1> USE <1>z
         DEF ShownInv, TidyInv, Disk, Places, OutputDisk, WorkDisk, Rollback, AnchorKinds, Retire,
             Resume, Rename, AnchoredWrite, Private, Retired, Due, RecordPhase, AfterRemoval,
             Recovering, ManifestSettled
  <1>1. Disk'
    BY DiskFrame
  <1>2. AtRetired'
    BY DEF AtRetired, Retiring
  <1>3. AtOwing'
    BY DEF AtOwing, At, Retiring, WithJournal
  <1>4. AtBuilding'
    BY DEF AtBuilding, Retiring, Build
  <1>5. AtWork'
    BY DEF AtWork, At, Retiring
  <1>6. AtOutput'
    BY DEF AtOutput, At, Retiring, Published
  <1>7. AtUndoing'
    BY DEF AtUndoing, At, Retiring, DirectoriesHold
  <1>8. AtCommit'
    BY DEF AtCommit, At, Retiring, WithJournal
  <1>9. RefusesOnlyCutShort'
    <2>1. PrefixHolds
      BY DEF PrefixHolds, ShardsKnown, AtUndoing, At, Retiring
    <2> QED BY <2>1 DEF RefusesOnlyCutShort, NotAnchored, CutShort
  <1>10. ReturnsAlone'
    BY DEF ReturnsAlone
  <1> QED BY <1>1, <1>2, <1>3, <1>4, <1>5, <1>6, <1>7, <1>8, <1>9, <1>10

LEMMA UnpublishTidies == ASSUME ShownInv, ShownInv', TidyInv, Unpublish PROVE TidyInv'
  <1>0. jrn \in Journals /\ Journal \in fs /\ debt.kind # "journal"
    BY InJournal DEF Unpublish, Build, At, Retiring, WithJournal
  <1>p. /\ pc = "unpublish" /\ jrn # NoJournal /\ jrn.state = "publishing" /\ Manifest \notin fs
             /\ mode # "build"
        /\ debt = NoDebt /\ debt.kind = "none" /\ (intent.kind = "none" <=> intent = NoDebt)
        /\ jrn.making = "initializing" => Staging \notin fs
    BY <1>0, JournalThere, OwedEntries
       DEF Unpublish, ShownInv, RollsBackUnseen, LabelsFit, LabelsOf, Ended, TidyInv, Disk,
           AnchorOwes, Places, AtOwing, AtUndoing, At, Retiring, WithJournal
  <1>y. jrn.made \in Nat /\ Len(jrn.unmade) \in Nat /\ HasCandidate \in {0, 1}
          /\ (HasCandidate = 1 <=> jrn.making = "staged")
    BY <1>0, JournalThere DEF HasCandidate
  <1>z. Len(jrn.unmade) < HasCandidate + jrn.made =>
          /\ jrn.made + 1 + HasCandidate - (Len(jrn.unmade) + 1) = jrn.made + HasCandidate - Len(jrn.unmade)
          /\ jrn.made + HasCandidate - Len(jrn.unmade) # 0
          /\ Len(jrn.unmade) + 1 \in 1..(HasCandidate + jrn.made)
               /\ (Len(jrn.unmade) + 1 = 1 <=> Len(jrn.unmade) = 0)
    BY <1>y, NextIndex
  <1>l. Published # {} =>
          \E last \in Published : /\ last = (CHOOSE i \in Published : \A j \in Published : j <= i)
                                /\ last \in Shard /\ last \in 0..Shards /\ last # 0
                                     /\ \A j \in Published : j <= last
    <2>1. Published \in SUBSET (0..Shards) /\ Published \subseteq Shard /\ Shards \in Nat
            /\ 0 \notin Shard
      BY DEF Published, Shard
    <2> QED BY <2>1, Greatest
  <1>b. \A last \in 0..Shards :
          LET k == [jrn EXCEPT !.undo = last] IN
          /\ k # NoJournal /\ k.undo = last /\ k.state = jrn.state /\ k.inventory = jrn.inventory
               /\ k.removed = jrn.removed /\ k.prefix = jrn.prefix
          /\ k.made = jrn.made /\ k.making = jrn.making /\ k.undone = jrn.undone
               /\ k.unmade = jrn.unmade
    <2> TAKE last \in 0..Shards
    <2>1. [jrn EXCEPT !.undo = last] \in Journals   BY <1>0, UndoEdited
    <2> QED BY <1>0, <2>1, JournalThere DEF Journals
  <1>k. fs' = fs /\ trash' = trash /\ anc' = anc /\ debt' = debt /\ mode' = mode
          /\ refusal' = refusal
    BY DEF Unpublish, Resume, Retire, AnchorKinds, Anchored
  <1>g. \/ /\ jrn' = jrn /\ intent' = intent /\ intent # NoDebt /\ pc' = "retire"
                /\ back' = "unpublish"
        \/ /\ intent = NoDebt /\ pc' = "retire" /\ back' = "unpublish"
           /\ \E last \in Published :
                /\ jrn' = [jrn EXCEPT !.undo = last] /\ last \in 0..Shards /\ last # 0
                     /\ \A j \in Published : j <= last
                /\ intent' = [kind |-> "shard", entry |-> Final(last), phase |-> "intended"]
        \/ /\ intent = NoDebt /\ pc' = "retire" /\ back' = "unpublish" /\ jrn' = jrn
                /\ Published = {}
           /\ Len(jrn.unmade) < Len(MadeDirectories)
           /\ intent' = [kind |-> "directory", entry |-> MadeDirectories[Len(jrn.unmade) + 1],
                phase |-> "intended"]
        \/ /\ intent = NoDebt /\ jrn' = jrn /\ intent' = intent /\ Published = {}
           /\ ~ (Len(jrn.unmade) < Len(MadeDirectories))
           /\ pc' = IF mode = "handle" THEN "prepare" ELSE "cleanup"
    BY <1>l DEF Unpublish, Resume, Retire, AnchorKinds, Anchored
  <1>h. /\ jrn' # NoJournal /\ jrn'.state = jrn.state /\ jrn'.inventory = jrn.inventory
             /\ jrn'.removed = jrn.removed /\ jrn'.prefix = jrn.prefix /\ jrn'.made = jrn.made
             /\ jrn'.making = jrn.making /\ jrn'.undone = jrn.undone /\ jrn'.unmade = jrn.unmade
    <2>1. CASE jrn' = jrn   BY <2>1, <1>p
    <2>2. CASE \E last \in 0..Shards : jrn' = [jrn EXCEPT !.undo = last]
      <3>1. PICK last \in 0..Shards : jrn' = [jrn EXCEPT !.undo = last]   BY <2>2
      <3> QED BY <3>1, <1>b
    <2> QED BY <2>1, <2>2, <1>g
  <1>q. /\ intent'.kind = intent.kind \/ intent'.kind \in {"shard", "directory"}
        /\ intent = NoDebt => trash = {}
    BY <1>g, <1>p, NothingTrashed DEF ShownInv, TidyInv, Disk
  <1> USE <1>0, <1>p, <1>y, <1>z, <1>l, <1>b, <1>k, <1>g, <1>h, <1>q
         DEF ShownInv, TidyInv, Disk, Places, OutputDisk, WorkDisk
  <1>1. Trashed'
    BY DEF Trashed
  <1>2. AnchorOwes'
    BY DEF AnchorOwes
  <1>3. PrivateFiles'
    BY DEF PrivateFiles
  <1>4. OutputDisk'
    <2>1. CASE intent # NoDebt
      BY <2>1, OutputFrame DEF OutputKept, OutputRecordKept, IntentKept
    <2>2. CASE intent = NoDebt
      <3>1. OutputWhole' /\ Fresh'   BY DEF OutputWhole, OutputGone, Fresh
      <3>2. HasCandidate' = HasCandidate /\ Published' = Published   BY DEF HasCandidate, Published
      <3>3. intent'.kind # "directory" => DirectoriesKnown'
        BY <3>2 DEF DirectoriesKnown
      <3>4. CASE \E last \in Published :
                /\ jrn' = [jrn EXCEPT !.undo = last] /\ last \in 0..Shards /\ last # 0
                     /\ \A j \in Published : j <= last
                /\ intent' = [kind |-> "shard", entry |-> Final(last), phase |-> "intended"]
        <4>1. PICK last \in Published :
                /\ jrn' = [jrn EXCEPT !.undo = last] /\ last \in 0..Shards /\ last # 0
                     /\ \A j \in Published : j <= last
                /\ intent' = [kind |-> "shard", entry |-> Final(last), phase |-> "intended"]
          BY <3>4
        <4>2. jrn'.undo = last   BY <4>1, <1>b
        <4>3. ShardsKnown'   BY <4>1, <4>2, <3>2 DEF ShardsKnown
        <4> QED BY <3>1, <3>3, <4>1, <4>3
      <3>5. CASE /\ jrn' = jrn /\ Published = {} /\ Len(jrn.unmade) < Len(MadeDirectories)
                 /\ intent' = [kind |-> "directory", entry |-> MadeDirectories[Len(jrn.unmade) + 1],
                      phase |-> "intended"]
        <4>1. ShardsKnown'   BY <3>2, <3>5 DEF ShardsKnown
        <4>2. DirectoriesKnown'
          <5>1. PICK e : e = MadeDirectories[Len(jrn.unmade) + 1]   OBVIOUS
          <5>2. /\ Len(jrn.unmade) < HasCandidate + jrn.made
                /\ e = IF HasCandidate = 1 /\ Len(jrn.unmade) = 0 THEN Candidate
                       ELSE Directory(jrn.made + 1 + HasCandidate - (Len(jrn.unmade) + 1))
            <6>1. Len(jrn.unmade) < HasCandidate + jrn.made   BY <1>0, <3>5, MadeFacts
            <6>2. Len(jrn.unmade) + 1 \in 1..(HasCandidate + jrn.made)
                    /\ (Len(jrn.unmade) + 1 = 1 <=> Len(jrn.unmade) = 0)
              BY <1>z, <6>1
            <6> QED BY <1>0, <5>1, <6>1, <6>2, MadeFacts
          <5>3. jrn.made + 1 + HasCandidate - (Len(jrn.unmade) + 1) = jrn.made + HasCandidate - Len(jrn.unmade)
            BY <1>z, <5>2
          <5>4. jrn.made + HasCandidate - Len(jrn.unmade) # 0   BY <1>z, <5>2
          <5>5. Candidate \in {Staging, Directory(jrn.made + 1)}   BY DEF Candidate
          <5>6. /\ Staging \in fs => Len(jrn.unmade) = 0 /\ jrn.making = "staged"
                /\ \A k \in 1..Directories : Directory(k) \in fs => k <= jrn.made
                     \/ (jrn.making = "staged" /\ Staging \notin fs)
            BY DEF DirectoriesKnown, OutputWhole, ShownInv, DiskTypeOK, Journals
          <5>7. HasCandidate = 1 /\ Len(jrn.unmade) = 0 => (Candidate = Staging <=> Staging \in fs)
            <6>1. intent.entry # Staging   BY <2>2
            <6>2. Len(jrn.unmade) = 0 => DOMAIN jrn.unmade = {}   BY <1>0, JournalThere
            <6>3. Staging # Directory(jrn.made + 1)   BY <1>y
            <6> QED BY <6>1, <6>2, <6>3 DEF Candidate
          <5>8. e = Staging => HasCandidate = 1 /\ Len(jrn.unmade) = 0 /\ Staging \in fs
            BY <5>2, <5>3, <5>4, <5>7
          <5>9. Staging \in fs => e = Staging   BY <5>2, <5>6, <5>7, <1>y
          <5>10. Staging \in fs => Directory(jrn.made + 1) \notin fs
            <6>1. jrn.making = "staged" => jrn.made + 1 \in 1..Directories
                    /\ ~ (jrn.made + 1 <= jrn.made)
              BY <1>0, JournalThere DEF StateFits
            <6> QED BY <6>1, <5>6
          <5>11. intent'.kind = "directory" /\ intent'.entry = e   BY <3>5, <5>1
          <5>12. \A k \in 1..Directories : Directory(k) \in fs' =>
                  /\ k < HasCandidate' + jrn'.made + 1 - Len(jrn'.unmade)
                  /\ k <= jrn'.made \/ (jrn'.making = "staged" /\ Staging \notin fs')
            BY <3>2, <3>5 DEF DirectoriesKnown
          <5> HIDE DEF HasCandidate
          <5> QED BY <5>2, <5>3, <5>5, <5>6, <5>8, <5>9, <5>10, <5>11, <5>12, <3>2, <3>5
                     DEF DirectoriesKnown
        <4> QED BY <3>1, <4>1, <4>2
      <3>6. CASE jrn' = jrn /\ intent' = intent
        BY <3>6, OutputFrame DEF OutputKept, OutputRecordKept, IntentKept
      <3> QED BY <1>g, <2>2, <3>4, <3>5, <3>6
    <2> QED BY <2>1, <2>2
  <1>5. WorkDisk'
    <2>1. Inventory' = Inventory /\ Expected' = Expected   BY DEF Inventory, Expected
    <2>2. ProgressHolds => ProgressHolds'
      <3>1. CASE intent # NoDebt   BY <3>1, <2>1 DEF ProgressHolds
      <3>2. CASE intent = NoDebt   BY <3>2, <2>1 DEF ProgressHolds
      <3> QED BY <3>1, <3>2
    <2>3. CASE intent # NoDebt
      BY <2>1, <2>2, <2>3 DEF WorkDisk, JournalOwes, WorkHolds, InventoryKnown
    <2>4. CASE intent = NoDebt
      BY <2>1, <2>2, <2>4 DEF WorkDisk, JournalOwes, WorkHolds, InventoryKnown
    <2> QED BY <2>3, <2>4
  <1>6. AtRetired'
    BY DEF AtRetired, Retiring
  <1>7. AtOwing'
    BY DEF AtOwing, At, Retiring, WithJournal
  <1>8. AtBuilding'
    BY DEF AtBuilding, Retiring, Build
  <1>9. AtWork'
    BY DEF AtWork, At, Retiring
  <1>10. AtOutput'
    BY DEF AtOutput, At, Retiring, Published
  <1>11. AtUndoing'
    <2>1. CASE pc' = "retire"   BY <2>1 DEF AtUndoing, At, Retiring
    <2>2. CASE pc' # "retire"
      <3>1. intent = NoDebt /\ Published = {} /\ Len(MadeDirectories) <= Len(jrn.unmade)
        BY <1>0, <1>g, <1>y, <2>2, MadeFacts
      <3>2. HasCandidate + jrn.made <= Len(jrn.unmade)   BY <1>0, <3>1, MadeFacts
      <3>3. \A k \in 1..Directories : Directory(k) \notin fs
        <4> SUFFICES ASSUME NEW k \in 1..Directories, Directory(k) \in fs PROVE FALSE   OBVIOUS
        <4>1. k < HasCandidate + jrn.made + 1 - Len(jrn.unmade) /\ k \in Nat /\ k # 0
          BY DEF DirectoriesKnown
        <4> QED BY <1>y, <3>2, <4>1, NoneLeft
      <3>4. Staging \notin fs
        <4>1. Staging \in fs => Len(jrn.unmade) = 0 /\ jrn.making = "staged"
          BY DEF DirectoriesKnown, OutputWhole, ShownInv, DiskTypeOK, Journals
        <4> QED BY <1>y, <3>2, <4>1
      <3>5. OutputGone
        <4>1. \A k \in 0..Directories : k = 0 \/ k \in 1..Directories   OBVIOUS
        <4> QED BY <3>1, <3>3, <3>4, <4>1 DEF OutputGone, Published, Finals, PublicDirectories
      <3>6. OutputGone'   BY <3>5 DEF OutputGone
      <3>7. pc' \in {"prepare", "cleanup"}   BY <1>g, <2>2
      <3> QED BY <3>6, <3>7 DEF AtUndoing, At, Retiring
    <2> QED BY <2>1, <2>2
  <1>12. AtCommit'
    BY DEF AtCommit, At, Retiring, WithJournal
  <1>13. RefusesOnlyCutShort'
    BY DEF RefusesOnlyCutShort, NotAnchored, CutShort
  <1>14. ReturnsAlone'
    BY DEF ReturnsAlone
  <1> QED BY <1>1, <1>2, <1>3, <1>4, <1>5, <1>6, <1>7, <1>8, <1>9, <1>10, <1>11, <1>12, <1>13, <1>14

LEMMA MarkRolledBackTidies == ASSUME ShownInv, ShownInv', TidyInv, MarkRolledBack PROVE TidyInv'
  <1>0. jrn \in Journals /\ Journal \in fs /\ debt.kind # "journal"
    BY InJournal DEF MarkRolledBack, Build, At, Retiring, WithJournal
  <1>p. /\ pc = "mark" /\ jrn # NoJournal /\ jrn.state = "publishing"
             /\ mode \in {"recover", "handle"} /\ debt = NoDebt /\ intent = NoDebt
        /\ debt.kind = "none" /\ intent.kind = "none" /\ Work \notin fs /\ OutputGone
    BY <1>0, JournalThere
       DEF MarkRolledBack, ShownInv, DiskTypeOK, LabelsFit, LabelsOf, Ended, StateFits, TidyInv, Places,
           AtOwing, AtWork, AtUndoing, At, Retiring
  <1>e. LET k == [jrn EXCEPT !.state = "rolled_back"] IN
        /\ k \in Journals /\ k # NoJournal
        /\ k.state = "rolled_back" /\ k.inventory = jrn.inventory /\ k.removed = jrn.removed
             /\ k.prefix = jrn.prefix /\ k.made = jrn.made /\ k.making = jrn.making
             /\ k.undone = jrn.undone /\ k.undo = jrn.undo /\ k.unmade = jrn.unmade
    BY <1>0, StateEdited DEF JournalStates
  <1>g. /\ fs' = fs /\ trash' = trash /\ anc' = anc /\ debt' = debt /\ intent' = intent
             /\ mode' = mode /\ refusal' = refusal /\ pc' = "remove"
        /\ jrn' # NoJournal /\ jrn'.state = "rolled_back" /\ jrn'.inventory = jrn.inventory
             /\ jrn'.removed = jrn.removed /\ jrn'.prefix = jrn.prefix /\ jrn'.made = jrn.made
             /\ jrn'.making = jrn.making /\ jrn'.undone = jrn.undone /\ jrn'.undo = jrn.undo
             /\ jrn'.unmade = jrn.unmade
    BY <1>e DEF MarkRolledBack
  <1>m. Manifest \notin fs /\ Staging \notin fs
    <2>1. Published = {}   BY <1>p, EntriesApart DEF OutputGone, Published
    <2>2. Shard # {}   BY DEF Shard
    <2>3. Manifest \notin fs   BY <2>1, <2>2 DEF ShownInv, Shows
    <2> QED BY <2>3, <1>p, EntriesApart DEF OutputGone
  <1> USE <1>0, <1>p, <1>e, <1>g, <1>m DEF ShownInv, TidyInv, Disk, Places, OutputDisk, WorkDisk
  <1>1. Trashed'
    BY DEF Trashed
  <1>2. AnchorOwes'
    BY DEF AnchorOwes, CommitHolds, Published
  <1>3. PrivateFiles'
    BY DEF PrivateFiles
  <1>4. OutputDisk'
    <2>1. Fresh'   BY DEF Fresh
    <2>2. OutputKept   BY DEF OutputKept
    <2>3. anc'.manifest \notin {"published", "committed"}   BY DEF OutputWhole
    <2> QED BY <2>1, <2>2, <2>3, OutputSettled
  <1>5. WorkDisk'
    <2>1. Inventory' = Inventory   BY DEF Inventory
    <2> QED BY <2>1 DEF WorkDisk, JournalOwes, WorkHolds, InventoryKnown
  <1>6. AtRetired'
    BY DEF AtRetired, Retiring
  <1>7. AtOwing'
    BY DEF AtOwing, At, Retiring, WithJournal
  <1>8. AtBuilding'
    BY DEF AtBuilding, Retiring, Build
  <1>9. AtWork'
    BY DEF AtWork, At, Retiring
  <1>10. AtOutput'
    BY DEF AtOutput, At, Retiring, Published
  <1>11. AtUndoing'
    BY DEF AtUndoing, At, Retiring, OutputGone, Finals, PublicDirectories
  <1>12. AtCommit'
    BY DEF AtCommit, At, Retiring, WithJournal
  <1>13. RefusesOnlyCutShort'
    BY DEF RefusesOnlyCutShort, NotAnchored, CutShort
  <1>14. ReturnsAlone'
    BY DEF ReturnsAlone
  <1> QED BY <1>1, <1>2, <1>3, <1>4, <1>5, <1>6, <1>7, <1>8, <1>9, <1>10, <1>11, <1>12, <1>13, <1>14

LEMMA RemoveTransactionTidies == ASSUME ShownInv, ShownInv', TidyInv,
  RemoveTransaction PROVE TidyInv'
  <1>c. anc \in AnchorPhases
    BY DEF ShownInv, DiskTypeOK
  <1>0. jrn \in Journals /\ Journal \in fs /\ debt.kind # "journal"
    BY InJournal DEF RemoveTransaction, Build, At, Retiring, WithJournal
  <1>p. /\ pc = "remove" /\ jrn # NoJournal /\ debt = NoDebt /\ debt.kind = "none"
             /\ intent.kind \in {"none", "work"} /\ Work \notin fs
        /\ intent.kind = "none" <=> intent = NoDebt
    BY <1>0, JournalThere, OwedEntries
       DEF RemoveTransaction, ShownInv, TidyInv, Places, AtOwing, AtWork
  <1>k. mode = "recover" => CommitHolds
    BY <1>p
       DEF CommitHolds, ShownInv, Shows, ManifestKnown, TidyInv, Disk, OutputDisk, OutputWhole,
           Places, AtCommit, At, Retiring, WithJournal, DiskTypeOK, AnchorPhases
  <1>v. AfterRemoval # "cleaned"
          /\ AfterRemoval \notin WithJournal \cup {"handle", "rollback", "recover"}
    BY DEF AfterRemoval, WithJournal
  <1>g. /\ fs' = fs /\ trash' = trash /\ jrn' = jrn /\ intent' = intent /\ mode' = mode
             /\ refusal' = refusal
        /\ anc'.temporary = anc.temporary /\ anc'.owner = anc.owner /\ (anc'.journal # "none"
             \/ anc'.journal = anc.journal)
        /\ (anc'.manifest = anc.manifest \/ (anc.manifest = "published"
             /\ anc'.manifest = "committed"))
        /\ \/ pc' = "down" /\ debt' = debt /\ mode # "recover"
           \/ pc' = "remove" /\ debt' = debt /\ CommitHolds
           \/ pc' = "retire" /\ back' = AfterRemoval /\ CommitHolds /\ anc'.manifest = anc.manifest
                /\ debt' = [kind |-> "journal", entry |-> Journal, phase |-> "intended"]
    BY <1>c, <1>k, <1>p DEF RemoveTransaction, Retire, AnchorKinds, AnchorPhases
  <1> USE <1>c, <1>0, <1>p, <1>k, <1>v, <1>g
         DEF ShownInv, TidyInv, Disk, Places, OutputDisk, WorkDisk
  <1>1. Trashed'
    <2>1. Nothing \notin trash
      <3>1. Nothing \notin Entry   BY DEF Entry, Inventoried, Finals, PublicDirectories
      <3> QED BY <3>1 DEF DiskTypeOK
    <2> QED BY <2>1 DEF Trashed
  <1>2. AnchorOwes'
    <2>1. CommitHolds /\ anc'.manifest = anc.manifest => CommitHolds'
      BY DEF CommitHolds, Published
    <2> QED BY <2>1 DEF AnchorOwes
  <1>3. PrivateFiles'
    BY DEF PrivateFiles
  <1>4. OutputDisk'
    BY OutputFrame DEF OutputKept, OutputRecordKept, IntentKept
  <1>5. WorkDisk'
    BY WorkFrame DEF WorkKept, WorkRecordKept, IntentKept
  <1>6. AtRetired'
    BY DEF AtRetired, Retiring
  <1>7. AtOwing'
    BY DEF AtOwing, At, Retiring, WithJournal
  <1>8. AtBuilding'
    BY DEF AtBuilding, Retiring, Build
  <1>9. AtWork'
    BY DEF AtWork, At, Retiring, WithJournal
  <1>10. AtOutput'
    BY DEF AtOutput, At, Retiring, Published, CommitHolds, WithJournal
  <1>11. AtUndoing'
    BY DEF AtUndoing, At, Retiring, WithJournal
  <1>12. AtCommit'
    BY DEF AtCommit, At, Retiring, WithJournal
  <1>13. RefusesOnlyCutShort'
    BY DEF RefusesOnlyCutShort, NotAnchored, CutShort
  <1>14. ReturnsAlone'
    BY DEF ReturnsAlone
  <1> QED BY <1>1, <1>2, <1>3, <1>4, <1>5, <1>6, <1>7, <1>8, <1>9, <1>10, <1>11, <1>12, <1>13, <1>14

LEMMA CompleteJournalRetirementTidies == ASSUME ShownInv, ShownInv', TidyInv,
  CompleteJournalRetirement PROVE TidyInv'
  <1>z. fs' = fs /\ trash' = trash /\ jrn' = jrn /\ anc' = anc /\ intent' = intent /\ debt' = debt
    BY DEF CompleteJournalRetirement, Resume
  <1> USE <1>z
         DEF ShownInv, TidyInv, Disk, Places, OutputDisk, WorkDisk, CompleteJournalRetirement,
             AnchorKinds, Retire, Resume, Rename, AnchoredWrite, Private, Retired, Due, RecordPhase,
             AfterRemoval, Recovering, ManifestSettled
  <1>1. Disk'
    BY DiskFrame
  <1>2. AtRetired'
    BY DEF AtRetired, Retiring
  <1>3. AtOwing'
    BY DEF AtOwing, At, Retiring, WithJournal
  <1>4. AtBuilding'
    BY DEF AtBuilding, Retiring, Build
  <1>5. AtWork'
    BY DEF AtWork, At, Retiring
  <1>6. AtOutput'
    BY DEF AtOutput, At, Retiring, Published
  <1>7. AtUndoing'
    BY DEF AtUndoing, At, Retiring, OutputGone, Finals, PublicDirectories
  <1>8. AtCommit'
    BY DEF AtCommit, At, Retiring, WithJournal
  <1>9. RefusesOnlyCutShort'
    BY DEF RefusesOnlyCutShort, AnchorOwes, JournalStands
  <1>10. ReturnsAlone'
    BY DEF ReturnsAlone
  <1> QED BY <1>1, <1>2, <1>3, <1>4, <1>5, <1>6, <1>7, <1>8, <1>9, <1>10

LEMMA RecoverManifestTidies == ASSUME ShownInv, ShownInv', TidyInv, RecoverManifest PROVE TidyInv'
  <1>c. anc \in AnchorPhases
    BY DEF ShownInv, DiskTypeOK
  <1>p. /\ pc \in {"recover", "handle"} /\ (pc = "recover" => mode = "recover") /\ (pc = "handle"
             => mode = "handle") /\ anc.journal # "retiring"
        /\ debt.kind # "journal" /\ back' \in {back, pc}
        /\ debt.kind = "none" <=> debt = NoDebt
        /\ debt.kind \in {"none", "temporary", "owner", "manifest", "journal"}
    BY OwedEntries
       DEF RecoverManifest, Recovering, Resume, Retire, ShownInv, JournalStands, DiskTypeOK, LabelsFit,
           LabelsOf, Ended
  <1>d. anc.manifest # "none" => debt.kind \in {"none", "manifest"}
          /\ jrn.state \in {"publishing", "rolled_back"}
    BY <1>p DEF ShownInv, ManifestKnown, TidyInv, Disk, AnchorOwes
  <1>g. /\ fs' = fs /\ trash' = trash /\ jrn' = jrn /\ intent' = intent /\ mode' = mode
        /\ anc'.temporary = anc.temporary /\ anc'.owner = anc.owner /\ anc'.journal = anc.journal
        /\ refusal' = refusal \/ refusal' \in NotAnchored
        /\ \/ pc' = "retire" /\ back' = pc /\ debt' = debt /\ anc' = anc
           \/ pc' = pc /\ debt' = debt /\ anc.manifest = "initializing" /\ Partial \notin fs
                /\ anc'.manifest = "none"
           \/ pc' = "refused" /\ debt' = debt /\ anc' = anc
           \/ pc' = "rollback" /\ mode = "handle" /\ debt' = debt /\ anc' = anc
                /\ anc.manifest # "none" /\ debt.kind # "manifest"
           \/ pc' = "retire" /\ back' = pc /\ debt.kind = "none" /\ anc' = anc
                /\ anc.manifest \in {"created", "active"}
                /\ debt' = [kind |-> "manifest", entry |-> Partial, phase |-> "intended"]
           \/ pc' = pc /\ debt' = debt /\ anc.manifest = "active" /\ Manifest \in fs
                /\ Partial \notin fs /\ anc'.manifest = "published"
    BY <1>c, <1>p, <1>d
       DEF RecoverManifest, Resume, Retire, AnchorKinds, Anchored, NotAnchored, AnchorPhases,
           Recovering
  <1> USE <1>c, <1>p, <1>d, <1>g DEF ShownInv, TidyInv, Disk, Places, OutputDisk, WorkDisk
  <1>1. Trashed'
    <2>1. Nothing \notin trash
      <3>1. Nothing \notin Entry   BY DEF Entry, Inventoried, Finals, PublicDirectories
      <3> QED BY <3>1 DEF DiskTypeOK
    <2> QED BY <2>1 DEF Trashed
  <1>2. AnchorOwes'
    BY DEF AnchorOwes
  <1>3. PrivateFiles'
    BY DEF PrivateFiles
  <1>4. OutputDisk'
    <2>1. anc.manifest = "active" /\ Manifest \in fs => jrn.state = "publishing"
      BY DEF OutputWhole
    <2>2. HasCandidate' = HasCandidate /\ Published' = Published   BY DEF HasCandidate, Published
    <2> QED BY <2>1, <2>2 DEF OutputWhole, OutputGone, Fresh, DirectoriesKnown, ShardsKnown
  <1>5. WorkDisk'
    BY WorkFrame DEF WorkKept, WorkRecordKept, IntentKept
  <1>6. AtRetired'
    BY DEF AtRetired, Retiring
  <1>7. AtOwing'
    BY DEF AtOwing, At, Retiring, WithJournal
  <1>8. AtBuilding'
    BY DEF AtBuilding, Retiring, Build
  <1>9. AtWork'
    BY DEF AtWork, At, Retiring
  <1>10. AtOutput'
    BY DEF AtOutput, At, Retiring, Published
  <1>11. AtUndoing'
    BY DEF AtUndoing, At, Retiring
  <1>12. AtCommit'
    BY DEF AtCommit, At, Retiring, WithJournal
  <1>13. RefusesOnlyCutShort'
    BY DEF RefusesOnlyCutShort, NotAnchored, CutShort
  <1>14. ReturnsAlone'
    BY DEF ReturnsAlone
  <1> QED BY <1>1, <1>2, <1>3, <1>4, <1>5, <1>6, <1>7, <1>8, <1>9, <1>10, <1>11, <1>12, <1>13, <1>14

LEMMA RecoverWithoutJournalTidies == ASSUME ShownInv, ShownInv', TidyInv,
  RecoverWithoutJournal PROVE TidyInv'
  <1>c. anc \in AnchorPhases
    BY DEF ShownInv, DiskTypeOK
  <1>p. /\ pc = "recover" /\ mode = "recover" /\ anc.journal # "retiring" /\ Journal \notin fs
        /\ debt.kind # "journal" /\ jrn = NoJournal /\ intent = NoDebt /\ jrn.state = "none"
        /\ debt.kind = "none" <=> debt = NoDebt
        /\ debt.kind \in {"none", "temporary", "owner", "manifest", "journal"}
    BY OwedEntries
       DEF RecoverWithoutJournal, Recovering, ShownInv, JournalStands, DiskTypeOK, LabelsFit, LabelsOf,
           Ended
  <1>d. anc.manifest = "none" /\ debt.kind \in {"none", "temporary"} /\ (debt.kind = "temporary"
          => anc.temporary # "none")
        /\ OwnerInit \notin fs
    BY <1>p DEF ShownInv, ManifestKnown, TidyInv, Disk, AnchorOwes, PrivateFiles
  <1>g. /\ fs' = fs /\ trash' = trash /\ jrn' = jrn /\ intent' = intent /\ mode' = mode
        /\ anc'.manifest = anc.manifest /\ (anc'.owner = anc.owner \/ anc'.owner = "none")
        /\ refusal' = refusal \/ refusal' \in NotAnchored
        /\ \/ pc' = "retire" /\ back' = "recover" /\ debt' = debt /\ anc' = anc
           \/ pc' = "recover" /\ debt' = debt /\ debt = NoDebt /\ Temporary \notin fs
           \/ pc' = "refused" /\ debt' = debt /\ anc' = anc
           \/ pc' = "retire" /\ back' = "recover" /\ debt = NoDebt /\ anc' = anc
                /\ anc.temporary \in {"created", "active"}
                /\ debt' = [kind |-> "temporary", entry |-> Temporary, phase |-> "intended"]
           \/ pc' = "begin" /\ debt' = debt /\ debt = NoDebt /\ anc.temporary = "none"
                /\ anc'.temporary = "none"
    BY <1>c, <1>p, <1>d
       DEF RecoverWithoutJournal, Resume, Retire, AnchorKinds, Anchored, NotAnchored, AnchorPhases,
           Recovering
  <1>h. intent.kind = "none"
    BY <1>p
  <1> USE <1>c, <1>p, <1>d, <1>g, <1>h DEF ShownInv, TidyInv, Disk, Places, OutputDisk, WorkDisk
  <1>1. Trashed'
    <2>1. Nothing \notin trash
      <3>1. Nothing \notin Entry   BY DEF Entry, Inventoried, Finals, PublicDirectories
      <3> QED BY <3>1 DEF DiskTypeOK
    <2> QED BY <2>1 DEF Trashed
  <1>2. AnchorOwes'
    BY DEF AnchorOwes
  <1>3. PrivateFiles'
    BY DEF PrivateFiles
  <1>4. OutputDisk'
    BY OutputFrame DEF OutputKept, OutputRecordKept, IntentKept
  <1>5. WorkDisk'
    BY WorkFrame DEF WorkKept, WorkRecordKept, IntentKept
  <1>6. AtRetired'
    BY DEF AtRetired, Retiring
  <1>7. AtOwing'
    BY DEF AtOwing, At, Retiring, WithJournal
  <1>8. AtBuilding'
    BY DEF AtBuilding, Retiring, Build
  <1>9. AtWork'
    BY DEF AtWork, At, Retiring
  <1>10. AtOutput'
    BY DEF AtOutput, At, Retiring, Published
  <1>11. AtUndoing'
    BY DEF AtUndoing, At, Retiring, OutputGone, Finals, PublicDirectories
  <1>12. AtCommit'
    BY DEF AtCommit, At, Retiring, WithJournal
  <1>13. RefusesOnlyCutShort'
    BY DEF RefusesOnlyCutShort, NotAnchored, CutShort
  <1>14. ReturnsAlone'
    BY DEF ReturnsAlone
  <1> QED BY <1>1, <1>2, <1>3, <1>4, <1>5, <1>6, <1>7, <1>8, <1>9, <1>10, <1>11, <1>12, <1>13, <1>14

LEMMA NormalizeAnchorTidies == ASSUME ShownInv, ShownInv', TidyInv, NormalizeAnchor PROVE TidyInv'
  <1>c. anc \in AnchorPhases
    BY DEF ShownInv, DiskTypeOK
  <1>p. /\ pc \in {"recover", "handle"} /\ (pc = "recover" => mode = "recover") /\ (pc = "handle"
             => mode = "handle") /\ anc.journal # "retiring" /\ Journal \in fs
        /\ debt.kind # "journal" /\ jrn # NoJournal
             /\ anc.manifest \in {"none", "published", "committed"}
        /\ debt.kind = "none" <=> debt = NoDebt
        /\ intent.kind = "none" <=> intent = NoDebt
        /\ debt.kind \in {"none", "temporary", "owner", "manifest", "journal"}
             /\ intent.kind \in {"none", "inventory", "work", "shard", "directory"}
    BY OwedEntries
       DEF NormalizeAnchor, Recovering, ManifestSettled, ShownInv, JournalStands, DiskTypeOK, LabelsFit,
           LabelsOf, Ended
  <1>d. /\ debt.kind \in {"none", "owner"} /\ (debt.kind = "owner"
             => jrn.state = "owner_initializing")
        /\ Temporary \notin fs /\ (OwnerInit \in fs => jrn.state = "owner_initializing")
        /\ anc.manifest # "none" => jrn.state = "publishing" /\ Work \notin fs
        /\ intent.kind = "inventory" => Work \in fs
        /\ mode = "handle" => jrn.state # "rolled_back"
             /\ intent.kind \in {"none", "inventory", "work"}
    BY <1>p
       DEF ShownInv, ManifestKnown, TidyInv, Disk, AnchorOwes, PrivateFiles, WorkDisk, WorkHolds,
           OutputDisk, OutputWhole, JournalOwes, Places, AtUndoing, AtOwing, At, Retiring
  <1>g. /\ fs' = fs /\ trash' = trash /\ jrn' = jrn /\ intent' = intent /\ debt' = debt
             /\ mode' = mode /\ refusal' = refusal
        /\ anc'.manifest = anc.manifest /\ anc'.journal = "active" /\ anc'.temporary = "none"
        /\ anc'.owner = IF jrn.state \in {"building", "publishing"} THEN "none" ELSE anc.owner
        /\ \/ pc' = "recovered" /\ mode = "recover"
           \/ pc' = "remove" /\ mode = "handle" /\ anc.manifest # "none"
           \/ pc' = "rollback" /\ mode = "handle" /\ jrn.state = "publishing"
           \/ pc' = "prepare" /\ mode = "handle" /\ jrn.state # "publishing"
    BY <1>c, <1>p, <1>d DEF NormalizeAnchor, Recovering, AnchorPhases
  <1> USE <1>c, <1>p, <1>d, <1>g DEF ShownInv, TidyInv, Disk, Places, OutputDisk, WorkDisk
  <1>1. Trashed'
    BY DEF Trashed
  <1>2. AnchorOwes'
    BY DEF AnchorOwes, CommitHolds, Published
  <1>3. PrivateFiles'
    BY DEF PrivateFiles
  <1>4. OutputDisk'
    BY OutputFrame DEF OutputKept, OutputRecordKept, IntentKept
  <1>5. WorkDisk'
    BY WorkFrame DEF WorkKept, WorkRecordKept, IntentKept
  <1>6. AtRetired'
    BY DEF AtRetired, Retiring
  <1>7. AtOwing'
    BY DEF AtOwing, At, Retiring, WithJournal
  <1>8. AtBuilding'
    BY DEF AtBuilding, Retiring, Build
  <1>9. AtWork'
    BY DEF AtWork, At, Retiring
  <1>10. AtOutput'
    BY DEF AtOutput, At, Retiring, Published
  <1>11. AtUndoing'
    BY DEF AtUndoing, At, Retiring, OutputGone, Finals, PublicDirectories
  <1>12. AtCommit'
    BY DEF AtCommit, At, Retiring, WithJournal
  <1>13. RefusesOnlyCutShort'
    BY DEF RefusesOnlyCutShort, NotAnchored, CutShort
  <1>14. ReturnsAlone'
    BY DEF ReturnsAlone
  <1> QED BY <1>1, <1>2, <1>3, <1>4, <1>5, <1>6, <1>7, <1>8, <1>9, <1>10, <1>11, <1>12, <1>13, <1>14

LEMMA RecoverTransactionTidies == ASSUME ShownInv, ShownInv', TidyInv,
  RecoverTransaction PROVE TidyInv'
  <1>z. fs' = fs /\ trash' = trash /\ jrn' = jrn /\ anc' = anc /\ intent' = intent /\ debt' = debt
    BY DEF RecoverTransaction, Resume
  <1>t. /\ DebtsTyped
        /\ debt.kind = "none" <=> debt = NoDebt
        /\ intent.kind = "none" <=> intent = NoDebt
        /\ debt.kind \in AnchorKinds \cup {"none"} /\ intent.kind \in IntentKinds \cup {"none"}
    BY KindsTyped DEF ShownInv, DiskTypeOK, DebtsTyped
  <1>l. mode = "recover"
    BY DEF ShownInv, DiskTypeOK, LabelsFit, LabelsOf, Ended, RecoverTransaction
  <1> USE <1>z, <1>t, <1>l
         DEF ShownInv, TidyInv, Disk, Places, OutputDisk, WorkDisk, RecoverTransaction, AnchorKinds,
             Retire, Resume, Rename, AnchoredWrite, Private, Retired, Due, RecordPhase, AfterRemoval,
             Recovering, ManifestSettled
  <1>1. Disk'
    BY DiskFrame
  <1>2. AtRetired'
    BY DEF AtRetired, Retiring
  <1>3. AtOwing'
    BY DEF AtOwing, At, Retiring, WithJournal, AnchorOwes, JournalOwes, IntentKinds
  <1>4. AtBuilding'
    BY DEF AtBuilding, Retiring, Build
  <1>5. AtWork'
    BY DEF AtWork, At, Retiring
  <1>6. AtOutput'
    BY DEF AtOutput, At, Retiring, Published
  <1>7. AtUndoing'
    BY DEF AtUndoing, At, Retiring, OutputGone, Finals, PublicDirectories
  <1>8. AtCommit'
    BY DEF AtCommit, At, Retiring, WithJournal
  <1>9. RefusesOnlyCutShort'
    <2>1. Manifest \in fs => Published = Shard   BY DEF Shows
    <2>2. jrn.state # "publishing" /\ Manifest \notin fs => ~ OutputBegun
      <3>1. \A i \in Shard : Final(i) \in Finals   BY DEF Finals
      <3>2. \A k \in 2..Directories : Directory(k) \in PublicDirectories   BY DEF PublicDirectories
      <3> QED BY <3>1, <3>2 DEF OutputBegun, Published, OutputWhole, OutputGone
    <2> QED BY <2>1, <2>2 DEF RefusesOnlyCutShort, CutShort
  <1>10. ReturnsAlone'
    BY DEF ReturnsAlone
  <1> QED BY <1>1, <1>2, <1>3, <1>4, <1>5, <1>6, <1>7, <1>8, <1>9, <1>10

LEMMA CallTidies == ASSUME ShownInv, ShownInv', TidyInv, Call PROVE TidyInv'
  <1>z. fs' = fs /\ trash' = trash /\ jrn' = jrn /\ anc' = anc /\ intent' = intent /\ debt' = debt
    BY DEF Call, Resume
  <1> USE <1>z
         DEF ShownInv, TidyInv, Disk, Places, OutputDisk, WorkDisk, Call, AnchorKinds, Retire,
             Resume, Rename, AnchoredWrite, Private, Retired, Due, RecordPhase, AfterRemoval,
             Recovering, ManifestSettled
  <1>1. Disk'
    BY DiskFrame
  <1>2. AtRetired'
    BY DEF AtRetired, Retiring
  <1>3. AtOwing'
    BY DEF AtOwing, At, Retiring, WithJournal
  <1>4. AtBuilding'
    BY DEF AtBuilding, Retiring, Build
  <1>5. AtWork'
    BY DEF AtWork, At, Retiring
  <1>6. AtOutput'
    BY DEF AtOutput, At, Retiring, Published
  <1>7. AtUndoing'
    BY DEF AtUndoing, At, Retiring, OutputGone, Finals, PublicDirectories
  <1>8. AtCommit'
    BY DEF AtCommit, At, Retiring, WithJournal
  <1>9. RefusesOnlyCutShort'
    BY DEF RefusesOnlyCutShort, NotAnchored, CutShort
  <1>10. ReturnsAlone'
    BY DEF ReturnsAlone
  <1> QED BY <1>1, <1>2, <1>3, <1>4, <1>5, <1>6, <1>7, <1>8, <1>9, <1>10

LEMMA ReturnTidies == ASSUME ShownInv, ShownInv', TidyInv, Return PROVE TidyInv'
  <1>z. fs' = fs /\ trash' = trash /\ jrn' = jrn /\ anc' = anc /\ intent' = intent /\ debt' = debt
    BY DEF Return, Resume
  <1> USE <1>z
         DEF ShownInv, TidyInv, Disk, Places, OutputDisk, WorkDisk, Return, AnchorKinds, Retire,
             Resume, Rename, AnchoredWrite, Private, Retired, Due, RecordPhase, AfterRemoval,
             Recovering, ManifestSettled
  <1>1. Disk'
    BY DiskFrame
  <1>2. AtRetired'
    BY DEF AtRetired, Retiring
  <1>3. AtOwing'
    BY DEF AtOwing, At, Retiring, WithJournal
  <1>4. AtBuilding'
    BY DEF AtBuilding, Retiring, Build
  <1>5. AtWork'
    BY DEF AtWork, At, Retiring
  <1>6. AtOutput'
    BY DEF AtOutput, At, Retiring, Published
  <1>7. AtUndoing'
    BY DEF AtUndoing, At, Retiring, OutputGone, Finals, PublicDirectories
  <1>8. AtCommit'
    BY DEF AtCommit, At, Retiring, WithJournal
  <1>9. RefusesOnlyCutShort'
    BY DEF RefusesOnlyCutShort, NotAnchored, CutShort
  <1>10. ReturnsAlone'
    <2>1. OutputAlone   BY DoneClean
    <2>2. OutputAlone'   BY <2>1 DEF OutputAlone
    <2> QED BY <2>2 DEF ReturnsAlone
  <1> QED BY <1>1, <1>2, <1>3, <1>4, <1>5, <1>6, <1>7, <1>8, <1>9, <1>10

LEMMA CrashTidies == ASSUME ShownInv, ShownInv', TidyInv, Crash PROVE TidyInv'
  <1>z. fs' = fs /\ trash' = trash /\ jrn' = jrn /\ anc' = anc /\ intent' = intent /\ debt' = debt
    BY DEF Crash, Resume
  <1> USE <1>z
         DEF ShownInv, TidyInv, Disk, Places, OutputDisk, WorkDisk, Crash, AnchorKinds, Retire,
             Resume, Rename, AnchoredWrite, Private, Retired, Due, RecordPhase, AfterRemoval,
             Recovering, ManifestSettled
  <1>1. Disk'
    BY DiskFrame
  <1>2. AtRetired'
    BY DEF AtRetired, Retiring
  <1>3. AtOwing'
    BY DEF AtOwing, At, Retiring, WithJournal
  <1>4. AtBuilding'
    BY DEF AtBuilding, Retiring, Build
  <1>5. AtWork'
    BY DEF AtWork, At, Retiring
  <1>6. AtOutput'
    BY DEF AtOutput, At, Retiring, Published
  <1>7. AtUndoing'
    BY DEF AtUndoing, At, Retiring, OutputGone, Finals, PublicDirectories
  <1>8. AtCommit'
    BY DEF AtCommit, At, Retiring, WithJournal
  <1>9. RefusesOnlyCutShort'
    BY DEF RefusesOnlyCutShort, NotAnchored, CutShort
  <1>10. ReturnsAlone'
    BY DEF ReturnsAlone
  <1> QED BY <1>1, <1>2, <1>3, <1>4, <1>5, <1>6, <1>7, <1>8, <1>9, <1>10

LEMMA InterruptTidies == ASSUME ShownInv, ShownInv', TidyInv, Interrupt PROVE TidyInv'
  <1>z. fs' = fs /\ trash' = trash /\ jrn' = jrn /\ anc' = anc /\ intent' = intent /\ debt' = debt
    BY DEF Interrupt, Resume
  <1> USE <1>z
         DEF ShownInv, TidyInv, Disk, Places, OutputDisk, WorkDisk, Interrupt, AnchorKinds, Retire,
             Resume, Rename, AnchoredWrite, Private, Retired, Due, RecordPhase, AfterRemoval,
             Recovering, ManifestSettled
  <1>1. Disk'
    BY DiskFrame
  <1>2. AtRetired'
    BY DEF AtRetired, Retiring
  <1>3. AtOwing'
    BY DEF AtOwing, At, Retiring, WithJournal, AtBuilding
  <1>4. AtBuilding'
    BY DEF AtBuilding, Retiring, Build
  <1>5. AtWork'
    BY DEF AtWork, At, Retiring
  <1>6. AtOutput'
    BY DEF AtOutput, At, Retiring, Published
  <1>7. AtUndoing'
    BY DEF AtUndoing, At, Retiring, OutputGone, AtBuilding
  <1>8. AtCommit'
    BY DEF AtCommit, At, Retiring, WithJournal
  <1>9. RefusesOnlyCutShort'
    BY DEF RefusesOnlyCutShort, NotAnchored, CutShort
  <1>10. ReturnsAlone'
    BY DEF ReturnsAlone
  <1> QED BY <1>1, <1>2, <1>3, <1>4, <1>5, <1>6, <1>7, <1>8, <1>9, <1>10

(* Initially there is nothing on the disk and no call has been made.                *)
LEMMA TidyInit == Init => TidyInv
  <1> SUFFICES ASSUME Init PROVE TidyInv
    OBVIOUS
  <1>1. /\ jrn = NoJournal /\ jrn.state = "none" /\ debt = NoDebt /\ intent = NoDebt
        /\ debt.kind = "none" /\ intent.kind = "none" /\ debt.phase = "none"
             /\ intent.phase = "none"
    BY DEF Init
  <1> USE <1>1 DEF Init
  <1>2. Disk
    <2>1. Trashed /\ AnchorOwes /\ PrivateFiles
      BY DEF Trashed, AnchorOwes, PrivateFiles
    <2>2. OutputDisk
      BY DEF OutputDisk, OutputWhole, Fresh, OutputGone, DirectoriesKnown, ShardsKnown, Published
    <2>3. WorkDisk
      BY DEF WorkDisk, JournalOwes, WorkHolds, InventoryKnown, Inventory
    <2> QED BY <2>1, <2>2, <2>3 DEF Disk
  <1>3. Places
    <2>1. AtRetired /\ AtOwing /\ AtWork
      BY DEF AtRetired, Retiring, AtOwing, At, WithJournal, AtWork
    <2>2. AtBuilding /\ AtOutput
      BY DEF AtBuilding, Retiring, Build, AtOutput, At
    <2>3. AtUndoing /\ AtCommit
      BY DEF AtUndoing, AtCommit, At, Retiring, WithJournal
    <2> QED BY <2>1, <2>2, <2>3 DEF Places
  <1>4. RefusesOnlyCutShort /\ ReturnsAlone
    BY DEF RefusesOnlyCutShort, ReturnsAlone
  <1> QED BY <1>2, <1>3, <1>4 DEF TidyInv

(* Idling keeps the second invariant.                                               *)
LEMMA TidyStutter == ASSUME TidyInv, UNCHANGED vars PROVE TidyInv'
  <1> USE DEF TidyInv, vars
  <1>1. Disk'   BY DiskFrame
  <1>2. Places'
    <2>1. AtRetired' /\ AtOwing' /\ AtWork'
      BY DEF Places, AtRetired, Retiring, Due, AtOwing, At, WithJournal, AtWork
    <2>2. AtBuilding' /\ AtOutput'
      BY DEF Places, AtBuilding, Retiring, Build, AtOutput, At, Published
    <2>3. AtUndoing' /\ AtCommit'
      BY DEF Places, AtUndoing, AtCommit, At, Retiring, WithJournal, OutputGone
    <2> QED BY <2>1, <2>2, <2>3 DEF Places
  <1>3. RefusesOnlyCutShort'
    BY DEF RefusesOnlyCutShort, NotAnchored, CutShort
  <1>4. ReturnsAlone'
    BY DEF ReturnsAlone, OutputAlone
  <1> QED BY <1>1, <1>2, <1>3, <1>4

(* Every step keeps the second invariant.                                           *)
LEMMA NextTidies == ShownInv /\ ShownInv' /\ TidyInv /\ [Next]_vars => TidyInv'
  <1> SUFFICES ASSUME ShownInv, ShownInv', TidyInv, [Next]_vars PROVE TidyInv'
    OBVIOUS
  <1> USE BeginTidies, WriteTemporaryTidies, PublishJournalTidies, MakeWorkTidies,
         WriteOwnerMarkerTidies,
          StartBuildingTidies, WriteRunsTidies, StageShardTidies, BuiltTidies, MakeDirectoryTidies,
            PublishShardTidies,
          WriteManifestTidies, StartVerifyingTidies, MoveVerifyingTidies,
            EndVerifyingTidies, MoveToTrashTidies,
            RecordMoveTidies, UnlinkTidies,
          RecordGoneTidies, ResumeGoneTidies, RetireLostTidies, RefuseUnreadableTidies,
            FinishPrivateFileTidies,
          FinishInventoryEntryTidies, FinishWorkTidies, FinishShardTidies, FinishDirectoryTidies,
            FinishJournalTidies,
          PrepareCleanupTidies, CleanupOwnerTidies, CleanupWorkTidies, CleanedTidies,
            RollbackTidies, UnpublishTidies,
          MarkRolledBackTidies, RemoveTransactionTidies, CompleteJournalRetirementTidies,
            RecoverManifestTidies,
          RecoverWithoutJournalTidies, NormalizeAnchorTidies, RecoverTransactionTidies, CallTidies,
            ReturnTidies, CrashTidies,
          InterruptTidies
  <1>1. CASE Step   BY <1>1 DEF Step
  <1>2. CASE Stopped   BY <1>2, TidyStutter DEF Stopped
  <1>3. CASE UNCHANGED vars   BY <1>3, TidyStutter
  <1> QED BY <1>1, <1>2, <1>3 DEF Next

(* Whatever the crashes and exceptions, every entry of the output, the work         *)
(* directory and the trash is one that the journal, the anchor and the place of the *)
(* build account for.                                                               *)
THEOREM TidyInvHolds == Spec => []TidyInv
  <1>1. Init => TidyInv   BY TidyInit
  <1>2. ShownInv /\ ShownInv' /\ TidyInv /\ [Next]_vars => TidyInv'   BY NextTidies
  <1> QED BY <1>1, <1>2, ShownInvHolds, PTL DEF Spec

----------------------------------------------------------------------------------
(* THE TRASH OF THE VERIFICATIONS.  A directory stays in it for good only when a     *)
(* crash comes between the move and the removal.                                    *)
TrashCounted ==
    /\ discarded \in Nat
    /\ discarded <= crashes + (IF pc = "discard" THEN 1 ELSE 0)
    /\ pc = "discard" => discarded > 0

(* The steps that move a directory there, take it out or cut that short.            *)
Discarding == MoveVerifying \/ EndVerifying \/ Crash

(* The other steps neither start from where the removal is due nor lead there.      *)
LEMMA OthersDiscardNothing ==
  ASSUME ShownInv, TidyInv, Next, ~ Discarding
  PROVE  UNCHANGED <<discarded, crashes>> /\ (UNCHANGED pc \/ (pc # "discard" /\ pc' # "discard"))
  <1>0. mode = "build" /\ pc = "discard" => jrn = NoJournal
    BY DEF TidyInv, Places, AtOutput
  <1>1. pc \in {"retire", "retired"} => back # "discard"
    BY DEF ShownInv, LabelsFit, Retiring, BacksOf, DiskTypeOK
  <1> HIDE DEF disk
  <1>2. CASE Begin \/ WriteTemporary \/ PublishJournal \/ MakeWork \/ WriteOwnerMarker
           \/ StartBuilding \/ WriteRuns \/ StageShard \/ Built \/ MakeDirectory
           \/ PublishShard \/ WriteManifest \/ StartVerifying
    BY <1>2 DEF Begin, WriteTemporary, PublishJournal, MakeWork, WriteOwnerMarker,
       StartBuilding, WriteRuns, StageShard, Built, MakeDirectory, PublishShard, WriteManifest,
       StartVerifying
  <1>3. CASE MoveToTrash \/ RecordMove \/ Unlink \/ RecordGone \/ ResumeGone \/ RetireLost
           \/ RefuseUnreadable
    BY <1>3 DEF MoveToTrash, RecordMove, Unlink, RecordGone, ResumeGone, RetireLost,
       RefuseUnreadable
  <1>4. CASE FinishPrivateFile \/ FinishInventoryEntry \/ FinishWork \/ FinishShard
           \/ FinishDirectory \/ FinishJournal
    BY <1>1, <1>4 DEF FinishPrivateFile, FinishInventoryEntry, FinishWork, FinishShard,
       FinishDirectory, FinishJournal, Retired
  <1>5. CASE PrepareCleanup \/ CleanupOwner \/ CleanupWork \/ Cleaned
    BY <1>5 DEF PrepareCleanup, CleanupOwner, CleanupWork, Cleaned, Resume, Retire
  <1>6. CASE Rollback \/ Unpublish \/ MarkRolledBack \/ RemoveTransaction
    BY <1>6 DEF Rollback, Unpublish, MarkRolledBack, RemoveTransaction, Resume, Retire
  <1>7. CASE CompleteJournalRetirement \/ RecoverManifest
    BY <1>7 DEF CompleteJournalRetirement, RecoverManifest, Recovering, Resume, Retire
  <1>8. CASE RecoverWithoutJournal \/ NormalizeAnchor \/ RecoverTransaction
    BY <1>8 DEF RecoverWithoutJournal, NormalizeAnchor, RecoverTransaction, Recovering, Resume,
       Retire
  <1>9. CASE Call \/ Return \/ Interrupt \/ Stopped
    BY <1>0, <1>9 DEF Call, Return, Interrupt, Stopped, vars
  <1> QED BY <1>2, <1>3, <1>4, <1>5, <1>6, <1>7, <1>8, <1>9 DEF Next, Step, Discarding

LEMMA TrashCountedKeeps ==
  ASSUME ShownInv, TidyInv, TrashCounted, [Next]_vars
  PROVE  TrashCounted'
  <1>0. crashes \in Nat   BY DEF ShownInv, DiskTypeOK
  <1>1. CASE UNCHANGED vars   BY <1>1 DEF vars, TrashCounted
  <1>2. CASE MoveVerifying
    <2>1. pc = "verified" /\ pc' = "discard" /\ discarded' = discarded + 1 /\ crashes' = crashes
      BY <1>2 DEF MoveVerifying
    <2> QED BY <1>0, <2>1 DEF TrashCounted
  <1>3. CASE EndVerifying
    <2>1. pc = "discard" /\ pc' = "done" /\ discarded' = discarded - 1 /\ crashes' = crashes
      BY <1>3 DEF EndVerifying
    <2> QED BY <1>0, <2>1 DEF TrashCounted
  <1>4. CASE Crash
    <2>1. pc' = "down" /\ discarded' = discarded /\ crashes' = crashes + 1
      BY <1>4 DEF Crash
    <2> QED BY <1>0, <2>1 DEF TrashCounted
  <1>5. CASE Next /\ ~ Discarding
    BY <1>5, OthersDiscardNothing DEF TrashCounted
  <1> QED BY <1>1, <1>2, <1>3, <1>4, <1>5 DEF Discarding

(* However often the verifications are cut short, each crash leaves at most one     *)
(* directory in their trash (_cleanup_work).                                        *)
THEOREM TrashCountedHolds == Spec => []TrashCounted
  <1>1. Init => TrashCounted   BY DEF Init, TrashCounted
  <1> QED BY <1>1, TrashCountedKeeps, ShownInvHolds, TidyInvHolds, PTL DEF Spec

(* The variables of the transaction keep their types; in particular an entry is     *)
(* only ever retired under an intent of its kind (_retire_entry).                   *)
THEOREM TransactionTypeCorrect == Spec => []TypeOK
  <1>1. ShownInv /\ TrashCounted => TypeOK   BY DEF ShownInv, TrashCounted, TypeOK
  <1> QED BY <1>1, ShownInvHolds, TrashCountedHolds, PTL

(* Whatever was cut short before it, a call that returns leaves the complete output *)
(* and nothing else: no work directory, no journal, no private file, no trash, no   *)
(* open intent; but for the trash of the verifications, in which each crash has     *)
(* left one directory at most (write_parquet_shards, _remove_transaction,           *)
(* _cleanup_work).                                                                  *)
THEOREM ReturnsClean == Spec => []CleanReturn
  <1>1. ShownInv /\ TidyInv /\ TrashCounted => CleanReturn
    <2> SUFFICES ASSUME ShownInv, TidyInv, TrashCounted, pc = "idle", calls > 0
                 PROVE  OutputAlone /\ discarded <= crashes
      BY DEF CleanReturn
    <2>1. OutputAlone   BY DEF TidyInv, ReturnsAlone
    <2>2. crashes \in Nat   BY DEF ShownInv, DiskTypeOK
    <2>3. discarded \in Nat /\ discarded <= crashes + 0   BY DEF TrashCounted
    <2> QED BY <2>1, <2>2, <2>3
  <1> QED BY <1>1, ShownInvHolds, TidyInvHolds, TrashCountedHolds, PTL

(* Recovery refuses only an identity that is not anchored yet and the states of     *)
(* CutShort: none of its checks of the inventory, the owner marker, the published   *)
(* prefix or the manifest commit ever fails on what this code left behind           *)
(* (_recover_transaction).                                                          *)
THEOREM RefusesForCause == Spec => []RefusesOnlyCutShort
  <1>1. TidyInv => RefusesOnlyCutShort   BY DEF TidyInv
  <1> QED BY <1>1, TidyInvHolds, PTL
==================================================================================
