------------------------------ MODULE ShardJournal ------------------------------
(* How the shard builder saves its journal (src/bitguard_bnn/out_of_core/shard.py). *)
(* The journal file is rewritten in place, under a redo record in the anchor; the   *)
(* anchor is kept in two slots of the lock file, each with a generation and a       *)
(* checksum, of which the older one is overwritten.  Only the holder of the lock    *)
(* does any of this.                                                                *)
EXTENDS Integers

CONSTANTS Value,         \* what a journal can say
          None,          \* no value
          MaxSaves,      \* bounds on the saves and on the faults
          MaxFaults

ASSUME ValueAssumption == None \notin Value
ASSUME BoundAssumption == MaxSaves \in Nat /\ MaxFaults \in Nat

VARIABLES
    slots,      \* the two slots as processes see them
    journal,    \* the journal file as processes see it
    flushed,    \* both as a power loss leaves them
    doing,      \* what the process does next
    anchor,     \* the anchor being written
    saving,     \* the value being saved, until the save or the recovery from it ends
    saves, faults

files == <<slots, journal, flushed>>
journalVars == <<files, doing, anchor, saving, saves, faults>>
---------------------------------------------------------------------------------
Slot == {0, 1}
Other(i) == 1 - i

(* The anchor's journal entry: the accepted value and, while it is being replaced,  *)
(* the new one.                                                                     *)
Active(v) == [phase |-> "active", old |-> v, new |-> v]
Intended(v, w) == [phase |-> "replace_intended", old |-> v, new |-> w]
Started(a) == [a EXCEPT !.phase = "rewrite_started"]
Anchors == [phase : {"active", "replace_intended", "rewrite_started"}, old : Value, new : Value]

(* A slot whose checksum does not hold counts as generation 0.                      *)
Torn == [generation |-> 0, anchor |-> Active(None)]
Filled(n, a) == [generation |-> n, anchor |-> a]

(* The newest generation is read; two valid slots must follow each other.           *)
Newest(s) == IF s[0].generation > s[1].generation THEN 0 ELSE 1
LastAnchor(s) == s[Newest(s)].anchor
SlotsReadable(s) ==
    LET new == s[Newest(s)].generation
        old == s[Other(Newest(s))].generation
    IN new > 0 /\ (old = 0 \/ new = old + 1)

(* What recovery makes the journal say: the new value as soon as it is intended.    *)
Kept(s) == LastAnchor(s).new

(* A slot is as it was before a write, as the write left it, or torn between them.  *)
Loses(s, before, after) ==
    \A i \in Slot : s[i] \in {before[i], after[i]} \/ (before[i] # after[i] /\ s[i] = Torn)
---------------------------------------------------------------------------------
(* The first anchor accepts the journal as it was created.                          *)
JournalInit ==
    /\ \E v \in Value :
         /\ slots = [i \in Slot |-> IF i = 0 THEN Filled(1, Active(v)) ELSE Torn]
         /\ journal = v
    /\ flushed = [slots |-> slots, journal |-> journal]
    /\ doing = "idle" /\ anchor = LastAnchor(slots) /\ saving = None
    /\ saves = 0 /\ faults = 0

WriteAnchor(a) == anchor' = a /\ doing' = "tear"

(* A save begins with the intent, which carries the whole new value.                *)
Replace(v) ==
    /\ doing = "idle" /\ saves < MaxSaves
    /\ saves' = saves + 1
    /\ saving' = v
    /\ WriteAnchor(Intended(journal, v))
    /\ UNCHANGED <<files, faults>>

(* An anchor goes into the slot that does not hold the newest one: its bytes are    *)
(* written, which tears the slot, then complete, then flushed.                      *)
TearSlot ==
    /\ doing = "tear"
    /\ slots' = [slots EXCEPT ![Other(Newest(slots))] = Torn]
    /\ doing' = "fill"
    /\ UNCHANGED <<journal, flushed, anchor, saving, saves, faults>>

FillSlot ==
    /\ doing = "fill"
    /\ slots' = [slots EXCEPT ![Other(Newest(slots))] =
                   Filled(slots[Newest(slots)].generation + 1, anchor)]
    /\ doing' = "sync"
    /\ UNCHANGED <<journal, flushed, anchor, saving, saves, faults>>

(* A variant of SyncSlots that rewrites the journal as soon as the intent is there. *)
SyncSlotsAtOnce ==
    /\ doing = "sync"
    /\ flushed' = [flushed EXCEPT !.slots = slots]
    /\ \/ anchor.phase # "active" /\ doing' = "rewrite" /\ UNCHANGED saving
       \/ anchor.phase = "active" /\ doing' = "idle" /\ saving' = None
    /\ UNCHANGED <<slots, journal, anchor, saves, faults>>

(* A variant of SyncSlots without the flush.                                        *)
SyncSlotsUnflushed ==
    /\ doing = "sync"
    /\ \/ /\ anchor.phase = "replace_intended"
          /\ WriteAnchor(Started(anchor)) /\ UNCHANGED saving
       \/ /\ anchor.phase = "rewrite_started"
          /\ doing' = "rewrite" /\ UNCHANGED <<anchor, saving>>
       \/ /\ anchor.phase = "active"
          /\ doing' = "idle" /\ saving' = None /\ UNCHANGED anchor
    /\ UNCHANGED <<slots, journal, flushed, saves, faults>>

SyncSlots ==
    /\ doing = "sync"
    /\ flushed' = [flushed EXCEPT !.slots = slots]
    /\ \/ /\ anchor.phase = "replace_intended"
          /\ WriteAnchor(Started(anchor)) /\ UNCHANGED saving
       \/ /\ anchor.phase = "rewrite_started"
          /\ doing' = "rewrite" /\ UNCHANGED <<anchor, saving>>
       \/ /\ anchor.phase = "active"
          /\ doing' = "idle" /\ saving' = None /\ UNCHANGED anchor
    /\ UNCHANGED <<slots, journal, saves, faults>>

(* The journal is overwritten, cut to its new length and flushed.                   *)
RewriteJournal ==
    /\ doing = "rewrite"
    /\ journal' = None
    /\ doing' = "rewriting"
    /\ UNCHANGED <<slots, flushed, anchor, saving, saves, faults>>

FillJournal ==
    /\ doing = "rewriting"
    /\ journal' = anchor.new
    /\ doing' = "flush"
    /\ UNCHANGED <<slots, flushed, anchor, saving, saves, faults>>

FlushJournal ==
    /\ doing = "flush"
    /\ flushed' = [flushed EXCEPT !.journal = journal]
    /\ WriteAnchor(Active(anchor.new))
    /\ UNCHANGED <<slots, journal, saving, saves, faults>>

Saving == doing \notin {"idle", "down", "refused"}

(* The process is killed; the kernel keeps what it wrote, and writes it back before *)
(* the next process writes.                                                         *)
Kill ==
    /\ Saving /\ faults < MaxFaults
    /\ faults' = faults + 1
    /\ flushed' = [slots |-> slots, journal |-> journal]
    /\ doing' = "down"
    /\ UNCHANGED <<slots, journal, anchor, saving, saves>>

(* What was not flushed is as it was before, torn or complete.                      *)
PowerLoss ==
    /\ Saving /\ faults < MaxFaults
    /\ faults' = faults + 1
    /\ slots' \in {s \in [Slot -> {slots[i] : i \in Slot} \cup {flushed.slots[i] : i \in Slot} \cup {Torn}] :
                     Loses(s, flushed.slots, slots)}
    /\ journal' \in {journal, flushed.journal} \cup
                      (IF journal # flushed.journal THEN {None} ELSE {})
    /\ flushed' = [slots |-> slots', journal |-> journal']
    /\ doing' = "down"
    /\ UNCHANGED <<anchor, saving, saves>>

(* The next holder reads the anchor and completes a replacement that was intended.  *)
Refused ==
    LET last == LastAnchor(slots) IN
    \/ ~SlotsReadable(slots)
    \/ last.phase \in {"active", "replace_intended"} /\ journal # last.old

Recover ==
    /\ doing = "down"
    /\ LET last == LastAnchor(slots) IN
       \/ Refused /\ doing' = "refused" /\ UNCHANGED <<anchor, saving>>
       \/ /\ ~Refused /\ last.phase = "active"
          /\ doing' = "idle" /\ anchor' = last /\ saving' = None
       \/ /\ ~Refused /\ last.phase = "replace_intended"
          /\ WriteAnchor(Started(last)) /\ UNCHANGED saving
       \/ /\ ~Refused /\ last.phase = "rewrite_started"
          /\ doing' = "rewrite" /\ anchor' = last /\ UNCHANGED saving
    /\ UNCHANGED <<files, saves, faults>>

JournalStopped == doing = "idle" /\ saves = MaxSaves /\ UNCHANGED journalVars

JournalNext ==
    \/ \E v \in Value : Replace(v)
    \/ TearSlot \/ FillSlot \/ SyncSlots
    \/ RewriteJournal \/ FillJournal \/ FlushJournal
    \/ Kill \/ PowerLoss \/ Recover \/ JournalStopped

JournalSpec == JournalInit /\ [][JournalNext]_journalVars
---------------------------------------------------------------------------------
(* A variable of the wrong type.                                                    *)
SlotValue == [generation : Nat, anchor : Anchors \cup {Active(None)}]
JournalTypeOK ==
    /\ slots \in [Slot -> SlotValue] /\ journal \in Value \cup {None}
    /\ flushed \in [slots : [Slot -> SlotValue], journal : Value \cup {None}]
    /\ doing \in {"idle", "tear", "fill", "sync", "rewrite", "rewriting", "flush", "down", "refused"}
    /\ anchor \in Anchors /\ saving \in Value \cup {None}
    /\ saves \in 0..MaxSaves /\ faults \in 0..MaxFaults

(* A kill or a power loss at any point of a save, of the recovery from one, or of   *)
(* the next save leaves an anchor and a journal that recovery accepts               *)
(* (_read_lock_storage, _complete_journal_replacement).                             *)
NeverRefused == ~(doing = "down" /\ Refused) /\ doing # "refused"

(* The journal that recovery ends with changes only to the value being saved, and a *)
(* save that returns is durable: rewriting in place is as good as an atomic         *)
(* replacement (_replace_shard_transaction).                                        *)
Register == INSTANCE AtomicRegister
              WITH kept <- Kept(flushed.slots), up <- doing \notin {"down", "refused"}
RegisterRefines == Register!Spec
================================================================================
