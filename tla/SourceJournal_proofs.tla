-------------------------- MODULE SourceJournal_proofs --------------------------
(***************************************************************************)
(* Theorems about how an archive arrives: the publication journal, for any *)
(* sources and any number of crashes, power losses and changes of the      *)
(* source, and the download, for any versions, lengths and faults.         *)
(***************************************************************************)
EXTENDS SourceJournal, Download, SequenceTheorems, TLAPS

\* A record's claim about the two names of its source.
Holds(j, f) ==
  \/ f[j.src].final = "whole"
  \/ j.status = "intent" /\ j.names /\ f[j.src].candidate = "whole"

\* The claim survives a power loss because it holds for every journal and
\* every set of entries that one can leave behind.
AnyLossHolds ==
  \A j \in {journal, journalOnDisk} \ {NoJournal} :
    Holds(j, files) /\ Holds(j, filesOnDisk)

NoPartialFinal ==
  \A s \in Source :
    files[s].final # "partial" /\ filesOnDisk[s].final # "partial"

\* Neither journal, as it is or as it was, is about this run's source.
Unjournalled ==
  \A j \in {journal, journalOnDisk} \ {NoJournal} : j.src # run.src

\* Both names of the run's source, now and on the disk.
Both(published, candidate) ==
  \A f \in {files, filesOnDisk} :
    f[run.src].final = published /\ f[run.src].candidate = candidate

Mine(status) == journal # NoJournal /\ journal.src = run.src /\ journal.status = status

\* What a run knows at each of its steps.
StepKnows ==
  /\ run.step = "decide" => filesOnDisk = files /\ journalOnDisk = journal
  /\ run.step = "copied" =>
       /\ Unjournalled
       /\ files[run.src].final = "absent" /\ filesOnDisk[run.src].final = "absent"
  /\ run.step = "flushed" => Unjournalled /\ Both("absent", "whole")
  /\ run.step = "intended" =>
       Mine("intent") /\ journal.names /\ Both("absent", "whole")
  /\ run.step = "publish" =>
       /\ Mine("intent") /\ journal.names /\ journalOnDisk = journal
       /\ Both("absent", "whole")
  /\ run.step = "published" =>
       /\ Mine("intent") /\ journal.names /\ journalOnDisk = journal
       /\ files[run.src].final = "whole"
       /\ filesOnDisk[run.src].candidate = "whole"
  /\ run.step \in {"complete", "completed", "done"} =>
       /\ files[run.src].final = "whole" /\ filesOnDisk[run.src].final = "whole"
  /\ run.step \in {"completed", "done"} => Mine("completed")
  /\ run.step = "done" => journalOnDisk = journal

IInv == TypeOK /\ NoPartialFinal /\ AnyLossHolds /\ StepKnows

-----------------------------------------------------------------------------

LEMMA TypesPreserved == TypeOK /\ [Next]_vars => TypeOK'
<1> SUFFICES ASSUME TypeOK, [Next]_vars PROVE TypeOK'
  OBVIOUS
<1> USE DEF TypeOK, Names, Content, Go, Off, Step
<1>1. CASE Begin
  BY <1>1 DEF Begin
<1>2. CASE EnsureDurable
  BY <1>2 DEF EnsureDurable
<1>3. CASE Adopt
  BY <1>3, NoJournalAssumption DEF Adopt, Current, Retained, KeepsCandidate, Record
<1>4. CASE Refuse
  BY <1>4 DEF Refuse
<1>5. CASE TakeUp
  BY <1>5 DEF TakeUp
<1>6. CASE Copy
  BY <1>6 DEF Copy
<1>7. CASE FlushCandidate
  BY <1>7 DEF FlushCandidate
<1>8. CASE WriteIntent
  BY <1>8 DEF WriteIntent, Record
<1>9. CASE SyncIntent
  BY <1>9 DEF SyncIntent
<1>10. CASE Publish
  BY <1>10 DEF Publish, Here
<1>11. CASE SyncPublished
  BY <1>11 DEF SyncPublished
<1>12. CASE WriteCompleted
  BY <1>12 DEF WriteCompleted, Record, KeepsCandidate
<1>13. CASE SyncCompleted
  BY <1>13 DEF SyncCompleted
<1>14. CASE Finish
  BY <1>14 DEF Finish
<1>15. CASE Crash
  BY <1>15, BoundsAssumption DEF Crash, Spend
<1>16. CASE PowerLoss
  BY <1>16, BoundsAssumption DEF PowerLoss, Spend
<1>17. CASE ChangeSource
  BY <1>17, BoundsAssumption DEF ChangeSource
<1>18. CASE UNCHANGED vars
  BY <1>18 DEF vars
<1> QED
  BY <1>1, <1>2, <1>3, <1>4, <1>5, <1>6, <1>7, <1>8, <1>9, <1>10, <1>11,
     <1>12, <1>13, <1>14, <1>15, <1>16, <1>17, <1>18 DEF Next, Advance

LEMMA ClaimsPreserved ==
  ASSUME IInv, TypeOK', [Next]_vars
  PROVE  NoPartialFinal' /\ AnyLossHolds' /\ StepKnows'
<1> USE DEF IInv, TypeOK, Names, Content, Go, Off, Step, NoPartialFinal,
      AnyLossHolds, Holds, StepKnows, Mine, Both, Unjournalled
<1>1. CASE Begin
  BY <1>1, NoJournalAssumption DEF Begin
<1>2. CASE EnsureDurable
  BY <1>2, NoJournalAssumption DEF EnsureDurable
<1>3. CASE Adopt
  <2>1. /\ run.step = "decide" /\ Mine(journal.status)
        /\ files' = files /\ filesOnDisk' = filesOnDisk
        /\ filesOnDisk = files /\ files[run.src].final = "whole"
        /\ journalOnDisk' = journalOnDisk /\ journalOnDisk = journal
        /\ run'.src = run.src
    BY <1>3 DEF Adopt, Current, Here
  <2>2. CASE journal' = journal /\ run'.step = "done" /\ journal.status = "completed"
    BY <2>1, <2>2
  <2>3. CASE /\ journal'.src = run.src /\ journal'.status = "completed"
             /\ journal' # NoJournal /\ run'.step = "completed"
    BY <2>1, <2>3
  <2>4. CASE /\ journal.status = "intent" /\ run' = [run EXCEPT !.step = "completed"]
             /\ journal' = [journal EXCEPT !.status = "completed",
                                           !.names = KeepsCandidate /\ Retained]
    <3>1. journal \in Record /\ journal.src = run.src
      BY <2>1
    <3>2. /\ journal' \in Record \cup {NoJournal}
          /\ journal'.src = run.src /\ journal'.status = "completed"
      BY <2>4, <3>1 DEF Record
    <3>3. journal' # NoJournal
      BY <2>4, <3>1, NoJournalAssumption DEF Record, KeepsCandidate, Retained, Current
    <3> QED
      BY <2>3, <2>4, <3>2, <3>3
  <2>5. CASE /\ journal.status = "completed" /\ journal' = journal
             /\ run' = [run EXCEPT !.step = "done"]
    BY <2>2, <2>5
  <2> QED
    BY <1>3, <2>4, <2>5 DEF Adopt
<1>4. CASE Refuse
  BY <1>4, NoJournalAssumption DEF Refuse
<1>5. CASE TakeUp
  BY <1>5, NoJournalAssumption DEF TakeUp, Current, Retained, Here
<1>6. CASE Copy
  BY <1>6, NoJournalAssumption DEF Copy, Current, Retained, Here
<1>7. CASE FlushCandidate
  BY <1>7, NoJournalAssumption DEF FlushCandidate, Here
<1>8. CASE WriteIntent
  <2>1. /\ run.src \in Source
        /\ journal' \in Record
        /\ journal'.src = run.src /\ journal'.status = "intent"
        /\ run'.step = "intended" /\ run'.src = run.src
        /\ files' = files /\ filesOnDisk' = filesOnDisk
        /\ journalOnDisk' = journalOnDisk
    BY <1>8 DEF WriteIntent, Record, KeepsCandidate
  <2>2. journal'.names
    BY <1>8 DEF WriteIntent
  <2>3. journal' # NoJournal
    BY <2>1, NoJournalAssumption
  <2>4. run.step = "flushed"
    BY <1>8 DEF WriteIntent
  <2> QED
    BY <2>1, <2>2, <2>3, <2>4
<1>9. CASE SyncIntent
  BY <1>9, NoJournalAssumption DEF SyncIntent
<1>10. CASE Publish
  BY <1>10, NoJournalAssumption DEF Publish, Here, KeepsCandidate
<1>11. CASE SyncPublished
  BY <1>11, NoJournalAssumption DEF SyncPublished
<1>12. CASE WriteCompleted
  <2>1. /\ run.src \in Source
        /\ journal' \in Record
        /\ journal'.src = run.src /\ journal'.status = "completed"
        /\ run'.step = "completed" /\ run'.src = run.src
        /\ files' = files /\ filesOnDisk' = filesOnDisk
        /\ journalOnDisk' = journalOnDisk
    BY <1>12 DEF WriteCompleted, Record, KeepsCandidate
  <2>3. journal' # NoJournal
    BY <2>1, NoJournalAssumption
  <2>4. run.step = "complete"
    BY <1>12 DEF WriteCompleted
  <2> QED
    BY <2>1, <2>3, <2>4
<1>13. CASE SyncCompleted
  BY <1>13, NoJournalAssumption DEF SyncCompleted
<1>14. CASE Finish
  BY <1>14, NoJournalAssumption DEF Finish
<1>15. CASE Crash
  BY <1>15, NoJournalAssumption DEF Crash, Spend
<1>16. CASE PowerLoss
  <2>1. PICK kept \in SUBSET Source :
          files' = [s \in Source |-> IF s \in kept THEN files[s] ELSE filesOnDisk[s]]
    BY <1>16 DEF PowerLoss
  <2>2. \A s \in Source : files'[s] \in {files[s], filesOnDisk[s]}
    BY <2>1
  <2>3. /\ filesOnDisk' = files' /\ journalOnDisk' = journal'
        /\ journal' \in {journal, journalOnDisk} /\ run'.step = "off"
    BY <1>16 DEF PowerLoss
  <2>4. NoPartialFinal'
    BY <2>2, <2>3
  <2>5. AnyLossHolds'
    BY <2>2, <2>3 DEF Record
  <2>6. StepKnows'
    BY <2>3
  <2> QED
    BY <2>4, <2>5, <2>6
<1>17. CASE ChangeSource
  BY <1>17, NoJournalAssumption DEF ChangeSource
<1>18. CASE UNCHANGED vars
  BY <1>18 DEF vars
<1> QED
  BY <1>1, <1>2, <1>3, <1>4, <1>5, <1>6, <1>7, <1>8, <1>9, <1>10, <1>11,
     <1>12, <1>13, <1>14, <1>15, <1>16, <1>17, <1>18 DEF Next, Advance

LEMMA InitIInv == Init => IInv
BY BoundsAssumption DEF Init, IInv, TypeOK, Names, Content, Step, Off,
  NoPartialFinal, AnyLossHolds, StepKnows

LEMMA Inductive == IInv /\ [Next]_vars => IInv'
BY TypesPreserved, ClaimsPreserved DEF IInv

\* The state stays well typed, and a run always knows its source.
THEOREM TypeCorrect == Spec => []TypeOK
<1>1. IInv => TypeOK
  BY DEF IInv
<1> QED
  BY InitIInv, Inductive, <1>1, PTL DEF Spec

\* After any crashes and power losses a final name holds no partial copy, and
\* the journal's claim about its source holds.
THEOREM JournalStaysTrue == Spec => []JournalIsTrue
<1>1. IInv => JournalIsTrue
  BY DEF IInv, TypeOK, NoPartialFinal, AnyLossHolds, Holds, JournalIsTrue
<1> QED
  BY InitIInv, Inductive, <1>1, PTL DEF Spec

\* A finished publication and its record survive every power loss.
THEOREM DoneSurvivesPowerLoss == Spec => []DoneIsDurable
<1>1. IInv => DoneIsDurable
  BY DEF IInv, StepKnows, Mine, DoneIsDurable
<1> QED
  BY InitIInv, Inductive, <1>1, PTL DEF Spec

-----------------------------------------------------------------------------
(* The download *)

CallType ==
  [at : {"idle", "start"}]
    \cup [at : {"requested"}, from : Nat]
    \cup [at : {"stream"}, version : Version, next : Nat \ {0}, declared : BOOLEAN,
          received : Nat, body : Nat]
    \cup [at : {"streamed"}, total : Nat \cup {Absent}]
    \cup [at : {"verified", "linked", "published", "done"}, copy : Seq(Version)]
    \cup [at : {"done"}]

\* What a call reads or copies is there, and no longer than what it was told.
DownloadTypeOK ==
  /\ remote \in Version /\ pinned \in Version \cup {Absent}
  /\ ranges \in BOOLEAN /\ naming \in {"same", "fresh"}
  /\ partial \in Seq(Version) \cup {Absent} /\ synced \in Nat
  /\ final \in Seq(Version) \cup {Absent} /\ finalSynced \in BOOLEAN
  /\ call \in CallType
  /\ call.at \in {"stream", "streamed"} \/ (call.at = "requested" /\ call.from # 0) =>
       partial \in Seq(Version)
  /\ call.at = "stream" => call.received <= call.body
  /\ cut \in BOOLEAN /\ replaced \in Nat

\* With a pin, what was verified and what is published is the pinned version.
PinHolds ==
  pinned # Absent =>
    /\ call.at = "verified" => call.copy = AllBlocks(pinned)
    /\ final # Absent => final = AllBlocks(pinned)

\* The server has replaced nothing, and no body was cut off without notice.
Undisturbed == ~ cut /\ replaced = 0

\* The partial file is a beginning of what the server serves.
Starts == partial \in Seq({remote}) /\ Len(partial) <= Blocks[remote]
Beginning == partial # Absent => Starts

\* A range is requested at the end of the partial file, a body goes on where
\* the file ends, and a response that has ended has left the whole there.
CallFits ==
  /\ call.at = "requested" /\ call.from # 0 => Starts /\ call.from = Len(partial)
  /\ call.at = "stream" =>
       /\ call.version = remote
       /\ Starts /\ Len(partial) = call.next - 1 + call.received
       /\ call.body = Blocks[remote] - call.next + 1
  /\ call.at = "streamed" => Starts /\ Len(partial) = Blocks[remote]
  /\ call.at = "verified" => call.copy = AllBlocks(remote)
  /\ final # Absent => final = AllBlocks(remote)

ServedWhole == Undisturbed => Beginning /\ CallFits

DownloadInv == DownloadTypeOK /\ PinHolds /\ ServedWhole

-----------------------------------------------------------------------------

\* The fields that a call has at each of its steps.
LEMMA CallFields ==
  ASSUME call \in CallType
  PROVE  /\ call.at \in {"idle", "start", "requested", "stream", "streamed", "verified",
                         "linked", "published", "done"}
         /\ call.at = "requested" => call.from \in Nat
         /\ call.at = "stream" =>
              /\ call.version \in Version /\ call.next \in Nat \ {0}
              /\ call.declared \in BOOLEAN /\ call.received \in Nat /\ call.body \in Nat
              /\ call \in [at : {"stream"}, version : Version, next : Nat \ {0},
                           declared : BOOLEAN, received : Nat, body : Nat]
         /\ call.at = "streamed" => call.total \in Nat \cup {Absent}
         /\ call.at \in {"verified", "linked", "published"} =>
              /\ call.copy \in Seq(Version)
              /\ call \in [at : {"verified", "linked", "published", "done"},
                           copy : Seq(Version)]
BY DEF CallType

\* A whole beginning is the version itself.
LEMMA WholeBeginning ==
  ASSUME NEW v \in Version, NEW s \in Seq({v}), Len(s) = Blocks[v]
  PROVE  s = AllBlocks(v)
<1>1. s \in [1..Len(s) -> {v}]
  OBVIOUS
<1> QED
  BY <1>1 DEF AllBlocks

LEMMA BlocksCount == \A v \in Version : Blocks[v] \in Nat \ {0}
BY DownloadAssumption

\* What a power loss leaves is a beginning of what was there.
LEMMA PrefixIsBeginning ==
  ASSUME NEW S, NEW s \in Seq(S), NEW n \in 0..Len(s)
  PROVE  Prefix(s, n) \in Seq(S) /\ Len(Prefix(s, n)) = n
<1>1. \A i \in 1..n : s[i] \in S
  BY ElementOfSeq
<1>2. Prefix(s, n) \in Seq(S) /\ Len(Prefix(s, n)) = (IF 1 <= n THEN n - 1 + 1 ELSE 0)
  BY <1>1, SubSeqProperties, Len(s) \in Nat DEF Prefix
<1> QED
  BY <1>2, Len(s) \in Nat

LEMMA DownloadInitInv == DownloadInit => DownloadInv
<1> SUFFICES ASSUME DownloadInit PROVE DownloadInv
  OBVIOUS
<1>1. call \in CallType /\ call.at = "idle"
  BY DEF DownloadInit, Idle, CallType
<1>2. DownloadTypeOK
  BY <1>1 DEF DownloadInit, DownloadTypeOK
<1>3. PinHolds /\ ServedWhole
  BY <1>1 DEF DownloadInit, PinHolds, ServedWhole, Beginning, CallFits
<1> QED
  BY <1>2, <1>3 DEF DownloadInv

LEMMA DownloadTypesKept == DownloadTypeOK /\ [DownloadNext]_everything => DownloadTypeOK'
<1> SUFFICES ASSUME DownloadTypeOK, [DownloadNext]_everything PROVE DownloadTypeOK'
  OBVIOUS
<1>f. call \in CallType
  BY DEF DownloadTypeOK
<1>0. Idle \in CallType /\ Idle.at = "idle"
  BY DEF Idle, CallType
<1>1. CASE Call
  <2>1. call' \in CallType /\ call'.at = "start"
    BY <1>1 DEF Call, CallType
  <2>2. /\ partial' \in Seq(Version) \cup {Absent} /\ synced' \in Nat
        /\ final' \in Seq(Version) \cup {Absent} /\ finalSynced' \in BOOLEAN
    <3>1. CASE UNCHANGED entries
      BY <3>1 DEF DownloadTypeOK, entries
    <3>2. CASE partial' = Absent /\ synced' = 0 /\ final' = Absent /\ finalSynced' = FALSE
      BY <3>2
    <3> QED
      BY <1>1, <3>1, <3>2 DEF Call
  <2> QED
    BY <1>1, <2>1, <2>2 DEF Call, DownloadTypeOK, world, Unspent
<1>2. CASE Reuse
  <2>1. call' \in CallType /\ call'.at \in {"idle", "done"}
    <3>1. CASE Goto("done")
      <4>1. call \in [at : {"idle", "start"}]
        BY <1>2, <1>f DEF Reuse, CallType
      <4>2. call' \in [at : {"done"}]
        BY <3>1, <4>1 DEF Goto
      <4> QED
        BY <4>2 DEF CallType
    <3>2. CASE Fail
      BY <3>2, <1>0 DEF Fail
    <3> QED
      BY <1>2, <3>1, <3>2 DEF Reuse
  <2> QED
    BY <1>2, <2>1 DEF Reuse, DownloadTypeOK, entries, world, Unspent
<1>3. CASE Request
  <2>1. Offset \in Nat /\ (Offset # 0 => partial \in Seq(Version))
    BY LenProperties DEF DownloadTypeOK, Offset
  <2>2. call' \in CallType /\ call'.at = "requested" /\ call'.from = Offset
    BY <1>3, <2>1 DEF Request, CallType
  <2> QED
    BY <1>3, <2>1, <2>2 DEF Request, DownloadTypeOK, entries, world, Unspent
<1>4. CASE Append206
  <2>1. call.from \in Nat /\ Blocks[remote] \in Nat
    BY <1>4, <1>f, CallFields, BlocksCount DEF Append206, DownloadTypeOK
  <2>2. call.from # 0 /\ call.from + 1 \in Nat \ {0} /\ Blocks[remote] - (call.from + 1) + 1 \in Nat
    BY <1>4, <2>1 DEF Append206
  <2>3. call' \in CallType /\ call'.at = "stream" /\ call'.received <= call'.body
    BY <1>4, <2>2 DEF Append206, Streaming, CallType, DownloadTypeOK
  <2>4. partial \in Seq(Version)
    BY <1>4, <2>2 DEF Append206, DownloadTypeOK
  <2> QED
    BY <1>4, <2>3, <2>4 DEF Append206, DownloadTypeOK, entries, world, Unspent
<1>5. CASE Restart200
  <2>1. Blocks[remote] - 1 + 1 \in Nat
    BY BlocksCount DEF DownloadTypeOK
  <2>2. call' \in CallType /\ call'.at = "stream" /\ call'.received <= call'.body
    BY <1>5, <2>1 DEF Restart200, Streaming, CallType, DownloadTypeOK
  <2>3. partial' \in Seq(Version) /\ synced' \in Nat
    BY <1>5 DEF Restart200
  <2> QED
    BY <1>5, <2>2, <2>3 DEF Restart200, DownloadTypeOK, world, Unspent
<1>6. CASE Unsatisfied416
  <2>1. call.from \in Nat \ {0}
    BY <1>6, <1>f, CallFields, BlocksCount DEF Unsatisfied416, DownloadTypeOK
  <2>2. partial \in Seq(Version)
    BY <1>6, <2>1 DEF Unsatisfied416, DownloadTypeOK
  <2>3. /\ call' \in CallType
        /\ call'.at = "streamed" \/ (call'.at = "requested" /\ call'.from = 0)
    BY <1>6, <2>1 DEF Unsatisfied416, CallType
  <2> QED
    BY <1>6, <2>2, <2>3 DEF Unsatisfied416, DownloadTypeOK, entries, world, Unspent
<1>7. CASE BadAnswer \/ Kill
  BY <1>7, <1>0 DEF BadAnswer, Kill, Fail, DownloadTypeOK, entries, world
<1>8. CASE Receive
  <2>1. /\ call \in [at : {"stream"}, version : Version, next : Nat \ {0},
                     declared : BOOLEAN, received : Nat, body : Nat]
        /\ call.received \in Nat /\ call.body \in Nat /\ call.version \in Version
    BY <1>8, <1>f, CallFields DEF Receive
  <2>2. /\ call' \in [at : {"stream"}, version : Version, next : Nat \ {0},
                      declared : BOOLEAN, received : Nat, body : Nat]
        /\ call'.at = "stream" /\ call'.received <= call'.body
    BY <1>8, <2>1 DEF Receive
  <2>3. call' \in CallType
    BY <2>2 DEF CallType
  <2>4. partial' \in Seq(Version)
    BY <1>8, <2>1, AppendProperties DEF Receive, DownloadTypeOK
  <2> QED
    BY <1>8, <2>2, <2>3, <2>4 DEF Receive, DownloadTypeOK, world, Unspent
<1>9. CASE EndBody
  <2>1. /\ call.received \in Nat /\ call.body \in Nat /\ call.next \in Nat \ {0}
        /\ call.declared \in BOOLEAN
    BY <1>9, <1>f, CallFields DEF EndBody
  <2>2. Total \in Nat \cup {Absent}
    BY <2>1 DEF Total
  <2>3. call' \in CallType /\ call'.at \in {"idle", "streamed"}
    <3>1. [at |-> "streamed", total |-> Total] \in CallType
      BY <2>2 DEF CallType
    <3> QED
      BY <1>9, <1>0, <3>1 DEF EndBody, Fail
  <2>4. partial \in Seq(Version) /\ partial' = partial /\ synced' \in Nat
    BY <1>9, LenProperties DEF EndBody, DownloadTypeOK
  <2>5. cut' \in BOOLEAN /\ replaced' = replaced
    BY <1>9, <2>1 DEF EndBody, DownloadTypeOK, Unspent
  <2> QED
    BY <1>9, <2>3, <2>4, <2>5 DEF EndBody, DownloadTypeOK, world
<1>10. CASE Verify
  <2>1. partial \in Seq(Version)
    BY <1>10 DEF Verify, DownloadTypeOK
  <2>2. call' \in CallType /\ call'.at \in {"idle", "verified"}
    <3>1. [at |-> "verified", copy |-> partial] \in CallType
      BY <2>1 DEF CallType
    <3> QED
      BY <1>10, <1>0, <3>1 DEF Verify, Fail
  <2> QED
    BY <1>10, <2>2 DEF Verify, DownloadTypeOK, entries, world, Unspent
<1>11. CASE Link \/ SyncName \/ RetirePartial
  <2>1. /\ call.copy \in Seq(Version)
        /\ call \in [at : {"verified", "linked", "published", "done"}, copy : Seq(Version)]
    BY <1>11, <1>f, CallFields DEF Link, SyncName, RetirePartial
  <2>2. \A to \in {"linked", "published", "done"} :
          Goto(to) => call' \in CallType /\ call'.at = to
    BY <2>1 DEF Goto, CallType
  <2>3. CASE Link
    BY <2>1, <2>2, <2>3, <1>0 DEF Link, Fail, DownloadTypeOK, world, Unspent
  <2>4. CASE SyncName
    BY <2>2, <2>4 DEF SyncName, DownloadTypeOK, world, Unspent
  <2>5. CASE RetirePartial
    BY <2>2, <2>5 DEF RetirePartial, DownloadTypeOK, world, Unspent
  <2> QED
    BY <1>11, <2>3, <2>4, <2>5
<1>12. CASE LosePower
  <2>1. call' \in CallType /\ call'.at = "idle"
    BY <1>12, <1>0 DEF LosePower, Fail
  <2>2. partial' \in Seq(Version) \cup {Absent} /\ synced' \in Nat
    <3>1. CASE partial' = Absent /\ synced' = 0
      BY <3>1
    <3>2. CASE /\ partial # Absent
               /\ \E n \in synced..Len(partial) : partial' = Prefix(partial, n) /\ synced' = n
      <4>1. PICK n \in synced..Len(partial) : partial' = Prefix(partial, n) /\ synced' = n
        BY <3>2
      <4>2. partial \in Seq(Version) /\ Len(partial) \in Nat /\ synced \in Nat
        BY <3>2, LenProperties DEF DownloadTypeOK
      <4>3. n \in 0..Len(partial)
        BY <4>2
      <4> QED
        BY <4>1, <4>2, <4>3, PrefixIsBeginning
    <3> QED
      BY <1>12, <3>1, <3>2 DEF LosePower
  <2>3. final' \in Seq(Version) \cup {Absent} /\ finalSynced' \in BOOLEAN
    BY <1>12 DEF LosePower, DownloadTypeOK
  <2> QED
    BY <1>12, <2>1, <2>2, <2>3 DEF LosePower, DownloadTypeOK, world
<1>13. CASE ServeOther
  BY <1>13 DEF ServeOther, DownloadTypeOK, entries
<1>14. CASE Return \/ UNCHANGED everything
  BY <1>14 DEF Return, DownloadTypeOK, everything, entries, world
<1> QED
  BY <1>1, <1>2, <1>3, <1>4, <1>5, <1>6, <1>7, <1>8, <1>9, <1>10, <1>11, <1>12,
     <1>13, <1>14 DEF DownloadNext, Proceed

LEMMA PinKept ==
  DownloadTypeOK /\ PinHolds /\ [DownloadNext]_everything => PinHolds'
<1> SUFFICES ASSUME DownloadTypeOK, PinHolds, [DownloadNext]_everything, pinned' # Absent
             PROVE  /\ call'.at = "verified" => call'.copy = AllBlocks(pinned')
                    /\ final' # Absent => final' = AllBlocks(pinned')
  BY DEF PinHolds
<1>1. pinned' = pinned
  BY DEF DownloadNext, Proceed, Call, Reuse, Request, Append206, Restart200,
    Unsatisfied416, BadAnswer, Receive, EndBody, Verify, Link, SyncName, RetirePartial,
    Return, Kill, LosePower, ServeOther, everything, world
<1>2. final' # Absent => final' = AllBlocks(pinned)
  <2>1. CASE Link
    BY <1>1, <2>1 DEF Link, PinHolds
  <2>2. CASE ~ Link
    BY <1>1, <2>2 DEF PinHolds, DownloadNext, Proceed, Call, Reuse, Request, Append206,
      Restart200, Unsatisfied416, BadAnswer, Receive, EndBody, Verify, SyncName,
      RetirePartial, Return, Kill, LosePower, ServeOther, everything, entries
  <2> QED
    BY <2>1, <2>2
<1>3. call'.at = "verified" => call'.copy = AllBlocks(pinned)
  <2>1. CASE Verify
    BY <1>1, <2>1 DEF Verify, Fail, Idle
  <2>2. CASE ServeOther \/ Return \/ UNCHANGED everything
    BY <1>1, <2>2 DEF ServeOther, Return, everything, PinHolds
  <2>3. CASE Call \/ Request \/ Append206 \/ Restart200 \/ Unsatisfied416 \/ BadAnswer
             \/ EndBody \/ Kill \/ LosePower
    BY <2>3 DEF Call, Request, Append206, Restart200, Unsatisfied416, BadAnswer, EndBody,
      Kill, LosePower, Fail, Idle, Streaming
  <2>4. CASE Reuse \/ Link \/ SyncName \/ RetirePartial
    <3>1. call \in CallType
      BY DEF DownloadTypeOK
    <3> QED
      BY <2>4, <3>1 DEF Reuse, Link, SyncName, RetirePartial, Goto, Fail, Idle, CallType
  <2>5. CASE Receive
    <3>1. call \in [at : {"stream"}, version : Version, next : Nat \ {0},
                    declared : BOOLEAN, received : Nat, body : Nat]
      BY <2>5, CallFields DEF Receive, DownloadTypeOK
    <3> QED
      BY <2>5, <3>1 DEF Receive
  <2> QED
    BY <2>1, <2>2, <2>3, <2>4, <2>5 DEF DownloadNext, Proceed
<1> QED
  BY <1>1, <1>2, <1>3

\* Steps other than the end of a body and a replacement keep both histories.
LEMMA StaysUndisturbed ==
  ASSUME DownloadTypeOK, [DownloadNext]_everything, Undisturbed'
  PROVE  Undisturbed /\ remote' = remote /\ ~ ServeOther
<1>1. CASE ServeOther
  BY <1>1 DEF ServeOther, Undisturbed, DownloadTypeOK
<1>2. CASE EndBody /\ ~ ServeOther
  <2>1. replaced' = replaced /\ remote' = remote
    BY <1>2 DEF EndBody, Unspent, world
  <2>2. ~ cut
    BY <1>2, Zenon DEF EndBody, Undisturbed
  <2> QED
    BY <1>2, <2>1, <2>2 DEF Undisturbed
<1>3. CASE ~ ServeOther /\ ~ EndBody
  <2>1. cut' = cut /\ replaced' = replaced /\ remote' = remote
    BY <1>3 DEF DownloadNext, Proceed, Call, Reuse, Request, Append206, Restart200,
      Unsatisfied416, BadAnswer, Receive, Verify, Link, SyncName, RetirePartial,
      Return, Kill, LosePower, everything, world, Unspent
  <2> QED
    BY <1>3, <2>1 DEF Undisturbed
<1> QED
  BY <1>1, <1>2, <1>3

LEMMA ServedWholeKept ==
  DownloadTypeOK /\ ServedWhole /\ [DownloadNext]_everything => ServedWhole'
<1> SUFFICES ASSUME DownloadTypeOK, ServedWhole, [DownloadNext]_everything, Undisturbed'
             PROVE  Beginning' /\ CallFits'
  BY DEF ServedWhole
<1>u. Undisturbed /\ remote' = remote /\ ~ ServeOther
  BY StaysUndisturbed
<1>s. Beginning /\ CallFits
  BY <1>u DEF ServedWhole
<1>f. call \in CallType /\ remote \in Version /\ Blocks[remote] \in Nat \ {0}
  BY BlocksCount DEF DownloadTypeOK
<1>0. Idle.at = "idle"
  BY DEF Idle
<1>1. CASE Call
  BY <1>1, <1>u, <1>s DEF Call, entries, Beginning, Starts, CallFits
<1>2. CASE Reuse
  <2>1. call'.at \in {"idle", "done"}
    BY <1>2, <1>0, <1>f DEF Reuse, Goto, Fail, CallType
  <2> QED
    BY <1>2, <2>1, <1>u, <1>s DEF Reuse, entries, Beginning, Starts, CallFits
<1>3. CASE Request
  BY <1>3, <1>u, <1>s DEF Request, Offset, entries, Beginning, Starts, CallFits
<1>4. CASE Append206
  <2>1. call.from \in Nat \ {0}
    BY <1>4, <1>f, CallFields DEF Append206
  <2>2. /\ call'.at = "stream" /\ call'.version = remote /\ call'.next = call.from + 1
        /\ call'.received = 0 /\ call'.body = Blocks[remote] - (call.from + 1) + 1
    BY <1>4 DEF Append206, Streaming
  <2>3. Starts /\ Len(partial) = call.from
    BY <1>4, <2>1, <1>s DEF Append206, CallFits
  <2>4. UNCHANGED <<partial, final>> /\ call.from + 1 - 1 + 0 = call.from
    BY <1>4, <2>1 DEF Append206, entries
  <2>5. Starts' /\ Len(partial') = call.from
    BY <2>3, <2>4, <1>u DEF Starts
  <2> QED
    BY <2>2, <2>4, <2>5, <1>u, <1>s DEF Beginning, CallFits
<1>5. CASE Restart200
  <2>1. /\ call'.at = "stream" /\ call'.version = remote /\ call'.next = 1
        /\ call'.received = 0 /\ call'.body = Blocks[remote] - 1 + 1
    BY <1>5 DEF Restart200, Streaming
  <2>2. partial' = <<>> /\ final' = final
    BY <1>5 DEF Restart200
  <2>3. Starts' /\ Len(partial') = 0
    BY <2>2, <1>u, <1>f, EmptySeq DEF Starts
  <2> QED
    BY <2>1, <2>2, <2>3, <1>u, <1>s, <1>f DEF Beginning, Starts, CallFits
<1>6. CASE Unsatisfied416
  <2>1. call.from \in Nat \ {0}
    BY <1>6, <1>f, CallFields DEF Unsatisfied416
  <2>2. Starts /\ Len(partial) = call.from
    BY <1>6, <2>1, <1>s DEF Unsatisfied416, CallFits
  <2> QED
    BY <1>6, <2>2, <1>u, <1>s DEF Unsatisfied416, entries, Beginning, Starts, CallFits
<1>7. CASE BadAnswer \/ Kill
  BY <1>7, <1>0, <1>u, <1>s DEF BadAnswer, Kill, Fail, entries, Beginning, Starts, CallFits
<1>8. CASE Receive
  <2>1. /\ call \in [at : {"stream"}, version : Version, next : Nat \ {0},
                     declared : BOOLEAN, received : Nat, body : Nat]
        /\ call.received \in Nat /\ call.body \in Nat /\ call.next \in Nat
    BY <1>8, <1>f, CallFields DEF Receive
  <2>2. /\ call.version = remote /\ Starts
        /\ Len(partial) = call.next - 1 + call.received
        /\ call.body = Blocks[remote] - call.next + 1
    BY <1>8, <1>s DEF Receive, CallFits
  <2>3. /\ call'.at = "stream" /\ call'.received = call.received + 1
        /\ call'.version = call.version /\ call'.next = call.next /\ call'.body = call.body
    BY <1>8, <2>1 DEF Receive
  <2>4. partial' = Append(partial, remote) /\ partial \in Seq({remote}) /\ final' = final
    BY <1>8, <2>2, <1>s DEF Receive, Beginning, Starts
  <2>5. partial' \in Seq({remote}) /\ Len(partial') = Len(partial) + 1
    BY <2>4, AppendProperties
  <2>6. Len(partial') <= Blocks[remote]
    BY <1>8, <1>f, <2>1, <2>2, <2>5 DEF Receive
  <2>7. Starts'
    BY <2>5, <2>6, <1>u DEF Starts
  <2> QED
    BY <2>1, <2>2, <2>3, <2>4, <2>5, <2>7, <1>u, <1>s, <1>f DEF Beginning, Starts, CallFits
<1>9. CASE EndBody
  <2>1. /\ call.received \in Nat /\ call.body \in Nat /\ call.next \in Nat \ {0}
        /\ call.declared \in BOOLEAN
    BY <1>9, <1>f, CallFields DEF EndBody
  <2>2. call'.at = "idle" \/ (call'.at = "streamed" /\ call.received = call.body)
    <3>1. (call.declared /\ call.received # call.body) => call'.at = "idle"
      BY <1>9, <1>0 DEF EndBody, Fail
    <3>2. ~ (call.declared /\ call.received # call.body) => call'.at = "streamed"
      BY <1>9 DEF EndBody
    <3>3. call.received = call.body \/ cut' = (cut \/ ~ call.declared)
      BY <1>9 DEF EndBody
    <3>4. ~ cut'
      BY DEF Undisturbed
    <3> QED
      BY <3>1, <3>2, <3>3, <3>4, Zenon
  <2>3. /\ Starts /\ Len(partial) = call.next - 1 + call.received
        /\ call.body = Blocks[remote] - call.next + 1
    BY <1>9, <1>s DEF EndBody, CallFits
  <2>4. call'.at = "streamed" => Len(partial) = Blocks[remote]
    BY <2>1, <2>2, <2>3, <1>f
  <2> QED
    BY <1>9, <2>2, <2>3, <2>4, <1>u, <1>s DEF EndBody, Beginning, Starts, CallFits
<1>10. CASE Verify
  <2>1. partial = AllBlocks(remote)
    BY <1>10, <1>s, <1>f, WholeBeginning DEF Verify, CallFits, Beginning, Starts
  <2>2. call'.at = "idle" \/ (call'.at = "verified" /\ call'.copy = partial)
    BY <1>10, <1>0 DEF Verify, Fail
  <2> QED
    BY <1>10, <2>1, <2>2, <1>u, <1>s DEF Verify, entries, Beginning, Starts, CallFits
<1>11. CASE Link \/ SyncName \/ RetirePartial
  <2>1. call'.at \in {"idle", "linked", "published", "done"}
    BY <1>11, <1>0, <1>f DEF Link, SyncName, RetirePartial, Goto, Fail, CallType
  <2>2. final' # Absent => final' = AllBlocks(remote)
    BY <1>11, <1>s DEF Link, SyncName, RetirePartial, CallFits
  <2>3. Beginning'
    BY <1>11, <1>u, <1>s DEF Link, SyncName, RetirePartial, Beginning, Starts
  <2> QED
    BY <2>1, <2>2, <2>3, <1>u DEF CallFits
<1>12. CASE LosePower
  <2>1. Beginning'
    <3>1. CASE partial' = Absent
      BY <3>1 DEF Beginning, Starts
    <3>2. CASE /\ partial # Absent
               /\ \E n \in synced..Len(partial) : partial' = Prefix(partial, n) /\ synced' = n
      <4>1. PICK n \in synced..Len(partial) : partial' = Prefix(partial, n)
        BY <3>2
      <4>2. /\ partial \in Seq({remote}) /\ Len(partial) \in Nat /\ synced \in Nat
            /\ Len(partial) <= Blocks[remote]
        BY <3>2, <1>s, LenProperties DEF DownloadTypeOK, Beginning, Starts
      <4>3. n \in 0..Len(partial)
        BY <4>2
      <4>4. partial' \in Seq({remote}) /\ Len(partial') = n
        BY <4>1, <4>2, <4>3, PrefixIsBeginning
      <4> QED
        BY <4>2, <4>3, <4>4, <1>u, <1>f DEF Beginning, Starts
    <3> QED
      BY <1>12, <3>1, <3>2 DEF LosePower
  <2>2. call'.at = "idle"
    BY <1>12, <1>0 DEF LosePower, Fail
  <2>3. final' # Absent => final' = final
    BY <1>12 DEF LosePower
  <2> QED
    BY <2>1, <2>2, <2>3, <1>u, <1>s DEF CallFits
<1>13. CASE Return \/ UNCHANGED everything
  BY <1>13, <1>s DEF Return, everything, entries, world, Beginning, Starts, CallFits
<1> QED
  BY <1>u, <1>1, <1>2, <1>3, <1>4, <1>5, <1>6, <1>7, <1>8, <1>9, <1>10, <1>11, <1>12,
     <1>13 DEF DownloadNext, Proceed

LEMMA DownloadInvKept == DownloadInv /\ [DownloadNext]_everything => DownloadInv'
BY DownloadTypesKept, PinKept, ServedWholeKept DEF DownloadInv

\* A call has the fields of the step it is at, and reads a file that is there.
THEOREM DownloadTypeCorrect == DownloadSpec => []DownloadTypeOK
<1>1. DownloadInv => DownloadTypeOK
  BY DEF DownloadInv
<1> QED
  BY DownloadInitInv, DownloadInvKept, <1>1, PTL DEF DownloadSpec

\* Whatever kills, power losses, cut connections and answers a download met, and
\* however it was resumed, what it published is one whole version, the pinned one
\* if there is a pin.
THEOREM OneVersionIsPublished == DownloadSpec => []PublishedIsOneVersion
<1>1. DownloadInv => PublishedIsOneVersion
  <2> SUFFICES ASSUME DownloadInv, final # Absent, pinned = Absent, ~ cut, ~ (replaced > 0)
               PROVE  \E v \in Version : final = AllBlocks(v)
    BY DEF DownloadInv, PinHolds, PublishedIsOneVersion
  <2>1. replaced = 0 /\ remote \in Version
    BY DEF DownloadInv, DownloadTypeOK
  <2> QED
    BY <2>1 DEF DownloadInv, ServedWhole, Undisturbed, CallFits
<1> QED
  BY DownloadInitInv, DownloadInvKept, <1>1, PTL DEF DownloadSpec
=============================================================================
