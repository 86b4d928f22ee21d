-------------------------- MODULE WriterLock_proofs --------------------------
(***************************************************************************)
(* Theorems about the two locks: the bootstrap writer lock, for any        *)
(* processes, hosts, recoverers and number of lock files, and the lock of  *)
(* a shard output, for any processes, calls and kills.                     *)
(***************************************************************************)
EXTENDS WriterLockHistory, ShardLock, FiniteSetTheorems, WellFoundedInduction, TLAPS

(* The type invariant of WriterLock, with the link between a process's label *)
(* in acquire or release and the lock identities it carries.                 *)
THEOREM TypeCorrect == Spec => []TypeOK
<1> USE NoLockAssumption, NoProcAssumption
    DEF TypeOK, Label, Verifying, Owning, Recovering
<1>1. Init => TypeOK
  BY DEF Init
<1>2. TypeOK /\ [Next]_vars => TypeOK'
  <2> SUFFICES ASSUME TypeOK, [Next]_vars PROVE TypeOK'
    OBVIOUS
  <2> USE DEF Goto
  <2>1. ASSUME NEW p \in Proc, Acquire(p) PROVE TypeOK'
    BY <2>1 DEF Acquire, Create
  <2>2. ASSUME NEW p \in Proc, CreateAgain(p) PROVE TypeOK'
    BY <2>2 DEF CreateAgain, Create
  <2>3. ASSUME NEW p \in Proc, Inspect(p) \/ Probe(p) PROVE TypeOK'
    BY <2>3 DEF Inspect, Probe
  <2>4. ASSUME NEW p \in Proc, WriteMetadata(p) PROVE TypeOK'
    BY <2>4 DEF WriteMetadata
  <2>5. ASSUME NEW p \in Proc, QuarantineStale(p) PROVE TypeOK'
    BY <2>5 DEF QuarantineStale, MoveAside, NothingMoved
  <2>6. ASSUME NEW p \in Proc, QuarantineCreated(p) PROVE TypeOK'
    BY <2>6 DEF QuarantineCreated, MoveAside, NothingMoved
  <2>7. ASSUME NEW p \in Proc, Release(p) PROVE TypeOK'
    BY <2>7 DEF Release, MoveAside, NothingMoved
  <2>8. ASSUME NEW p \in Proc, ConfirmStale(p) \/ DeleteQuarantined(p) PROVE TypeOK'
    BY <2>8 DEF ConfirmStale, DeleteQuarantined
  <2>9. ASSUME NEW p \in Proc, KeepQuarantined(p) PROVE TypeOK'
    BY <2>9 DEF KeepQuarantined
  <2>10. ASSUME NEW p \in Proc, Restore(p) PROVE TypeOK'
    BY <2>10 DEF Restore, LinkBack, StayAside
  <2>11. ASSUME NEW p \in Proc, Crash(p) PROVE TypeOK'
    BY <2>11 DEF Crash, Alive
  <2>12. ASSUME NEW p \in Proc, ReusePid(p) PROVE TypeOK'
    BY <2>12 DEF ReusePid
  <2>13. CASE UNCHANGED vars
    BY <2>13 DEF vars
  <2>14. QED
    BY <2>1, <2>2, <2>3, <2>4, <2>5, <2>6, <2>7, <2>8, <2>9, <2>10, <2>11,
       <2>12, <2>13 DEF Next, Step
<1>3. QED
  BY <1>1, <1>2, PTL DEF Spec

-----------------------------------------------------------------------------
(* A process that created a lock file and has not given it up is its writer; *)
(* a complete file it holds has not been deleted; and a file that was found  *)
(* stale has no owner, though its writer's PID may live again.               *)
Written ==
  \A l \in Lock : writer[l] = NoProc => l \notin Present /\ \A p \in Proc : expected[p] # l

Custody ==
  /\ Written
  /\ \A p \in Proc :
       /\ pc[p] \in Owning \cup {"verifyDiscard", "verifyRelease"} =>
            writer[expected[p]] = p
       /\ pc[p] \in {"writing", "held"} => expected[p] \in Present
       /\ pc[p] \in {"recover", "unlink"} =>
            \A q \in Proc : pc[q] \in Owning => expected[q] # expected[p]
       /\ pc[p] = "unlink" => aside[p] = expected[p] /\ aside[p] \in complete

LEMMA CustodyHolds == Spec => []Custody
<1> USE NoLockAssumption, NoProcAssumption
    DEF TypeOK, Label, Verifying, Owning, Recovering, Custody, Written, Present
<1>1. Init => Custody
  BY DEF Init
<1>2. TypeOK /\ Custody /\ [Next]_vars => Custody'
  <2> SUFFICES ASSUME TypeOK, Custody, [Next]_vars PROVE Custody'
    OBVIOUS
  <2> USE DEF Goto
  <2>1. ASSUME NEW p \in Proc, Acquire(p) PROVE Custody'
    BY <2>1 DEF Acquire, Create
  <2>2. ASSUME NEW p \in Proc, CreateAgain(p) PROVE Custody'
    BY <2>2 DEF CreateAgain, Create
  <2>3. ASSUME NEW p \in Proc, Inspect(p) \/ Probe(p) PROVE Custody'
    BY <2>3 DEF Inspect, Probe, Stale, Alive
  <2>4. ASSUME NEW p \in Proc, WriteMetadata(p) PROVE Custody'
    BY <2>4 DEF WriteMetadata
  <2>5. ASSUME NEW p \in Proc, QuarantineStale(p) PROVE Custody'
    BY <2>5 DEF QuarantineStale, MoveAside, NothingMoved
  <2>6. ASSUME NEW p \in Proc, QuarantineCreated(p) PROVE Custody'
    BY <2>6 DEF QuarantineCreated, MoveAside, NothingMoved
  <2>7. ASSUME NEW p \in Proc, Release(p) PROVE Custody'
    BY <2>7 DEF Release, MoveAside, NothingMoved
  <2>8. ASSUME NEW p \in Proc, ConfirmStale(p) \/ DeleteQuarantined(p) PROVE Custody'
    BY <2>8 DEF ConfirmStale, DeleteQuarantined, MayDelete, Stale, Alive
  <2>9. ASSUME NEW p \in Proc, KeepQuarantined(p) PROVE Custody'
    BY <2>9 DEF KeepQuarantined
  <2>10. ASSUME NEW p \in Proc, Restore(p) PROVE Custody'
    BY <2>10 DEF Restore, LinkBack, StayAside
  <2>11. ASSUME NEW p \in Proc, Crash(p) PROVE Custody'
    BY <2>11 DEF Crash, Alive
  <2>12. ASSUME NEW p \in Proc, ReusePid(p) PROVE Custody'
    BY <2>12 DEF ReusePid
  <2>13. CASE UNCHANGED vars
    BY <2>13 DEF vars
  <2>14. QED
    BY <2>1, <2>2, <2>3, <2>4, <2>5, <2>6, <2>7, <2>8, <2>9, <2>10, <2>11,
       <2>12, <2>13 DEF Next, Step
<1>3. QED
  BY <1>1, <1>2, TypeCorrect, PTL DEF Spec

(* The lock file of a live owner is never deleted, whatever the contenders do *)
(* with it between reading a stale lock and removing what they then find.     *)
THEOREM HeldLockNeverDeleted == Spec => []HeldLockSurvives
<1>1. Custody => HeldLockSurvives
  BY DEF Custody, HeldLockSurvives
<1>2. QED
  BY <1>1, CustodyHolds, PTL

-----------------------------------------------------------------------------
(* A lock file whose writer died before its metadata was complete is never    *)
(* deleted: contenders rename it, link it back or leave it in a quarantine,   *)
(* and the one deletion is of a file its deleter still means to remove.       *)
THEOREM TruncatedLockStaysForever == Spec => TruncatedLockStays
<1> DEFINE Orphaned(l) ==
      \A p \in Proc : pc[p] \in Owning \cup Verifying => expected[p] # l
<1>1. ASSUME TypeOK, Custody, [Next]_vars, NEW l \in Present \ complete, Orphaned(l)
      PROVE  l \in Present'
  <2> USE <1>1, NoLockAssumption DEF TypeOK, Present, Verifying, Owning, Recovering, Goto
  <2> l \in Lock
    OBVIOUS
  <2>1. ASSUME NEW p \in Proc, lockPath = NoLock, NEW k \in Lock, lockPath' = k,
               aside' = aside, preserved' = preserved
        PROVE  l \in Present'
    BY <2>1
  <2>2. ASSUME aside' = aside, lockPath' = lockPath, preserved' = preserved
        PROVE  l \in Present'
    BY <2>2
  <2>3. ASSUME NEW p \in Proc, NEW label, MoveAside(p, label), aside[p] = NoLock
        PROVE  l \in Present'
    <3>1. CASE l = lockPath
      BY <2>3, <3>1 DEF MoveAside
    <3>2. CASE l \in preserved
      BY <2>3, <3>2 DEF MoveAside
    <3>3. CASE \E q \in Proc : l = aside[q]
      <4>1. PICK q \in Proc : l = aside[q]
        BY <3>3
      <4>2. aside'[q] = l
        BY <2>3, <4>1 DEF MoveAside
      <4>3. QED
        BY <4>2
    <3>4. QED
      BY <3>1, <3>2, <3>3
  <2>4. ASSUME NEW p \in Proc, Acquire(p) PROVE l \in Present'
    BY <2>1, <2>2, <2>4 DEF Acquire, Create
  <2>5. ASSUME NEW p \in Proc, CreateAgain(p) PROVE l \in Present'
    BY <2>1, <2>2, <2>5 DEF CreateAgain, Create
  <2>6. ASSUME NEW p \in Proc, Inspect(p) \/ Probe(p) \/ WriteMetadata(p) \/ ConfirmStale(p)
        PROVE  l \in Present'
    BY <2>2, <2>6 DEF Inspect, Probe, WriteMetadata, ConfirmStale
  <2>7. ASSUME NEW p \in Proc,
               QuarantineStale(p) \/ QuarantineCreated(p) \/ Release(p)
        PROVE  l \in Present'
    BY <2>2, <2>3, <2>7 DEF QuarantineStale, QuarantineCreated, Release, NothingMoved
  <2>8. ASSUME NEW p \in Proc, KeepQuarantined(p) \/ ReusePid(p)
        PROVE  l \in Present'
    BY <2>2, <2>8 DEF KeepQuarantined, ReusePid
  <2>9. ASSUME NEW p \in Proc, aside' = [aside EXCEPT ![p] = NoLock],
               lockPath = NoLock \/ lockPath' = lockPath,
               preserved \subseteq preserved',
               aside[p] # l \/ lockPath' = l \/ l \in preserved'
        PROVE  l \in Present'
    <3>1. CASE l \in {lockPath} \cup preserved
      BY <2>9, <3>1
    <3>2. CASE \E q \in Proc : l = aside[q]
      <4>1. PICK q \in Proc : l = aside[q]
        BY <3>2
      <4>2. q # p => aside'[q] = l
        BY <2>9, <4>1
      <4>3. QED
        BY <2>9, <4>1, <4>2
    <3>3. QED
      BY <3>1, <3>2
  <2>10. ASSUME NEW p \in Proc, DeleteQuarantined(p) PROVE l \in Present'
    <3>1. aside[p] # l
      BY <2>10 DEF DeleteQuarantined, MayDelete, Custody
    <3>2. QED
      BY <2>9, <2>10, <3>1 DEF DeleteQuarantined
  <2>11. ASSUME NEW p \in Proc, Restore(p) PROVE l \in Present'
    BY <2>9, <2>11 DEF Restore, LinkBack, StayAside
  <2>12. ASSUME NEW p \in Proc, Crash(p) PROVE l \in Present'
    BY <2>9, <2>12 DEF Crash
  <2>13. CASE UNCHANGED vars
    BY <2>2, <2>13 DEF vars
  <2>14. QED
    BY <2>4, <2>5, <2>6, <2>7, <2>8, <2>10, <2>11, <2>12, <2>13 DEF Next, Step
<1>2. TypeOK /\ Custody /\ [Next]_vars =>
        [\A l \in Present \ complete :
           (\A p \in Proc : pc[p] \in Owning \cup Verifying => expected[p] # l)
             => l \in Present']_vars
  BY <1>1
<1>3. QED
  BY <1>2, TypeCorrect, CustodyHolds, PTL DEF Spec, TruncatedLockStays

-----------------------------------------------------------------------------
(* Until a recoverer moves aside another lock than the one it had read, the   *)
(* path names the lock of whoever owns one.                                   *)
PathIsOwned ==
  \A p \in Proc :
    /\ pc[p] \in Owning => lockPath = expected[p]
    /\ pc[p] = "verifyRelease" => aside[p] = expected[p]

Mistake(p) == pc[p] = "recover" /\ pc'[p] = "verifyRecover" /\ aside'[p] # expected[p]

LEMMA StepKeepsPath ==
  ASSUME TypeOK, Custody, PathIsOwned, NEW p \in Proc, Step(p), ~ Mistake(p)
  PROVE  PathIsOwned'
<1> USE NoLockAssumption, NoProcAssumption
    DEF TypeOK, Label, Verifying, Owning, Recovering, Custody, PathIsOwned, Goto
<1>1. CASE Acquire(p)
  BY <1>1 DEF Acquire, Create
<1>2. CASE CreateAgain(p)
  BY <1>2 DEF CreateAgain, Create
<1>3. CASE Inspect(p) \/ Probe(p)
  BY <1>3 DEF Inspect, Probe
<1>4. CASE WriteMetadata(p)
  BY <1>4 DEF WriteMetadata
<1>5. CASE QuarantineStale(p)
  BY <1>5 DEF QuarantineStale, MoveAside, NothingMoved, Mistake
<1>6. CASE QuarantineCreated(p)
  BY <1>6 DEF QuarantineCreated, MoveAside, NothingMoved
<1>7. CASE Release(p)
  BY <1>7 DEF Release, MoveAside, NothingMoved
<1>8. CASE ConfirmStale(p) \/ DeleteQuarantined(p)
  BY <1>8 DEF ConfirmStale, DeleteQuarantined
<1>9. CASE KeepQuarantined(p)
  BY <1>9 DEF KeepQuarantined
<1>10. CASE Restore(p)
  BY <1>10 DEF Restore, LinkBack, StayAside
<1>11. CASE Crash(p)
  BY <1>11 DEF Crash, Alive
<1>12. CASE ReusePid(p)
  BY <1>12 DEF ReusePid
<1>13. QED
  BY <1>1, <1>2, <1>3, <1>4, <1>5, <1>6, <1>7, <1>8, <1>9, <1>10, <1>11, <1>12
  DEF Step

LEMMA PathMakesExclusive ==
  ASSUME Custody, PathIsOwned
  PROVE  MutualExclusion /\ ReleaseTakesOwnLock
BY DEF Custody, PathIsOwned, MutualExclusion, ReleaseTakesOwnLock, Owning

(* A recoverer that nobody disturbs still finds at the path what it read:     *)
(* the lock has no owner who could take it away.                              *)
ReadStays == \A p \in Proc : pc[p] = "recover" => lockPath = expected[p]

OneAtATime ==
  \A p, q \in Proc : pc[p] = "recover" /\ pc[q] = "recover" => p = q

LEMMA StepKeepsRead ==
  ASSUME TypeOK, Custody, PathIsOwned, ReadStays, OneAtATime, NEW p \in Proc, Step(p),
         pc[p] = "probe" /\ pc'[p] = "recover" => lockPath = expected[p]
  PROVE  ReadStays'
<1> USE NoLockAssumption, NoProcAssumption
    DEF TypeOK, Label, Verifying, Owning, Recovering, Custody, PathIsOwned, ReadStays, Goto
<1>1. CASE Acquire(p)
  BY <1>1 DEF Acquire, Create
<1>2. CASE CreateAgain(p)
  BY <1>2 DEF CreateAgain, Create
<1>3. CASE Inspect(p) \/ Probe(p)
  BY <1>3 DEF Inspect, Probe
<1>4. CASE WriteMetadata(p)
  BY <1>4 DEF WriteMetadata
<1>5. CASE QuarantineStale(p)
  BY <1>5 DEF QuarantineStale, MoveAside, NothingMoved, OneAtATime
<1>6. CASE QuarantineCreated(p)
  BY <1>6 DEF QuarantineCreated, MoveAside, NothingMoved
<1>7. CASE Release(p)
  BY <1>7 DEF Release, MoveAside, NothingMoved
<1>8. CASE ConfirmStale(p) \/ DeleteQuarantined(p)
  BY <1>8 DEF ConfirmStale, DeleteQuarantined
<1>9. CASE KeepQuarantined(p)
  BY <1>9 DEF KeepQuarantined
<1>10. CASE Restore(p)
  BY <1>10 DEF Restore, LinkBack, StayAside
<1>11. CASE Crash(p)
  BY <1>11 DEF Crash, Alive
<1>12. CASE ReusePid(p)
  BY <1>12 DEF ReusePid
<1>13. QED
  BY <1>1, <1>2, <1>3, <1>4, <1>5, <1>6, <1>7, <1>8, <1>9, <1>10, <1>11, <1>12
  DEF Step

-----------------------------------------------------------------------------
(* The history: who is about to remove a stale lock is in a finite set, until *)
(* a mistake the path is owned, and while one process alone has recovered and *)
(* no probe came late no mistake is possible.                                 *)
HistoryOK ==
  /\ IsFiniteSet(recovered) /\ recovered \subseteq Recoverers
  /\ late \in BOOLEAN /\ mistaken \in BOOLEAN
  /\ \A p \in Proc : pc[p] = "recover" => p \in recovered
  /\ ~ mistaken => PathIsOwned
  /\ Cardinality(recovered) <= 1 /\ ~ late => ~ mistaken /\ ReadStays

LEMMA AtMostOneElement ==
  ASSUME NEW S, IsFiniteSet(S), Cardinality(S) <= 1, NEW x \in S, NEW y \in S
  PROVE  x = y
<1>1. Cardinality({x}) = 1 /\ IsFiniteSet({x})
  BY FS_Singleton
<1>2. {x} \subseteq S /\ Cardinality(S) \in Nat
  BY FS_CardinalityType
<1>3. Cardinality(S) = 1
  BY <1>1, <1>2, FS_Subset
<1>4. {x} = S
  BY <1>1, <1>2, <1>3, FS_Subset
<1>5. QED
  BY <1>4

LEMMA StepKeepsHistory ==
  ASSUME TypeOK, Custody, HistoryOK, NEW p \in Proc, Step(p), Noted
  PROVE  HistoryOK'
<1>1. \A q \in Proc \ {p} : pc'[q] = pc[q]
  BY DEF Step, TypeOK, Acquire, CreateAgain, Create, Inspect, Probe, WriteMetadata,
     QuarantineStale, QuarantineCreated, Release, MoveAside, NothingMoved, ConfirmStale,
     DeleteQuarantined, KeepQuarantined, Restore, Crash, ReusePid, Goto
<1>2. recovered \subseteq recovered' /\ recovered' \subseteq recovered \cup {p}
  BY <1>1 DEF Noted, HistoryOK
<1>3. IsFiniteSet(recovered')
  BY <1>2, FS_AddElement, FS_Subset DEF HistoryOK
<1>4. /\ Cardinality(recovered) \in Nat /\ Cardinality(recovered') \in Nat
      /\ Cardinality(recovered) <= Cardinality(recovered')
  BY <1>2, <1>3, FS_Subset, FS_CardinalityType DEF HistoryOK
<1>5. \A q \in Proc : pc'[q] = "recover" => q \in recovered'
  BY DEF Noted
<1>6. recovered' \subseteq Recoverers
  <2>1. pc'[p] = "recover" /\ pc[p] # "recover" => p \in Recoverers
    BY DEF Step, TypeOK, Acquire, CreateAgain, Create, Inspect, Probe, WriteMetadata,
       QuarantineStale, QuarantineCreated, Release, MoveAside, NothingMoved, ConfirmStale,
       DeleteQuarantined, KeepQuarantined, Restore, Crash, ReusePid, Goto
  <2>2. \A q \in Proc : pc'[q] = "recover" => q \in Recoverers
    BY <1>1, <2>1 DEF HistoryOK
  <2> QED
    BY <2>2 DEF Noted, HistoryOK
<1>7. /\ late' \in BOOLEAN /\ mistaken' \in BOOLEAN
      /\ ~ late' => ~ late /\ (pc[p] = "probe" /\ pc'[p] = "recover" => lockPath = expected[p])
      /\ ~ mistaken' => ~ mistaken /\ ~ Mistake(p)
      /\ mistaken' => mistaken \/ Mistake(p)
  BY <1>1 DEF Noted, HistoryOK, Mistake
<1>8. ~ mistaken' => PathIsOwned'
  BY <1>7, StepKeepsPath DEF HistoryOK
<1>9. ASSUME Cardinality(recovered') <= 1, ~ late'
      PROVE  ~ mistaken' /\ ReadStays'
  <2>1. Cardinality(recovered) <= 1 /\ ~ late
    BY <1>4, <1>7, <1>9
  <2>2. ~ mistaken /\ ReadStays /\ PathIsOwned
    BY <2>1 DEF HistoryOK
  <2>3. OneAtATime
    BY <2>1, AtMostOneElement DEF HistoryOK, OneAtATime
  <2>4. ~ Mistake(p)
    <3>1. CASE QuarantineStale(p)
      BY <2>2, <3>1 DEF Mistake, ReadStays, QuarantineStale, MoveAside, NothingMoved, Goto, TypeOK
    <3>2. CASE ~ QuarantineStale(p)
      BY <3>2 DEF Step, Mistake, TypeOK, Acquire, CreateAgain, Create, Inspect, Probe,
         WriteMetadata, QuarantineCreated, Release, MoveAside, NothingMoved, ConfirmStale,
         DeleteQuarantined, KeepQuarantined, Restore, Crash, ReusePid, Goto, Verifying
    <3> QED
      BY <3>1, <3>2
  <2>5. ReadStays'
    BY <1>7, <1>9, <2>2, <2>3, StepKeepsRead
  <2> QED
    BY <1>7, <2>2, <2>4, <2>5
<1> QED
  BY <1>3, <1>5, <1>6, <1>7, <1>8, <1>9 DEF HistoryOK

LEMMA HistoryHolds == NotedSpec => [](TypeOK /\ Custody /\ HistoryOK)
<1>1. NotedInit => HistoryOK
  BY FS_EmptySet DEF NotedInit, Init, HistoryOK, PathIsOwned, ReadStays, Owning
<1>2. TypeOK /\ Custody /\ HistoryOK /\ [\E p \in Proc : Step(p) /\ Noted]_<<vars, historyVars>>
        => HistoryOK'
  <2>1. ASSUME HistoryOK, UNCHANGED <<vars, historyVars>> PROVE HistoryOK'
    BY <2>1 DEF vars, historyVars, HistoryOK, PathIsOwned, ReadStays
  <2> QED
    BY <2>1, StepKeepsHistory
<1>3. NotedSpec => Spec
  <2>1. NotedInit => Init
    BY DEF NotedInit
  <2>2. [\E p \in Proc : Step(p) /\ Noted]_<<vars, historyVars>> => [Next]_vars
    BY DEF Next
  <2>3. QED
    BY <2>1, <2>2, PTL DEF NotedSpec, Spec
<1>4. QED
  BY <1>1, <1>2, <1>3, TypeCorrect, CustodyHolds, PTL DEF NotedSpec

(* Two bootstrap processes never both hold the lock, and a release never      *)
(* finds another's lock at the path, until a recoverer moves aside another    *)
(* lock than the one it had read; which takes a second recoverer, or an owner *)
(* that leaves and dies while its lock is between being read and probed.      *)
THEOREM ExcludesUntilOneMistake == NotedSpec => []OneMistakeApart
<1>1. Custody /\ HistoryOK => OneMistakeApart
  <2> SUFFICES ASSUME Custody, HistoryOK PROVE OneMistakeApart
    OBVIOUS
  <2>1. ExcludesUntilMistaken
    BY PathMakesExclusive DEF HistoryOK, ExcludesUntilMistaken
  <2>2. MistakesHaveCause
    <3>1. Cardinality(recovered) \in Nat
      BY FS_CardinalityType DEF HistoryOK
    <3> QED
      BY <3>1 DEF HistoryOK, MistakesHaveCause
  <2> QED
    BY <2>1, <2>2 DEF OneMistakeApart
<1> QED
  BY <1>1, HistoryHolds, PTL

(* When at most one process has the right to recover, the lock excludes until *)
(* an owner leaves and dies between that process's reading of its lock and    *)
(* the probe of its PID.                                                      *)
LoneRecoverer == \A p, q \in Recoverers : p = q

THEOREM LoneRecovererExcludes ==
  ASSUME LoneRecoverer
  PROVE  NotedSpec => [](~ late => MutualExclusion /\ ReleaseTakesOwnLock)
<1>1. ASSUME Custody, HistoryOK, ~ late PROVE MutualExclusion /\ ReleaseTakesOwnLock
  <2>1. Cardinality(recovered) <= 1
    <3>1. CASE recovered = {}
      BY <3>1, FS_EmptySet
    <3>2. CASE recovered # {}
      <4>1. PICK p \in recovered : recovered = {p}
        BY <1>1, <3>2 DEF HistoryOK, LoneRecoverer
      <4> QED
        BY <4>1, FS_Singleton
    <3> QED
      BY <3>1, <3>2
  <2> QED
    BY <1>1, <2>1, PathMakesExclusive DEF HistoryOK
<1>2. Custody /\ HistoryOK => (~ late => MutualExclusion /\ ReleaseTakesOwnLock)
  BY <1>1
<1> QED
  BY <1>2, HistoryHolds, PTL

-----------------------------------------------------------------------------
(* The lock of a shard output.  The inductive invariant: the types; what is  *)
(* in a file, by where it is and who is making it (Contents); who has which  *)
(* file locked (Flocks); and, as long as no lock was moved back, that locks  *)
(* keep their names and their records are true (Kept), what a call in which  *)
(* nobody else is awake has found (AloneFinds), and over what it was refused *)
(* (RefusedOverEmpty).                                                       *)

Locked == {"finish", "retire", "clean", "holding"}
Making == {"mark", "fill"}
Publishing == {"source", "rename", "moved", "published"}
Places == {"unused", "initializing", "lock", "retiring", "trash", "gone"}
Phases == {"none", "intended", "quarantined", "debt_quarantined", "gone"}

\* The types; a process has a candidate, and a lock file open, where it uses them.
LockTypeOK ==
  /\ place \in [File -> Places] /\ bytes \in [File -> {"empty", "short", "whole"}]
  /\ used \in [File -> BOOLEAN] /\ retiring \in [File -> [phase : Phases, file : File \cup {0}]]
  /\ flock \in [File -> Process \cup {Nobody}]
  /\ step \in [Process -> Asleep \cup {"scan", "reread", "open", "flock"}
                            \cup Making \cup Publishing \cup Locked]
  /\ todo \in [Process -> SUBSET File]
  /\ cand \in [Process -> File \cup {0}] /\ opened \in [Process -> File \cup {0}]
  /\ stale \in SUBSET Process /\ alone \in Process \cup {Nobody} /\ movedBack \in BOOLEAN
  /\ \A p \in Process :
       /\ step[p] \in Making \cup Publishing \cup {"reread"} => cand[p] \in File
       /\ step[p] \in Locked \cup {"flock"} => opened[p] \in File

\* An initializer is written by the process that made it, and is adopted, published
\* or retired only once it is whole; no two files have the name of the lock.
Contents ==
  /\ \A f \in File :
       /\ place[f] = "unused" => bytes[f] = "empty"
       /\ place[f] \notin {"unused", "initializing"} => bytes[f] = "whole"
  /\ \A p \in Process :
       /\ step[p] \in Making =>
            /\ place[cand[p]] = "initializing"
            /\ bytes[cand[p]] = IF step[p] = "mark" THEN "empty" ELSE "short"
       /\ step[p] \in Publishing \cup {"reread"} => bytes[cand[p]] = "whole"
  /\ \A p, q \in Process : step[p] \in Making /\ step[q] \in Making /\ cand[p] =
     cand[q] => p = q
  /\ \A f, g \in LockFiles : f = g

\* Who is past flock has its lock file locked, and nobody else has a lock.
Flocks ==
  /\ \A p \in Process : step[p] \in Locked => flock[opened[p]] = p
  /\ \A f \in File : flock[f] # Nobody => step[flock[f]] \in Locked /\ opened[flock[f]] = f

\* A file that is anything but a whole first anchor has the name of the lock; its
\* record of a retirement is about a file that is where it says.
Kept ==
  ~ movedBack =>
    /\ \A p \in Process :
         /\ step[p] \in Locked \cup {"flock"} => place[opened[p]] = "lock"
         /\ step[p] \in {"clean", "holding"} => retiring[opened[p]].phase = "none"
         /\ step[p] = "open" => LockFiles # {}
    /\ \A f \in File :
         /\ used[f] \/ retiring[f].phase # "none" => place[f] = "lock"
         /\ retiring[f].phase # "none" =>
              /\ retiring[f].file \in File
              /\ place[retiring[f].file] \in Recorded[retiring[f].phase]
              /\ bytes[retiring[f].file] = "whole"
         /\ place[f] = "retiring" =>
              \E g \in File : retiring[g].phase # "none" /\ retiring[g].file = f

\* Nobody else has woken up in the call: while it publishes there is no lock of
\* another, its candidate is where it left it, and the listing is still true.
AloneFinds ==
  \A p \in Process :
    alone = p /\ step[p] \notin Asleep =>
      /\ \A q \in Process \ {p} : step[q] \in Asleep
      /\ ~ movedBack =>
           /\ step[p] \in Making \cup {"scan", "reread", "source", "rename"} => LockFiles = {}
           /\ step[p] \in Making \cup {"reread", "source", "rename"} =>
                place[cand[p]] = "initializing"
           /\ step[p] \in {"moved", "published"} => place[cand[p]] = "lock"
           /\ step[p] \in Publishing => p \notin stale
           /\ step[p] \in {"scan", "clean", "retire"} => todo[p] \subseteq Initializers
           /\ step[p] = "retire" /\ retiring[opened[p]].phase # "none" =>
                retiring[opened[p]].file \notin todo[p]

\* Such a call was refused only over an initializer that is still empty.
RefusedOverEmpty ==
  ~ movedBack =>
    \A p \in Process : step[p] = "refused" /\ alone = p =>
      \E f \in File : place[f] = "initializing" /\ bytes[f] = "empty"

\* Where the loser may be in each phase.
LEMMA RecordedIs ==
  /\ Recorded["intended"] = {"initializing", "retiring"}
  /\ Recorded["quarantined"] = {"retiring", "trash"}
  /\ Recorded["debt_quarantined"] = {"trash", "gone"}
  /\ Recorded["gone"] = {"gone"}
BY DEF Recorded

\* A set of natural numbers has a least one: the natural numbers are well-founded.
LEMMA LeastOf ==
  ASSUME NEW S \in SUBSET Nat, S # {}
  PROVE  \E m \in S : \A x \in S : m <= x
<1> DEFINE Less == {p \in Nat \X Nat : p[1] < p[2]}
<1>1. IsWellFoundedOn(Less, Nat)
  BY NatLessThanWellFounded DEF OpToRel
<1>2. PICK m \in S : \A x \in S : ~ (<<x, m>> \in Less)
  BY <1>1, WFMin
<1>3. \A x \in S : ~ (x < m)
  BY <1>2
<1> QED
  BY <1>3

\* The first initializer of a listing is one of them.
LEMMA FirstOf ==
  ASSUME NEW S \in SUBSET File, S # {}
  PROVE  Min(S) \in S
<1>1. S \in SUBSET Nat
  BY DEF File
<1>2. \E m \in S : \A x \in S : m <= x
  BY <1>1, LeastOf
<1> QED
  BY <1>2 DEF Min

\* A call goes on or raises; it wrote its anchor or nothing.
LEMMA AnchorTypes ==
  ASSUME LockTypeOK, NEW p \in Process, step[p] \in Locked,
         NEW label \in Locked, NEW busy \in BOOLEAN,
         NEW record \in [phase : Phases, file : File \cup {0}],
         WriteLockAnchor(p, label, busy, record), todo' \in [Process -> SUBSET File]
  PROVE  LockTypeOK'
<1> USE ProcessAssumption
        DEF LockTypeOK, Asleep, Making, Publishing, Locked, Places, lockDisk, locals
<1>1. CASE RefuseLock(p)
  BY <1>1 DEF RefuseLock, Freed, Go, Proceed
<1>2. CASE ~ RefuseLock(p)
  <2> DEFINE o == opened[p]
             v == used[o] \/ busy
  <2>1. o \in File
    OBVIOUS
  <2>2. v \in BOOLEAN
    OBVIOUS
  <2>3. /\ used' = [used EXCEPT ![o] = v] /\ retiring' = [retiring EXCEPT ![o] = record]
        /\ stale' = stale \cup {q \in Process : cand[q] = o} /\ Go(p, label)
        /\ UNCHANGED <<place, bytes, flock, cand, opened>>
    BY <1>2, Zenon DEF WriteLockAnchor, Touch
  <2> HIDE DEF v, o
  <2>4. used' \in [File -> BOOLEAN]
    BY <2>1, <2>2, <2>3
  <2>5. /\ step' = [step EXCEPT ![p] = label] /\ alone' \in Process \cup {Nobody}
        /\ UNCHANGED movedBack
    BY <2>3 DEF Go, Proceed
  <2> QED
    BY <2>1, <2>3, <2>4, <2>5
<1> QED
  BY <1>1, <1>2

\* A step of a retirement keeps the types.
LEMMA RetireTypes ==
  ASSUME LockTypeOK, NEW p \in Process, RetireLoser(p)
  PROVE  LockTypeOK'
<1> DEFINE r == RetirementOf(p)
<1>1. opened[p] \in File /\ r \in [phase : Phases, file : File \cup {0}]
  BY DEF RetireLoser, RetirementOf, LockTypeOK, Locked
<1>2. NoRetirement \in [phase : Phases, file : File \cup {0}]
  BY DEF NoRetirement, Phases
<1>3. ASSUME NEW phase \in Phases, NotedAs(p, phase) PROVE LockTypeOK'
  <2> DEFINE record == [r EXCEPT !.phase = phase]
  <2>1. record \in [phase : Phases, file : File \cup {0}]
    BY <1>1
  <2>2. /\ WriteLockAnchor(p, step[p], FALSE, record)
        /\ todo' \in [Process -> SUBSET File] /\ step[p] \in Locked
    BY <1>3 DEF NotedAs, RetireLoser, Locked, LockTypeOK
  <2> HIDE DEF record, r
  <2> QED
    BY <2>1, <2>2, AnchorTypes
<1>4. ASSUME NEW to \in {"retiring", "trash", "gone"}, MoveLoser(p, to) PROVE LockTypeOK'
  BY <1>1, <1>4
     DEF RetireLoser, LockTypeOK, Asleep, Making, Publishing, Locked, Places,
         lockDisk, locals, MoveLoser, Go, Proceed
<1>5. ASSUME NEW label \in {"clean", "finish"}, WriteLockAnchor(p, label, FALSE, NoRetirement),
             UNCHANGED todo
      PROVE  LockTypeOK'
  <2>1. step[p] \in Locked /\ label \in Locked /\ todo' \in [Process -> SUBSET File]
    BY <1>5 DEF RetireLoser, Locked, LockTypeOK
  <2> QED
    BY <1>2, <1>5, <2>1, AnchorTypes
<1>6. CASE RefuseLock(p)
  BY <1>6
     DEF LockTypeOK, Asleep, Making, Publishing, Locked, Places, lockDisk, locals,
         RefuseLock, Freed, Go, Proceed
<1> QED
  BY <1>3, <1>4, <1>5, <1>6 DEF RetireLoser, Phases

\* One step per action: the types,
LEMMA LockTypeOKKept ==
  ASSUME LockTypeOK, [LockNext]_everything
  PROVE  LockTypeOK'
<1> USE ProcessAssumption, FirstOf, RecordedIs
        DEF LockTypeOK, Asleep, Making, Publishing, Locked, Places, Phases,
            LockFiles, Initializers, lockDisk, locals
<1>1. ASSUME NEW p \in Process, Start(p) PROVE LockTypeOK'
  BY <1>1 DEF Start
<1>2. ASSUME NEW p \in Process, ReadCandidate(p) PROVE LockTypeOK'
  <2> DEFINE f == Min(todo[p])
  <2>1. f \in todo[p] /\ f \in File
    BY <1>2, FirstOf DEF ReadCandidate
  <2> HIDE DEF f
  <2>2. CASE Adopt(p, f) /\ UNCHANGED <<lockDisk, flock, todo, opened>>
    BY <2>1, <2>2 DEF Adopt, Go, Proceed
  <2>3. CASE /\ todo' = [todo EXCEPT ![p] = @ \ {f}] /\ Go(p, "scan")
             /\ UNCHANGED <<lockDisk, flock, cand, opened, stale>>
    BY <2>1, <2>3 DEF Go, Proceed
  <2>4. CASE RefuseLock(p)
    BY <2>4 DEF RefuseLock, Freed, Go, Proceed
  <2> QED
    BY <1>2, <2>2, <2>3, <2>4 DEF ReadCandidate, f
<1>3. ASSUME NEW p \in Process, CreateInitializer(p) PROVE LockTypeOK'
  BY <1>3 DEF CreateInitializer, Go, Proceed
<1>4. ASSUME NEW p \in Process, MarkInitializer(p) PROVE LockTypeOK'
  BY <1>4 DEF MarkInitializer, Go, Proceed
<1>5. ASSUME NEW p \in Process, FillInitializer(p) PROVE LockTypeOK'
  BY <1>5 DEF FillInitializer, Go, Proceed
<1>6. ASSUME NEW p \in Process, Reread(p) PROVE LockTypeOK'
  BY <1>6 DEF Reread, Adopt, Go, Proceed, RefuseLock, Freed, Pristine
<1>7. ASSUME NEW p \in Process, CheckSource(p) PROVE LockTypeOK'
  BY <1>7 DEF CheckSource, Known, Forgiven, Go, Proceed, RefuseLock, Freed
<1>8. ASSUME NEW p \in Process, RenameToLock(p) PROVE LockTypeOK'
  BY <1>8 DEF RenameToLock, Forgiven, Go, Proceed, RefuseLock, Freed
<1>9. ASSUME NEW p \in Process, CheckMoved(p) PROVE LockTypeOK'
  <2>1. CASE Go(p, "published") /\ UNCHANGED <<lockDisk, flock, locals, stale>>
    <3>1. step[p] = "moved"
      BY <1>9 DEF CheckMoved
    <3> QED
      BY <2>1, <3>1 DEF Go, Proceed
  <2>2. CASE /\ place' = [place EXCEPT ![cand[p]] = "initializing"]
             /\ movedBack' = TRUE /\ Proceed(p, "refused")
             /\ UNCHANGED <<bytes, used, retiring, flock, locals, stale>>
    <3>1. /\ place' \in [File -> Places] /\ step' = [step EXCEPT ![p] = "refused"]
          /\ alone' \in Process \cup {Nobody}
      BY <2>2 DEF Proceed
    <3>2. movedBack' \in BOOLEAN
      BY <2>2
    <3> QED
      BY <2>2, <3>1, <3>2
  <2>3. CASE Forgiven(p)
    BY <2>3 DEF Forgiven, Go, Proceed
  <2>4. CASE RefuseLock(p)
    BY <2>4 DEF RefuseLock, Freed, Go, Proceed
  <2> QED
    BY <1>9, <2>1, <2>2, <2>3, <2>4, Zenon DEF CheckMoved
<1>10. ASSUME NEW p \in Process, CheckPublished(p) PROVE LockTypeOK'
  BY <1>10 DEF CheckPublished, Go, Proceed, RefuseLock, Freed
<1>11. ASSUME NEW p \in Process, Open(p) PROVE LockTypeOK'
  BY <1>11 DEF Open, Go, Proceed, RefuseLock, Freed
<1>12. ASSUME NEW p \in Process, Flock(p) PROVE LockTypeOK'
  BY <1>12 DEF Flock, Go, Proceed, RefuseLock, Freed
<1>13. ASSUME NEW p \in Process, RetireLoser(p) PROVE LockTypeOK'
  BY <1>13, RetireTypes
<1>14. ASSUME NEW p \in Process, FirstCleanup(p) PROVE LockTypeOK'
  BY <1>14 DEF FirstCleanup, RetirementOf, Go, Proceed, RefuseLock, Freed
<1>15. ASSUME NEW p \in Process, CleanInitializer(p) PROVE LockTypeOK'
  BY <1>15, SMTT(60)
     DEF CleanInitializer, WriteLockAnchor, Touch, Go, Proceed, RefuseLock, Freed,
         Pristine
<1>16. ASSUME NEW p \in Process, EndCleanup(p) PROVE LockTypeOK'
  BY <1>16 DEF EndCleanup, Go, Proceed, RefuseLock, Freed
<1>17. ASSUME NEW p \in Process, WorkLocked(p) PROVE LockTypeOK'
  <2>1. NoRetirement \in [phase : Phases, file : File \cup {0}]
    BY DEF NoRetirement
  <2> QED
    BY <1>17, <2>1, AnchorTypes DEF WorkLocked
<1>18. ASSUME NEW p \in Process, ReleaseLock(p) PROVE LockTypeOK'
  BY <1>18 DEF ReleaseLock, Go, Proceed, Freed
<1>19. ASSUME NEW p \in Process, KillBuilder(p) PROVE LockTypeOK'
  BY <1>19 DEF KillBuilder, Freed
<1>20. CASE UNCHANGED everything
  BY <1>20 DEF everything
<1> QED
  BY <1>1, <1>2, <1>3, <1>4, <1>5, <1>6, <1>7, <1>8, <1>9, <1>10, <1>11, <1>12,
     <1>13, <1>14, <1>15, <1>16, <1>17, <1>18, <1>19, <1>20
     DEF LockNext, LockStopped

\* A step of a retirement moves the initializer, or writes the anchor, or raises.
LEMMA RetirementSteps ==
  ASSUME NEW p \in Process, RetireLoser(p)
  PROVE  /\ step[p] \in {"finish", "retire"}
         /\ \/ /\ \E to \in {"retiring", "trash", "gone"} : MoveLoser(p, to)
               /\ place[Loser(p)] \in {"initializing", "retiring", "trash"}
               /\ place[Loser(p)] = "initializing" => Pristine(Loser(p))
            \/ \E label \in {"finish", "retire", "clean"} :
                 /\ Go(p, label) /\ place' = place /\ bytes' = bytes
                 /\ cand' = cand /\ flock' = flock /\ opened' = opened
            \/ RefuseLock(p)
<1>1. step[p] \in {"finish", "retire"}
  BY DEF RetireLoser
<1>2. ASSUME NEW label, NEW busy, NEW record, WriteLockAnchor(p, label, busy, record)
      PROVE  \/ RefuseLock(p)
             \/ /\ Go(p, label) /\ place' = place /\ bytes' = bytes
                /\ cand' = cand /\ flock' = flock /\ opened' = opened
  BY <1>2 DEF WriteLockAnchor
<1>3. CASE RefuseLock(p)
  BY <1>1, <1>3
<1>4. CASE \E phase \in Phases : NotedAs(p, phase)
  <2>1. PICK phase \in Phases :
          WriteLockAnchor(p, step[p], FALSE, [RetirementOf(p) EXCEPT !.phase = phase])
    BY <1>4 DEF NotedAs
  <2> QED
    BY <1>1, <1>2, <2>1
<1>5. CASE WriteLockAnchor(p, IF step[p] = "retire" THEN "clean" ELSE "finish",
   FALSE, NoRetirement)
  BY <1>1, <1>2, <1>5
<1>6. CASE /\ \E to \in {"retiring", "trash", "gone"} : MoveLoser(p, to)
           /\ place[Loser(p)] \in {"initializing", "retiring", "trash"}
           /\ place[Loser(p)] = "initializing" => Pristine(Loser(p))
  BY <1>1, <1>6
<1> QED
  BY <1>3, <1>4, <1>5, <1>6 DEF RetireLoser, AsRecorded, Phases

\* what is in the files,
LEMMA ContentsKept ==
  ASSUME LockTypeOK, Contents, [LockNext]_everything
  PROVE  Contents'
<1> USE ProcessAssumption, FirstOf, RecordedIs
        DEF LockTypeOK, Contents, Asleep, Making, Publishing, Locked, Places,
            Phases, LockFiles, lockDisk, locals
<1>1. ASSUME NEW p \in Process, Start(p) PROVE Contents'
  BY <1>1 DEF Start
<1>2. ASSUME NEW p \in Process, ReadCandidate(p) PROVE Contents'
  BY <1>2, SMTT(60) DEF ReadCandidate, Adopt, Go, Proceed, RefuseLock, Freed, Pristine
<1>3. ASSUME NEW p \in Process, CreateInitializer(p) PROVE Contents'
  BY <1>3 DEF CreateInitializer, Go, Proceed
<1>4. ASSUME NEW p \in Process, MarkInitializer(p) PROVE Contents'
  BY <1>4 DEF MarkInitializer, Go, Proceed
<1>5. ASSUME NEW p \in Process, FillInitializer(p) PROVE Contents'
  BY <1>5 DEF FillInitializer, Go, Proceed
<1>6. ASSUME NEW p \in Process, Reread(p) PROVE Contents'
  BY <1>6 DEF Reread, Adopt, Go, Proceed, RefuseLock, Freed, Pristine
<1>7. ASSUME NEW p \in Process, CheckSource(p) PROVE Contents'
  BY <1>7 DEF CheckSource, Known, Forgiven, Go, Proceed, RefuseLock, Freed
<1>8. ASSUME NEW p \in Process, RenameToLock(p) PROVE Contents'
  BY <1>8 DEF RenameToLock, Forgiven, Go, Proceed, RefuseLock, Freed
<1>9. ASSUME NEW p \in Process, CheckMoved(p) PROVE Contents'
  BY <1>9 DEF CheckMoved, Forgiven, Go, Proceed, RefuseLock, Freed
<1>10. ASSUME NEW p \in Process, CheckPublished(p) PROVE Contents'
  BY <1>10 DEF CheckPublished, Go, Proceed, RefuseLock, Freed
<1>11. ASSUME NEW p \in Process, Open(p) PROVE Contents'
  BY <1>11, SMTT(60) DEF Open, Go, Proceed, RefuseLock, Freed
<1>12. ASSUME NEW p \in Process, Flock(p) PROVE Contents'
  BY <1>12 DEF Flock, Go, Proceed, RefuseLock, Freed
<1>13. ASSUME NEW p \in Process, RetireLoser(p) PROVE Contents'
  <2>1. ASSUME NEW to \in {"retiring", "trash", "gone"}, MoveLoser(p, to),
               place[Loser(p)] \in {"initializing", "retiring", "trash"},
               place[Loser(p)] = "initializing" => Pristine(Loser(p))
        PROVE  Contents'
    BY <1>13, <2>1 DEF RetireLoser, MoveLoser, Go, Proceed, Pristine
  <2>2. ASSUME NEW label \in {"finish", "retire", "clean"}, Go(p, label),
               place' = place, bytes' = bytes, cand' = cand
        PROVE  Contents'
    BY <2>2 DEF Go, Proceed
  <2>3. CASE RefuseLock(p)
    BY <2>3 DEF RefuseLock, Go, Proceed
  <2> QED
    BY <1>13, <2>1, <2>2, <2>3, RetirementSteps
<1>14. ASSUME NEW p \in Process, FirstCleanup(p) PROVE Contents'
  BY <1>14 DEF FirstCleanup, RetirementOf, Go, Proceed, RefuseLock, Freed
<1>15. ASSUME NEW p \in Process, CleanInitializer(p) PROVE Contents'
  BY <1>15
     DEF CleanInitializer, WriteLockAnchor, Touch, Go, Proceed, RefuseLock, Freed,
         Pristine
<1>16. ASSUME NEW p \in Process, EndCleanup(p) PROVE Contents'
  BY <1>16 DEF EndCleanup, Go, Proceed, RefuseLock, Freed
<1>17. ASSUME NEW p \in Process, WorkLocked(p) PROVE Contents'
  BY <1>17 DEF WorkLocked, WriteLockAnchor, Touch, Go, Proceed, RefuseLock, Freed, NoRetirement
<1>18. ASSUME NEW p \in Process, ReleaseLock(p) PROVE Contents'
  BY <1>18 DEF ReleaseLock, Go, Proceed, Freed
<1>19. ASSUME NEW p \in Process, KillBuilder(p) PROVE Contents'
  BY <1>19 DEF KillBuilder, Freed
<1>20. CASE UNCHANGED everything
  BY <1>20 DEF everything
<1> QED
  BY <1>1, <1>2, <1>3, <1>4, <1>5, <1>6, <1>7, <1>8, <1>9, <1>10, <1>11, <1>12,
     <1>13, <1>14, <1>15, <1>16, <1>17, <1>18, <1>19, <1>20
     DEF LockNext, LockStopped

\* who has them locked,
LEMMA FlocksKept ==
  ASSUME LockTypeOK, Flocks, [LockNext]_everything
  PROVE  Flocks'
<1> USE ProcessAssumption, FirstOf, RecordedIs
        DEF LockTypeOK, Flocks, Asleep, Making, Publishing, Locked, Places, Phases,
            lockDisk, locals
<1>1. ASSUME NEW p \in Process, Start(p) PROVE Flocks'
  BY <1>1 DEF Start
<1>2. ASSUME NEW p \in Process, ReadCandidate(p) PROVE Flocks'
  BY <1>2 DEF ReadCandidate, Adopt, Go, Proceed, RefuseLock, Freed, Pristine
<1>3. ASSUME NEW p \in Process, CreateInitializer(p) PROVE Flocks'
  BY <1>3 DEF CreateInitializer, Go, Proceed
<1>4. ASSUME NEW p \in Process, MarkInitializer(p) PROVE Flocks'
  BY <1>4 DEF MarkInitializer, Go, Proceed
<1>5. ASSUME NEW p \in Process, FillInitializer(p) PROVE Flocks'
  BY <1>5 DEF FillInitializer, Go, Proceed
<1>6. ASSUME NEW p \in Process, Reread(p) PROVE Flocks'
  BY <1>6 DEF Reread, Adopt, Go, Proceed, RefuseLock, Freed, Pristine
<1>7. ASSUME NEW p \in Process, CheckSource(p) PROVE Flocks'
  BY <1>7 DEF CheckSource, Known, Forgiven, Go, Proceed, RefuseLock, Freed
<1>8. ASSUME NEW p \in Process, RenameToLock(p) PROVE Flocks'
  BY <1>8 DEF RenameToLock, Forgiven, Go, Proceed, RefuseLock, Freed
<1>9. ASSUME NEW p \in Process, CheckMoved(p) PROVE Flocks'
  BY <1>9 DEF CheckMoved, Forgiven, Go, Proceed, RefuseLock, Freed
<1>10. ASSUME NEW p \in Process, CheckPublished(p) PROVE Flocks'
  BY <1>10 DEF CheckPublished, Go, Proceed, RefuseLock, Freed
<1>11. ASSUME NEW p \in Process, Open(p) PROVE Flocks'
  BY <1>11 DEF Open, Go, Proceed, RefuseLock, Freed
<1>12. ASSUME NEW p \in Process, Flock(p) PROVE Flocks'
  BY <1>12 DEF Flock, Go, Proceed, RefuseLock, Freed
<1>13. ASSUME NEW p \in Process, RetireLoser(p) PROVE Flocks'
  <2>1. CASE RefuseLock(p)
    BY <1>13, <2>1 DEF RetireLoser, RefuseLock, Freed, Go, Proceed
  <2>2. ASSUME NEW label \in Locked, step' = [step EXCEPT ![p] = label],
               step[p] \in Locked, flock' = flock, opened' = opened
        PROVE  Flocks'
    BY <2>2
  <2>3. ASSUME NEW to, MoveLoser(p, to) PROVE Flocks'
    BY <1>13, <2>2, <2>3, RetirementSteps DEF MoveLoser, Go, Proceed
  <2>4. ASSUME NEW label \in {"finish", "retire", "clean"}, Go(p, label),
               flock' = flock, opened' = opened
        PROVE  Flocks'
    BY <1>13, <2>2, <2>4, RetirementSteps DEF Go, Proceed
  <2> QED
    BY <1>13, <2>1, <2>3, <2>4, RetirementSteps
<1>14. ASSUME NEW p \in Process, FirstCleanup(p) PROVE Flocks'
  BY <1>14 DEF FirstCleanup, RetirementOf, Go, Proceed, RefuseLock, Freed
<1>15. ASSUME NEW p \in Process, CleanInitializer(p) PROVE Flocks'
  BY <1>15
     DEF CleanInitializer, WriteLockAnchor, Touch, Go, Proceed, RefuseLock, Freed,
         Pristine
<1>16. ASSUME NEW p \in Process, EndCleanup(p) PROVE Flocks'
  BY <1>16 DEF EndCleanup, Go, Proceed, RefuseLock, Freed
<1>17. ASSUME NEW p \in Process, WorkLocked(p) PROVE Flocks'
  BY <1>17 DEF WorkLocked, WriteLockAnchor, Touch, Go, Proceed, RefuseLock, Freed, NoRetirement
<1>18. ASSUME NEW p \in Process, ReleaseLock(p) PROVE Flocks'
  BY <1>18 DEF ReleaseLock, Go, Proceed, Freed
<1>19. ASSUME NEW p \in Process, KillBuilder(p) PROVE Flocks'
  BY <1>19 DEF KillBuilder, Freed
<1>20. CASE UNCHANGED everything
  BY <1>20 DEF everything
<1> QED
  BY <1>1, <1>2, <1>3, <1>4, <1>5, <1>6, <1>7, <1>8, <1>9, <1>10, <1>11, <1>12,
     <1>13, <1>14, <1>15, <1>16, <1>17, <1>18, <1>19, <1>20
     DEF LockNext, LockStopped

\* While no lock was moved back, a retirement goes on to its next step.
LEMMA Retires ==
  ASSUME LockTypeOK, Contents, Flocks, Kept, ~ movedBack,
         NEW p \in Process, RetireLoser(p),
         NEW o, o = opened[p], NEW f, f = retiring[o].file
  PROVE  /\ o \in File /\ f \in File /\ f # o /\ place[o] = "lock" /\ bytes[f] = "whole"
         /\ step[p] \in {"finish", "retire"} /\ retiring[o].phase # "none"
         /\ ~ movedBack' /\ UNCHANGED <<bytes, flock, todo, cand, opened>>
         /\ alone' = IF alone = p THEN p ELSE Nobody
         /\ \A g \in File : g # o => used'[g] = used[g]
         /\ \/ /\ \E to \in Places :
                   /\ place' = [place EXCEPT ![f] = to]
                   /\ to \in Recorded[retiring[o].phase] /\ to # "initializing"
              /\ retiring' = retiring /\ step' = step
            \/ /\ place' = place /\ step' = step
               /\ \E phase \in Phases \ {"none"} :
                    /\ retiring' = [retiring EXCEPT ![o] = [phase |-> phase, file |-> f]]
                    /\ place[f] \in Recorded[phase]
            \/ /\ place' = place /\ retiring' = [retiring EXCEPT ![o] = NoRetirement]
               /\ place[f] = "gone"
               /\ step' = [step EXCEPT ![p] = IF step[p] = "retire" THEN "clean" ELSE "finish"]
<1> DEFINE r == retiring[o]
<1>1. /\ o \in File /\ place[o] = "lock" /\ step[p] \in {"finish", "retire"}
      /\ r.phase \in Phases \ {"none"} /\ r = [phase |-> r.phase, file |-> f]
  BY DEF RetireLoser, RetirementOf, LockTypeOK, Kept, Locked
<1>2. /\ f \in File /\ place[f] \in Recorded[r.phase] /\ bytes[f] = "whole"
      /\ (place[f] = "initializing" => Pristine(f))
  BY <1>1 DEF Kept, Pristine, LockTypeOK
<1>3. f # o
  BY <1>1, <1>2, RecordedIs DEF Phases
<1>4. RetirementOf(p) = r /\ Loser(p) = f /\ AsRecorded(p)
  BY <1>1, <1>2 DEF RetirementOf, Loser, AsRecorded
<1> HIDE DEF r
<1>5. ASSUME NEW to \in {"retiring", "trash", "gone"}, MoveLoser(p, to), to \in
   Recorded[r.phase]
      PROVE  /\ place' = [place EXCEPT ![f] = to] /\ to \in Places /\ to # "initializing"
             /\ retiring' = retiring /\ step' = step /\ used' = used
             /\ ~ movedBack' /\ UNCHANGED <<bytes, flock, todo, cand, opened>>
             /\ alone' = IF alone = p THEN p ELSE Nobody
  <2>1. step' = [step EXCEPT ![p] = step[p]]
    BY <1>4, <1>5 DEF MoveLoser, Go, Proceed
  <2>2. step' = step
    BY <2>1 DEF LockTypeOK
  <2> QED
    BY <1>4, <1>5, <2>2 DEF MoveLoser, Go, Proceed, locals, Places
<1>6. ASSUME NEW label, NEW record, WriteLockAnchor(p, label, FALSE, record), UNCHANGED todo
      PROVE  /\ place' = place /\ retiring' = [retiring EXCEPT ![o] = record]
             /\ step' = [step EXCEPT ![p] = label]
             /\ ~ movedBack' /\ UNCHANGED <<bytes, flock, todo, cand, opened>>
             /\ alone' = IF alone = p THEN p ELSE Nobody
             /\ \A g \in File : g # o => used'[g] = used[g]
  <2>1. /\ used' = [used EXCEPT ![o] = used[o] \/ FALSE]
        /\ retiring' = [retiring EXCEPT ![o] = record] /\ Go(p, label)
        /\ UNCHANGED <<place, bytes, flock, cand, opened>>
    BY <1>1, <1>6 DEF WriteLockAnchor
  <2>2. \A g \in File : g # o => used'[g] = used[g]
    BY <2>1 DEF LockTypeOK
  <2> QED
    BY <1>6, <2>1, <2>2 DEF Go, Proceed
<1>7. ASSUME NEW phase \in Phases \ {"none"}, NotedAs(p, phase), place[f] \in Recorded[phase]
      PROVE  /\ place' = place /\ step' = step
             /\ retiring' = [retiring EXCEPT ![o] = [phase |-> phase, file |-> f]]
             /\ ~ movedBack' /\ UNCHANGED <<bytes, flock, todo, cand, opened>>
             /\ alone' = IF alone = p THEN p ELSE Nobody
             /\ \A g \in File : g # o => used'[g] = used[g]
  <2>1. WriteLockAnchor(p, step[p], FALSE, [r EXCEPT !.phase = phase]) /\ UNCHANGED todo
    BY <1>4, <1>7 DEF NotedAs
  <2>2. [r EXCEPT !.phase = phase] = [phase |-> phase, file |-> f]
    BY <1>1 DEF r
  <2>3. step = [step EXCEPT ![p] = step[p]]
    BY DEF LockTypeOK
  <2>4. WriteLockAnchor(p, step[p], FALSE, [phase |-> phase, file |-> f]) /\ UNCHANGED todo
    BY <2>1, <2>2
  <2>5. /\ place' = place /\ retiring' = [retiring EXCEPT ![o] = [phase |-> phase, file |-> f]]
        /\ step' = [step EXCEPT ![p] = step[p]]
        /\ ~ movedBack' /\ UNCHANGED <<bytes, flock, todo, cand, opened>>
        /\ alone' = IF alone = p THEN p ELSE Nobody
        /\ \A g \in File : g # o => used'[g] = used[g]
    BY <1>6, <2>4
  <2> QED
    BY <2>3, <2>5
<1> DEFINE After == IF step[p] = "retire" THEN "clean" ELSE "finish"
<1> HIDE DEF After
<1>8. \/ \E to \in {"retiring", "trash", "gone"} : MoveLoser(p, to) /\ to \in Recorded[r.phase]
      \/ \E phase \in Phases \ {"none"} : NotedAs(p, phase) /\ place[f] \in Recorded[phase]
      \/ WriteLockAnchor(p, After, FALSE, NoRetirement) /\ UNCHANGED todo /\ place[f] = "gone"
  <2>1. RetirementOf(p) = r /\ Loser(p) = f /\ AsRecorded(p)
    BY <1>4
  <2>2. CASE r.phase = "intended"
    BY <1>1, <1>2, <2>1, <2>2, RecordedIs DEF RetireLoser, Phases
  <2>3. CASE r.phase = "quarantined"
    BY <1>1, <1>2, <2>1, <2>3, RecordedIs DEF RetireLoser, Phases
  <2>4. CASE r.phase = "debt_quarantined"
    BY <1>1, <1>2, <2>1, <2>4, RecordedIs DEF RetireLoser, Phases
  <2>5. CASE r.phase = "gone"
    BY <1>1, <1>2, <2>1, <2>5, RecordedIs DEF RetireLoser, After
  <2> QED
    BY <1>1, <2>2, <2>3, <2>4, <2>5 DEF Phases
<1>9. CASE \E to \in {"retiring", "trash", "gone"} : MoveLoser(p, to) /\ to \in
   Recorded[r.phase]
  BY <1>1, <1>2, <1>3, <1>5, <1>9 DEF r
<1>10. CASE \E phase \in Phases \ {"none"} : NotedAs(p, phase) /\ place[f] \in Recorded[phase]
  BY <1>1, <1>2, <1>3, <1>7, <1>10 DEF r
<1>11. CASE WriteLockAnchor(p, After, FALSE, NoRetirement) /\ UNCHANGED todo /\
   place[f] = "gone"
  <2>1. /\ place' = place /\ retiring' = [retiring EXCEPT ![o] = NoRetirement]
        /\ step' = [step EXCEPT ![p] = After]
        /\ ~ movedBack' /\ UNCHANGED <<bytes, flock, todo, cand, opened>>
        /\ alone' = IF alone = p THEN p ELSE Nobody
        /\ \A g \in File : g # o => used'[g] = used[g]
    BY <1>6, <1>11
  <2> QED
    BY <1>1, <1>2, <1>3, <1>11, <2>1 DEF r, After
<1> QED
  BY <1>8, <1>9, <1>10, <1>11

\* names and records,
LEMMA KeptKept ==
  ASSUME LockTypeOK, Contents, Flocks, Kept, [LockNext]_everything
  PROVE  Kept'
<1> USE ProcessAssumption, FirstOf, RecordedIs
        DEF LockTypeOK, Contents, Flocks, Kept, Asleep, Making, Publishing, Locked,
            Places, Phases, LockFiles, Initializers, lockDisk, locals
<1>1. ASSUME NEW p \in Process, Start(p) PROVE Kept'
  BY <1>1 DEF Start
<1>2. ASSUME NEW p \in Process, ReadCandidate(p) PROVE Kept'
  BY <1>2 DEF ReadCandidate, Adopt, Go, Proceed, RefuseLock, Freed, Pristine
<1>3. ASSUME NEW p \in Process, CreateInitializer(p) PROVE Kept'
  BY <1>3 DEF CreateInitializer, Go, Proceed
<1>4. ASSUME NEW p \in Process, MarkInitializer(p) PROVE Kept'
  BY <1>4 DEF MarkInitializer, Go, Proceed
<1>5. ASSUME NEW p \in Process, FillInitializer(p) PROVE Kept'
  BY <1>5 DEF FillInitializer, Go, Proceed
<1>6. ASSUME NEW p \in Process, Reread(p) PROVE Kept'
  BY <1>6 DEF Reread, Adopt, Go, Proceed, RefuseLock, Freed, Pristine
<1>7. ASSUME NEW p \in Process, CheckSource(p) PROVE Kept'
  BY <1>7 DEF CheckSource, Known, Forgiven, Go, Proceed, RefuseLock, Freed
<1>8. ASSUME NEW p \in Process, RenameToLock(p) PROVE Kept'
  BY <1>8 DEF RenameToLock, Forgiven, Go, Proceed, RefuseLock, Freed
<1>9. ASSUME NEW p \in Process, CheckMoved(p) PROVE Kept'
  BY <1>9 DEF CheckMoved, Forgiven, Go, Proceed, RefuseLock, Freed
<1>10. ASSUME NEW p \in Process, CheckPublished(p) PROVE Kept'
  BY <1>10 DEF CheckPublished, Go, Proceed, RefuseLock, Freed
<1>11. ASSUME NEW p \in Process, Open(p) PROVE Kept'
  BY <1>11 DEF Open, Go, Proceed, RefuseLock, Freed
<1>12. ASSUME NEW p \in Process, Flock(p) PROVE Kept'
  BY <1>12 DEF Flock, Go, Proceed, RefuseLock, Freed
<1>13. ASSUME NEW p \in Process, RetireLoser(p) PROVE Kept'
  <2>1. CASE movedBack
    BY <1>13, <2>1 DEF RetireLoser, MoveLoser, NotedAs, WriteLockAnchor, RefuseLock, Go
  <2>2. CASE ~ movedBack
    <3> DEFINE o == opened[p]
               f == retiring[o].file
    <3> HIDE DEF o, f
    <3>1. o = opened[p] /\ f = retiring[o].file
      BY DEF o, f
    <3>2. /\ o \in File /\ f \in File /\ f # o /\ place[o] = "lock" /\ bytes[f] = "whole"
          /\ step[p] \in {"finish", "retire"} /\ retiring[o].phase # "none"
          /\ ~ movedBack' /\ UNCHANGED <<bytes, flock, todo, cand, opened>>
          /\ alone' = (IF alone = p THEN p ELSE Nobody)
          /\ \A g \in File : g # o => used'[g] = used[g]
      BY <1>13, <2>2, <3>1, Retires
    <3>3. ASSUME NEW to \in Places, place' = [place EXCEPT ![f] = to],
                 to \in Recorded[retiring[o].phase], to # "initializing",
                 retiring' = retiring, step' = step
          PROVE  Kept'
      BY <2>2, <3>1, <3>2, <3>3
    <3>4. ASSUME NEW phase \in Phases \ {"none"},
                 retiring' = [retiring EXCEPT ![o] = [phase |-> phase, file |-> f]],
                 place[f] \in Recorded[phase], place' = place, step' = step
          PROVE  Kept'
      BY <2>2, <3>1, <3>2, <3>4
    <3>5. ASSUME retiring' = [retiring EXCEPT ![o] = NoRetirement], place[f] = "gone",
                 place' = place,
                 step' = [step EXCEPT ![p] = IF step[p] = "retire" THEN "clean" ELSE "finish"]
          PROVE  Kept'
      BY <2>2, <3>1, <3>2, <3>5 DEF NoRetirement
    <3> QED
      BY <1>13, <2>2, <3>1, <3>3, <3>4, <3>5, Retires
  <2> QED
    BY <2>1, <2>2
<1>14. ASSUME NEW p \in Process, FirstCleanup(p) PROVE Kept'
  BY <1>14 DEF FirstCleanup, RetirementOf, Go, Proceed, RefuseLock, Freed
<1>15. ASSUME NEW p \in Process, CleanInitializer(p) PROVE Kept'
  <2>1. CASE movedBack
    BY <1>15, <2>1 DEF CleanInitializer, WriteLockAnchor, RefuseLock, Go
  <2>2. CASE ~ movedBack
    <3> DEFINE f == Min(todo[p])
               o == opened[p]
    <3>1. /\ f \in File /\ o \in File /\ step[p] = "clean" /\ place[o] = "lock"
          /\ retiring[o].phase = "none"
      BY <1>15, <2>2, FirstOf DEF CleanInitializer
    <3>2. CASE WriteLockAnchor(p, "retire", FALSE, [phase |-> "intended", file |-> f])
               /\ place[f] = "initializing" /\ Pristine(f)
      <4>1. /\ used' = [used EXCEPT ![o] = used[o] \/ FALSE]
            /\ retiring' = [retiring EXCEPT ![o] = [phase |-> "intended", file |-> f]]
            /\ step' = [step EXCEPT ![p] = "retire"] /\ movedBack' = movedBack
            /\ UNCHANGED <<place, bytes, flock, cand, opened>>
        BY <3>1, <3>2 DEF WriteLockAnchor, Go, Proceed
      <4>2. \A g \in File : g # o => used'[g] = used[g]
        BY <3>1, <4>1
      <4>3. bytes[f] = "whole" /\ f # o
        BY <3>1, <3>2 DEF Pristine
      <4> HIDE DEF f, o
      <4>4. o = opened[p]
        BY DEF o
      <4> QED
        BY <2>2, <3>1, <3>2, <4>1, <4>2, <4>3, <4>4
    <3>3. CASE Go(p, "clean") /\ UNCHANGED <<lockDisk, flock, cand, opened, stale>>
      BY <2>2, <3>1, <3>3 DEF Go, Proceed
    <3>4. CASE RefuseLock(p)
      BY <2>2, <3>4 DEF RefuseLock, Freed, Go, Proceed
    <3> QED
      BY <1>15, <3>2, <3>3, <3>4 DEF CleanInitializer
  <2> QED
    BY <2>1, <2>2
<1>16. ASSUME NEW p \in Process, EndCleanup(p) PROVE Kept'
  BY <1>16 DEF EndCleanup, Go, Proceed, RefuseLock, Freed
<1>17. ASSUME NEW p \in Process, WorkLocked(p) PROVE Kept'
  <2>1. CASE RefuseLock(p)
    BY <1>17, <2>1 DEF WorkLocked, RefuseLock, Freed, Go, Proceed
  <2>2. CASE ~ RefuseLock(p)
    <3> DEFINE o == opened[p]
    <3>1. /\ step[p] = "holding" /\ o \in File /\ place[o] = "lock"
          /\ \A g \in File \ {o} : used'[g] = used[g]
          /\ retiring' = [retiring EXCEPT ![o] = NoRetirement]
          /\ step' = [step EXCEPT ![p] = "holding"]
          /\ UNCHANGED <<place, bytes, opened, movedBack>>
      BY <1>17, <2>2 DEF WorkLocked, WriteLockAnchor, Go, Proceed
    <3> QED
      BY <3>1 DEF NoRetirement
  <2> QED
    BY <2>1, <2>2
<1>18. ASSUME NEW p \in Process, ReleaseLock(p) PROVE Kept'
  BY <1>18 DEF ReleaseLock, Go, Proceed, Freed
<1>19. ASSUME NEW p \in Process, KillBuilder(p) PROVE Kept'
  BY <1>19 DEF KillBuilder, Freed
<1>20. CASE UNCHANGED everything
  BY <1>20 DEF everything
<1> HIDE DEF LockTypeOK, Contents, Flocks, Kept, Asleep, Making, Publishing, Locked,
             Places, Phases, LockFiles, Initializers, lockDisk, locals
<1> QED
  BY <1>1, <1>2, <1>3, <1>4, <1>5, <1>6, <1>7, <1>8, <1>9, <1>10, <1>11, <1>12,
     <1>13, <1>14, <1>15, <1>16, <1>17, <1>18, <1>19, <1>20
     DEF LockNext, LockStopped

\* what a lone call has found,
LEMMA AloneFindsKept ==
  ASSUME LockTypeOK, Contents, Flocks, Kept, AloneFinds, [LockNext]_everything
  PROVE  AloneFinds'
<1> USE ProcessAssumption, FirstOf, RecordedIs
        DEF LockTypeOK, Contents, Flocks, Kept, AloneFinds, Asleep, Making,
            Publishing, Locked, Places, Phases, LockFiles, Initializers, lockDisk,
            locals
<1>1. ASSUME NEW p \in Process, Start(p) PROVE AloneFinds'
  BY <1>1 DEF Start
<1>2. ASSUME NEW p \in Process, ReadCandidate(p) PROVE AloneFinds'
  BY <1>2 DEF ReadCandidate, Adopt, Go, Proceed, RefuseLock, Freed, Pristine
<1>3. ASSUME NEW p \in Process, CreateInitializer(p) PROVE AloneFinds'
  BY <1>3 DEF CreateInitializer, Go, Proceed
<1>4. ASSUME NEW p \in Process, MarkInitializer(p) PROVE AloneFinds'
  BY <1>4 DEF MarkInitializer, Go, Proceed
<1>5. ASSUME NEW p \in Process, FillInitializer(p) PROVE AloneFinds'
  BY <1>5 DEF FillInitializer, Go, Proceed
<1>6. ASSUME NEW p \in Process, Reread(p) PROVE AloneFinds'
  BY <1>6 DEF Reread, Adopt, Go, Proceed, RefuseLock, Freed, Pristine
<1>7. ASSUME NEW p \in Process, CheckSource(p) PROVE AloneFinds'
  BY <1>7 DEF CheckSource, Known, Forgiven, Go, Proceed, RefuseLock, Freed
<1>8. ASSUME NEW p \in Process, RenameToLock(p) PROVE AloneFinds'
  BY <1>8 DEF RenameToLock, Forgiven, Go, Proceed, RefuseLock, Freed
<1>9. ASSUME NEW p \in Process, CheckMoved(p) PROVE AloneFinds'
  BY <1>9 DEF CheckMoved, Forgiven, Go, Proceed, RefuseLock, Freed
<1>10. ASSUME NEW p \in Process, CheckPublished(p) PROVE AloneFinds'
  BY <1>10 DEF CheckPublished, Go, Proceed, RefuseLock, Freed
<1>11. ASSUME NEW p \in Process, Open(p) PROVE AloneFinds'
  BY <1>11 DEF Open, Go, Proceed, RefuseLock, Freed
<1>12. ASSUME NEW p \in Process, Flock(p) PROVE AloneFinds'
  BY <1>12 DEF Flock, Go, Proceed, RefuseLock, Freed
<1>13. ASSUME NEW p \in Process, RetireLoser(p) PROVE AloneFinds'
  <2>1. CASE movedBack
    <3>1. \E label : Go(p, label)
      BY <1>13 DEF RetireLoser, MoveLoser, NotedAs, WriteLockAnchor, RefuseLock
    <3>2. movedBack' /\ \A q \in Process \ {p} : step'[q] = step[q]
      BY <2>1, <3>1 DEF Go, Proceed
    <3>3. alone' = IF alone = p THEN p ELSE Nobody
      BY <3>1 DEF Go, Proceed
    <3>4. step[p] \notin Asleep
      BY <1>13 DEF RetireLoser
    <3> QED
      BY <3>2, <3>3, <3>4
  <2>2. CASE ~ movedBack
    <3> DEFINE o == opened[p]
               f == retiring[o].file
    <3> HIDE DEF o, f
    <3>1. o = opened[p] /\ f = retiring[o].file
      BY DEF o, f
    <3>2. /\ o \in File /\ f \in File /\ f # o /\ place[o] = "lock" /\ bytes[f] = "whole"
          /\ step[p] \in {"finish", "retire"} /\ retiring[o].phase # "none"
          /\ ~ movedBack' /\ UNCHANGED <<bytes, flock, todo, cand, opened>>
          /\ alone' = (IF alone = p THEN p ELSE Nobody)
          /\ \A g \in File : g # o => used'[g] = used[g]
      BY <1>13, <2>2, <3>1, Retires
    <3>3. ASSUME NEW to \in Places, place' = [place EXCEPT ![f] = to],
                 to \in Recorded[retiring[o].phase], to # "initializing",
                 retiring' = retiring, step' = step
          PROVE  AloneFinds'
      BY <2>2, <3>1, <3>2, <3>3
    <3>4. ASSUME NEW phase \in Phases \ {"none"},
                 retiring' = [retiring EXCEPT ![o] = [phase |-> phase, file |-> f]],
                 place[f] \in Recorded[phase], place' = place, step' = step
          PROVE  AloneFinds'
      BY <2>2, <3>1, <3>2, <3>4
    <3>5. ASSUME retiring' = [retiring EXCEPT ![o] = NoRetirement], place[f] = "gone",
                 place' = place,
                 step' = [step EXCEPT ![p] = IF step[p] = "retire" THEN "clean" ELSE "finish"]
          PROVE  AloneFinds'
      BY <2>2, <3>1, <3>2, <3>5 DEF NoRetirement
    <3> QED
      BY <1>13, <2>2, <3>1, <3>3, <3>4, <3>5, Retires
  <2> QED
    BY <2>1, <2>2
<1>14. ASSUME NEW p \in Process, FirstCleanup(p) PROVE AloneFinds'
  BY <1>14 DEF FirstCleanup, RetirementOf, Go, Proceed, RefuseLock, Freed
<1>15. ASSUME NEW p \in Process, CleanInitializer(p) PROVE AloneFinds'
  BY <1>15
     DEF CleanInitializer, WriteLockAnchor, Touch, Go, Proceed, RefuseLock, Freed,
         Pristine
<1>16. ASSUME NEW p \in Process, EndCleanup(p) PROVE AloneFinds'
  BY <1>16 DEF EndCleanup, Go, Proceed, RefuseLock, Freed
<1>17. ASSUME NEW p \in Process, WorkLocked(p) PROVE AloneFinds'
  BY <1>17 DEF WorkLocked, WriteLockAnchor, Touch, Go, Proceed, RefuseLock, Freed, NoRetirement
<1>18. ASSUME NEW p \in Process, ReleaseLock(p) PROVE AloneFinds'
  BY <1>18 DEF ReleaseLock, Go, Proceed, Freed
<1>19. ASSUME NEW p \in Process, KillBuilder(p) PROVE AloneFinds'
  BY <1>19 DEF KillBuilder, Freed
<1>20. CASE UNCHANGED everything
  BY <1>20 DEF everything
<1> HIDE DEF LockTypeOK, Contents, Flocks, Kept, AloneFinds, Asleep, Making,
             Publishing, Locked, Places, Phases, LockFiles, Initializers, lockDisk,
             locals
<1> QED
  BY <1>1, <1>2, <1>3, <1>4, <1>5, <1>6, <1>7, <1>8, <1>9, <1>10, <1>11, <1>12,
     <1>13, <1>14, <1>15, <1>16, <1>17, <1>18, <1>19, <1>20
     DEF LockNext, LockStopped

\* and over what it was refused.
LEMMA RefusedOverEmptyKept ==
  ASSUME LockTypeOK, Contents, Flocks, Kept, AloneFinds, RefusedOverEmpty, [LockNext]_everything
  PROVE  RefusedOverEmpty'
<1> USE ProcessAssumption, FirstOf, RecordedIs
        DEF LockTypeOK, Contents, Flocks, Kept, AloneFinds, RefusedOverEmpty,
            Asleep, Making, Publishing, Locked, Places, Phases, LockFiles,
            Initializers, lockDisk, locals
<1>1. ASSUME NEW p \in Process, Start(p) PROVE RefusedOverEmpty'
  BY <1>1 DEF Start
<1>2. ASSUME NEW p \in Process, ReadCandidate(p) PROVE RefusedOverEmpty'
  BY <1>2 DEF ReadCandidate, Adopt, Go, Proceed, RefuseLock, Freed, Pristine
<1>3. ASSUME NEW p \in Process, CreateInitializer(p) PROVE RefusedOverEmpty'
  BY <1>3 DEF CreateInitializer, Go, Proceed
<1>4. ASSUME NEW p \in Process, MarkInitializer(p) PROVE RefusedOverEmpty'
  BY <1>4 DEF MarkInitializer, Go, Proceed
<1>5. ASSUME NEW p \in Process, FillInitializer(p) PROVE RefusedOverEmpty'
  BY <1>5 DEF FillInitializer, Go, Proceed
<1>6. ASSUME NEW p \in Process, Reread(p) PROVE RefusedOverEmpty'
  BY <1>6 DEF Reread, Adopt, Go, Proceed, RefuseLock, Freed, Pristine
<1>7. ASSUME NEW p \in Process, CheckSource(p) PROVE RefusedOverEmpty'
  BY <1>7 DEF CheckSource, Known, Forgiven, Go, Proceed, RefuseLock, Freed
<1>8. ASSUME NEW p \in Process, RenameToLock(p) PROVE RefusedOverEmpty'
  BY <1>8 DEF RenameToLock, Forgiven, Go, Proceed, RefuseLock, Freed
<1>9. ASSUME NEW p \in Process, CheckMoved(p) PROVE RefusedOverEmpty'
  BY <1>9 DEF CheckMoved, Forgiven, Go, Proceed, RefuseLock, Freed
<1>10. ASSUME NEW p \in Process, CheckPublished(p) PROVE RefusedOverEmpty'
  BY <1>10 DEF CheckPublished, Go, Proceed, RefuseLock, Freed
<1>11. ASSUME NEW p \in Process, Open(p) PROVE RefusedOverEmpty'
  BY <1>11 DEF Open, Go, Proceed, RefuseLock, Freed
<1>12. ASSUME NEW p \in Process, Flock(p) PROVE RefusedOverEmpty'
  BY <1>12 DEF Flock, Go, Proceed, RefuseLock, Freed
<1>13. ASSUME NEW p \in Process, RetireLoser(p) PROVE RefusedOverEmpty'
  <2>1. CASE movedBack
    BY <1>13, <2>1 DEF RetireLoser, MoveLoser, NotedAs, WriteLockAnchor, RefuseLock, Go
  <2>2. CASE ~ movedBack
    <3> DEFINE o == opened[p]
               f == retiring[o].file
    <3> HIDE DEF o, f
    <3>1. o = opened[p] /\ f = retiring[o].file
      BY DEF o, f
    <3>2. /\ o \in File /\ f \in File /\ f # o /\ place[o] = "lock" /\ bytes[f] = "whole"
          /\ step[p] \in {"finish", "retire"} /\ retiring[o].phase # "none"
          /\ ~ movedBack' /\ UNCHANGED <<bytes, flock, todo, cand, opened>>
          /\ alone' = (IF alone = p THEN p ELSE Nobody)
          /\ \A g \in File : g # o => used'[g] = used[g]
      BY <1>13, <2>2, <3>1, Retires
    <3>3. ASSUME NEW to \in Places, place' = [place EXCEPT ![f] = to],
                 to \in Recorded[retiring[o].phase], to # "initializing",
                 retiring' = retiring, step' = step
          PROVE  RefusedOverEmpty'
      BY <2>2, <3>1, <3>2, <3>3
    <3>4. ASSUME NEW phase \in Phases \ {"none"},
                 retiring' = [retiring EXCEPT ![o] = [phase |-> phase, file |-> f]],
                 place[f] \in Recorded[phase], place' = place, step' = step
          PROVE  RefusedOverEmpty'
      BY <2>2, <3>1, <3>2, <3>4
    <3>5. ASSUME retiring' = [retiring EXCEPT ![o] = NoRetirement], place[f] = "gone",
                 place' = place,
                 step' = [step EXCEPT ![p] = IF step[p] = "retire" THEN "clean" ELSE "finish"]
          PROVE  RefusedOverEmpty'
      BY <2>2, <3>1, <3>2, <3>5 DEF NoRetirement
    <3> QED
      BY <1>13, <2>2, <3>1, <3>3, <3>4, <3>5, Retires
  <2> QED
    BY <2>1, <2>2
<1>14. ASSUME NEW p \in Process, FirstCleanup(p) PROVE RefusedOverEmpty'
  BY <1>14 DEF FirstCleanup, RetirementOf, Go, Proceed, RefuseLock, Freed
<1>15. ASSUME NEW p \in Process, CleanInitializer(p) PROVE RefusedOverEmpty'
  BY <1>15
     DEF CleanInitializer, WriteLockAnchor, Touch, Go, Proceed, RefuseLock, Freed,
         Pristine
<1>16. ASSUME NEW p \in Process, EndCleanup(p) PROVE RefusedOverEmpty'
  BY <1>16 DEF EndCleanup, Go, Proceed, RefuseLock, Freed
<1>17. ASSUME NEW p \in Process, WorkLocked(p) PROVE RefusedOverEmpty'
  BY <1>17 DEF WorkLocked, WriteLockAnchor, Touch, Go, Proceed, RefuseLock, Freed, NoRetirement
<1>18. ASSUME NEW p \in Process, ReleaseLock(p) PROVE RefusedOverEmpty'
  BY <1>18 DEF ReleaseLock, Go, Proceed, Freed
<1>19. ASSUME NEW p \in Process, KillBuilder(p) PROVE RefusedOverEmpty'
  BY <1>19 DEF KillBuilder, Freed
<1>20. CASE UNCHANGED everything
  BY <1>20 DEF everything
<1> HIDE DEF LockTypeOK, Contents, Flocks, Kept, AloneFinds, RefusedOverEmpty,
             Asleep, Making, Publishing, Locked, Places, Phases, LockFiles,
             Initializers, lockDisk, locals
<1> QED
  BY <1>1, <1>2, <1>3, <1>4, <1>5, <1>6, <1>7, <1>8, <1>9, <1>10, <1>11, <1>12,
     <1>13, <1>14, <1>15, <1>16, <1>17, <1>18, <1>19, <1>20
     DEF LockNext, LockStopped

\* An output directory that no builder has been in.
LEMMA LockInitIsSound ==
  ASSUME LockInit
  PROVE  LockTypeOK /\ Contents /\ Flocks /\ Kept /\ AloneFinds /\ RefusedOverEmpty
<1> USE ProcessAssumption DEF LockInit, NoRetirement
<1>1. LockTypeOK
  BY DEF LockTypeOK, Asleep, Making, Publishing, Locked, Places, Phases
<1>2. Contents /\ Flocks /\ Kept /\ AloneFinds /\ RefusedOverEmpty
  BY DEF Contents, Flocks, Kept, AloneFinds, RefusedOverEmpty, LockFiles, Asleep, Making,
         Publishing, Locked
<1> QED
  BY <1>1, <1>2

LockInv == LockTypeOK /\ Contents /\ Flocks /\ Kept /\ AloneFinds /\ RefusedOverEmpty

\* The invariant of the lock.
LEMMA LockInvHolds == LockSpec => []LockInv
<1>1. LockInit => LockInv
  BY LockInitIsSound DEF LockInv
<1>2. LockInv /\ [LockNext]_everything => LockInv'
  BY LockTypeOKKept, ContentsKept, FlocksKept, KeptKept, AloneFindsKept,
     RefusedOverEmptyKept DEF LockInv
<1> QED
  BY <1>1, <1>2, PTL DEF LockSpec

\* The types of the lock of a shard output.
THEOREM LockTypeCorrect == LockSpec => []LockTypeOK
<1>1. LockInv => LockTypeOK
  BY DEF LockInv
<1> QED
  BY <1>1, LockInvHolds, PTL

\* Any number of builders, with any number of kills, exclude each other and keep the
\* name of the lock while they hold it, and a builder that nobody else is awake in
\* the call of is refused only over an initializer that is still empty: until, for
\* the first time, a publisher moves a lock back to its private name.
THEOREM LockExcludesUntilMovedBack == LockSpec => []SoundUntilMovedBack
<1>1. LockInv => SoundUntilMovedBack
  <2> SUFFICES ASSUME LockInv, ~ movedBack PROVE SoundUntilMovedBack
    BY DEF SoundUntilMovedBack
  <2>1. ASSUME NEW p \in Process, step[p] = "holding"
        PROVE  opened[p] \in LockFiles /\ flock[opened[p]] = p
    BY <2>1 DEF LockInv, LockTypeOK, Flocks, Kept, Locked, LockFiles
  <2>2. OneHolder
    <3> SUFFICES ASSUME NEW p \in Process, NEW q \in Process,
                        step[p] = "holding", step[q] = "holding"
                 PROVE  p = q
      BY DEF OneHolder
    <3>1. opened[p] = opened[q]
      BY <2>1 DEF LockInv, Contents
    <3> QED
      BY <2>1, <3>1
  <2>3. HolderKeepsName
    BY <2>1 DEF HolderKeepsName, LockFiles
  <2> QED
    BY <2>2, <2>3 DEF SoundUntilMovedBack, LockInv, RefusedOverEmpty
<1> QED
  BY <1>1, LockInvHolds, PTL
=============================================================================
