------------------------ MODULE ResultTransaction_proofs ------------------------
(* The results of an evaluation or a replay appear together and stay, for any    *)
(* number of processes, artifacts and faults.                                    *)
EXTENDS ResultTransaction, TLAPS

-----------------------------------------------------------------------------
(* The inductive invariant *)

File == [id : Nat, data : {"cached", "flushed", "torn"}]
Journal == [id : Nat, state : {"building", "publishing", "committed"}]
Directory ==
  [journal : Journal \cup {None},
   partial : [Artifact -> File \cup {None}],
   final : [Artifact -> File \cup {None}]]

\* The steps of a call that holds the transaction lock, and the others.
Outside == {"idle", "lockFirst", "examine", "batch", "done", "refused"}
Cleanup == {"clean", "cleaning", "cleaned"}
Making == {"begun", "mkdir", "mark", "build", "built"}
Linked == {"linked", "unlink", "unlinked"}
Inside ==
  {"recover", "discard", "dropJournal", "dropped", "recovered", "validate", "begin",
   "record", "recorded", "publish", "committed"} \cup Cleanup \cup Making \cup Linked

CallRecord ==
  [at : Outside \cup Inside, i : 0 .. Artifacts + 1, first : BOOLEAN,
   mem : {"none", "building", "publishing"}]

TypeOK ==
  /\ now \in Directory /\ disk \in Directory /\ since \in SUBSET Directory
  /\ work \in {"none", "empty", "initializing", "owned", "unmarked"}
  /\ removed \in Journal \cup {None}
  /\ lock \in Process \cup {None}
  /\ call \in [Process -> CallRecord]
  /\ serial \in Nat /\ faults \in Nat
  /\ answered \in Nat \cup {None}
  /\ unbacked \in BOOLEAN /\ torn \in BOOLEAN

\* Whoever is past the lock holds it.
Excluded == \A p \in Process : call[p].at \in Inside => lock = p

\* What any directory that the disk may hold looks like.  Before the commit
\* intent nothing is published; after it every artifact has a name, whole, and
\* they are published in their order.
Whole(d, f) == f = [id |-> d.journal.id, data |-> "flushed"]

Good(d) ==
  /\ d.journal = None => d.partial = Nothing /\ d.final = Nothing
  /\ d.journal # None /\ d.journal.state = "building" => d.final = Nothing
  /\ Intended(d) =>
       \A a \in Artifact :
         /\ d.final[a] # None => Whole(d, d.final[a])
         /\ d.partial[a] # None => Whole(d, d.partial[a])
         /\ d.final[a] = None => d.partial[a] # None
         /\ d.final[a] # None => \A b \in 1 .. a : d.final[b] # None
         /\ d.journal.state = "committed" => d.final[a] # None

AllGood == Good(now) /\ Good(disk) /\ \A d \in since : Good(d)

\* Once the disk holds a commit intent, all later changes keep it and what it
\* published.
Follows(d) ==
  Intended(disk) =>
    /\ Intended(d) /\ d.journal.id = disk.journal.id
    /\ \A a \in Artifact : disk.final[a] # None => d.final[a] # None

Forward == Follows(now) /\ \A d \in since : Follows(d)

\* What the step that a call is at relies on.
Finals(i) == \A a \in Artifact : a <= i => now.final[a] # None

AtWork(p) ==
  LET c == call[p] IN
    /\ c.at \in {"dropped", "recovered", "begin"} => now.journal = None
    /\ c.at \in {"discard", "record"} \cup Making => Building
    /\ c.at = "dropJournal" => Building /\ now.partial = Nothing
    /\ c.at = "record" => \A a \in Artifact : Whole(now, now.partial[a])
    /\ c.at \in {"validate", "recorded", "publish"} \cup Linked => Intended(now)
    /\ c.at = "publish" => c.i \in 1 .. Artifacts + 1 /\ Finals(c.i - 1)
    /\ c.at \in Linked => c.i \in Artifact /\ Finals(c.i)
    /\ c.at = "committed" => Intended(now) /\ now.journal.state = "committed"
    /\ c.at \in Cleanup /\ c.i = Artifacts + 1 =>
         Intended(now) /\ now.journal.state = "committed"
    /\ c.at \in {"idle", "lockFirst", "examine", "batch", "recover", "recovered"} =>
         c.mem = "none"
    /\ c.at \in {"validate", "recorded", "publish", "committed"} \cup Linked =>
         c.mem # "building"

InOrder == \A p \in Process : AtWork(p)

\* What was answered from a flushed commit intent is what the disk's intent
\* names.
AnswerOnDisk ==
  answered # None /\ ~ unbacked => Intended(disk) /\ disk.journal.id = answered

IInv == TypeOK /\ Excluded /\ AllGood /\ Forward /\ InOrder /\ AnswerOnDisk

\* Only the call that removes a work directory sees it without its marker,
\* until a removal is cut short.
TornForCause ==
  work = "unmarked" => torn \/ \E p \in Process : At(p, "cleaning")

\* As long as the commit intent is not flushed, every change behind it was
\* followed by a fault, except the last.
Unsynced == {"recorded", "linked", "committed"}
Pending == \E p \in Process : call[p].at \in Unsynced
Cost(n) == faults >= IF Pending THEN n - 1 ELSE n

Counted ==
  Intended(now) /\ ~ Intended(disk) =>
    /\ Cost(1)
    /\ \A a \in Artifact : now.final[a] # None => Cost(a + 1)
    /\ now.journal.state = "committed" => Cost(Artifacts + 2)

UnbackedIsRare == unbacked => faults >= Artifacts + 2

-----------------------------------------------------------------------------
(* How a step disturbs the invariant *)

\* p moves alone, and is then at a step.
Moves(p) ==
  /\ call' \in [Process -> CallRecord]
  /\ \A q \in Process \ {p} : call'[q] = call[q]

Goes(p, at, i, mem) ==
  Moves(p) /\ call'[p].at = at /\ call'[p].i = i /\ call'[p].mem = mem

\* What p may do with the lock.
Locks(p) ==
  \/ lock' = lock /\ (call'[p].at \in Inside => call[p].at \in Inside)
  \/ lock = None /\ lock' = p
  \/ Give(p) /\ call'[p].at \notin Inside

RestTyped ==
  /\ work' \in {"none", "empty", "initializing", "owned", "unmarked"}
  /\ removed' \in Journal \cup {None}
  /\ serial' \in Nat /\ faults' \in Nat /\ torn' \in BOOLEAN

LEMMA GoToGoes ==
  ASSUME TypeOK, NEW p \in Process, NEW s \in Outside \cup Inside,
         NEW i \in 0 .. Artifacts + 1, NEW f \in BOOLEAN,
         NEW m \in {"none", "building", "publishing"}, GoTo(p, s, i, f, m)
  PROVE  Goes(p, s, i, m)
  BY SMT DEF TypeOK, CallRecord, GoTo, Goes, Moves

LEMMA GoAtGoes ==
  ASSUME TypeOK, NEW p \in Process, NEW s \in Outside \cup Inside,
         NEW i \in 0 .. Artifacts + 1, GoAt(p, s, i)
  PROVE  Goes(p, s, i, call[p].mem)
<1>1. /\ call[p].first \in BOOLEAN
      /\ call[p].mem \in {"none", "building", "publishing"}
  BY SMT DEF TypeOK, CallRecord
<1>2. GoTo(p, s, i, call[p].first, call[p].mem)
  BY DEF GoAt
<1>. QED
  BY ONLY <1>1, <1>2, TypeOK, GoToGoes, p \in Process, s \in Outside \cup Inside,
          i \in 0 .. Artifacts + 1

LEMMA GoGoes ==
  ASSUME TypeOK, NEW p \in Process, NEW s \in Outside \cup Inside, Go(p, s)
  PROVE  Goes(p, s, call[p].i, call[p].mem)
<1>1. call[p].i \in 0 .. Artifacts + 1
  BY SMT DEF TypeOK, CallRecord
<1>2. GoAt(p, s, call[p].i)
  BY DEF Go
<1>. QED
  BY <1>1, <1>2, GoAtGoes

LEMMA ResetGoes ==
  ASSUME TypeOK, NEW p \in Process, Stop(p)
  PROVE  Goes(p, "idle", 0, "none")
<1>1. Artifacts \in Nat
  BY ResultAssumption
<1>2. Idle \in CallRecord
  BY <1>1, SMT DEF Idle, CallRecord, Outside
<1>. QED
  BY <1>2, SMT DEF TypeOK, Stop, Idle, Goes, Moves

\* Whoever is outside relies on nothing, and has not begun anything.
LEMMA OutsideRelies ==
  ASSUME NEW q \in Process, call'[q].at \notin Inside,
         call'[q].at \in {"refused", "done"} \/ call'[q].mem = "none"
  PROVE  AtWork(q)'
  BY SMT DEF AtWork, Inside, Cleanup, Making, Linked

LEMMA ExcludedKept ==
  ASSUME TypeOK, Excluded, NEW p \in Process, Moves(p), Locks(p)
  PROVE  Excluded' /\ lock' \in Process \cup {None}
<1>1. None \notin Process
  BY ResultAssumption
<1>2. ASSUME NEW q \in Process, call'[q].at \in Inside
      PROVE  lock' = q
  <2>1. CASE q = p
    BY <1>2, <2>1, SMT DEF Excluded, Locks
  <2>2. CASE q # p
    <3>1. lock = q
      BY <1>2, <2>2, SMT DEF Excluded, Moves
    <3>. QED
      BY <1>1, <2>2, <3>1, SMT DEF Locks, Give
  <2>. QED
    BY <2>1, <2>2
<1>. QED
  BY <1>2, SMT DEF Excluded, Locks, Give, TypeOK

LEMMA OrderKept ==
  ASSUME Excluded, InOrder, NEW p \in Process, Moves(p), AtWork(p)',
         now' = now \/ call[p].at \in Inside
  PROVE  InOrder'
<1>1. ASSUME NEW q \in Process, q # p
      PROVE  AtWork(q)'
  <2>1. call'[q] = call[q]
    BY <1>1 DEF Moves
  <2>2. CASE now' = now
    BY <2>1, <2>2, SMT DEF InOrder, AtWork, Finals, Building, Intended, Whole
  <2>3. CASE call[p].at \in Inside
    <3>1. call'[q].at \notin Inside
      BY <1>1, <2>1, <2>3 DEF Excluded
    <3>. QED
      BY <2>1, <3>1, SMT DEF InOrder, AtWork, Inside, Cleanup, Making, Linked
  <2>. QED
    BY <2>2, <2>3
<1>. QED
  BY <1>1 DEF InOrder

-----------------------------------------------------------------------------
\* A step that leaves the directory alone.
LEMMA StillStep ==
  ASSUME IInv, NEW p \in Process, Moves(p), Locks(p), RestTyped, AtWork(p)',
         UNCHANGED <<now, disk, since, answered, unbacked>>
  PROVE  IInv'
<1>1. Excluded' /\ lock' \in Process \cup {None}
  BY ExcludedKept DEF IInv
<1>2. TypeOK'
  BY <1>1, SMT DEF IInv, TypeOK, RestTyped, Moves
<1>3. InOrder'
  BY OrderKept DEF IInv
<1>4. AllGood' /\ Forward' /\ AnswerOnDisk'
  BY SMT DEF IInv, AllGood, Good, Forward, Follows, AnswerOnDisk, Intended, Whole
<1>. QED
  BY <1>1, <1>2, <1>3, <1>4 DEF IInv

\* A step that changes the directory, by the call that holds the lock.
LEMMA BecomeStep ==
  ASSUME IInv, NEW p \in Process, Moves(p), Locks(p), RestTyped, AtWork(p)',
         call[p].at \in Inside, NEW d \in Directory, Become(d), Good(d), Follows(d),
         UNCHANGED <<answered, unbacked>>
  PROVE  IInv'
<1>1. Excluded' /\ lock' \in Process \cup {None}
  BY ExcludedKept DEF IInv
<1>2. TypeOK'
  BY <1>1, SMT DEF IInv, TypeOK, RestTyped, Moves, Become
<1>3. InOrder'
  BY OrderKept DEF IInv
<1>4. now' = d /\ disk' = disk /\ since' = since \cup {d}
  BY DEF Become
<1>5. AllGood'
  BY <1>4, SMT DEF IInv, AllGood, Good, Intended, Whole
<1>6. Forward'
  BY <1>4, SMT DEF IInv, Forward, Follows, Intended
<1>7. AnswerOnDisk'
  BY <1>4, SMT DEF IInv, AnswerOnDisk, Intended
<1>. QED
  BY <1>1, <1>2, <1>3, <1>5, <1>6, <1>7 DEF IInv

\* A step that flushes the directory.
LEMMA FlushStep ==
  ASSUME IInv, NEW p \in Process, Moves(p), Locks(p), RestTyped, AtWork(p)',
         Flush, UNCHANGED <<now, answered, unbacked>>
  PROVE  IInv'
<1>1. Excluded' /\ lock' \in Process \cup {None}
  BY ExcludedKept DEF IInv
<1>2. TypeOK'
  BY <1>1, SMT DEF IInv, TypeOK, RestTyped, Moves, Flush
<1>3. InOrder'
  BY OrderKept DEF IInv
<1>4. now' = now /\ disk' = now /\ since' = {}
  BY DEF Flush
<1>5. AllGood'
  BY <1>4, SMT DEF IInv, AllGood, Good, Intended, Whole
<1>6. Forward'
  BY <1>4, SMT DEF Forward, Follows, Intended
<1>7. AnswerOnDisk'
  BY <1>4, SMT DEF IInv, AnswerOnDisk, Forward, Follows, Intended
<1>. QED
  BY <1>1, <1>2, <1>3, <1>5, <1>6, <1>7 DEF IInv

-----------------------------------------------------------------------------
(* From the call to the lock *)

LEMMA StepsTyped ==
  /\ Outside \cap Inside = {}
  /\ Cleanup \subseteq Inside /\ Making \subseteq Inside /\ Linked \subseteq Inside
  BY SMT DEF Outside, Inside, Cleanup, Making, Linked

LEMMA StillTyped ==
  ASSUME TypeOK, Still
  PROVE  RestTyped /\ UNCHANGED <<now, disk, since, answered, unbacked>>
  BY DEF TypeOK, Still, Rest, Others, RestTyped

LEMMA LookupKeeps ==
  ASSUME IInv, NEW p \in Process,
         Look(p) \/ LockFirst(p) \/ Examine(p) \/ LockAgain(p)
  PROVE  IInv'
<1>1. TypeOK /\ InOrder /\ Artifacts \in Nat
  BY ResultAssumption DEF IInv
<1>2. Still
  BY DEF Look, LockFirst, Examine, LockAgain
<1>3. call[p].mem = "none"
  <2>1. call[p].at \in {"idle", "lockFirst", "examine", "batch"}
    BY DEF Look, LockFirst, Examine, LockAgain, At
  <2>2. AtWork(p)
    BY <1>1 DEF InOrder
  <2>. QED
    BY <2>1, <2>2, SMT DEF AtWork
<1>4. CASE /\ UNCHANGED lock
           /\ (\E s \in {"lockFirst", "examine", "idle", "batch"} : Go(p, s)) \/ Stop(p)
  <2>1. Moves(p) /\ call'[p].at \notin Inside /\ call'[p].mem = "none"
    <3>1. CASE Stop(p)
      <4>1. Goes(p, "idle", 0, "none")
        BY <1>1, <3>1, ResetGoes
      <4>. QED
        BY <4>1, SMT DEF Goes, Inside, Cleanup, Making, Linked
    <3>2. ASSUME NEW s \in {"lockFirst", "examine", "idle", "batch"}, Go(p, s)
          PROVE  Moves(p) /\ call'[p].at \notin Inside /\ call'[p].mem = "none"
      <4>1. s \in Outside \cup Inside /\ s \notin Inside
        BY SMT DEF Outside, Inside, Cleanup, Making, Linked
      <4>2. Goes(p, s, call[p].i, call[p].mem)
        BY <1>1, <3>2, <4>1, GoGoes
      <4>. QED
        BY <1>3, <4>1, <4>2 DEF Goes
    <3>. QED
      BY <1>4, <3>1, <3>2
  <2>2. Locks(p)
    BY <1>4, <2>1 DEF Locks
  <2>3. AtWork(p)'
    BY <2>1, OutsideRelies
  <2>. QED
    BY <1>1, <1>2, <2>1, <2>2, <2>3, StillTyped, StillStep
<1>5. CASE lock = None /\ lock' = p /\ \E f \in BOOLEAN : GoTo(p, "recover", call[p].i, f, call[p].mem)
  <2>1. PICK f \in BOOLEAN : GoTo(p, "recover", call[p].i, f, call[p].mem)
    BY <1>5
  <2>2. /\ "recover" \in Outside \cup Inside /\ call[p].i \in 0 .. Artifacts + 1
        /\ call[p].mem \in {"none", "building", "publishing"}
    BY <1>1, SMT DEF TypeOK, CallRecord, Inside
  <2>3. Goes(p, "recover", call[p].i, call[p].mem)
    BY <1>1, <2>1, <2>2, GoToGoes
  <2>4. AtWork(p)'
    BY <1>3, <2>3, SMT DEF Goes, AtWork, Cleanup, Making, Linked
  <2>5. Moves(p) /\ Locks(p)
    BY <1>5, <2>3 DEF Goes, Locks
  <2>. QED
    BY <1>1, <1>2, <2>4, <2>5, StillTyped, StillStep
<1>. QED
  BY <1>4, <1>5 DEF Look, LockFirst, Examine, LockAgain

-----------------------------------------------------------------------------
(* _recover_transaction *)

\* The call that is refused relies on nothing any more.
LEMMA RefuseKeeps ==
  ASSUME IInv, NEW p \in Process, Refuse(p), Still
  PROVE  IInv'
<1>1. TypeOK
  BY DEF IInv
<1>2. "refused" \in Outside \cup Inside /\ "refused" \notin Inside
  BY SMT DEF Outside, Inside, Cleanup, Making, Linked
<1>3. Goes(p, "refused", call[p].i, call[p].mem)
  BY <1>1, <1>2, GoGoes DEF Refuse
<1>4. Moves(p) /\ Locks(p) /\ AtWork(p)'
  BY <1>2, <1>3, OutsideRelies DEF Goes, Locks, Refuse
<1>. QED
  BY <1>1, <1>4, StillTyped, StillStep

\* A call that holds the lock goes on, and nothing else happens.
LEMMA OnwardKeeps ==
  ASSUME IInv, NEW p \in Process, call[p].at \in Inside, NEW s \in Inside,
         NEW i \in 0 .. Artifacts + 1, GoAt(p, s, i), UNCHANGED lock,
         RestTyped, UNCHANGED <<now, disk, since, answered, unbacked>>,
         Goes(p, s, i, call[p].mem) => AtWork(p)'
  PROVE  IInv'
<1>1. Goes(p, s, i, call[p].mem)
  BY GoAtGoes DEF IInv
<1>2. Moves(p) /\ Locks(p)
  BY <1>1 DEF Goes, Locks
<1>. QED
  BY <1>1, <1>2, StillStep

LEMMA RecoverKeeps ==
  ASSUME IInv, NEW p \in Process, Recover(p) \/ Discard(p) \/ Recovered(p) \/ Validate(p)
  PROVE  IInv'
<1>1. /\ TypeOK /\ AtWork(p) /\ Good(now) /\ call[p].i \in 0 .. Artifacts + 1
      /\ Artifacts \in Nat \ {0}
  BY ResultAssumption, SMT DEF IInv, InOrder, AllGood, TypeOK, CallRecord
<1>2. Still
  BY DEF Recover, Discard, Recovered, Validate
<1>3. RestTyped /\ UNCHANGED <<now, disk, since, answered, unbacked>>
  BY <1>1, <1>2, StillTyped
<1>4. call[p].at \in Inside
  BY SMT DEF Recover, Discard, Recovered, Validate, At, Inside
<1>5. CASE Recover(p)
  <2>1. CASE now.journal = None
    <3>1. GoAt(p, "recovered", call[p].i) /\ UNCHANGED lock
      BY <1>5, <2>1 DEF Recover, Go
    <3>2. "recovered" \in Inside
      BY SMT DEF Inside
    <3>3. Goes(p, "recovered", call[p].i, call[p].mem) => AtWork(p)'
      BY <1>1, <1>3, <1>5, <2>1, SMT
      DEF Goes, AtWork, Cleanup, Making, Linked, Recover, At
    <3>. QED
      BY <1>1, <1>3, <1>4, <3>1, <3>2, <3>3, OnwardKeeps
  <2>2. CASE Building
    <3>1. GoAt(p, "discard", call[p].i) /\ UNCHANGED lock
      BY <1>5, <2>2 DEF Recover, Go, Building
    <3>2. "discard" \in Inside
      BY SMT DEF Inside
    <3>3. Goes(p, "discard", call[p].i, call[p].mem) => AtWork(p)'
      BY <1>3, <2>2, SMT DEF Goes, AtWork, Cleanup, Making, Linked, Building
    <3>. QED
      BY <1>1, <1>3, <1>4, <3>1, <3>2, <3>3, OnwardKeeps
  <2>3. CASE Intended(now)
    <3>1. GoAt(p, "validate", 1) /\ UNCHANGED lock
      BY <1>5, <2>3 DEF Recover, Intended
    <3>2. "validate" \in Inside /\ 1 \in 0 .. Artifacts + 1
      BY <1>1, SMT DEF Inside
    <3>3. Goes(p, "validate", 1, call[p].mem) => AtWork(p)'
      BY <1>1, <1>3, <1>5, <2>3, SMT
      DEF Goes, AtWork, Cleanup, Making, Linked, Intended, Recover, At
    <3>. QED
      BY <1>3, <1>4, <3>1, <3>2, <3>3, OnwardKeeps
  <2>. QED
    BY <2>1, <2>2, <2>3 DEF Building, Intended
<1>6. CASE Discard(p)
  <2>1. CASE Taken
    BY <1>2, <1>6, <2>1, RefuseKeeps DEF Discard
  <2>2. CASE ~ Taken
    <3>1. GoAt(p, "clean", 0) /\ UNCHANGED lock
      BY <1>6, <2>2 DEF Discard
    <3>2. "clean" \in Inside /\ 0 \in 0 .. Artifacts + 1
      BY <1>1, SMT DEF Inside, Cleanup
    <3>3. Goes(p, "clean", 0, call[p].mem) => AtWork(p)'
      BY <1>1, SMT DEF Goes, AtWork, Cleanup, Making, Linked
    <3>. QED
      BY <1>3, <1>4, <3>1, <3>2, <3>3, OnwardKeeps
  <2>. QED
    BY <2>1, <2>2
<1>7. CASE Recovered(p)
  <2>1. CASE call[p].first
    <3>1. "examine" \in Outside \cup Inside /\ "examine" \notin Inside
      BY SMT DEF Outside, Inside, Cleanup, Making, Linked
    <3>2. Goes(p, "examine", call[p].i, call[p].mem)
      BY <1>1, <1>7, <2>1, <3>1, GoGoes DEF Recovered
    <3>3. call[p].mem = "none"
      BY <1>1, <1>7, SMT DEF AtWork, Recovered, At
    <3>4. Moves(p) /\ Locks(p) /\ AtWork(p)'
      BY <1>7, <2>1, <3>1, <3>2, <3>3, OutsideRelies DEF Goes, Locks, Recovered
    <3>. QED
      BY <1>3, <3>4, StillStep
  <2>2. CASE ~ call[p].first /\ Taken
    BY <1>2, <1>7, <2>2, RefuseKeeps DEF Recovered
  <2>3. CASE ~ call[p].first /\ ~ Taken
    <3>1. GoAt(p, "begin", call[p].i) /\ UNCHANGED lock
      BY <1>7, <2>3 DEF Recovered, Go
    <3>2. "begin" \in Inside /\ now.journal = None
      BY <1>1, <1>7, SMT DEF Inside, Recovered, At, AtWork
    <3>3. Goes(p, "begin", call[p].i, call[p].mem) => AtWork(p)'
      BY <1>3, <3>2, SMT DEF Goes, AtWork, Cleanup, Making, Linked
    <3>. QED
      BY <1>1, <1>3, <1>4, <3>1, <3>2, <3>3, OnwardKeeps
  <2>. QED
    BY <2>1, <2>2, <2>3
<1>8. CASE Validate(p)
  <2>1. CASE ~ Validates
    BY <1>2, <1>8, <2>1, RefuseKeeps DEF Validate
  <2>2. CASE Validates
    <3>1. GoAt(p, "publish", 1) /\ UNCHANGED lock
      BY <1>8, <2>2 DEF Validate
    <3>2. "publish" \in Inside /\ 1 \in 0 .. Artifacts + 1 /\ Intended(now)
      BY <1>1, <1>8, SMT DEF Inside, Validate, At, AtWork
    <3>3. ASSUME Goes(p, "publish", 1, call[p].mem)
          PROVE  AtWork(p)'
      <4>1. Finals(0)' /\ call'[p].i - 1 = 0 /\ call'[p].i \in 1 .. Artifacts + 1
        BY <1>1, <3>3, SMT DEF Goes, Finals, Artifact
      <4>. QED
        BY <1>1, <1>3, <1>8, <3>2, <3>3, <4>1, SMT
        DEF Goes, AtWork, Cleanup, Making, Linked, Validate, At, Intended
    <3>. QED
      BY <1>3, <1>4, <3>1, <3>2, <3>3, OnwardKeeps
  <2>. QED
    BY <2>1, <2>2
<1>. QED
  BY <1>5, <1>6, <1>7, <1>8

LEMMA CleanKeeps ==
  ASSUME IInv, NEW p \in Process,
         RemoveSome(p) \/ RemoveRest(p) \/ RemoveInitializing(p) \/ RefuseWork(p)
  PROVE  IInv'
<1>1. /\ TypeOK /\ AtWork(p) /\ call[p].i \in 0 .. Artifacts + 1
      /\ Artifacts \in Nat \ {0}
  BY ResultAssumption, SMT DEF IInv, InOrder, TypeOK, CallRecord
<1>2. call[p].at \in Cleanup /\ call[p].at \in Inside
  BY SMT DEF RemoveSome, RemoveRest, RemoveInitializing, RefuseWork, At, Inside, Cleanup
<1>3. CASE RefuseWork(p)
  BY <1>3, RefuseKeeps DEF RefuseWork
<1>4. ASSUME ~ RefuseWork(p)
      PROVE  RestTyped /\ UNCHANGED <<now, disk, since, lock, answered, unbacked>>
  <2>1. UNCHANGED <<now, disk, since, lock, answered, unbacked, serial, torn, faults>>
    BY <1>4 DEF RemoveSome, RemoveRest, RemoveInitializing, Rest, Others
  <2>2. removed' \in Journal \cup {None}
    <3>1. now.journal \in Journal \cup {None}
      BY <1>1 DEF TypeOK, Directory
    <3>2. removed' = removed \/ removed' = now.journal
      BY <1>4 DEF RemoveSome, RemoveRest, RemoveInitializing, Rest
    <3>. QED
      BY <1>1, <3>1, <3>2 DEF TypeOK
  <2>3. work' \in {"none", "empty", "initializing", "owned", "unmarked"}
    BY <1>4 DEF RemoveSome, RemoveRest, RemoveInitializing
  <2>. QED
    BY <1>1, <2>1, <2>2, <2>3 DEF TypeOK, RestTyped
<1>5. CASE (RemoveSome(p) \/ RemoveRest(p)) /\ ~ RefuseWork(p)
  <2>1. PICK s \in {"cleaning", "cleaned"} : Go(p, s)
    BY <1>5 DEF RemoveSome, RemoveRest
  <2>2. s \in Cleanup /\ s \in Inside /\ GoAt(p, s, call[p].i)
    BY <2>1, SMT DEF Inside, Cleanup, Go
  <2>3. Goes(p, s, call[p].i, call[p].mem) => AtWork(p)'
    BY <1>1, <1>2, <1>4, <1>5, <2>2, SMT
    DEF Goes, AtWork, Cleanup, Making, Linked, Intended
  <2>. QED
    BY <1>1, <1>2, <1>4, <1>5, <2>2, <2>3, OnwardKeeps
<1>6. CASE RemoveInitializing(p) /\ ~ RefuseWork(p)
  <2>1. call' = call
    BY <1>6 DEF RemoveInitializing
  <2>2. Moves(p) /\ Locks(p)
    BY <1>1, <1>4, <1>6, <2>1 DEF Moves, Locks, TypeOK
  <2>3. AtWork(p)'
    BY <1>1, <1>4, <1>6, <2>1, SMT DEF AtWork, Finals, Building, Intended, Whole
  <2>. QED
    BY <1>4, <1>6, <2>2, <2>3, StillStep
<1>. QED
  BY <1>3, <1>5, <1>6

LEMMA DropKeeps ==
  ASSUME IInv, NEW p \in Process, DropPartials(p) \/ DropJournal(p) \/ Dropped(p)
  PROVE  IInv'
<1>1. /\ TypeOK /\ AtWork(p) /\ call[p].i \in 0 .. Artifacts + 1
      /\ Artifacts \in Nat \ {0} /\ now \in Directory
      /\ Good(now) /\ Follows(now)
  BY ResultAssumption, SMT DEF IInv, InOrder, TypeOK, CallRecord, AllGood, Forward
<1>2. call[p].at \in Inside
  BY SMT DEF DropPartials, DropJournal, Dropped, At, Inside, Cleanup
<1>3. RestTyped /\ UNCHANGED <<answered, unbacked>>
  BY <1>1 DEF TypeOK, RestTyped, DropPartials, DropJournal, Dropped, Rest, Others
<1>4. Nothing \in [Artifact -> File \cup {None}]
  BY SMT DEF Nothing
<1>5. CASE DropPartials(p)
  <2>. DEFINE d == [now EXCEPT !.partial = Nothing]
  <2>1. /\ d = [journal |-> now.journal, partial |-> Nothing, final |-> now.final]
        /\ d \in Directory
    BY <1>1, <1>4, SMT DEF Directory
  <2>2. Become(d) /\ UNCHANGED lock /\ Building
    BY <1>5 DEF DropPartials
  <2>. HIDE DEF d
  <2>3. Good(d) /\ Follows(d)
    BY <1>1, <2>1, <2>2, SMT DEF Good, Follows, Intended, Building
  <2>4. "dropJournal" \in Outside \cup Inside
    BY SMT DEF Inside
  <2>5. Goes(p, "dropJournal", call[p].i, call[p].mem)
    BY <1>1, <1>5, <2>4, GoGoes DEF DropPartials
  <2>6. AtWork(p)'
    BY <2>1, <2>2, <2>5, SMT
    DEF Goes, AtWork, Cleanup, Making, Linked, Become, Building
  <2>7. Moves(p) /\ Locks(p)
    BY <1>2, <2>2, <2>5 DEF Goes, Locks
  <2>. QED
    BY <1>2, <1>3, <2>1, <2>2, <2>3, <2>6, <2>7, BecomeStep
<1>6. CASE DropJournal(p)
  <2>. DEFINE d == [now EXCEPT !.journal = None]
  <2>1. /\ d = [journal |-> None, partial |-> now.partial, final |-> now.final]
        /\ d \in Directory
    BY <1>1, SMT DEF Directory
  <2>2. Become(d) /\ UNCHANGED lock
    BY <1>6 DEF DropJournal
  <2>3. Building /\ now.partial = Nothing
    BY <1>1, <1>6, SMT DEF DropJournal, At, AtWork
  <2>. HIDE DEF d
  <2>4. Good(d) /\ Follows(d)
    BY <1>1, <2>1, <2>3, SMT DEF Good, Follows, Intended, Building
  <2>5. "dropped" \in Outside \cup Inside
    BY SMT DEF Inside
  <2>6. Goes(p, "dropped", call[p].i, call[p].mem)
    BY <1>1, <1>6, <2>5, GoGoes DEF DropJournal
  <2>7. AtWork(p)'
    BY <2>1, <2>2, <2>6, SMT DEF Goes, AtWork, Cleanup, Making, Linked, Become
  <2>8. Moves(p) /\ Locks(p)
    BY <1>2, <2>2, <2>6 DEF Goes, Locks
  <2>. QED
    BY <1>2, <1>3, <2>1, <2>2, <2>4, <2>7, <2>8, BecomeStep
<1>7. CASE Dropped(p)
  <2>1. CASE call[p].mem # "none"
    <3>1. "idle" \notin Inside
      BY SMT DEF Inside, Cleanup, Making, Linked
    <3>2. Goes(p, "idle", 0, "none") /\ Give(p)
      BY <1>1, <1>7, <2>1, ResetGoes DEF Dropped
    <3>3. Moves(p) /\ Locks(p) /\ AtWork(p)'
      BY <3>1, <3>2, OutsideRelies DEF Goes, Locks
    <3>. QED
      BY <1>3, <1>7, <3>3, FlushStep DEF Dropped
  <2>2. CASE call[p].mem = "none"
    <3>1. "recovered" \in Outside \cup Inside
      BY SMT DEF Inside
    <3>2. Goes(p, "recovered", call[p].i, "none") /\ UNCHANGED lock
      BY <1>1, <1>7, <2>2, <3>1, GoGoes DEF Dropped
    <3>3. now'.journal = None
      BY <1>1, <1>7, SMT DEF Dropped, At, AtWork
    <3>4. AtWork(p)'
      BY <3>2, <3>3, SMT DEF Goes, AtWork, Cleanup, Making, Linked
    <3>5. Moves(p) /\ Locks(p)
      BY <1>2, <3>2 DEF Goes, Locks
    <3>. QED
      BY <1>3, <1>7, <3>4, <3>5, FlushStep DEF Dropped
  <2>. QED
    BY <2>1, <2>2
<1>. QED
  BY <1>5, <1>6, <1>7

-----------------------------------------------------------------------------
(* A new transaction *)

LEMMA BeginKeeps ==
  ASSUME IInv, NEW p \in Process, Begin(p) \/ SyncBegin(p)
  PROVE  IInv'
<1>1. /\ TypeOK /\ AtWork(p) /\ call[p].i \in 0 .. Artifacts + 1
      /\ now \in Directory /\ Good(now) /\ Follows(now)
  BY SMT DEF IInv, InOrder, TypeOK, CallRecord, AllGood, Forward
<1>2. call[p].at \in Inside
  BY SMT DEF Begin, SyncBegin, At, Inside, Making
<1>3. RestTyped /\ UNCHANGED <<answered, unbacked, lock>>
  BY <1>1, SMT DEF TypeOK, RestTyped, Begin, SyncBegin, Rest, Others
<1>4. CASE Begin(p)
  <2>. DEFINE j == [id |-> serial + 1, state |-> "building"]
              d == [now EXCEPT !.journal = j]
  <2>1. j \in Journal /\ j # None /\ j.state = "building"
    BY <1>1, ResultAssumption, SMT DEF Journal, TypeOK
  <2>2. /\ d = [journal |-> j, partial |-> now.partial, final |-> now.final]
        /\ d \in Directory
    BY <1>1, <2>1, SMT DEF Directory
  <2>3. Become(d)
    BY <1>4 DEF Begin
  <2>4. now.journal = None
    BY <1>1, <1>4, SMT DEF Begin, At, AtWork
  <2>. HIDE DEF j, d
  <2>5. Good(d) /\ Follows(d)
    BY <1>1, <2>1, <2>2, <2>4, SMT DEF Good, Follows, Intended
  <2>6. "begun" \in Outside \cup Inside
    BY SMT DEF Inside, Making
  <2>7. Goes(p, "begun", call[p].i, call[p].mem)
    BY <1>1, <1>4, <2>6, GoGoes DEF Begin
  <2>8. AtWork(p)'
    BY <2>1, <2>2, <2>3, <2>7, SMT
    DEF Goes, AtWork, Cleanup, Making, Linked, Become, Building
  <2>9. Moves(p) /\ Locks(p)
    BY <1>2, <1>3, <2>7 DEF Goes, Locks
  <2>. QED
    BY <1>2, <1>3, <2>2, <2>3, <2>5, <2>8, <2>9, BecomeStep
<1>5. CASE SyncBegin(p)
  <2>1. GoTo(p, "mkdir", call[p].i, call[p].first, "building")
    BY <1>5 DEF SyncBegin, GoAs
  <2>2. /\ "mkdir" \in Outside \cup Inside /\ call[p].first \in BOOLEAN
        /\ "building" \in {"none", "building", "publishing"}
    BY <1>1, SMT DEF Inside, Making, TypeOK, CallRecord
  <2>3. Goes(p, "mkdir", call[p].i, "building")
    BY <1>1, <2>1, <2>2, GoToGoes
  <2>4. Building'
    BY <1>1, <1>5, SMT DEF SyncBegin, At, AtWork, Making, Building
  <2>5. AtWork(p)'
    BY <2>3, <2>4, SMT DEF Goes, AtWork, Cleanup, Making, Linked
  <2>6. Moves(p) /\ Locks(p)
    BY <1>2, <1>3, <2>3 DEF Goes, Locks
  <2>. QED
    BY <1>3, <1>5, <2>5, <2>6, FlushStep DEF SyncBegin
<1>. QED
  BY <1>4, <1>5

LEMMA MarkKeeps ==
  ASSUME IInv, NEW p \in Process, MakeWork(p) \/ InitializeMarker(p) \/ Mark(p)
  PROVE  IInv'
<1>1. TypeOK /\ AtWork(p) /\ call[p].i \in 0 .. Artifacts + 1
  BY SMT DEF IInv, InOrder, TypeOK, CallRecord
<1>2. call[p].at \in {"mkdir", "mark"} /\ call[p].at \in Inside /\ Building
  BY <1>1, SMT DEF MakeWork, InitializeMarker, Mark, At, Inside, Making, AtWork
<1>3. RestTyped /\ UNCHANGED <<now, disk, since, lock, answered, unbacked>>
  BY <1>1, SMT DEF TypeOK, RestTyped, MakeWork, InitializeMarker, Mark, Rest, Others
<1>4. CASE MakeWork(p) \/ Mark(p)
  <2>1. PICK s \in {"mark", "build"} : Go(p, s)
    BY <1>4 DEF MakeWork, Mark
  <2>2. s \in Inside /\ s \in Making /\ GoAt(p, s, call[p].i)
    BY <2>1, SMT DEF Inside, Making, Go
  <2>3. Goes(p, s, call[p].i, call[p].mem) => AtWork(p)'
    BY <1>2, <1>3, <2>1, SMT DEF Goes, AtWork, Cleanup, Making, Linked, Building
  <2>. QED
    BY <1>1, <1>2, <1>3, <2>2, <2>3, OnwardKeeps
<1>5. CASE InitializeMarker(p)
  <2>1. call' = call
    BY <1>5 DEF InitializeMarker
  <2>2. Moves(p) /\ Locks(p)
    BY <1>1, <1>3, <2>1 DEF Moves, Locks, TypeOK
  <2>3. AtWork(p)'
    BY <1>1, <1>3, <2>1, SMT DEF AtWork, Finals, Building, Intended, Whole
  <2>. QED
    BY <1>3, <2>2, <2>3, StillStep
<1>. QED
  BY <1>4, <1>5

\* The partials are replaced as a whole, each by an artifact of the transaction.
LEMMA BuildKeeps ==
  ASSUME IInv, NEW p \in Process, Build(p) \/ SyncPartials(p)
  PROVE  IInv'
<1>1. /\ TypeOK /\ AtWork(p) /\ call[p].i \in 0 .. Artifacts + 1
      /\ now \in Directory /\ Good(now) /\ Follows(now)
  BY SMT DEF IInv, InOrder, TypeOK, CallRecord, AllGood, Forward
<1>2. call[p].at \in {"build", "built"} /\ call[p].at \in Inside /\ Building
  BY <1>1, SMT DEF Build, SyncPartials, At, Inside, Making, AtWork
<1>3. RestTyped /\ UNCHANGED <<answered, unbacked, lock>>
  BY <1>1, SMT DEF TypeOK, RestTyped, Build, SyncPartials, Rest, Others
<1>4. ASSUME NEW s \in {"built", "record"}, NEW data \in {"cached", "flushed"}, Go(p, s),
             Become([now EXCEPT !.partial =
                       [a \in Artifact |-> [id |-> now.journal.id, data |-> data]]]),
             s = "record" => data = "flushed"
      PROVE  IInv'
  <2>. DEFINE ps == [a \in Artifact |-> [id |-> now.journal.id, data |-> data]]
              d == [now EXCEPT !.partial = ps]
  <2>1. now.journal.id \in Nat
    BY <1>1, <1>2, SMT DEF Building, Directory, Journal
  <2>2. ps \in [Artifact -> File \cup {None}]
    BY <1>4, <2>1, SMT DEF File
  <2>3. data = "flushed" => \A a \in Artifact : Whole(now, ps[a])
    BY DEF Whole
  <2>4. Become(d)
    BY <1>4
  <2>. HIDE DEF ps
  <2>5. /\ d = [journal |-> now.journal, partial |-> ps, final |-> now.final]
        /\ d \in Directory
    BY <1>1, <2>2, SMT DEF Directory
  <2>. HIDE DEF d
  <2>6. Good(d) /\ Follows(d)
    BY <1>1, <1>2, <2>5, SMT DEF Good, Follows, Intended, Building
  <2>7. s \in Outside \cup Inside /\ s \in Inside
    BY <1>4, SMT DEF Inside, Making
  <2>8. Goes(p, s, call[p].i, call[p].mem)
    BY <1>1, <1>4, <2>7, GoGoes
  <2>9. now' = d /\ Building'
    BY <1>2, <2>4, <2>5 DEF Become, Building
  <2>10. s = "record" => \A a \in Artifact : Whole(now, now.partial[a])'
    BY <1>4, <2>3, <2>5, <2>9 DEF Whole
  <2>11. AtWork(p)'
    BY <1>4, <2>8, <2>9, <2>10, SMT DEF Goes, AtWork, Cleanup, Making, Linked
  <2>12. Moves(p) /\ Locks(p)
    BY <1>2, <1>3, <2>8 DEF Goes, Locks
  <2>. QED
    BY <1>2, <1>3, <2>4, <2>5, <2>6, <2>11, <2>12, BecomeStep
<1>5. CASE Build(p)
  BY <1>4, <1>5 DEF Build
<1>6. CASE SyncPartials(p)
  BY <1>4, <1>6 DEF SyncPartials
<1>. QED
  BY <1>5, <1>6

LEMMA RecordKeeps ==
  ASSUME IInv, NEW p \in Process, Record(p) \/ SyncRecord(p)
  PROVE  IInv'
<1>1. /\ TypeOK /\ AtWork(p) /\ call[p].i \in 0 .. Artifacts + 1
      /\ Artifacts \in Nat \ {0} /\ call[p].first \in BOOLEAN
      /\ now \in Directory /\ Good(now) /\ Follows(now)
  BY ResultAssumption, SMT DEF IInv, InOrder, TypeOK, CallRecord, AllGood, Forward
<1>2. call[p].at \in Inside
  BY SMT DEF Record, SyncRecord, At, Inside
<1>3. RestTyped /\ UNCHANGED <<answered, unbacked, lock>>
  BY <1>1, SMT DEF TypeOK, RestTyped, Record, SyncRecord, Rest, Others
<1>4. CASE Record(p)
  <2>. DEFINE j == [now.journal EXCEPT !.state = "publishing"]
              d == [now EXCEPT !.journal = j]
  <2>1. Building /\ \A a \in Artifact : Whole(now, now.partial[a])
    BY <1>1, <1>4, SMT DEF Record, At, AtWork
  <2>2. /\ j \in Journal /\ j # None
        /\ j.state = "publishing" /\ j.id = now.journal.id
    BY <1>1, <2>1, ResultAssumption, SMT DEF Journal, Directory, Building
  <2>3. Become(d)
    BY <1>4 DEF Record
  <2>. HIDE DEF j
  <2>4. /\ d = [journal |-> j, partial |-> now.partial, final |-> now.final]
        /\ d \in Directory
    BY <1>1, <2>2, SMT DEF Directory
  <2>. HIDE DEF d
  <2>5. \A a \in Artifact : now.final[a] = None /\ now.partial[a] # None
    <3>1. now.final = Nothing
      BY <1>1, <2>1 DEF Good, Building
    <3>2. now.journal.id \in Nat
      BY <1>1, <2>1, SMT DEF Building, Directory, Journal
    <3>3. [id |-> now.journal.id, data |-> "flushed"] # None
      BY <3>2, ResultAssumption
    <3>. QED
      BY <2>1, <3>1, <3>3, SMT DEF Nothing, Whole
  <2>6. Good(d)
    BY <2>1, <2>2, <2>4, <2>5, SMT DEF Good, Intended, Whole
  <2>7. Follows(d)
    BY <1>1, <2>1, SMT DEF Follows, Intended, Building
  <2>8. GoTo(p, "recorded", call[p].i, call[p].first, "publishing")
    BY <1>4 DEF Record, GoAs
  <2>9. "recorded" \in Outside \cup Inside
    BY SMT DEF Inside
  <2>10. Goes(p, "recorded", call[p].i, "publishing")
    BY <1>1, <2>8, <2>9, GoToGoes
  <2>11. AtWork(p)'
    BY <2>2, <2>3, <2>4, <2>10, SMT
    DEF Goes, AtWork, Cleanup, Making, Linked, Become, Intended
  <2>12. Moves(p) /\ Locks(p)
    BY <1>2, <1>3, <2>10 DEF Goes, Locks
  <2>. QED
    BY <1>2, <1>3, <2>3, <2>4, <2>6, <2>7, <2>11, <2>12, BecomeStep
<1>5. CASE SyncRecord(p)
  <2>1. Intended(now) /\ call[p].mem # "building"
    BY <1>1, <1>5, SMT DEF SyncRecord, At, AtWork
  <2>2. "publish" \in Outside \cup Inside /\ 1 \in 0 .. Artifacts + 1
    BY <1>1, SMT DEF Inside
  <2>3. Goes(p, "publish", 1, call[p].mem)
    BY <1>1, <1>5, <2>2, GoAtGoes DEF SyncRecord
  <2>4. now' = now
    BY <1>5 DEF SyncRecord
  <2>5. Finals(0)' /\ call'[p].i - 1 = 0 /\ call'[p].i \in 1 .. Artifacts + 1
    BY <1>1, <2>3, SMT DEF Goes, Finals, Artifact
  <2>6. AtWork(p)'
    BY <2>1, <2>3, <2>4, <2>5, SMT
    DEF Goes, AtWork, Cleanup, Making, Linked, Intended
  <2>7. Moves(p) /\ Locks(p)
    BY <1>2, <1>3, <2>3 DEF Goes, Locks
  <2>. QED
    BY <1>3, <1>5, <2>6, <2>7, FlushStep DEF SyncRecord
<1>. QED
  BY <1>4, <1>5

-----------------------------------------------------------------------------
(* Publication *)

LEMMA LinkKeeps ==
  ASSUME IInv, NEW p \in Process, Link(p)
  PROVE  IInv'
<1>. PICK i : i = call[p].i
  OBVIOUS
<1>. DEFINE fs == [now.final EXCEPT ![i] = now.partial[i]]
            d == [now EXCEPT !.final = fs]
<1>1. /\ TypeOK /\ AtWork(p) /\ Artifacts \in Nat \ {0}
      /\ now \in Directory /\ Good(now) /\ Follows(now)
  BY ResultAssumption, SMT DEF IInv, InOrder, TypeOK, AllGood, Forward
<1>2. /\ Intended(now) /\ i \in Artifact /\ Finals(i - 1)
      /\ call[p].mem # "building" /\ now.final[i] = None
  BY <1>1, SMT DEF Link, At, AtWork, Artifact, Place
<1>3. RestTyped /\ UNCHANGED <<answered, unbacked, lock>>
  BY <1>1, SMT DEF TypeOK, RestTyped, Link, Rest, Others
<1>4. Become(d)
  BY DEF Link, Place
<1>5. /\ fs \in [Artifact -> File \cup {None}] /\ fs[i] = now.partial[i]
      /\ \A a \in Artifact \ {i} : fs[a] = now.final[a]
  BY <1>1, <1>2, SMT DEF Directory
<1>6. now.partial[i] # None /\ Whole(now, now.partial[i])
  BY <1>1, <1>2 DEF Good
<1>7. call[p].at \in Inside
  BY SMT DEF Link, At, Inside
<1>8. "linked" \in Outside \cup Inside
  BY SMT DEF Inside, Linked
<1>9. Goes(p, "linked", i, call[p].mem)
  BY <1>1, <1>8, GoGoes DEF Link
<1>. HIDE DEF fs
<1>10. /\ d = [journal |-> now.journal, partial |-> now.partial, final |-> fs]
       /\ d \in Directory
  BY <1>1, <1>5, SMT DEF Directory
<1>. HIDE DEF d
<1>11. \A a \in Artifact : a <= i => fs[a] # None
  BY <1>1, <1>2, <1>5, <1>6, SMT DEF Finals, Artifact
<1>12. Good(d)
  <2>1. Intended(d) /\ d.journal = now.journal
    BY <1>2, <1>10 DEF Intended
  <2>2. ASSUME NEW a \in Artifact
        PROVE  /\ d.final[a] # None => Whole(d, d.final[a])
               /\ d.partial[a] # None => Whole(d, d.partial[a])
               /\ d.final[a] = None => d.partial[a] # None
               /\ d.journal.state = "committed" => d.final[a] # None
    BY <1>1, <1>2, <1>5, <1>6, <1>10, <2>1, SMT DEF Good, Whole
  <2>3. ASSUME NEW a \in Artifact, d.final[a] # None, NEW b \in 1 .. a
        PROVE  d.final[b] # None
    <3>1. b \in Artifact /\ b <= a
      BY <1>1, SMT DEF Artifact
    <3>2. CASE a = i
      BY <1>10, <1>11, <3>1, <3>2
    <3>3. CASE a # i
      <4>1. now.final[b] # None
        BY <1>1, <1>2, <1>5, <1>10, <2>3, <3>3 DEF Good
      <4>. QED
        BY <1>5, <1>6, <1>10, <3>1, <4>1
    <3>. QED
      BY <3>2, <3>3
  <2>. QED
    BY <2>1, <2>2, <2>3 DEF Good, Intended
<1>13. Follows(d)
  BY <1>1, <1>2, <1>5, <1>6, <1>10, SMT DEF Follows, Intended
<1>14. AtWork(p)'
  <2>1. Finals(i)' /\ Intended(now)'
    BY <1>2, <1>4, <1>10, <1>11, SMT DEF Finals, Become, Intended
  <2>2. call'[p].at = "linked" /\ call'[p].i = i /\ call'[p].mem # "building"
    BY <1>2, <1>9 DEF Goes
  <2>. QED
    BY <1>2, <2>1, <2>2, SMT DEF AtWork, Cleanup, Making, Linked
<1>15. Moves(p) /\ Locks(p)
  BY <1>3, <1>7, <1>9 DEF Goes, Locks
<1>. QED
  BY <1>3, <1>4, <1>7, <1>10, <1>12, <1>13, <1>14, <1>15, BecomeStep

\* Whose final name is there gives up its partial name.
LEMMA Unnamed ==
  ASSUME now \in Directory, Good(now), Follows(now), Intended(now),
         NEW i \in Artifact, now.final[i] # None,
         NEW d, d = [now EXCEPT !.partial[i] = None]
  PROVE  /\ d \in Directory /\ Good(d) /\ Follows(d) /\ Intended(d)
         /\ d.final = now.final
<1>. DEFINE ps == [now.partial EXCEPT ![i] = None]
<1>1. /\ ps \in [Artifact -> File \cup {None}] /\ ps[i] = None
      /\ \A a \in Artifact \ {i} : ps[a] = now.partial[a]
  BY SMT DEF Directory
<1>2. d = [now EXCEPT !.partial = ps]
  OBVIOUS
<1>. HIDE DEF ps
<1>3. /\ d = [journal |-> now.journal, partial |-> ps, final |-> now.final]
      /\ d \in Directory
  BY <1>1, <1>2, SMT DEF Directory
<1>4. Good(d)
  BY <1>1, <1>3, SMT DEF Good, Intended, Whole
<1>5. Follows(d) /\ Intended(d)
  BY <1>3, SMT DEF Follows, Intended
<1>. QED
  BY <1>3, <1>4, <1>5

LEMMA UnlinkKeeps ==
  ASSUME IInv, NEW p \in Process, Skip(p) \/ Unlink(p)
  PROVE  IInv'
<1>. PICK i : i = call[p].i
  OBVIOUS
<1>. PICK d : d = [now EXCEPT !.partial[i] = None]
  OBVIOUS
<1>1. /\ TypeOK /\ AtWork(p) /\ Artifacts \in Nat \ {0}
      /\ now \in Directory /\ Good(now) /\ Follows(now)
  BY ResultAssumption, SMT DEF IInv, InOrder, TypeOK, AllGood, Forward
<1>2. /\ Intended(now) /\ i \in Artifact /\ now.final[i] # None
      /\ call[p].mem # "building" /\ call[p].at \in Inside
  <2>1. CASE Skip(p)
    BY <1>1, <2>1, SMT DEF Skip, At, AtWork, Artifact, Place, Inside
  <2>2. CASE Unlink(p)
    BY <1>1, <2>2, SMT DEF Unlink, At, AtWork, Artifact, Inside, Linked, Finals
  <2>. QED
    BY <2>1, <2>2
<1>3. RestTyped /\ UNCHANGED <<answered, unbacked, lock>>
  BY <1>1, SMT DEF TypeOK, RestTyped, Skip, Unlink, Rest, Others
<1>4. Become(d)
  BY DEF Skip, Unlink, Place
<1>5. d \in Directory /\ Good(d) /\ Follows(d) /\ Intended(d) /\ d.final = now.final
  BY <1>1, <1>2, Unnamed
<1>6. CASE Skip(p)
  <2>1. i + 1 \in 1 .. Artifacts + 1 /\ i + 1 \in 0 .. Artifacts + 1
    BY <1>1, <1>2, SMT DEF Artifact
  <2>2. "publish" \in Outside \cup Inside
    BY SMT DEF Inside
  <2>3. Goes(p, "publish", i + 1, call[p].mem)
    BY <1>1, <1>6, <2>1, <2>2, GoAtGoes DEF Skip
  <2>4. Finals(i - 1)
    BY <1>1, <1>6, SMT DEF Skip, At, AtWork
  <2>5. Finals(i)'
    BY <1>1, <1>2, <1>4, <1>5, <2>4, SMT DEF Finals, Become, Artifact
  <2>6. call'[p].i - 1 = i
    BY <1>2, <2>3, SMT DEF Goes, Artifact
  <2>7. AtWork(p)'
    BY <1>2, <1>4, <1>5, <2>1, <2>3, <2>5, <2>6, SMT
    DEF Goes, AtWork, Cleanup, Making, Linked, Become, Intended
  <2>8. Moves(p) /\ Locks(p)
    BY <1>2, <1>3, <2>3 DEF Goes, Locks
  <2>. QED
    BY <1>2, <1>3, <1>4, <1>5, <2>7, <2>8, BecomeStep
<1>7. CASE Unlink(p)
  <2>1. "unlinked" \in Outside \cup Inside
    BY SMT DEF Inside, Linked
  <2>2. Goes(p, "unlinked", i, call[p].mem)
    BY <1>1, <1>7, <2>1, GoGoes DEF Unlink
  <2>3. Finals(i)
    BY <1>1, <1>7, SMT DEF Unlink, At, AtWork, Linked
  <2>4. Finals(i)'
    BY <1>4, <1>5, <2>3 DEF Finals, Become
  <2>5. AtWork(p)'
    BY <1>2, <1>4, <1>5, <2>2, <2>4, SMT
    DEF Goes, AtWork, Cleanup, Making, Linked, Become, Intended
  <2>6. Moves(p) /\ Locks(p)
    BY <1>2, <1>3, <2>2 DEF Goes, Locks
  <2>. QED
    BY <1>2, <1>3, <1>4, <1>5, <2>5, <2>6, BecomeStep
<1>. QED
  BY <1>6, <1>7

LEMMA SyncNameKeeps ==
  ASSUME IInv, NEW p \in Process, SyncLink(p) \/ SyncUnlink(p)
  PROVE  IInv'
<1>. PICK i : i = call[p].i
  OBVIOUS
<1>1. TypeOK /\ AtWork(p) /\ Artifacts \in Nat \ {0}
  BY ResultAssumption, SMT DEF IInv, InOrder, TypeOK
<1>2. /\ Intended(now) /\ i \in Artifact /\ Finals(i)
      /\ call[p].mem # "building" /\ call[p].at \in Inside
  BY <1>1, SMT DEF SyncLink, SyncUnlink, At, AtWork, Inside, Linked
<1>3. /\ RestTyped /\ UNCHANGED <<now, answered, unbacked, lock>> /\ Flush
  BY <1>1, SMT DEF TypeOK, RestTyped, SyncLink, SyncUnlink, Rest, Others
<1>4. Finals(i)' /\ Intended(now)'
  BY <1>2, <1>3 DEF Finals, Intended
<1>5. CASE SyncLink(p)
  <2>1. "unlink" \in Outside \cup Inside
    BY SMT DEF Inside, Linked
  <2>2. Goes(p, "unlink", i, call[p].mem)
    BY <1>1, <1>5, <2>1, GoGoes DEF SyncLink
  <2>3. AtWork(p)'
    BY <1>2, <1>4, <2>2, SMT DEF Goes, AtWork, Cleanup, Making, Linked
  <2>4. Moves(p) /\ Locks(p)
    BY <1>2, <1>3, <2>2 DEF Goes, Locks
  <2>. QED
    BY <1>3, <2>3, <2>4, FlushStep
<1>6. CASE SyncUnlink(p)
  <2>1. /\ "publish" \in Outside \cup Inside
        /\ i + 1 \in 1 .. Artifacts + 1 /\ i + 1 \in 0 .. Artifacts + 1
    BY <1>1, <1>2, SMT DEF Inside, Artifact
  <2>2. Goes(p, "publish", i + 1, call[p].mem)
    BY <1>1, <1>6, <2>1, GoAtGoes DEF SyncUnlink
  <2>3. call'[p].i - 1 = i
    BY <1>2, <2>2, SMT DEF Goes, Artifact
  <2>4. AtWork(p)'
    BY <1>2, <1>4, <2>1, <2>2, <2>3, SMT DEF Goes, AtWork, Cleanup, Making, Linked
  <2>5. Moves(p) /\ Locks(p)
    BY <1>2, <1>3, <2>2 DEF Goes, Locks
  <2>. QED
    BY <1>3, <2>4, <2>5, FlushStep
<1>. QED
  BY <1>5, <1>6

LEMMA CommitKeeps ==
  ASSUME IInv, NEW p \in Process, Commit(p) \/ SyncCommit(p) \/ Answer(p)
  PROVE  IInv'
<1>1. /\ TypeOK /\ AtWork(p) /\ Artifacts \in Nat \ {0}
      /\ call[p].i \in 0 .. Artifacts + 1
      /\ now \in Directory /\ Good(now) /\ Follows(now)
  BY ResultAssumption, SMT DEF IInv, InOrder, TypeOK, AllGood, Forward, CallRecord
<1>2. Intended(now) /\ call[p].mem # "building" /\ call[p].at \in Inside
  BY <1>1, SMT DEF Commit, SyncCommit, Answer, At, AtWork, Inside
<1>3. RestTyped /\ UNCHANGED <<answered, unbacked, lock>>
  BY <1>1, SMT DEF TypeOK, RestTyped, Commit, SyncCommit, Answer, Still, Rest, Others
<1>4. CASE Commit(p)
  <2>. DEFINE j == [now.journal EXCEPT !.state = "committed"]
              d == [now EXCEPT !.journal = j]
  <2>1. \A a \in Artifact : now.final[a] # None
    BY <1>1, <1>4, SMT DEF Commit, At, AtWork, Finals, Artifact
  <2>2. j \in Journal /\ j # None /\ j.state = "committed" /\ j.id = now.journal.id
    BY <1>1, <1>2, ResultAssumption, SMT DEF Journal, Directory, Intended
  <2>3. Become(d)
    BY <1>4 DEF Commit
  <2>. HIDE DEF j
  <2>4. /\ d = [journal |-> j, partial |-> now.partial, final |-> now.final]
        /\ d \in Directory
    BY <1>1, <2>2, SMT DEF Directory
  <2>. HIDE DEF d
  <2>5. Good(d) /\ Follows(d)
    BY <1>1, <1>2, <2>1, <2>2, <2>4, SMT DEF Good, Follows, Intended, Whole
  <2>6. "committed" \in Outside \cup Inside
    BY SMT DEF Inside
  <2>7. Goes(p, "committed", call[p].i, call[p].mem)
    BY <1>1, <1>4, <2>6, GoGoes DEF Commit
  <2>8. AtWork(p)'
    BY <1>2, <2>2, <2>3, <2>4, <2>7, SMT
    DEF Goes, AtWork, Cleanup, Making, Linked, Become, Intended
  <2>9. Moves(p) /\ Locks(p)
    BY <1>2, <1>3, <2>7 DEF Goes, Locks
  <2>. QED
    BY <1>2, <1>3, <2>3, <2>4, <2>5, <2>8, <2>9, BecomeStep
<1>5. CASE SyncCommit(p) \/ Answer(p)
  <2>1. now.journal.state = "committed" /\ now' = now
    BY <1>1, <1>5, SMT DEF SyncCommit, Answer, At, AtWork, Still
  <2>2. "clean" \in Outside \cup Inside /\ Artifacts + 1 \in 0 .. Artifacts + 1
    BY <1>1, SMT DEF Inside, Cleanup
  <2>3. Goes(p, "clean", Artifacts + 1, call[p].mem)
    BY <1>1, <1>5, <2>2, GoAtGoes DEF SyncCommit, Answer
  <2>4. AtWork(p)'
    BY <1>2, <2>1, <2>3, SMT DEF Goes, AtWork, Cleanup, Making, Linked, Intended
  <2>5. Moves(p) /\ Locks(p)
    BY <1>2, <1>3, <2>3 DEF Goes, Locks
  <2>6. CASE SyncCommit(p)
    BY <1>3, <2>4, <2>5, <2>6, FlushStep DEF SyncCommit
  <2>7. CASE Answer(p)
    BY <1>3, <2>4, <2>5, <2>7, StillStep DEF Answer, Still
  <2>. QED
    BY <1>5, <2>6, <2>7
<1>. QED
  BY <1>4, <1>5

LEMMA ReturnKeeps ==
  ASSUME IInv, NEW p \in Process, Return(p)
  PROVE  IInv'
<1>1. /\ TypeOK /\ AtWork(p) /\ Artifacts \in Artifact
      /\ now \in Directory /\ Good(now) /\ Follows(now)
  BY ResultAssumption, SMT DEF IInv, InOrder, TypeOK, AllGood, Forward, Artifact
<1>2. Intended(now) /\ now.journal.state = "committed"
  BY <1>1, SMT DEF Return, At, AtWork, Cleanup
<1>3. now.final[Artifacts] # None
  BY <1>1, <1>2 DEF Good
<1>4. Whole(now, now.final[Artifacts])
  BY <1>1, <1>2, <1>3 DEF Good
<1>5. answered' = now.journal.id /\ answered' \in Nat
  BY <1>1, <1>2, <1>4, SMT DEF Return, Whole, Intended, Directory, Journal
<1>6. "done" \in Outside \cup Inside /\ "done" \notin Inside
  BY SMT DEF Outside, Inside, Cleanup, Making, Linked
<1>7. Goes(p, "done", call[p].i, call[p].mem)
  BY <1>1, <1>6, GoGoes DEF Return
<1>8. Moves(p) /\ Locks(p) /\ AtWork(p)'
  BY <1>6, <1>7, OutsideRelies DEF Goes, Locks, Return
<1>9. Excluded' /\ lock' \in Process \cup {None}
  BY <1>1, <1>8, ExcludedKept DEF IInv
<1>10. UNCHANGED <<now, disk, since, work, serial, torn, faults>>
  BY DEF Return
<1>11. TypeOK'
  BY <1>1, <1>5, <1>8, <1>9, <1>10, SMT DEF TypeOK, Moves, Return
<1>12. InOrder'
  BY <1>8, <1>10, OrderKept DEF IInv
<1>13. AllGood' /\ Forward'
  BY <1>10, SMT DEF IInv, AllGood, Good, Forward, Follows, Intended, Whole
<1>14. AnswerOnDisk'
  <2>1. unbacked' = (unbacked \/ ~ Intended(disk))
    BY DEF Return
  <2>2. ASSUME Intended(disk)
        PROVE  disk.journal.id = answered'
    BY <1>1, <1>5, <2>2 DEF Follows
  <2>. QED
    BY <1>10, <2>1, <2>2 DEF AnswerOnDisk, Intended
<1>. QED
  BY <1>9, <1>11, <1>12, <1>13, <1>14 DEF IInv

\* A call that ends, for whatever reason, gives the lock back.
LEMMA StopKeeps ==
  ASSUME IInv, NEW p \in Process, Stop(p), Give(p), RestTyped,
         UNCHANGED <<now, disk, since, answered, unbacked>>
  PROVE  IInv'
<1>1. "idle" \notin Inside
  BY SMT DEF Inside, Cleanup, Making, Linked
<1>2. Goes(p, "idle", 0, "none")
  BY ResetGoes DEF IInv
<1>3. Moves(p) /\ Locks(p) /\ AtWork(p)'
  BY <1>1, <1>2, OutsideRelies DEF Goes, Locks
<1>. QED
  BY <1>3, StillStep

LEMMA RaiseKeeps ==
  ASSUME IInv, NEW p \in Process, Raised(p) \/ Raise(p) \/ Kill(p)
  PROVE  IInv'
<1>1. /\ TypeOK /\ AtWork(p) /\ Artifacts \in Nat \ {0}
      /\ call[p].i \in 0 .. Artifacts + 1 /\ call[p].first \in BOOLEAN
  BY ResultAssumption, SMT DEF IInv, InOrder, TypeOK, CallRecord
<1>2. RestTyped /\ UNCHANGED <<now, disk, since, answered, unbacked>>
  <2>1. (torn \/ work = "unmarked") \in BOOLEAN
    OBVIOUS
  <2>2. faults + 1 \in Nat
    BY <1>1, SMT DEF TypeOK
  <2>. QED
    BY <1>1, <2>1, <2>2 DEF TypeOK, RestTyped, Raised, Raise, Kill, Still, Rest, Others, Spend
<1>3. CASE Stop(p) /\ Give(p)
  BY <1>2, <1>3, StopKeeps
<1>4. CASE Raise(p) /\ call[p].mem = "building" /\ Go(p, "discard") /\ UNCHANGED lock
  <2>1. Building /\ call[p].at \in Inside
    BY <1>1, <1>4, SMT DEF Raise, AtWork, Making, Linked, Inside
  <2>2. "discard" \in Inside /\ GoAt(p, "discard", call[p].i)
    BY <1>4, SMT DEF Inside, Go
  <2>3. Goes(p, "discard", call[p].i, call[p].mem) => AtWork(p)'
    BY <1>2, <2>1, SMT DEF Goes, AtWork, Cleanup, Making, Linked, Building
  <2>. QED
    BY <1>1, <1>2, <1>4, <2>1, <2>2, <2>3, OnwardKeeps
<1>5. CASE Raise(p) /\ GoTo(p, "clean", 0, call[p].first, "publishing") /\ UNCHANGED lock
  <2>1. call[p].at \in Inside
    BY <1>5, SMT DEF Raise, Making, Linked, Inside
  <2>2. /\ "clean" \in Outside \cup Inside /\ 0 \in 0 .. Artifacts + 1
        /\ "publishing" \in {"none", "building", "publishing"}
    BY <1>1, SMT DEF Inside, Cleanup
  <2>3. Goes(p, "clean", 0, "publishing")
    BY <1>1, <1>5, <2>2, GoToGoes
  <2>4. AtWork(p)'
    BY <1>1, <2>3, SMT DEF Goes, AtWork, Cleanup, Making, Linked
  <2>5. Moves(p) /\ Locks(p)
    BY <1>5, <2>1, <2>3 DEF Goes, Locks
  <2>. QED
    BY <1>2, <2>4, <2>5, StillStep
<1>. QED
  BY <1>3, <1>4, <1>5 DEF Raised, Raise, Kill

LEMMA PowerLossKeeps ==
  ASSUME IInv, PowerLoss
  PROVE  IInv'
<1>1. PICK kept \in since \cup {disk} : now' = Restored(kept)
  BY DEF PowerLoss
<1>. DEFINE ps == [a \in Artifact |-> Torn(kept.partial[a])]
            fs == [a \in Artifact |-> Torn(kept.final[a])]
<1>2. kept \in Directory /\ Good(kept) /\ Follows(kept)
  BY SMT DEF IInv, TypeOK, AllGood, Forward, Follows
<1>3. now' = [journal |-> kept.journal, partial |-> ps, final |-> fs]
  BY <1>1 DEF Restored
<1>4. ASSUME NEW f \in File \cup {None}
      PROVE  /\ Torn(f) \in File \cup {None}
             /\ Torn(f) = None <=> f = None
             /\ Whole(kept, f) => Torn(f) = f
  <2>1. ASSUME f # None, f.data = "cached"
        PROVE  Torn(f) = [id |-> f.id, data |-> "torn"] /\ Torn(f) \in File
    BY <1>4, <2>1, SMT DEF Torn, File
  <2>2. None \notin File
    BY ResultAssumption DEF File
  <2>3. CASE f # None /\ f.data = "cached"
    BY <2>1, <2>2, <2>3, SMT DEF Whole
  <2>4. CASE ~ (f # None /\ f.data = "cached")
    BY <2>4 DEF Torn
  <2>. QED
    BY <2>3, <2>4
<1>5. \A a \in Artifact : kept.partial[a] \in File \cup {None} /\ kept.final[a] \in File \cup {None}
  BY <1>2, SMT DEF Directory
<1>6. /\ \A a \in Artifact : /\ ps[a] = Torn(kept.partial[a]) /\ fs[a] = Torn(kept.final[a])
                             /\ ps[a] \in File \cup {None} /\ fs[a] \in File \cup {None}
                             /\ ps[a] = None <=> kept.partial[a] = None
                             /\ fs[a] = None <=> kept.final[a] = None
      /\ ps \in [Artifact -> File \cup {None}] /\ fs \in [Artifact -> File \cup {None}]
  BY <1>4, <1>5
<1>7. kept.partial = Nothing => ps = Nothing
  BY <1>6 DEF Nothing
<1>8. kept.final = Nothing => fs = Nothing
  BY <1>6 DEF Nothing
<1>9. Intended(kept) =>
        \A a \in Artifact : ps[a] = kept.partial[a] /\ fs[a] = kept.final[a]
  <2>1. ASSUME Intended(kept), NEW a \in Artifact
        PROVE  ps[a] = kept.partial[a] /\ fs[a] = kept.final[a]
    <3>1. kept.partial[a] = None \/ Whole(kept, kept.partial[a])
      BY <1>2, <2>1 DEF Good
    <3>2. kept.final[a] = None \/ Whole(kept, kept.final[a])
      BY <1>2, <2>1 DEF Good
    <3>. QED
      BY <1>4, <1>5, <1>6, <3>1, <3>2
  <2>. QED
    BY <2>1
<1>. HIDE DEF ps, fs
<1>10. /\ now' \in Directory /\ disk' = now' /\ since' = {} /\ lock' = None
       /\ now'.journal = kept.journal /\ now'.partial = ps /\ now'.final = fs
  <2>1. disk' = now' /\ since' = {} /\ lock' = None
    BY DEF PowerLoss
  <2>2. kept.journal \in Journal \cup {None}
    BY <1>2, SMT DEF Directory
  <2>. QED
    BY <1>3, <1>6, <2>1, <2>2 DEF Directory
<1>11. Good(now)'
  <2>1. Intended(now)' <=> Intended(kept)
    BY <1>10 DEF Intended
  <2>2. CASE ~ Intended(kept)
    BY <1>2, <1>7, <1>8, <1>10, <2>1, <2>2 DEF Good, Intended
  <2>3. CASE Intended(kept)
    <3>1. \A a \in Artifact : now'.partial[a] = kept.partial[a] /\ now'.final[a] = kept.final[a]
      BY <1>9, <1>10, <2>3
    <3>2. \A a \in Artifact : \A b \in 1 .. a : b \in Artifact
      BY ResultAssumption, SMT DEF Artifact
    <3>. QED
      BY <1>2, <1>10, <2>1, <2>3, <3>1, <3>2, SMT DEF Good, Intended, Whole
  <2>. QED
    BY <2>2, <2>3
<1>12. AllGood' /\ Forward'
  BY <1>10, <1>11 DEF AllGood, Forward, Follows, Good, Intended, Whole
<1>13. Idle \in CallRecord /\ Idle.at = "idle" /\ Idle.mem = "none"
  BY ResultAssumption, SMT DEF Idle, CallRecord, Outside
<1>14. \A q \in Process : call'[q] = IF call[q].at \in {"done", "refused"} THEN call[q] ELSE Idle
  BY DEF PowerLoss
<1>15. call' \in [Process -> CallRecord]
  BY <1>13, SMT DEF PowerLoss, IInv, TypeOK
<1>16. TypeOK'
  <2>1. work' \in {"none", "empty", "initializing", "owned", "unmarked"}
    BY DEF IInv, TypeOK, PowerLoss, WorkLeft
  <2>2. torn' \in BOOLEAN
    BY DEF PowerLoss
  <2>. QED
    BY <1>10, <1>15, <2>1, <2>2, SMT DEF IInv, TypeOK, PowerLoss, Spend
<1>17. ASSUME NEW q \in Process
       PROVE  call'[q].at \notin Inside /\ AtWork(q)'
  <2>1. \/ call'[q].at \in {"done", "refused"}
        \/ call'[q].at = "idle" /\ call'[q].mem = "none"
    BY <1>13, <1>14
  <2>2. call'[q].at \notin Inside
    BY <2>1, SMT DEF Inside, Cleanup, Making, Linked
  <2>. QED
    BY <2>1, <2>2, OutsideRelies
<1>18. Excluded' /\ InOrder'
  BY <1>17 DEF Excluded, InOrder
<1>19. AnswerOnDisk'
  <2>1. answered' = answered /\ unbacked' = unbacked
    BY DEF PowerLoss
  <2>2. answered # None /\ ~ unbacked =>
          Intended(kept) /\ kept.journal.id = answered
    BY <1>1, <1>2, SMT DEF IInv, AnswerOnDisk, Follows, Intended
  <2>. QED
    BY <1>10, <2>1, <2>2 DEF AnswerOnDisk, Intended
<1>. QED
  BY <1>12, <1>16, <1>18, <1>19 DEF IInv

-----------------------------------------------------------------------------
(* The invariant holds of the specification *)

LEMMA InitHolds ==
  ASSUME Init
  PROVE  IInv
<1>1. /\ Artifacts \in Nat \ {0}
      /\ now = [journal |-> None, partial |-> Nothing, final |-> Nothing]
      /\ disk = now /\ since = {} /\ answered = None
  BY ResultAssumption DEF Init
<1>2. Nothing \in [Artifact -> File \cup {None}]
  BY SMT DEF Nothing
<1>3. now \in Directory
  BY <1>1, <1>2, SMT DEF Directory
<1>4. Idle \in CallRecord /\ Idle.at = "idle" /\ Idle.mem = "none"
  BY <1>1, SMT DEF Idle, CallRecord, Outside
<1>5. call \in [Process -> CallRecord] /\ \A p \in Process : call[p] = Idle
  BY <1>4, SMT DEF Init
<1>6. TypeOK
  <2>1. disk \in Directory /\ since \in SUBSET Directory
    BY <1>1, <1>3
  <2>2. /\ lock \in Process \cup {None} /\ work = "none" /\ removed = None
        /\ serial = 0 /\ faults = 0
    BY DEF Init
  <2>3. answered \in Nat \cup {None} /\ unbacked \in BOOLEAN /\ torn \in BOOLEAN
    BY DEF Init
  <2>. QED
    BY <1>3, <1>5, <2>1, <2>2, <2>3 DEF TypeOK
<1>7. Excluded /\ InOrder
  BY <1>4, <1>5, SMT DEF Excluded, InOrder, AtWork, Inside, Cleanup, Making, Linked
<1>8. AllGood /\ Forward /\ AnswerOnDisk
  BY <1>1 DEF AllGood, Forward, AnswerOnDisk, Good, Follows, Intended
<1>. QED
  BY <1>6, <1>7, <1>8 DEF IInv

LEMMA StepKeeps ==
  ASSUME IInv, [Next]_vars
  PROVE  IInv'
<1>1. ASSUME NEW p \in Process, Step(p)
      PROVE  IInv'
  BY <1>1, LookupKeeps, RecoverKeeps, CleanKeeps, DropKeeps, BeginKeeps, MarkKeeps,
     BuildKeeps, RecordKeeps, LinkKeeps, UnlinkKeeps, SyncNameKeeps, CommitKeeps,
     ReturnKeeps, RaiseKeeps
  DEF Step
<1>2. ASSUME UNCHANGED vars
      PROVE  IInv'
  BY <1>2, SMT
  DEF vars, IInv, TypeOK, Excluded, AllGood, Good, Forward, Follows, InOrder, AtWork,
      Finals, AnswerOnDisk, Intended, Whole, Building
<1>3. ASSUME NEW p \in Process, Done(p) \/ Raise(p) \/ Kill(p)
      PROVE  IInv'
  BY <1>2, <1>3, RaiseKeeps DEF Done
<1>. QED
  BY <1>1, <1>2, <1>3, PowerLossKeeps DEF Next

\* Types.
THEOREM TypeCorrect == Spec => []TypeOK
<1>1. Init => IInv
  BY InitHolds
<1>2. IInv /\ [Next]_vars => IInv'
  BY StepKeeps
<1>3. IInv => TypeOK
  BY DEF IInv
<1>. QED
  BY <1>1, <1>2, <1>3, PTL DEF Spec

LEMMA Invariance == Spec => []IInv
<1>1. Init => IInv
  BY InitHolds
<1>2. IInv /\ [Next]_vars => IInv'
  BY StepKeeps
<1>. QED
  BY <1>1, <1>2, PTL DEF Spec

\* Whatever a power loss leaves, a result that a caller was told after its commit
\* intent was flushed is there, and the next call publishes it.
THEOREM AnswersAreKept == Spec => []ToldIsKept
<1>1. ASSUME IInv
      PROVE  ToldIsKept
  <2>1. ASSUME answered # None, ~ unbacked, NEW d \in since \cup {disk}
        PROVE  /\ d.journal.id = answered /\ Intended(d)
               /\ \A a \in Artifact :
                    [id |-> answered, data |-> "flushed"] \in {d.final[a], d.partial[a]}
    <3>1. Good(d)
      BY <1>1 DEF IInv, AllGood
    <3>2. Intended(disk) /\ disk.journal.id = answered
      BY <1>1, <2>1 DEF IInv, AnswerOnDisk
    <3>3. Intended(d) /\ d.journal.id = answered
      BY <1>1, <3>2 DEF IInv, Forward, Follows
    <3>4. ASSUME NEW a \in Artifact
          PROVE  [id |-> answered, data |-> "flushed"] \in {d.final[a], d.partial[a]}
      BY <3>1, <3>3 DEF Good, Whole
    <3>. QED
      BY <3>3, <3>4
  <2>. QED
    BY <2>1 DEF ToldIsKept
<1>. QED
  BY <1>1, Invariance, PTL

-----------------------------------------------------------------------------
(* The artifacts appear together *)

\* What a directory shows to a reader who waits for the last artifact.
LEMMA ShownTogether ==
  IInv =>
    Shown = IF Intended(disk) /\ disk.final[Artifacts] # None THEN Artifact ELSE {}
<1>. SUFFICES ASSUME Good(disk)
              PROVE  Shown = IF Intended(disk) /\ disk.final[Artifacts] # None
                               THEN Artifact ELSE {}
  BY DEF IInv, AllGood
<1>1. Artifacts \in Artifact
  BY ResultAssumption, SMT DEF Artifact
<1>2. CASE disk.final[Artifacts] = None
  BY <1>2 DEF Shown
<1>3. CASE ~ Intended(disk)
  <2>1. disk.final = Nothing
    BY <1>3 DEF Good, Intended
  <2>2. disk.final[Artifacts] = None
    BY <1>1, <2>1 DEF Nothing
  <2>. QED
    BY <1>3, <2>2 DEF Shown
<1>4. CASE Intended(disk) /\ disk.final[Artifacts] # None
  <2>1. \A a \in Artifact : a \in 1 .. Artifacts
    BY DEF Artifact
  <2>2. \A a \in Artifact : disk.final[a] # None
    BY <1>1, <1>4, <2>1 DEF Good
  <2>3. \A a \in Artifact : Whole(disk, disk.final[a])
    BY <1>4, <2>2 DEF Good
  <2>4. disk.final[Artifacts].id = disk.journal.id
    BY <1>1, <2>3 DEF Whole
  <2>5. \A a \in Artifact :
          disk.final[a] = [id |-> disk.final[Artifacts].id, data |-> "flushed"]
    BY <2>3, <2>4 DEF Whole
  <2>. QED
    BY <1>4, <2>5 DEF Shown
<1>. QED
  BY <1>2, <1>3, <1>4

\* The disk only moves on to a later state of the directory.
LEMMA DiskMovesOn ==
  ASSUME IInv, [Next]_vars
  PROVE  \/ disk' = disk \/ disk' = now
         \/ \E d \in since \cup {disk} : disk' = Restored(d)
<1>1. ASSUME NEW p \in Process, Step(p) \/ Done(p) \/ Raise(p) \/ Kill(p)
      PROVE  disk' = disk \/ disk' = now
  <2>1. CASE \/ Look(p) \/ LockFirst(p) \/ Examine(p) \/ LockAgain(p)
             \/ Recover(p) \/ Discard(p) \/ Recovered(p) \/ Validate(p)
             \/ Answer(p) \/ Raised(p) \/ RefuseWork(p)
    BY <2>1
    DEF Look, LockFirst, Examine, LockAgain, Recover, Discard, Recovered, Validate,
        Answer, Raised, RefuseWork, Still
  <2>2. CASE \/ RemoveSome(p) \/ RemoveRest(p) \/ RemoveInitializing(p)
             \/ MakeWork(p) \/ InitializeMarker(p) \/ Mark(p) \/ Return(p)
             \/ Done(p) \/ Raise(p) \/ Kill(p)
    BY <2>2
    DEF RemoveSome, RemoveRest, RemoveInitializing, MakeWork, InitializeMarker, Mark,
        Return, Done, Raise, Kill, vars
  <2>3. CASE \/ DropPartials(p) \/ DropJournal(p) \/ Begin(p) \/ Build(p)
             \/ SyncPartials(p) \/ Record(p) \/ Link(p) \/ Skip(p) \/ Unlink(p)
             \/ Commit(p)
    BY <2>3
    DEF DropPartials, DropJournal, Begin, Build, SyncPartials, Record, Link, Skip,
        Unlink, Commit, Become
  <2>4. CASE \/ Dropped(p) \/ SyncBegin(p) \/ SyncRecord(p) \/ SyncLink(p)
             \/ SyncUnlink(p) \/ SyncCommit(p)
    BY <2>4
    DEF Dropped, SyncBegin, SyncRecord, SyncLink, SyncUnlink, SyncCommit, Flush
  <2>. QED
    BY <1>1, <2>1, <2>2, <2>3, <2>4 DEF Step
<1>2. CASE PowerLoss
  BY <1>2 DEF PowerLoss
<1>3. CASE UNCHANGED vars
  BY <1>3 DEF vars
<1>. QED
  BY <1>1, <1>2, <1>3 DEF Next

\* The artifacts of a build are shown together, when the last of them is, and
\* are shown for ever: every step publishes them all or changes nothing.
THEOREM PublishedTogether == Spec => PublicationRefines
<1>1. Init => Publication!Init
  <2>1. ASSUME Init
        PROVE  Shown = {}
    <3>1. Artifacts \in Artifact
      BY ResultAssumption, SMT DEF Artifact
    <3>2. disk.final[Artifacts] = None
      BY <2>1, <3>1 DEF Init, Nothing
    <3>. QED
      BY <3>2 DEF Shown
  <2>. QED
    BY <2>1 DEF Publication!Init
<1>2. IInv /\ IInv' /\ [Next]_vars => [Publication!Publish]_Shown
  <2>1. SUFFICES ASSUME IInv, IInv', [Next]_vars
                 PROVE  Shown' = Shown \/ (Shown = {} /\ Shown' = Artifact)
    BY DEF Publication!Publish
  <2>2. Shown = IF Intended(disk) /\ disk.final[Artifacts] # None THEN Artifact ELSE {}
    BY <2>1, ShownTogether
  <2>3. Shown' = IF Intended(disk') /\ disk'.final[Artifacts] # None THEN Artifact ELSE {}
    <3>1. (IInv => Shown = IF Intended(disk) /\ disk.final[Artifacts] # None
                             THEN Artifact ELSE {})'
      BY ShownTogether, PTL
    <3>. QED
      BY <2>1, <3>1 DEF Intended
  <2>4. ASSUME Intended(disk), disk.final[Artifacts] # None
        PROVE  Intended(disk') /\ disk'.final[Artifacts] # None
    <3>1. Artifacts \in Artifact
      BY ResultAssumption, SMT DEF Artifact
    <3>2. \A d \in since \cup {disk, now} : Intended(d) /\ d.final[Artifacts] # None
      BY <2>1, <2>4, <3>1 DEF IInv, Forward, Follows
    <3>3. CASE disk' = disk \/ disk' = now
      BY <3>2, <3>3
    <3>4. ASSUME NEW d \in since \cup {disk}, disk' = Restored(d)
          PROVE  Intended(disk') /\ disk'.final[Artifacts] # None
      <4>1. Intended(d) /\ d.final[Artifacts] # None
        BY <3>2
      <4>2. disk'.journal = d.journal /\ disk'.final[Artifacts] = Torn(d.final[Artifacts])
        BY <3>1, <3>4 DEF Restored
      <4>3. Whole(d, d.final[Artifacts])
        BY <2>1, <3>1, <4>1 DEF IInv, AllGood, Good
      <4>4. Torn(d.final[Artifacts]) = d.final[Artifacts]
        BY <4>3 DEF Torn, Whole
      <4>. QED
        BY <4>1, <4>2, <4>4 DEF Intended
    <3>. QED
      BY <2>1, <3>3, <3>4, DiskMovesOn
  <2>. QED
    BY <2>2, <2>3, <2>4
<1>. QED
  BY <1>1, <1>2, Invariance, PTL DEF Spec, PublicationRefines, Publication!Spec

-----------------------------------------------------------------------------
(* Refusals *)

\* A call changes no other call.
LEMMA OthersStay ==
  ASSUME TypeOK, NEW p \in Process, Step(p) \/ Done(p) \/ Raise(p) \/ Kill(p)
  PROVE  /\ \A q \in Process \ {p} : call'[q] = call[q]
         /\ torn => torn'
<1>. USE DEF Go, GoAt, GoAs, GoTo, Stop
<1>1. CASE \/ Look(p) \/ LockFirst(p) \/ Examine(p) \/ LockAgain(p)
           \/ Recover(p) \/ Discard(p) \/ Recovered(p) \/ Validate(p) \/ RefuseWork(p)
  BY <1>1, SMT
  DEF TypeOK, Look, LockFirst, Examine, LockAgain, Recover, Discard, Recovered, Validate,
      RefuseWork, Refuse, Still, Rest, Others
<1>2. CASE \/ RemoveSome(p) \/ RemoveRest(p) \/ RemoveInitializing(p)
           \/ MakeWork(p) \/ InitializeMarker(p) \/ Mark(p)
  BY <1>2, SMT
  DEF TypeOK, RemoveSome, RemoveRest, RemoveInitializing, MakeWork, InitializeMarker, Mark,
      Rest, Others
<1>3. CASE \/ DropPartials(p) \/ DropJournal(p) \/ Dropped(p) \/ Begin(p) \/ SyncBegin(p)
           \/ Build(p) \/ SyncPartials(p) \/ Record(p) \/ SyncRecord(p)
  BY <1>3, SMT
  DEF TypeOK, DropPartials, DropJournal, Dropped, Begin, SyncBegin, Build, SyncPartials,
      Record, SyncRecord, Rest, Others
<1>4. CASE \/ Link(p) \/ Skip(p) \/ SyncLink(p) \/ Unlink(p) \/ SyncUnlink(p)
           \/ Commit(p) \/ SyncCommit(p) \/ Answer(p) \/ Return(p)
  BY <1>4, SMT
  DEF TypeOK, Link, Skip, SyncLink, Unlink, SyncUnlink, Commit, SyncCommit, Answer,
      Return, Still, Rest, Others
<1>5. CASE Raised(p) \/ Raise(p) \/ Kill(p) \/ Done(p)
  BY <1>5, SMT DEF TypeOK, Raised, Raise, Kill, Done, vars, Still, Rest, Others
<1>. QED
  BY <1>1, <1>2, <1>3, <1>4, <1>5 DEF Step

\* Nobody finds a foreign name: what is not published yet has no final name, and
\* what is published validates.
LEMMA NothingForeign ==
  ASSUME IInv, NEW p \in Process
  PROVE  /\ At(p, "discard") => ~ Taken
         /\ At(p, "recovered") => ~ Taken
         /\ At(p, "validate") => Validates
<1>1. AtWork(p) /\ Good(now)
  BY DEF IInv, InOrder, AllGood
<1>2. now.final = Nothing => ~ Taken
  BY DEF Nothing, Taken
<1>3. CASE At(p, "discard")
  BY <1>1, <1>2, <1>3, SMT DEF At, AtWork, Good, Building
<1>4. CASE At(p, "recovered")
  BY <1>1, <1>2, <1>4, SMT DEF At, AtWork, Good
<1>5. CASE At(p, "validate")
  <2>1. Intended(now)
    BY <1>1, <1>5, SMT DEF At, AtWork
  <2>2. ASSUME NEW f, Whole(now, f)
        PROVE  Recorded(f)
    BY <2>2, SMT DEF Whole, Recorded
  <2>3. ASSUME NEW a \in Artifact
        PROVE  /\ now.final[a] # None => Recorded(now.final[a])
               /\ now.partial[a] # None => Recorded(now.partial[a])
               /\ now.final[a] # None \/ now.partial[a] # None
    BY <1>1, <2>1, <2>2 DEF Good
  <2>4. At(p, "validate") /\ ~ At(p, "discard") /\ ~ At(p, "recovered")
    BY <1>5, SMT DEF At
  <2>. QED
    BY <2>3, <2>4 DEF Validates
<1>. QED
  BY <1>3, <1>4, <1>5

\* Whoever is refused met a work directory without its marker.
LEMMA OnlyWorkRefuses ==
  ASSUME IInv, NEW p \in Process, Step(p) \/ Done(p) \/ Raise(p) \/ Kill(p),
         call'[p].at = "refused"
  PROVE  call[p].at = "refused" \/ RefuseWork(p)
<1>. USE DEF Go, GoAt, GoAs, GoTo, Stop, Idle
<1>1. TypeOK
  BY DEF IInv
<1>2. CASE \/ Look(p) \/ LockFirst(p) \/ Examine(p) \/ LockAgain(p) \/ Recover(p)
  BY <1>1, <1>2, SMT DEF TypeOK, Look, LockFirst, Examine, LockAgain, Recover
<1>3. CASE Discard(p) \/ Recovered(p) \/ Validate(p)
  <2>1. /\ Discard(p) => Go(p, "clean") \/ GoAt(p, "clean", 0)
        /\ Recovered(p) => Go(p, "examine") \/ Go(p, "begin")
        /\ Validate(p) => GoAt(p, "publish", 1)
    BY NothingForeign DEF Discard, Recovered, Validate
  <2>. QED
    BY <1>1, <1>3, <2>1, SMT DEF TypeOK
<1>4. CASE \/ RemoveSome(p) \/ RemoveRest(p) \/ RemoveInitializing(p)
           \/ MakeWork(p) \/ InitializeMarker(p) \/ Mark(p)
  BY <1>1, <1>4, SMT
  DEF TypeOK, RemoveSome, RemoveRest, RemoveInitializing, MakeWork, InitializeMarker, Mark
<1>5. CASE \/ DropPartials(p) \/ DropJournal(p) \/ Dropped(p) \/ Begin(p) \/ SyncBegin(p)
           \/ Build(p) \/ SyncPartials(p) \/ Record(p) \/ SyncRecord(p)
  BY <1>1, <1>5, SMT
  DEF TypeOK, DropPartials, DropJournal, Dropped, Begin, SyncBegin, Build, SyncPartials,
      Record, SyncRecord
<1>6. CASE \/ Link(p) \/ Skip(p) \/ SyncLink(p) \/ Unlink(p) \/ SyncUnlink(p)
           \/ Commit(p) \/ SyncCommit(p) \/ Answer(p) \/ Return(p)
  BY <1>1, <1>6, SMT
  DEF TypeOK, Link, Skip, SyncLink, Unlink, SyncUnlink, Commit, SyncCommit, Answer, Return
<1>7. CASE Raised(p) \/ Raise(p) \/ Kill(p) \/ Done(p)
  BY <1>1, <1>7, SMT DEF TypeOK, Raised, Raise, Kill, Done, vars
<1>. QED
  BY <1>2, <1>3, <1>4, <1>5, <1>6, <1>7 DEF Step

\* What becomes of the work directory in a step of p.
LEMMA WorkSteps ==
  ASSUME TypeOK, NEW p \in Process, Step(p) \/ Done(p) \/ Raise(p) \/ Kill(p),
         work' = "unmarked"
  PROVE  \/ call'[p].at = "cleaning"
         \/ work = "unmarked" /\ call[p].at # "cleaning"
         \/ torn'
<1>. USE DEF Go, GoAt, GoAs, GoTo, Stop
<1>1. CASE \/ Look(p) \/ LockFirst(p) \/ Examine(p) \/ LockAgain(p)
           \/ Recover(p) \/ Discard(p) \/ Recovered(p) \/ Validate(p) \/ RefuseWork(p)
  BY <1>1, SMT
  DEF Look, LockFirst, Examine, LockAgain, Recover, Discard, Recovered, Validate,
      RefuseWork, Still, At
<1>2. CASE \/ RemoveSome(p) \/ RemoveRest(p) \/ RemoveInitializing(p)
           \/ MakeWork(p) \/ InitializeMarker(p) \/ Mark(p)
  BY <1>2, SMT
  DEF TypeOK, RemoveSome, RemoveRest, RemoveInitializing, MakeWork, InitializeMarker, Mark
<1>3. CASE \/ DropPartials(p) \/ DropJournal(p) \/ Dropped(p) \/ Begin(p) \/ SyncBegin(p)
           \/ Build(p) \/ SyncPartials(p) \/ Record(p) \/ SyncRecord(p)
  BY <1>3, SMT
  DEF DropPartials, DropJournal, Dropped, Begin, SyncBegin, Build, SyncPartials,
      Record, SyncRecord, At
<1>4. CASE \/ Link(p) \/ Skip(p) \/ SyncLink(p) \/ Unlink(p) \/ SyncUnlink(p)
           \/ Commit(p) \/ SyncCommit(p) \/ Answer(p) \/ Return(p)
  BY <1>4, SMT
  DEF Link, Skip, SyncLink, Unlink, SyncUnlink, Commit, SyncCommit, Answer,
      Return, Still, At
<1>5. CASE Raised(p) \/ Raise(p) \/ Done(p)
  <2>1. work' = work
    BY <1>5 DEF Raised, Raise, Done, vars, Still
  <2>2. call[p].at # "cleaning"
    BY <1>5, SMT DEF Raised, Raise, Done, At
  <2>. QED
    BY <2>1, <2>2
<1>6. CASE Kill(p)
  BY <1>6 DEF Kill
<1>. QED
  BY <1>1, <1>2, <1>3, <1>4, <1>5, <1>6 DEF Step

LEMMA TornStep ==
  ASSUME IInv, TornForCause, RefusedOnlyTorn, [Next]_vars
  PROVE  TornForCause' /\ RefusedOnlyTorn'
<1>1. ASSUME NEW p \in Process, Step(p) \/ Done(p) \/ Raise(p) \/ Kill(p)
      PROVE  TornForCause' /\ RefusedOnlyTorn'
  <2>1. (\A q \in Process \ {p} : call'[q] = call[q]) /\ (torn => torn')
    BY <1>1, OthersStay DEF IInv
  <2>2. TornForCause'
    <3>1. SUFFICES ASSUME work' = "unmarked", ~ torn'
                   PROVE  \E q \in Process : call'[q].at = "cleaning"
      BY DEF TornForCause, At
    <3>2. CASE call'[p].at = "cleaning"
      BY <3>2
    <3>3. CASE work = "unmarked" /\ call[p].at # "cleaning"
      BY <2>1, <3>1, <3>3 DEF TornForCause, At
    <3>. QED
      BY <1>1, <3>1, <3>2, <3>3, WorkSteps DEF IInv
  <2>3. ASSUME NEW q \in Process, call'[q].at = "refused"
        PROVE  torn'
    <3>1. CASE call[q].at = "refused"
      BY <2>1, <3>1 DEF RefusedOnlyTorn, At
    <3>2. CASE RefuseWork(p)
      <4>1. call[p].at = "clean" /\ call[p].at \in Inside /\ work = "unmarked"
        BY <3>2, SMT DEF RefuseWork, At, Inside, Cleanup
      <4>2. ASSUME NEW r \in Process, call[r].at = "cleaning"
            PROVE  FALSE
        <5>1. call[r].at \in Inside
          BY <4>2, SMT DEF Inside, Cleanup
        <5>2. r = p
          BY <4>1, <5>1 DEF IInv, Excluded
        <5>. QED
          BY <4>1, <4>2, <5>2
      <4>. QED
        BY <2>1, <4>1, <4>2 DEF TornForCause, At
    <3>. QED
      BY <1>1, <2>1, <2>3, <3>1, <3>2, OnlyWorkRefuses
  <2>. QED
    BY <2>2, <2>3 DEF RefusedOnlyTorn, At
<1>2. CASE PowerLoss
  <2>1. torn' = (torn \/ work' = "unmarked")
    BY <1>2 DEF PowerLoss
  <2>2. ASSUME NEW q \in Process, call'[q].at = "refused"
        PROVE  call[q].at = "refused"
    BY <1>2, <2>2, SMT DEF PowerLoss, Idle
  <2>. QED
    BY <2>1, <2>2 DEF TornForCause, RefusedOnlyTorn, At
<1>3. CASE UNCHANGED vars
  BY <1>3 DEF vars, TornForCause, RefusedOnlyTorn, At
<1>. QED
  BY <1>1, <1>2, <1>3 DEF Next

\* A call is refused for good only over a work directory whose removal was cut
\* short: no call takes what another one left for foreign.
THEOREM RefusalsHaveCause == Spec => []RefusedOnlyTorn
<1>1. Init => TornForCause /\ RefusedOnlyTorn
  BY SMT DEF Init, TornForCause, RefusedOnlyTorn, At, Idle
<1>2. IInv /\ TornForCause /\ RefusedOnlyTorn /\ [Next]_vars
        => TornForCause' /\ RefusedOnlyTorn'
  BY TornStep
<1>. QED
  BY <1>1, <1>2, Invariance, PTL DEF Spec

-----------------------------------------------------------------------------
(* How many faults it takes to answer from an intent that was not flushed *)

\* Steps that change neither the directory nor what waits for a flush.
LEMMA QuietSteps ==
  ASSUME IInv, NEW p \in Process,
         \/ Look(p) \/ LockFirst(p) \/ Examine(p) \/ LockAgain(p)
         \/ Recover(p) \/ Discard(p) \/ Recovered(p) \/ Validate(p) \/ RefuseWork(p)
         \/ RemoveSome(p) \/ RemoveRest(p) \/ RemoveInitializing(p)
         \/ MakeWork(p) \/ InitializeMarker(p) \/ Mark(p)
         \/ Answer(p) \/ Return(p) \/ Raised(p) \/ Done(p)
  PROVE  /\ call[p].at \notin Unsynced /\ call'[p].at \notin Unsynced
         /\ UNCHANGED <<now, disk, faults>> /\ (unbacked' = unbacked \/ Return(p))
<1>. USE DEF Go, GoAt, GoAs, GoTo, Stop, Idle, Unsynced, At
<1>1. TypeOK
  BY DEF IInv
<1>2. CASE \/ Look(p) \/ LockFirst(p) \/ Examine(p) \/ LockAgain(p)
           \/ Recover(p) \/ Discard(p) \/ Recovered(p) \/ Validate(p) \/ RefuseWork(p)
  BY <1>1, <1>2, SMT
  DEF TypeOK, Look, LockFirst, Examine, LockAgain, Recover, Discard, Recovered, Validate,
      RefuseWork, Refuse, Still, Rest, Others
<1>3. CASE \/ RemoveSome(p) \/ RemoveRest(p) \/ RemoveInitializing(p)
           \/ MakeWork(p) \/ InitializeMarker(p) \/ Mark(p)
  <2>1. call[p].at \in {"clean", "cleaning", "mkdir", "mark"}
    BY <1>3, SMT DEF RemoveSome, RemoveRest, RemoveInitializing, MakeWork, InitializeMarker, Mark
  <2>. QED
    BY <1>1, <1>3, <2>1, SMT
    DEF TypeOK, RemoveSome, RemoveRest, RemoveInitializing, MakeWork, InitializeMarker,
        Mark, Rest, Others
<1>4. CASE Answer(p) \/ Return(p) \/ Raised(p) \/ Done(p)
  <2>1. call[p].at \in {"publish", "cleaned", "done"}
    BY <1>4, SMT DEF Answer, Return, Raised, Done
  <2>2. call'[p].at \in {"clean", "done", "idle"}
    BY <1>1, <1>4, SMT DEF TypeOK, Answer, Return, Raised, Done, vars
  <2>3. UNCHANGED <<now, disk, faults>> /\ (unbacked' = unbacked \/ Return(p))
    BY <1>4 DEF Answer, Return, Raised, Done, vars, Still, Rest, Others
  <2>. QED
    BY <2>1, <2>2, <2>3, SMT
<1>. QED
  BY <1>2, <1>3, <1>4

\* Steps behind which nothing waits for a flush: there is no intent, or it was
\* just flushed.
LEMMA SettledSteps ==
  ASSUME IInv, NEW p \in Process,
         \/ DropPartials(p) \/ DropJournal(p) \/ Dropped(p) \/ Begin(p) \/ SyncBegin(p)
         \/ Build(p) \/ SyncPartials(p) \/ SyncRecord(p) \/ SyncLink(p) \/ SyncUnlink(p)
         \/ SyncCommit(p)
  PROVE  /\ ~ Intended(now') \/ disk' = now'
         /\ faults' = faults /\ unbacked' = unbacked
<1>1. AtWork(p) /\ TypeOK
  BY DEF IInv, InOrder
<1>2. CASE \/ Dropped(p) \/ SyncBegin(p) \/ SyncRecord(p) \/ SyncLink(p) \/ SyncUnlink(p)
           \/ SyncCommit(p)
  BY <1>2
  DEF Dropped, SyncBegin, SyncRecord, SyncLink, SyncUnlink, SyncCommit, Flush, Rest, Others
<1>3. CASE DropPartials(p) \/ Build(p) \/ SyncPartials(p)
  <2>1. Building
    BY <1>1, <1>3, SMT DEF DropPartials, Build, SyncPartials, At, AtWork, Making
  <2>2. now'.journal = now.journal
    BY <1>1, <1>3, SMT DEF DropPartials, Build, SyncPartials, Become, TypeOK, Directory
  <2>3. faults' = faults /\ unbacked' = unbacked
    BY <1>3 DEF DropPartials, Build, SyncPartials, Rest, Others
  <2>. QED
    BY <2>1, <2>2, <2>3 DEF Building, Intended
<1>4. CASE DropJournal(p)
  BY <1>1, <1>4, SMT DEF DropJournal, Become, TypeOK, Directory, Intended, Rest, Others
<1>5. CASE Begin(p)
  BY <1>1, <1>5, SMT DEF Begin, Become, TypeOK, Directory, Intended
<1>. QED
  BY <1>2, <1>3, <1>4, <1>5

\* Only the call that holds the lock has something to flush.
LEMMA OneIsPending ==
  ASSUME IInv, NEW p \in Process, call[p].at \in Inside \ Unsynced
  PROVE  ~ Pending
<1>1. Unsynced \subseteq Inside
  BY SMT DEF Unsynced, Inside, Linked
<1>. QED
  BY <1>1 DEF IInv, Excluded, Pending

LEMMA RecordCounts ==
  ASSUME IInv, Counted, NEW p \in Process, Record(p)
  PROVE  Counted'
<1>1. AtWork(p) /\ TypeOK /\ Good(now) /\ Artifacts \in Nat
  BY ResultAssumption DEF IInv, InOrder, AllGood
<1>2. Building /\ now.final = Nothing
  BY <1>1, SMT DEF Record, At, AtWork, Good, Building
<1>3. now'.final = Nothing /\ now'.journal.state = "publishing" /\ faults' = faults
  <2>. DEFINE j == [now.journal EXCEPT !.state = "publishing"]
  <2>1. now' = [now EXCEPT !.journal = j] /\ faults' = faults
    BY DEF Record, Become, Rest, Others
  <2>2. now.journal \in Journal
    BY <1>1, <1>2, SMT DEF TypeOK, Directory, Building
  <2>3. j.state = "publishing"
    BY <2>2, SMT DEF Journal
  <2>. HIDE DEF j
  <2>. QED
    BY <1>1, <1>2, <2>1, <2>3, SMT DEF TypeOK, Directory
<1>4. Pending'
  <2>1. call'[p].at = "recorded"
    BY <1>1, SMT DEF Record, GoAs, GoTo, TypeOK
  <2>. QED
    BY <2>1 DEF Pending, Unsynced
<1>5. \A a \in Artifact : now'.final[a] = None
  BY <1>3 DEF Nothing
<1>6. Cost(1)'
  BY <1>1, <1>3, <1>4, SMT DEF Cost, TypeOK
<1>. QED
  BY <1>3, <1>5, <1>6, SMT DEF Counted

LEMMA LinkCounts ==
  ASSUME IInv, Counted, NEW p \in Process, Link(p)
  PROVE  Counted'
<1>. PICK i : i = call[p].i
  OBVIOUS
<1>1. AtWork(p) /\ TypeOK /\ Good(now) /\ Artifacts \in Nat
  BY ResultAssumption DEF IInv, InOrder, AllGood
<1>2. /\ Intended(now) /\ i \in Artifact /\ Finals(i - 1) /\ now.final[i] = None
      /\ call[p].at \in Inside \ Unsynced
  BY <1>1, SMT DEF Link, At, AtWork, Artifact, Place, Inside, Unsynced
<1>3. ~ Pending
  BY <1>2, OneIsPending
<1>4. Pending'
  <2>1. call'[p].at = "linked"
    BY <1>1, SMT DEF Link, Go, GoAt, GoTo, TypeOK
  <2>. QED
    BY <2>1 DEF Pending, Unsynced
<1>5. now' = [now EXCEPT !.final[i] = now.partial[i]] /\ disk' = disk /\ faults' = faults
  BY DEF Link, Become, Place, Rest, Others
<1>6. /\ now'.journal = now.journal
      /\ \A a \in Artifact \ {i} : now'.final[a] = now.final[a]
  BY <1>1, <1>2, <1>5, SMT DEF TypeOK, Directory
<1>7. now.journal.state # "committed"
  BY <1>1, <1>2 DEF Good
<1>8. \A a \in Artifact : a < i => now.final[a] # None
  BY <1>1, <1>2, SMT DEF Finals, Artifact
<1>9. \A a \in Artifact : now.final[a] # None => a < i
  <2>1. ASSUME NEW a \in Artifact, now.final[a] # None, ~ (a < i)
        PROVE  FALSE
    <3>1. i \in 1 .. a
      BY <1>1, <1>2, <2>1, SMT DEF Artifact
    <3>. QED
      BY <1>1, <1>2, <2>1, <3>1 DEF Good
  <2>. QED
    BY <2>1
<1>10. ASSUME Intended(now)', ~ Intended(disk)'
       PROVE  faults >= i
  <2>1. Intended(now) /\ ~ Intended(disk)
    BY <1>2, <1>5, <1>10 DEF Intended
  <2>2. faults >= 1
    BY <1>3, <2>1 DEF Counted, Cost
  <2>3. CASE i = 1
    BY <2>2, <2>3
  <2>4. CASE i # 1
    <3>1. i - 1 \in Artifact /\ i - 1 < i
      BY <1>1, <1>2, <2>4, SMT DEF Artifact
    <3>2. Cost((i - 1) + 1)
      BY <1>8, <2>1, <3>1 DEF Counted
    <3>. QED
      BY <1>1, <1>2, <1>3, <3>2, SMT DEF Cost, Artifact
  <2>. QED
    BY <2>3, <2>4
<1>11. ASSUME Intended(now)', ~ Intended(disk)'
       PROVE  Cost(1)' /\ \A a \in Artifact : now'.final[a] # None => Cost(a + 1)'
  <2>1. faults >= i /\ faults \in Nat /\ i \in Nat \ {0}
    BY <1>1, <1>2, <1>10, <1>11, SMT DEF TypeOK, Artifact
  <2>2. ASSUME NEW a \in Artifact, now'.final[a] # None
        PROVE  a <= i
    BY <1>1, <1>2, <1>6, <1>9, <2>2, SMT DEF Artifact
  <2>3. ASSUME NEW a \in Artifact, a <= i
        PROVE  faults' >= (a + 1) - 1
    BY <1>1, <1>5, <2>1, <2>3, SMT DEF Artifact
  <2>4. faults' >= 1 - 1
    BY <1>5, <2>1, SMT
  <2>. QED
    BY <1>4, <2>2, <2>3, <2>4 DEF Cost
<1>. QED
  BY <1>6, <1>7, <1>11 DEF Counted

\* A partial name that goes away changes nothing that counts.
LEMMA UnlinkCounts ==
  ASSUME IInv, Counted, NEW p \in Process, Skip(p) \/ Unlink(p)
  PROVE  Counted'
<1>1. TypeOK
  BY DEF IInv
<1>2. call[p].at \in Inside \ Unsynced
  BY SMT DEF Skip, Unlink, At, Inside, Linked, Unsynced
<1>3. call'[p].at \notin Unsynced
  BY <1>1, SMT DEF Skip, Unlink, Go, GoAt, GoTo, TypeOK, Unsynced
<1>4. ~ Pending
  BY <1>2, OneIsPending
<1>5. \A q \in Process \ {p} : call'[q] = call[q]
  BY <1>1, OthersStay DEF Step
<1>6. ~ Pending'
  BY <1>3, <1>4, <1>5 DEF Pending
<1>7. /\ now'.journal = now.journal /\ now'.final = now.final
      /\ disk' = disk /\ faults' = faults
  BY <1>1, SMT DEF Skip, Unlink, Become, Place, Rest, Others, TypeOK, Directory
<1>. QED
  BY <1>4, <1>6, <1>7 DEF Counted, Cost, Intended

LEMMA CommitCounts ==
  ASSUME IInv, Counted, NEW p \in Process, Commit(p)
  PROVE  Counted'
<1>1. AtWork(p) /\ TypeOK /\ Artifacts \in Artifact /\ Artifacts \in Nat
  BY ResultAssumption, SMT DEF IInv, InOrder, Artifact
<1>2. /\ Intended(now) /\ \A a \in Artifact : now.final[a] # None
      /\ call[p].at \in Inside \ Unsynced
  BY <1>1, SMT DEF Commit, At, AtWork, Artifact, Finals, Inside, Unsynced
<1>3. ~ Pending
  BY <1>2, OneIsPending
<1>4. Pending'
  <2>1. call'[p].at = "committed"
    BY <1>1, SMT DEF Commit, Go, GoAt, GoTo, TypeOK
  <2>. QED
    BY <2>1 DEF Pending, Unsynced
<1>5. disk' = disk /\ faults' = faults /\ faults \in Nat
  BY <1>1 DEF Commit, Become, Rest, Others, TypeOK
<1>6. ASSUME ~ Intended(disk)
      PROVE  faults >= 1 /\ faults >= Artifacts + 1 /\ \A a \in Artifact : faults >= a + 1
  <2>1. Cost(1) /\ \A a \in Artifact : Cost(a + 1)
    BY <1>2, <1>6 DEF Counted
  <2>2. faults >= 1 /\ \A a \in Artifact : faults >= a + 1
    BY <1>3, <2>1 DEF Cost
  <2>. QED
    BY <1>1, <2>2
<1>7. ASSUME ~ Intended(disk)
      PROVE  /\ Cost(1)' /\ Cost(Artifacts + 2)'
             /\ \A a \in Artifact : Cost(a + 1)'
  <2>1. faults' >= 1 - 1 /\ faults' >= (Artifacts + 2) - 1
    BY <1>1, <1>5, <1>6, <1>7, SMT
  <2>2. \A a \in Artifact : faults' >= (a + 1) - 1
    BY <1>5, <1>6, <1>7, SMT DEF Artifact
  <2>. QED
    BY <1>4, <2>1, <2>2 DEF Cost
<1>. QED
  BY <1>5, <1>7 DEF Counted, Intended

LEMMA CountStep ==
  ASSUME IInv, Counted, UnbackedIsRare, [Next]_vars
  PROVE  Counted' /\ UnbackedIsRare'
<1>1. TypeOK /\ Artifacts \in Nat
  BY ResultAssumption DEF IInv
<1>2. ASSUME UNCHANGED <<now, disk, faults>>, Pending' <=> Pending
      PROVE  Counted'
  BY <1>2 DEF Counted, Cost, Intended
<1>3. ASSUME unbacked' = unbacked, faults' = faults \/ faults' = faults + 1
      PROVE  UnbackedIsRare'
  BY <1>1, <1>3, SMT DEF UnbackedIsRare, TypeOK
<1>4. ASSUME NEW p \in Process,
             \/ Look(p) \/ LockFirst(p) \/ Examine(p) \/ LockAgain(p)
             \/ Recover(p) \/ Discard(p) \/ Recovered(p) \/ Validate(p) \/ RefuseWork(p)
             \/ RemoveSome(p) \/ RemoveRest(p) \/ RemoveInitializing(p)
             \/ MakeWork(p) \/ InitializeMarker(p) \/ Mark(p)
             \/ Answer(p) \/ Return(p) \/ Raised(p) \/ Done(p)
      PROVE  Counted' /\ UnbackedIsRare'
  <2>1. /\ call[p].at \notin Unsynced /\ call'[p].at \notin Unsynced
        /\ UNCHANGED <<now, disk, faults>> /\ (unbacked' = unbacked \/ Return(p))
    BY <1>4, QuietSteps
  <2>2. \A q \in Process \ {p} : call'[q] = call[q]
    BY <1>1, <1>4, OthersStay DEF Step
  <2>3. Pending' <=> Pending
    BY <2>1, <2>2 DEF Pending
  <2>4. CASE Return(p)
    <3>1. call[p].at \in Inside \ Unsynced /\ AtWork(p)
      BY <2>4, SMT DEF Return, At, Inside, Cleanup, Unsynced, IInv, InOrder
    <3>2. Intended(now) /\ now.journal.state = "committed"
      BY <2>4, <3>1, SMT DEF Return, At, AtWork, Cleanup
    <3>3. ~ Intended(disk) => faults >= Artifacts + 2
      BY <3>1, <3>2, OneIsPending DEF Counted, Cost
    <3>4. unbacked' = (unbacked \/ ~ Intended(disk))
      BY <2>4 DEF Return
    <3>. QED
      BY <1>2, <2>1, <2>3, <3>3, <3>4 DEF UnbackedIsRare
  <2>. QED
    BY <1>2, <1>3, <2>1, <2>3, <2>4
<1>5. ASSUME NEW p \in Process,
             \/ DropPartials(p) \/ DropJournal(p) \/ Dropped(p) \/ Begin(p) \/ SyncBegin(p)
             \/ Build(p) \/ SyncPartials(p) \/ SyncRecord(p) \/ SyncLink(p) \/ SyncUnlink(p)
             \/ SyncCommit(p)
      PROVE  Counted' /\ UnbackedIsRare'
  <2>1. /\ ~ Intended(now') \/ disk' = now'
        /\ faults' = faults /\ unbacked' = unbacked
    BY <1>5, SettledSteps
  <2>. QED
    BY <1>3, <2>1 DEF Counted, Intended
<1>6. ASSUME NEW p \in Process, Record(p) \/ Link(p) \/ Skip(p) \/ Unlink(p) \/ Commit(p)
      PROVE  Counted' /\ UnbackedIsRare'
  <2>1. faults' = faults /\ unbacked' = unbacked
    BY <1>6 DEF Record, Link, Skip, Unlink, Commit, Rest, Others
  <2>. QED
    BY <1>3, <1>6, <2>1, RecordCounts, LinkCounts, UnlinkCounts, CommitCounts
<1>7. ASSUME NEW p \in Process, Raise(p) \/ Kill(p)
      PROVE  Counted' /\ UnbackedIsRare'
  <2>1. UNCHANGED <<now, disk, unbacked>> /\ faults' = faults + 1
    BY <1>7 DEF Raise, Kill, Spend
  <2>2. ASSUME NEW n \in Nat, Cost(n)
        PROVE  Cost(n)'
    BY <1>1, <2>1, <2>2, SMT DEF Cost, TypeOK
  <2>3. \A a \in Artifact : a + 1 \in Nat
    BY SMT DEF Artifact
  <2>4. 1 \in Nat /\ Artifacts + 2 \in Nat
    BY <1>1, SMT
  <2>. QED
    BY <1>3, <2>1, <2>2, <2>3, <2>4 DEF Counted, Intended
<1>8. CASE PowerLoss
  BY <1>3, <1>8 DEF PowerLoss, Spend, Counted, Intended
<1>9. CASE UNCHANGED vars
  <2>1. UNCHANGED <<now, disk, faults, unbacked, call>>
    BY <1>9 DEF vars
  <2>. QED
    BY <1>2, <1>3, <2>1 DEF Pending
<1>. QED
  BY <1>4, <1>5, <1>6, <1>7, <1>8, <1>9 DEF Next, Step

\* A caller is answered from an intent that was never flushed only after as many
\* faults as there are changes behind it, each between a change and its flush:
\* one for the intent, one for every artifact and one for the commit.
THEOREM UnbackedTakesFaults == Spec => [](unbacked => faults >= Artifacts + 2)
<1>1. Init => Counted /\ UnbackedIsRare
  BY SMT DEF Init, Counted, UnbackedIsRare, Intended
<1>2. IInv /\ Counted /\ UnbackedIsRare /\ [Next]_vars => Counted' /\ UnbackedIsRare'
  BY CountStep
<1>3. UnbackedIsRare => (unbacked => faults >= Artifacts + 2)
  BY DEF UnbackedIsRare
<1>. QED
  BY <1>1, <1>2, <1>3, Invariance, PTL DEF Spec

=================================================================================
