------------------------------ MODULE Results_proofs ------------------------------
(***************************************************************************)
(* Proofs about what comes out of a trained detector.  ReportPublication:  *)
(* the reports of a run do not contradict each other or what its caller    *)
(* was told, as long as no run ends as "completed"; and no run takes       *)
(* another run's report away.  CascadeRouting: wherever the routing of the *)
(* validation rows is stopped, it ends as one uninterrupted pass.          *)
(* TemporalReplay: the counters of the temporal machine follow the clock.  *)
(***************************************************************************)
EXTENDS ReportPublication, CascadeRouting, TemporalReplay, WellFoundedInduction, TLAPS

Recovering == {"reconcile", "invalidate", "truncate", "verify"}

-----------------------------------------------------------------------------
(* Types *)

\* A third attempt to invalidate is never begun.
TriesLeft == \A r \in Run : at[r] \in {"invalidate", "truncate"} => tries[r] < 2

Types == TypeOK /\ TriesLeft

LEMMA TargetRange == Target = 0 .. Fallbacks /\ Canonical \in Target /\ 1 \in Target
  BY FallbacksAssumption DEF Target, Canonical

LEMMA InitTypes == Init => Types
<1> SUFFICES ASSUME Init PROVE Types
  OBVIOUS
<1>1. report \in [Target -> Report]
  BY DEF Init, Report
<1>2. target \in [Run -> Target] /\ status \in [Run -> Status]
  BY OutcomeAssumption, TargetRange DEF Init, Status, Success
<1>3. QED
  BY <1>1, <1>2 DEF Init, Types, TypeOK, TriesLeft

\* What the steps of a run are made of keeps the types.
LEMMA PutTypes ==
  ASSUME TypeOK, NEW r \in Run, NEW s \in Status \cup {"empty"}, Put(r, s)
  PROVE  report' \in [Target -> Report]
  BY DEF TypeOK, Put, Saying, Report

LEMMA NextTargetTypes ==
  ASSUME TypeOK, NEW r \in Run, NextTarget(r)
  PROVE  /\ at' \in [Run -> {"write", "reconcile", "invalidate", "truncate",
                             "verify", "over"}]
         /\ target' \in [Run -> Target]
         /\ told' \in [Run -> Status \cup {"nothing", "raised"}]
         /\ at'[r] \in {"write", "over"}
         /\ \A q \in Run \ {r} : at'[q] = at[q]
<1>1. CASE target[r] = Fallbacks
  BY <1>1 DEF TypeOK, NextTarget, Tell, Goto, Status
<1>2. CASE target[r] # Fallbacks
  <2>1. target[r] + 1 \in Target
    BY <1>2, FallbacksAssumption, TargetRange DEF TypeOK
  <2>2. QED
    BY <1>2, <2>1 DEF TypeOK, NextTarget, Goto
<1>3. QED
  BY <1>1, <1>2

LEMMA WriteTypes == ASSUME Types, NEW r \in Run, Write(r) PROVE Types'
<1> USE DEF Types
<1>1. status[r] \in Status /\ "failed" \in Status
  BY DEF TypeOK, Status
<1>2. CASE Put(r, status[r]) /\ Tell(r, status[r]) /\ UNCHANGED <<target, status, tries>>
  <2>1. report' \in [Target -> Report]
    BY <1>1, <1>2, PutTypes
  <2>2. QED
    BY <1>1, <1>2, <2>1 DEF TypeOK, TriesLeft, Tell, Goto
<1>3. CASE /\ NextTarget(r) /\ status' = [status EXCEPT ![r] = "failed"]
           /\ UNCHANGED <<report, tries>>
  BY <1>1, <1>3, NextTargetTypes DEF TypeOK, TriesLeft
<1>4. CASE /\ Put(r, status[r]) /\ Goto(r, "reconcile")
           /\ status' = [status EXCEPT ![r] = "failed"]
           /\ UNCHANGED <<target, told, tries>>
  <2>1. report' \in [Target -> Report]
    BY <1>1, <1>4, PutTypes
  <2>2. QED
    BY <1>1, <1>4, <2>1 DEF TypeOK, TriesLeft, Goto
<1>5. QED
  BY <1>2, <1>3, <1>4 DEF Write

LEMMA ReconcileTypes == ASSUME Types, NEW r \in Run, Reconcile(r) PROVE Types'
<1> USE DEF Types
<1>1. tries' \in [Run -> 0..2] /\ tries'[r] = 0 /\ \A q \in Run \ {r} : tries'[q] = tries[q]
  BY DEF Reconcile, TypeOK
<1>2. UNCHANGED status /\ "failed" \in Status
  BY DEF Reconcile, Status
<1>3. CASE Put(r, "failed") /\ Tell(r, "failed") /\ UNCHANGED target
  <2>1. report' \in [Target -> Report]
    BY <1>2, <1>3, PutTypes
  <2>2. QED
    BY <1>1, <1>2, <1>3, <2>1 DEF TypeOK, TriesLeft, Tell, Goto
<1>4. CASE Put(r, "failed") /\ NextTarget(r)
  <2>1. report' \in [Target -> Report]
    BY <1>2, <1>4, PutTypes
  <2>2. QED
    BY <1>1, <1>2, <1>4, <2>1, NextTargetTypes DEF TypeOK, TriesLeft
<1>5. CASE Goto(r, "invalidate") /\ UNCHANGED <<report, target, told>>
  BY <1>1, <1>2, <1>5 DEF TypeOK, TriesLeft, Goto
<1>6. QED
  BY <1>3, <1>4, <1>5 DEF Reconcile

LEMMA FailedTypes ==
  ASSUME Types, NEW r \in Run, at[r] \in {"invalidate", "truncate"}, Failed(r)
  PROVE  /\ at' \in [Run -> {"write", "reconcile", "invalidate", "truncate",
                             "verify", "over"}]
         /\ tries' \in [Run -> 0..2]
         /\ TriesLeft'
<1>1. tries[r] \in {0, 1}
  BY DEF Types, TypeOK, TriesLeft
<1>2. QED
  BY <1>1 DEF Types, TypeOK, TriesLeft, Failed, Goto

LEMMA OpenTypes == ASSUME Types, NEW r \in Run, OpenForInvalidation(r) PROVE Types'
<1> USE DEF Types
<1>1. UNCHANGED <<report, target, status, told>> /\ at[r] = "invalidate"
  BY DEF OpenForInvalidation
<1>2. CASE Goto(r, "truncate") /\ UNCHANGED tries
  BY <1>1, <1>2 DEF TypeOK, TriesLeft, Goto
<1>3. CASE Failed(r)
  BY <1>1, <1>3, FailedTypes DEF TypeOK
<1>4. QED
  BY <1>2, <1>3 DEF OpenForInvalidation

LEMMA TruncatedTypes ==
  ASSUME TypeOK, NEW r \in Run
  PROVE  Truncated(r) \in [Target -> Report]
  BY DEF TypeOK, Truncated, Saying, Report

LEMMA TruncateTypes == ASSUME Types, NEW r \in Run, Truncate(r) PROVE Types'
<1> USE DEF Types
<1>1. UNCHANGED status /\ at[r] = "truncate"
  BY DEF Truncate
<1>2. CASE report' = Truncated(r) /\ NextTarget(r) /\ UNCHANGED tries
  BY <1>1, <1>2, TruncatedTypes, NextTargetTypes DEF TypeOK, TriesLeft
<1>3. CASE /\ report' \in {report, Truncated(r)} /\ Failed(r)
           /\ UNCHANGED <<target, told>>
  BY <1>1, <1>3, TruncatedTypes, FailedTypes DEF TypeOK
<1>4. QED
  BY <1>2, <1>3 DEF Truncate

LEMMA VerifyTypes == ASSUME Types, NEW r \in Run, Verify(r) PROVE Types'
<1> USE DEF Types
<1>1. UNCHANGED <<report, status, tries>>
  BY DEF Verify
<1>2. CASE Tell(r, "raised") /\ UNCHANGED target
  BY <1>1, <1>2 DEF TypeOK, TriesLeft, Tell, Goto
<1>3. CASE NextTarget(r)
  BY <1>1, <1>3, NextTargetTypes DEF TypeOK, TriesLeft
<1>4. QED
  BY <1>2, <1>3 DEF Verify

LEMMA NextTypes == Types /\ [Next]_vars => Types'
<1> SUFFICES ASSUME Types, [Next]_vars PROVE Types'
  OBVIOUS
<1>1. CASE UNCHANGED vars
  BY <1>1 DEF Types, TypeOK, TriesLeft, vars
<1>2. CASE Next
  BY <1>2, WriteTypes, ReconcileTypes, OpenTypes, TruncateTypes, VerifyTypes
  DEF Next, Step
<1>3. QED
  BY <1>1, <1>2

\* Every reachable state has its type; in particular no run attempts to
\* invalidate a report more than twice.
THEOREM TypeCorrect == Spec => []TypeOK
<1>1. Types => TypeOK
  BY DEF Types
<1>2. QED
  BY InitTypes, NextTypes, <1>1, PTL DEF Spec

-----------------------------------------------------------------------------
(* Other runs' reports *)

\* A run takes no report of another run away: it replaces it by its own, and
\* empties only what it published itself.
THEOREM OthersAreLeft == Spec => OthersReportsSurvive
<1> DEFINE Kept == \A r \in Run, t \in Target :
                     report[t].run = r /\ report'[t] # report[t] =>
                       \/ report'[t].status # "empty"
                       \/ report'[t].run = r
<1>1. ASSUME TypeOK, NEW p \in Run, Step(p) PROVE Kept
  <2>1. ASSUME NEW s \in Status, Put(p, s) PROVE Kept
    BY <1>1, <2>1 DEF Put, Saying, TypeOK, Status, Success
  <2>2. status[p] \in Status /\ "failed" \in Status
    BY <1>1 DEF TypeOK, Status
  <2>3. ASSUME Write(p) PROVE Kept
    BY <2>1, <2>2, <2>3 DEF Write
  <2>4. ASSUME Reconcile(p) PROVE Kept
    BY <2>1, <2>2, <2>4 DEF Reconcile
  <2>5. ASSUME report' \in {report, Truncated(p)} PROVE Kept
    BY <1>1, <2>5 DEF Truncated, Own, Saying, TypeOK
  <2>6. ASSUME OpenForInvalidation(p) \/ Truncate(p) \/ Verify(p) PROVE Kept
    BY <2>5, <2>6 DEF OpenForInvalidation, Truncate, Verify
  <2>7. QED
    BY <1>1, <2>3, <2>4, <2>6 DEF Step
<1>2. TypeOK /\ [Next]_vars => [Kept]_vars
  BY <1>1 DEF Next
<1>3. QED
  BY <1>2, TypeCorrect, PTL DEF Spec, OthersReportsSurvive

-----------------------------------------------------------------------------
(* A run's own reports *)

\* What is known of run r: it has written nothing beyond its target, and
\* nothing yet at a target it is about to write; a success is its only report,
\* at its target, and while the run goes on it is working on taking it back.
Story(r) ==
  /\ \A t \in Target : report[t].run = r =>
       /\ t <= target[r]
       /\ at[r] = "write" => t < target[r]
       /\ report[t].status \in Success => report[t].status \in Outcome
  /\ at[r] = "write" /\ status[r] \in Success =>
       \A t \in Target : report[t].run # r
  /\ status[r] \in Success => status[r] \in Outcome
  /\ at[r] \in Recovering => status[r] = "failed"
  /\ \A t \in Target : report[t].run = r /\ report[t].status \in Success =>
       /\ t = target[r]
       /\ at[r] \in Recovering \/ (at[r] = "over" /\ told[r] # "failed")
       /\ \A u \in Target : report[u].run = r => u = t
  /\ told[r] = "nothing" <=> at[r] # "over"

IInv == TypeOK /\ \A r \in Run : Story(r)

LEMMA InitStory == Init => IInv
<1> SUFFICES ASSUME Init PROVE IInv
  OBVIOUS
<1>1. TypeOK
  BY InitTypes DEF Types
<1>2. ASSUME NEW t \in Target, NEW r \in Run PROVE report[t].run # r
  BY RunAssumption DEF Init, Nothing
<1>3. \A r \in Run : status[r] \in Success => status[r] \in Outcome
  BY DEF Init, Success
<1>4. QED
  BY <1>1, <1>2, <1>3 DEF IInv, Story, Init, Recovering

\* The steps of one run leave what is known of the others.
LEMMA OthersFrame ==
  ASSUME TypeOK, NEW p \in Run, NEW r \in Run \ {p}, Step(p)
  PROVE  /\ at'[r] = at[r] /\ target'[r] = target[r]
         /\ status'[r] = status[r] /\ told'[r] = told[r]
         /\ \A t \in Target : report'[t].run = r => report'[t] = report[t]
<1> USE DEF TypeOK, Put, Saying, Goto, Tell, NextTarget, Failed
<1>1. CASE Write(p)
  BY <1>1 DEF Write
<1>2. CASE Reconcile(p)
  BY <1>2 DEF Reconcile
<1>3. CASE OpenForInvalidation(p)
  BY <1>3 DEF OpenForInvalidation
<1>4. CASE Truncate(p)
  BY <1>4 DEF Truncate, Truncated
<1>5. CASE Verify(p)
  BY <1>5 DEF Verify
<1>6. QED
  BY <1>1, <1>2, <1>3, <1>4, <1>5 DEF Step

LEMMA OthersStory ==
  ASSUME TypeOK, NEW p \in Run, NEW r \in Run \ {p}, Story(r), Step(p)
  PROVE  Story(r)'
  BY OthersFrame DEF Story

\* Next target: nothing of the run is left that says it succeeded.
LEMMA NextTargetStory ==
  ASSUME TypeOK, NEW r \in Run, Story(r), NextTarget(r),
         status' = [status EXCEPT ![r] = "failed"],
         told[r] = "nothing",
         \A t \in Target : report'[t].run = r =>
           /\ t <= target[r]
           /\ report'[t].status \notin Success
  PROVE  Story(r)'
<1>1. status'[r] = "failed" /\ "failed" \notin Success
  BY DEF TypeOK, Success
<1>2. CASE target[r] = Fallbacks
  BY <1>1, <1>2 DEF TypeOK, Story, NextTarget, Tell, Goto, Recovering
<1>3. CASE target[r] # Fallbacks
  <2>1. at'[r] = "write" /\ target'[r] = target[r] + 1 /\ told'[r] = "nothing"
    BY <1>3 DEF TypeOK, NextTarget, Goto
  <2>2. \A t \in Target : report'[t].run = r => t <= target'[r] /\ t < target'[r]
    BY <2>1, TargetRange, FallbacksAssumption DEF TypeOK
  <2>3. QED
    BY <1>1, <2>1, <2>2 DEF Story, Recovering
<1>4. QED
  BY <1>2, <1>3

LEMMA WriteStory ==
  ASSUME IInv, NEW r \in Run, Write(r)
  PROVE  Story(r)'
<1> USE DEF IInv
<1>1. /\ TypeOK /\ Story(r) /\ at[r] = "write" /\ told[r] = "nothing"
      /\ target[r] \in Target /\ "failed" \notin Success
  BY DEF Write, Story, TypeOK, Success
<1>2. \A t \in Target : report[t].run = r =>
        t <= target[r] /\ t # target[r] /\ report[t].status \notin Success
  BY <1>1, TargetRange, FallbacksAssumption DEF Story, Recovering
<1>3. ASSUME Put(r, status[r])
      PROVE  /\ report'[target[r]] = Saying(r, status[r])
             /\ \A t \in Target : t # target[r] => report'[t] = report[t]
             /\ status[r] \in Success =>
                  \A t \in Target : report'[t].run = r => t = target[r]
  BY <1>1, <1>3 DEF Put, TypeOK, Story
<1>4. CASE Put(r, status[r]) /\ Tell(r, status[r]) /\ UNCHANGED <<target, status, tries>>
  <2>1. at'[r] = "over" /\ told'[r] = status[r]
    BY <1>4 DEF Tell, Goto, TypeOK
  <2>2. status[r] # "nothing"
    BY DEF TypeOK, Status, Success
  <2>3. QED
    BY <1>1, <1>2, <1>3, <1>4, <2>1, <2>2, TargetRange, FallbacksAssumption
    DEF Story, Saying, Recovering
<1>5. CASE /\ NextTarget(r) /\ status' = [status EXCEPT ![r] = "failed"]
           /\ UNCHANGED <<report, tries>>
  BY <1>1, <1>2, <1>5, NextTargetStory
<1>6. CASE /\ Put(r, status[r]) /\ Goto(r, "reconcile")
           /\ status' = [status EXCEPT ![r] = "failed"]
           /\ UNCHANGED <<target, told, tries>>
  <2>1. at'[r] = "reconcile" /\ status'[r] = "failed"
    BY <1>6 DEF Goto, TypeOK
  <2>2. QED
    BY <1>1, <1>2, <1>3, <1>6, <2>1, TargetRange, FallbacksAssumption
    DEF Story, Saying, Recovering
<1>7. QED
  BY <1>4, <1>5, <1>6 DEF Write

\* While a run takes a report back, its other reports are no successes.
LEMMA RecoveringFacts ==
  ASSUME IInv, NEW r \in Run, at[r] \in Recovering
  PROVE  /\ TypeOK /\ Story(r) /\ told[r] = "nothing" /\ status[r] = "failed"
         /\ target[r] \in Target /\ "failed" \notin Success
         /\ status = [status EXCEPT ![r] = "failed"]
         /\ \A t \in Target : report[t].run = r =>
              t <= target[r] /\ (t # target[r] => report[t].status \notin Success)
<1>1. TypeOK /\ Story(r) /\ at[r] # "over"
  BY DEF IInv, Recovering
<1>2. told[r] = "nothing" /\ status[r] = "failed" /\ "failed" \notin Success
  BY <1>1 DEF Story, Success
<1>3. QED
  BY <1>1, <1>2 DEF TypeOK, Story

LEMMA ReconcileStory ==
  ASSUME IInv, NEW r \in Run, Reconcile(r)
  PROVE  Story(r)'
<1>1. at[r] \in Recovering /\ UNCHANGED status
  BY DEF Reconcile, Recovering
<1>2. ASSUME Put(r, "failed")
      PROVE  \A t \in Target : report'[t].run = r =>
               t <= target[r] /\ report'[t].status \notin Success
  BY <1>1, <1>2, RecoveringFacts, TargetRange, FallbacksAssumption
  DEF Put, Saying, TypeOK
<1>3. CASE Put(r, "failed") /\ Tell(r, "failed") /\ UNCHANGED target
  <2>1. at'[r] = "over" /\ told'[r] = "failed"
    BY <1>1, <1>3, RecoveringFacts DEF Tell, Goto, TypeOK
  <2>2. QED
    BY <1>1, <1>2, <1>3, <2>1, RecoveringFacts DEF Story, Recovering
<1>4. CASE Put(r, "failed") /\ NextTarget(r)
  BY <1>1, <1>2, <1>4, RecoveringFacts, NextTargetStory
<1>5. CASE Goto(r, "invalidate") /\ UNCHANGED <<report, target, told>>
  BY <1>1, <1>5, RecoveringFacts DEF Goto, Story, Recovering, TypeOK
<1>6. QED
  BY <1>3, <1>4, <1>5 DEF Reconcile

LEMMA OpenStory ==
  ASSUME IInv, NEW r \in Run, OpenForInvalidation(r)
  PROVE  Story(r)'
<1>1. at[r] \in Recovering /\ UNCHANGED <<report, target, status, told>>
  BY DEF OpenForInvalidation, Recovering
<1>2. at'[r] \in Recovering
  BY RecoveringFacts, <1>1 DEF OpenForInvalidation, Failed, Goto, Recovering, TypeOK
<1>3. QED
  BY <1>1, <1>2, RecoveringFacts DEF Story, Recovering

LEMMA TruncateStory ==
  ASSUME IInv, NEW r \in Run, Truncate(r)
  PROVE  Story(r)'
<1>1. at[r] \in Recovering /\ UNCHANGED status /\ "empty" \notin Success
  BY DEF Truncate, Recovering, Success
<1>2. \A t \in Target : Truncated(r)[t].run = r =>
        t <= target[r] /\ Truncated(r)[t].status \notin Success
  BY <1>1, RecoveringFacts DEF Truncated, Own, Saying, TypeOK
<1>3. CASE report' = Truncated(r) /\ NextTarget(r) /\ UNCHANGED tries
  BY <1>1, <1>2, <1>3, RecoveringFacts, NextTargetStory
<1>4. CASE /\ report' \in {report, Truncated(r)} /\ Failed(r)
           /\ UNCHANGED <<target, told>>
  <2>1. at'[r] \in Recovering
    BY <1>1, <1>4, RecoveringFacts DEF Failed, Goto, Recovering, TypeOK
  <2>2. CASE report' = report
    BY <1>1, <1>4, <2>1, <2>2, RecoveringFacts DEF Story, Recovering
  <2>3. CASE report' = Truncated(r)
    BY <1>1, <1>2, <1>4, <2>1, <2>3, RecoveringFacts DEF Story, Recovering
  <2>4. QED
    BY <1>4, <2>2, <2>3
<1>5. QED
  BY <1>3, <1>4 DEF Truncate

\* The one step that needs the assumption on the outcomes: a success that was
\* published and could not be invalidated is recognised as one.
LEMMA VerifyStory ==
  ASSUME Outcome \subseteq Contradictory \cup {"failed"},
         IInv, NEW r \in Run, Verify(r)
  PROVE  Story(r)'
<1>1. at[r] \in Recovering /\ UNCHANGED <<report, status, tries>>
  BY DEF Verify, Recovering
<1>2. CASE Tell(r, "raised") /\ UNCHANGED target
  <2>1. at'[r] = "over" /\ told'[r] = "raised"
    BY <1>1, <1>2, RecoveringFacts DEF Tell, Goto, TypeOK
  <2>2. QED
    BY <1>1, <1>2, <2>1, RecoveringFacts DEF Story, Recovering
<1>3. CASE ~ Suspect(report[target[r]].status) /\ NextTarget(r)
  <2>1. report[target[r]].run = r => report[target[r]].status \notin Success
    BY <1>1, <1>3, RecoveringFacts DEF Story, Suspect, Contradictory, Success
  <2>2. QED
    BY <1>1, <1>3, <2>1, RecoveringFacts, NextTargetStory
<1>4. QED
  BY <1>2, <1>3 DEF Verify

LEMMA NextStory ==
  ASSUME Outcome \subseteq Contradictory \cup {"failed"}
  PROVE  IInv /\ TypeOK' /\ [Next]_vars => IInv'
<1> SUFFICES ASSUME IInv, TypeOK', [Next]_vars, NEW r \in Run PROVE Story(r)'
  BY DEF IInv
<1>1. CASE UNCHANGED vars
  BY <1>1 DEF IInv, Story, vars
<1>2. ASSUME NEW p \in Run, Step(p), p # r PROVE Story(r)'
  BY <1>2, OthersStory DEF IInv
<1>3. CASE Step(r)
  BY <1>3, WriteStory, ReconcileStory, OpenStory, TruncateStory, VerifyStory
  DEF Step
<1>4. QED
  BY <1>1, <1>2, <1>3 DEF Next

LEMMA StoryHolds ==
  ASSUME Outcome \subseteq Contradictory \cup {"failed"}
  PROVE  Spec => []IInv
BY InitStory, NextStory, TypeCorrect, PTL DEF Spec

\* Unless a run ends as "completed", no caller is told that its run failed
\* while a report in place says that it succeeded: persist_report returns a
\* failure only after the report of the success is replaced or emptied.
THEOREM CallersHearTheTruth ==
  ASSUME Outcome \subseteq Contradictory \cup {"failed"}
  PROVE  Spec => []ToldTheTruth
<1>1. IInv => ToldTheTruth
  BY DEF IInv, Story, ToldTheTruth, Recovering
<1>2. QED
  BY StoryHolds, <1>1, PTL

\* Unless a run ends as "completed", no fallback reports a failure next to a
\* report in place of the same run's success.
THEOREM ReportsTellOneStory ==
  ASSUME Outcome \subseteq Contradictory \cup {"failed"}
  PROVE  Spec => []ReportsAgree
<1>1. IInv => ReportsAgree
  <2> SUFFICES ASSUME IInv, NEW t \in Target, NEW u \in Target,
                      report[t].run = report[u].run, report[t].status \in Success
               PROVE  report[u].status # "failed"
    BY DEF ReportsAgree
  <2>1. report[t].run \in Run
    BY DEF IInv, TypeOK, Report, Nothing, Success
  <2>2. u = t
    BY <2>1 DEF IInv, Story
  <2>3. QED
    BY <2>2 DEF Success
<1>2. QED
  BY StoryHolds, <1>1, PTL

-----------------------------------------------------------------------------
(* The routing of the validation rows.  One uninterrupted pass is defined   *)
(* by recursion over the rows: UpTo gives induction over them.              *)

\* Induction up to a bound, over a set of numbers.
LEMMA UpTo ==
  ASSUME NEW N \in Nat, NEW S, 0 \in S, \A k \in 1 .. N : k - 1 \in S => k \in S
  PROVE  \A k \in 0 .. N : k \in S
<1> DEFINE Missing == (0 .. N) \ S
           Less == {p \in Nat \X Nat : p[1] < p[2]}
<1> SUFFICES ASSUME Missing # {} PROVE FALSE
  OBVIOUS
<1>1. IsWellFoundedOn(Less, Nat)
  BY NatLessThanWellFounded DEF OpToRel
<1>2. PICK k \in Missing : \A j \in Missing : ~ (<<j, k>> \in Less)
  <2>1. Missing \in SUBSET Nat
    OBVIOUS
  <2> QED
    BY <1>1, <2>1, WFMin
<1>3. k \in 1 .. N /\ k - 1 \in 0 .. N
  BY <1>2
<1>4. k - 1 \notin Missing
  <2>1. <<k - 1, k>> \in Less
    BY <1>3
  <2> QED
    BY <1>2, <2>1
<1> QED
  BY <1>2, <1>3, <1>4

-----------------------------------------------------------------------------
\* What a row makes of the machine, and the functions that satisfy the recursion of
\* one uninterrupted pass.
After(m, i) == Update(m, rows[i].device, RouteRow(m, rows[i]).seen, rows[i].at)
Pass(f, N) == f = [n \in 0 .. N |-> IF n = 0 THEN NoDevices ELSE After(f[n - 1], n)]

LEMMA PassExists ==
  ASSUME RowCount \in Nat
  PROVE  \E f : Pass(f, RowCount)
<1> DEFINE S == {N \in 0 .. RowCount : \E f : Pass(f, N)}
<1>1. 0 \in S
  <2> DEFINE g == [n \in 0 .. 0 |-> NoDevices]
  <2>1. Pass(g, 0)
    BY DEF Pass
  <2> QED
    BY <2>1
<1>2. ASSUME NEW N \in 1 .. RowCount, N - 1 \in S PROVE N \in S
  <2>1. PICK f : Pass(f, N - 1)
    BY <1>2
  <2> DEFINE g == [n \in 0 .. N |-> IF n = N THEN After(f[N - 1], N) ELSE f[n]]
  <2>2. ASSUME NEW n \in 0 .. N PROVE g[n] = IF n = 0 THEN NoDevices ELSE After(g[n - 1], n)
    BY <2>1 DEF Pass
  <2>3. Pass(g, N)
    BY <2>2 DEF Pass
  <2> QED
    BY <2>3
<1> HIDE DEF S
<1>3. \A N \in 0 .. RowCount : N \in S
  BY <1>1, <1>2, UpTo
<1> QED
  BY <1>3 DEF S

LEMMA PassIs ==
  ASSUME RowCount \in Nat
  PROVE  /\ Uninterrupted[0] = NoDevices
         /\ \A i \in Ordinal : Uninterrupted[i] = After(Uninterrupted[i - 1], i)
<1>1. Uninterrupted = CHOOSE f : Pass(f, RowCount)
  BY DEF Uninterrupted, Pass, After
<1>2. Pass(Uninterrupted, RowCount)
  BY <1>1, PassExists
<1> QED
  BY <1>2 DEF Pass, Ordinal

OutputOf(i) == RouteRow(Uninterrupted[i - 1], rows[i])

LEMMA RowIsRouted ==
  ASSUME RoutingAssumption, NEW m, NEW row \in RowKind
  PROVE  RouteRow(m, row) \in Output
BY DEF RoutingAssumption, RouteRow, Output, Row, Evidence

\* A batch that starts from the machine of the pass goes on like the pass.
LEMMA BatchFollowsPass ==
  ASSUME RoutingAssumption, rows \in [Ordinal -> RowKind], NEW d \in Nat, NEW n \in Nat,
         d + n <= RowCount
  PROVE  RouteBatch(Uninterrupted[d], d + 1, n) =
           [machine |-> Uninterrupted[d + n], outputs |-> [k \in 1 .. n |-> OutputOf(d + k)]]
<1> DEFINE M(k) == Uninterrupted[k]
           Nxt(b, i) == [machine |-> After(b.machine, i),
                         outputs |-> Append(b.outputs, RouteRow(b.machine, rows[i]))]
           First == [machine |-> M(d), outputs |-> <<>>]
           Steps(f) == f = [k \in 0 .. n |-> IF k = 0 THEN First ELSE Nxt(f[k - 1], d + 1 + k - 1)]
           Outs(k) == [j \in 1 .. k |-> OutputOf(d + j)]
           g == [k \in 0 .. n |-> [machine |-> M(d + k), outputs |-> Outs(k)]]
           h == CHOOSE f : Steps(f)
<1>1. RouteBatch(M(d), d + 1, n) = h[n]
  BY DEF RouteBatch, After
<1>2. \A i \in Ordinal : OutputOf(i) \in Output
  BY RowIsRouted DEF OutputOf
<1>3. Outs(0) = <<>>
  OBVIOUS
<1>4. ASSUME NEW k \in 1 .. n
      PROVE  /\ d + 1 + k - 1 = d + k
             /\ [machine |-> M(d + k), outputs |-> Outs(k)] =
                  Nxt([machine |-> M(d + (k - 1)), outputs |-> Outs(k - 1)], d + k)
  <2>1. /\ RowCount \in Nat /\ d + k \in Ordinal /\ d + 1 + k - 1 = d + k
        /\ d + k - 1 = d + (k - 1)
    BY DEF RoutingAssumption, Ordinal
  <2>2. Outs(k - 1) \in Seq(Output)
    <3>1. \A j \in 1 .. k - 1 : d + j \in Ordinal
      BY <2>1 DEF Ordinal
    <3> QED
      BY <1>2, <3>1
  <2>3. /\ M(d + k) = After(M(d + (k - 1)), d + k)
        /\ OutputOf(d + k) = RouteRow(M(d + (k - 1)), rows[d + k])
    BY <2>1, PassIs DEF OutputOf
  <2>4. Outs(k) = Append(Outs(k - 1), OutputOf(d + k))
    <3> HIDE DEF OutputOf
    <3> QED
      BY <2>2
  <2> HIDE DEF Outs, M
  <2> QED
    BY <2>1, <2>3, <2>4
<1> HIDE DEF Nxt, Outs, M
<1>5. Steps(g)
  <2>1. ASSUME NEW k \in 0 .. n
        PROVE  g[k] = IF k = 0 THEN First ELSE Nxt(g[k - 1], d + 1 + k - 1)
    <3>1. CASE k = 0
      BY <1>3, <3>1
    <3>2. CASE k # 0
      <4>1. k \in 1 .. n /\ k - 1 \in 0 .. n
        BY <3>2
      <4> QED
        BY <1>4, <3>2, <4>1
    <3> QED
      BY <3>1, <3>2
  <2> QED
    BY <2>1
<1>6. Steps(h)
  BY <1>5
<1> DEFINE S == {k \in 0 .. n : h[k] = g[k]}
<1>7. 0 \in S
  <2>1. 0 \in 0 .. n
    OBVIOUS
  <2>2. ASSUME NEW f, Steps(f) PROVE f[0] = First
    BY <2>1, <2>2
  <2> HIDE DEF Steps, g, h
  <2>3. h[0] = g[0]
    BY <1>5, <1>6, <2>2
  <2> QED
    BY <2>1, <2>3
<1>8. ASSUME NEW k \in 1 .. n, k - 1 \in S PROVE k \in S
  <2>1. k \in 0 .. n /\ k # 0 /\ h[k - 1] = g[k - 1]
    BY <1>8
  <2>2. h[k] = Nxt(h[k - 1], d + 1 + k - 1) /\ g[k] = Nxt(g[k - 1], d + 1 + k - 1)
    BY <1>5, <1>6, <2>1
  <2> QED
    BY <2>1, <2>2
<1> HIDE DEF S
<1>9. n \in S
  BY <1>7, <1>8, UpTo
<1> QED
  BY <1>1, <1>9 DEF S, Outs, M

\* Replaying what the pass has committed leads to its machine.
LEMMA ReplayFollowsPass ==
  ASSUME RoutingAssumption, NEW d \in Nat, NEW n \in Nat, d + n <= RowCount,
         \A k \in 1 .. n : cache.routed[cache.position[d + k]] = OutputOf(d + k)
  PROVE  ReplayBatch(Uninterrupted[d], d + 1, n) = Uninterrupted[d + n]
<1> DEFINE Nxt(b, i) == Update(b, rows[i].device, cache.routed[cache.position[i]].seen, rows[i].at)
           Steps(f) == f = [k \in 0 .. n |->
                              IF k = 0 THEN Uninterrupted[d] ELSE Nxt(f[k - 1], d + 1 + k - 1)]
           g == [k \in 0 .. n |-> Uninterrupted[d + k]]
           h == CHOOSE f : Steps(f)
<1>1. ReplayBatch(Uninterrupted[d], d + 1, n) = h[n]
  BY DEF ReplayBatch
<1>2. ASSUME NEW k \in 1 .. n
      PROVE  d + 1 + k - 1 = d + k /\ Uninterrupted[d + k] = Nxt(Uninterrupted[d + (k - 1)], d + k)
  <2>1. /\ RowCount \in Nat /\ d + k \in Ordinal /\ d + 1 + k - 1 = d + k
        /\ d + k - 1 = d + (k - 1)
    BY DEF RoutingAssumption, Ordinal
  <2> QED
    BY <2>1, PassIs DEF OutputOf, After
<1> HIDE DEF Nxt
<1>3. Steps(g)
  <2>1. ASSUME NEW k \in 0 .. n
        PROVE  g[k] = IF k = 0 THEN Uninterrupted[d] ELSE Nxt(g[k - 1], d + 1 + k - 1)
    <3>1. CASE k = 0
      BY <3>1
    <3>2. CASE k # 0
      <4>1. k \in 1 .. n /\ k - 1 \in 0 .. n
        BY <3>2
      <4> QED
        BY <1>2, <3>2, <4>1
    <3> QED
      BY <3>1, <3>2
  <2> QED
    BY <2>1
<1>4. Steps(h)
  BY <1>3
<1> DEFINE S == {k \in 0 .. n : h[k] = g[k]}
<1>5. 0 \in S
  <2>1. 0 \in 0 .. n
    OBVIOUS
  <2>2. ASSUME NEW f, Steps(f) PROVE f[0] = Uninterrupted[d]
    BY <2>1, <2>2
  <2> HIDE DEF Steps, g, h
  <2>3. h[0] = g[0]
    BY <1>3, <1>4, <2>2
  <2> QED
    BY <2>1, <2>3
<1>6. ASSUME NEW k \in 1 .. n, k - 1 \in S PROVE k \in S
  <2>1. k \in 0 .. n /\ k # 0 /\ h[k - 1] = g[k - 1]
    BY <1>6
  <2>2. h[k] = Nxt(h[k - 1], d + 1 + k - 1) /\ g[k] = Nxt(g[k - 1], d + 1 + k - 1)
    BY <1>3, <1>4, <2>1
  <2> QED
    BY <2>1, <2>2
<1> HIDE DEF S
<1>7. n \in S
  BY <1>5, <1>6, UpTo
<1> QED
  BY <1>1, <1>7 DEF S

-----------------------------------------------------------------------------
\* What the pass puts out.
Outputs == [i \in Ordinal |-> OutputOf(i)]

LEMMA OutputsStay ==
  ASSUME rows' = rows
  PROVE  Uninterrupted' = Uninterrupted /\ Outputs' = Outputs
<1>1. Uninterrupted' = Uninterrupted
  BY DEF Uninterrupted
<1>2. Outputs' = Outputs
  BY <1>1 DEF Outputs, OutputOf
<1> QED
  BY <1>1, <1>2

LEMMA OutputsAre ==
  ASSUME RoutingAssumption, rows \in [Ordinal -> RowKind]
  PROVE  Outputs \in [Ordinal -> Output] /\ \A i \in Ordinal : Outputs[i] = OutputOf(i)
BY RowIsRouted DEF Outputs, OutputOf

\* The order is one to one: a row of the cache is at most one ordinal's.
LEMMA OrderIs ==
  ASSUME RoutingAssumption
  PROVE  /\ RowCount \in Nat /\ ChunkRows \in Nat /\ RowCount # 0 /\ ChunkRows # 0 /\ MaxFaults \in Nat
         /\ Ordinal = 1 .. RowCount /\ Order \in [Ordinal -> Ordinal] /\ NoOutput \notin Output
         /\ \A i, j \in Ordinal : Order[i] = Order[j] => i = j
BY DEF RoutingAssumption, Ordinal, IsInjective

Clearing == {"flushCleared", "replay", "ready", "done"}
Batching == {"claim", "flushPosition", "flushOwner", "flushRouted", "publish", "syncJournal"}
Scattered == Batching \ {"claim"}
Layout == [position : [Ordinal -> 0 .. RowCount], owner : [Ordinal -> 0 .. RowCount],
           routed : [Ordinal -> Output \cup {NoOutput}]]
Log == Seq([position : Ordinal, output : Output])

RunTypeOK ==
  /\ rows \in [Ordinal -> RowKind] /\ cache \in Layout /\ stored \in Layout
  /\ journal \in [shown : Log, onDisk : Log]
  /\ run \in [at : {"closed", "refused"} \cup Clearing \cup Batching, done : 0 .. RowCount,
              replayed : Nat, batch : Seq(Output), claimed : Nat]
  /\ faults \in 0 .. MaxFaults
  /\ run.claimed <= Len(run.batch) /\ run.replayed <= run.done
  /\ run.done + Len(run.batch) <= RowCount

\* Both versions of the journal are the pass, up to a row; the one on the disk is not
\* ahead.
JournalFollows ==
  /\ \A log \in {journal.shown, journal.onDisk} :
       /\ Len(log) <= RowCount
       /\ \A i \in 1 .. Len(log) : log[i] = [position |-> Order[i], output |-> Outputs[i]]
  /\ Len(journal.onDisk) <= Len(journal.shown)

\* The arrays hold the pass up to a row, under its owner.
Holds(arrays, n) ==
  \A i \in 1 .. n :
    arrays.position[i] = Order[i] /\ arrays.owner[Order[i]] = i /\ arrays.routed[Order[i]] = Outputs[i]
ArraysBack ==
  /\ Holds(cache, Len(journal.shown)) /\ Holds(stored, Len(journal.shown))
  /\ \A arrays \in {cache, stored} : \A p \in Ordinal :
       arrays.owner[p] # 0 => Order[arrays.owner[p]] = p

\* Where a run is, and what it has in memory.
RunKnows ==
  /\ run.at = "closed" => run = Closed /\ router = NoDevices
  /\ run.at # "refused"
  /\ run.at \notin {"closed", "syncJournal"} => run.done = Len(journal.shown)
  /\ run.at = "syncJournal" => run.done + Len(run.batch) = Len(journal.shown)
  /\ run.at \in Clearing => run.batch = <<>> /\ run.claimed = 0
  /\ run.at \in Scattered => run.claimed = Len(run.batch)
  /\ run.at # "closed" => \A p \in Ordinal : cache.owner[p] <= run.done + run.claimed
  /\ run.at \in Batching =>
       /\ \A k \in 1 .. Len(run.batch) : run.batch[k] = Outputs[run.done + k]
       /\ \A k \in 1 .. run.claimed :
            /\ cache.position[run.done + k] = Order[run.done + k]
            /\ cache.owner[Order[run.done + k]] = run.done + k
       /\ router = Uninterrupted[run.done + Len(run.batch)]
  /\ run.at \in Scattered =>
       \A k \in 1 .. Len(run.batch) : cache.routed[Order[run.done + k]] = Outputs[run.done + k]
  /\ run.at \in {"flushOwner", "flushRouted", "publish"} => stored.position = cache.position
  /\ run.at \in {"flushRouted", "publish"} => stored.owner = cache.owner
  /\ run.at = "publish" => stored.routed = cache.routed
  /\ run.at = "flushCleared" => run.replayed = 0 /\ router = NoDevices
  /\ run.at = "replay" => router = Uninterrupted[run.replayed]
  /\ run.at \in {"ready", "done"} => router = Uninterrupted[run.done]

RoutingInv == RunTypeOK /\ JournalFollows /\ ArraysBack /\ RunKnows

LEMMA RoutingStarts ==
  ASSUME RoutingAssumption, RoutingInit
  PROVE  RoutingInv
<1> USE OrderIs DEF RoutingInit, Closed, Log, Layout
<1>1. RunTypeOK
  BY DEF RunTypeOK
<1>2. JournalFollows /\ ArraysBack /\ RunKnows
  BY DEF JournalFollows, ArraysBack, Holds, RunKnows, Clearing, Batching, Scattered
<1> QED
  BY <1>1, <1>2 DEF RoutingInv

LEMMA LogLength ==
  ASSUME RoutingAssumption, RunTypeOK, JournalFollows
  PROVE  /\ Len(journal.shown) \in 0 .. RowCount /\ DOMAIN journal.shown = 1 .. Len(journal.shown)
         /\ Len(journal.onDisk) \in 0 .. RowCount /\ DOMAIN journal.onDisk = 1 .. Len(journal.onDisk)
<1>1. journal.shown \in Log /\ journal.onDisk \in Log
  BY DEF RunTypeOK
<1> QED
  BY <1>1, OrderIs DEF JournalFollows, Log

LEMMA OpenKeeps ==
  ASSUME RoutingAssumption, RoutingInv, Open
  PROVE  RoutingInv'
<1> USE OrderIs DEF RoutingInv
<1>1. rows' = rows /\ Outputs' = Outputs /\ Uninterrupted' = Uninterrupted
  BY OutputsStay DEF Open
<1> DEFINE n == Len(journal.shown)
<1>n. n \in 0 .. RowCount /\ n \in Nat /\ DOMAIN journal.shown = 1 .. n
  BY LogLength
<1>2. Verified(journal.shown)
  <2> SUFFICES ASSUME NEW i \in 1 .. n
               PROVE  /\ cache.position[i] = journal.shown[i].position
                      /\ cache.owner[journal.shown[i].position] = i
                      /\ cache.routed[journal.shown[i].position] = journal.shown[i].output
    BY <1>n DEF Verified
  <2>1. journal.shown[i] = [position |-> Order[i], output |-> Outputs[i]]
    BY DEF JournalFollows
  <2> QED
    BY <2>1 DEF ArraysBack, Holds
<1>3. /\ run = Closed /\ router' = router /\ router = NoDevices
      /\ stored' = stored /\ journal' = journal /\ faults' = faults
      /\ cache' = [cache EXCEPT !.owner = WithoutStaleOwners(@, n)]
      /\ run' = [run EXCEPT !.at = "flushCleared", !.done = n]
  BY <1>2 DEF Open, RunKnows
<1>4. run' = [at |-> "flushCleared", done |-> n, replayed |-> 0, batch |-> <<>>, claimed |-> 0]
  BY <1>3 DEF Closed
<1>5. /\ cache' \in Layout /\ cache'.position = cache.position /\ cache'.routed = cache.routed
      /\ \A p \in Ordinal : cache'.owner[p] = IF cache.owner[p] > n THEN 0 ELSE cache.owner[p]
  <2> DEFINE own == [p \in Ordinal |-> IF cache.owner[p] > n THEN 0 ELSE cache.owner[p]]
  <2>1. cache \in Layout /\ cache.owner \in [Ordinal -> 0 .. RowCount]
    BY DEF RunTypeOK, Layout
  <2>2. own \in [Ordinal -> 0 .. RowCount]
    BY <2>1, <1>n
  <2>3. cache' = [cache EXCEPT !.owner = own]
    BY <1>3 DEF WithoutStaleOwners
  <2>4. \A p \in Ordinal : own[p] = IF cache.owner[p] > n THEN 0 ELSE cache.owner[p]
    OBVIOUS
  <2> HIDE DEF own
  <2>5. cache' \in Layout /\ cache'.position = cache.position /\ cache'.routed = cache.routed /\ cache'.owner = own
    BY <2>1, <2>2, <2>3 DEF Layout
  <2> QED
    BY <2>4, <2>5
<1> HIDE DEF n
<1>6. RunTypeOK'
  <2>1. run' \in [at : {"closed", "refused"} \cup Clearing \cup Batching, done : 0 .. RowCount,
                  replayed : Nat, batch : Seq(Output), claimed : Nat]
    BY <1>4, <1>n DEF Clearing
  <2>2. run'.claimed <= Len(run'.batch) /\ run'.replayed <= run'.done /\ run'.done + Len(run'.batch) <= RowCount
    BY <1>4, <1>n
  <2> QED
    BY <1>1, <1>3, <1>5, <2>1, <2>2 DEF RunTypeOK
<1>7. JournalFollows'
  BY <1>1, <1>3 DEF JournalFollows
<1>8. ArraysBack'
  <2>1. Holds(cache, n)' /\ Holds(stored, n)'
    <3> SUFFICES ASSUME NEW i \in 1 .. n
                 PROVE  /\ cache'.position[i] = Order[i] /\ cache'.owner[Order[i]] = i
                        /\ cache'.routed[Order[i]] = Outputs[i]
                        /\ stored.position[i] = Order[i] /\ stored.owner[Order[i]] = i
                        /\ stored.routed[Order[i]] = Outputs[i]
      BY <1>1, <1>3 DEF Holds, n
    <3>1. i \in Ordinal /\ Order[i] \in Ordinal /\ ~ (i > n)
      BY <1>n
    <3> QED
      BY <1>5, <3>1 DEF ArraysBack, Holds, n
  <2>2. ASSUME NEW p \in Ordinal
        PROVE  /\ cache'.owner[p] # 0 => Order[cache'.owner[p]] = p
               /\ stored.owner[p] # 0 => Order[stored.owner[p]] = p
    <3>1. /\ cache.owner[p] # 0 => Order[cache.owner[p]] = p
          /\ stored.owner[p] # 0 => Order[stored.owner[p]] = p
      BY DEF ArraysBack
    <3>2. cache'.owner[p] \in {0, cache.owner[p]}
      BY <1>5
    <3> QED
      BY <3>1, <3>2
  <2> QED
    BY <1>3, <2>1, <2>2 DEF ArraysBack, n
<1>9. RunKnows'
  <2>1. ASSUME NEW p \in Ordinal PROVE cache'.owner[p] <= n + 0
    <3>1. cache.owner[p] \in Nat /\ n \in Nat
      BY <1>n DEF RunTypeOK, Layout
    <3>2. cache'.owner[p] = IF cache.owner[p] > n THEN 0 ELSE cache.owner[p]
      BY <1>5
    <3> HIDE DEF RoutingInv
    <3> QED
      BY <3>1, <3>2
  <2>2. /\ run'.at = "flushCleared" /\ run'.done = n /\ run'.replayed = 0
        /\ run'.batch = <<>> /\ run'.claimed = 0 /\ router' = NoDevices
        /\ n = Len(journal'.shown)
    <3>1. router' = NoDevices /\ n = Len(journal'.shown)
      BY <1>3 DEF n
    <3> QED
      BY <1>4, <3>1
  <2>3. run'.at \notin Batching /\ run'.at \notin Scattered
    BY <2>2 DEF Batching, Scattered
  <2> QED
    BY <2>1, <2>2, <2>3 DEF RunKnows
<1> QED
  BY <1>6, <1>7, <1>8, <1>9

\* Flushing an array makes what is on the disk that of the page cache.
LEMMA FlushKeeps ==
  ASSUME RoutingAssumption, RoutingInv, FlushCleared \/ FlushPosition \/ FlushOwner \/ FlushRouted
  PROVE  RoutingInv'
<1> USE OrderIs DEF RoutingInv
<1>1. rows' = rows /\ Outputs' = Outputs /\ Uninterrupted' = Uninterrupted
  BY OutputsStay DEF FlushCleared, FlushPosition, FlushOwner, FlushRouted, Flush
<1>2. PICK array \in {"position", "owner", "routed"}, place \in {"replay", "flushOwner", "flushRouted", "publish"} :
        /\ Flush(array, place)
        /\ \/ run.at = "flushCleared" /\ array = "owner" /\ place = "replay"
           \/ run.at = "flushPosition" /\ array = "position" /\ place = "flushOwner"
           \/ run.at = "flushOwner" /\ array = "owner" /\ place = "flushRouted"
           \/ run.at = "flushRouted" /\ array = "routed" /\ place = "publish"
  BY DEF FlushCleared, FlushPosition, FlushOwner, FlushRouted
<1>3. /\ stored' = [stored EXCEPT ![array] = cache[array]]
      /\ run' = [run EXCEPT !.at = place]
      /\ UNCHANGED <<rows, cache, journal, router, faults>>
  BY <1>2 DEF Flush, Go
<1>4. /\ run'.at = place /\ run'.done = run.done /\ run'.replayed = run.replayed
      /\ run'.batch = run.batch /\ run'.claimed = run.claimed
      /\ run' \in [at : {"closed", "refused"} \cup Clearing \cup Batching, done : 0 .. RowCount,
                   replayed : Nat, batch : Seq(Output), claimed : Nat]
  BY <1>3 DEF RunTypeOK, Clearing, Batching
<1>5. /\ stored' \in Layout
      /\ stored'.position = IF array = "position" THEN cache.position ELSE stored.position
      /\ stored'.owner = IF array = "owner" THEN cache.owner ELSE stored.owner
      /\ stored'.routed = IF array = "routed" THEN cache.routed ELSE stored.routed
  <2>1. CASE array = "position"
    BY <1>3, <2>1 DEF RunTypeOK, Layout
  <2>2. CASE array = "owner"
    BY <1>3, <2>2 DEF RunTypeOK, Layout
  <2>3. CASE array = "routed"
    BY <1>3, <2>3 DEF RunTypeOK, Layout
  <2> QED
    BY <2>1, <2>2, <2>3
<1>6. RunTypeOK'
  BY <1>1, <1>3, <1>4, <1>5 DEF RunTypeOK
<1>7. JournalFollows'
  BY <1>1, <1>3 DEF JournalFollows
<1>8. ArraysBack'
  BY <1>1, <1>3, <1>5 DEF ArraysBack, Holds
<1>9. RunKnows'
  <2>1. CASE run.at = "flushCleared"
    <3>1. Uninterrupted[0] = NoDevices
      BY PassIs
    <3> QED
      BY <1>1, <1>2, <1>3, <1>4, <1>5, <2>1, <3>1 DEF RunKnows, Clearing, Batching, Scattered
  <2>2. CASE run.at # "flushCleared"
    <3>1. run.at \in Scattered /\ place \in Scattered /\ run.at # "syncJournal" /\ place # "syncJournal"
      BY <1>2, <2>2 DEF Scattered, Batching
    <3>2. /\ run.done = Len(journal.shown) /\ run.claimed = Len(run.batch)
          /\ \A p \in Ordinal : cache.owner[p] <= run.done + run.claimed
          /\ \A k \in 1 .. Len(run.batch) : run.batch[k] = Outputs[run.done + k]
          /\ \A k \in 1 .. run.claimed :
               /\ cache.position[run.done + k] = Order[run.done + k]
               /\ cache.owner[Order[run.done + k]] = run.done + k
          /\ router = Uninterrupted[run.done + Len(run.batch)]
          /\ \A k \in 1 .. Len(run.batch) : cache.routed[Order[run.done + k]] = Outputs[run.done + k]
      BY <3>1 DEF RunKnows, Scattered, Batching
    <3>3. /\ place \in {"flushOwner", "flushRouted", "publish"} => stored'.position = cache.position
          /\ place \in {"flushRouted", "publish"} => stored'.owner = cache.owner
          /\ place = "publish" => stored'.routed = cache.routed
      BY <1>2, <1>5, <2>2 DEF RunKnows
    <3> QED
      BY <1>1, <1>3, <1>4, <3>1, <3>2, <3>3 DEF RunKnows, Clearing, Batching, Scattered
  <2> QED
    BY <2>1, <2>2
<1> QED
  BY <1>6, <1>7, <1>8, <1>9

RunState == [at : {"closed", "refused"} \cup Clearing \cup Batching, done : 0 .. RowCount,
             replayed : Nat, batch : Seq(Output), claimed : Nat]

\* A step that leaves the arrays and the journal alone.
LEMMA MemoryStepKeeps ==
  ASSUME RoutingAssumption, RoutingInv, UNCHANGED <<rows, cache, stored, journal>>,
         run' \in RunState, run'.claimed <= Len(run'.batch), run'.replayed <= run'.done,
         run'.done + Len(run'.batch) <= RowCount, faults' \in 0 .. MaxFaults
  PROVE  RunTypeOK' /\ JournalFollows' /\ ArraysBack'
<1> USE DEF RoutingInv
<1>1. Outputs' = Outputs
  BY OutputsStay
<1>2. RunTypeOK'
  <2>1. /\ rows \in [Ordinal -> RowKind] /\ cache \in Layout /\ stored \in Layout
        /\ journal \in [shown : Log, onDisk : Log]
    BY DEF RunTypeOK
  <2> QED
    BY <2>1 DEF RunTypeOK, RunState
<1>3. JournalFollows'
  BY <1>1 DEF JournalFollows
<1>4. ArraysBack'
  BY <1>1 DEF ArraysBack, Holds
<1> QED
  BY <1>2, <1>3, <1>4

LEMMA ReplayKeeps ==
  ASSUME RoutingAssumption, RoutingInv, Replay
  PROVE  RoutingInv'
<1> USE OrderIs DEF RoutingInv
<1>1. rows' = rows /\ Outputs' = Outputs /\ Uninterrupted' = Uninterrupted
  BY OutputsStay DEF Replay
<1> DEFINE r == run.replayed
           c == Chunk
<1>2. /\ run \in RunState /\ run.at = "replay" /\ r \in Nat /\ run.done \in 0 .. RowCount /\ r < run.done
      /\ run.done = Len(journal.shown) /\ run.batch = <<>> /\ run.claimed = 0
      /\ router = Uninterrupted[r] /\ \A p \in Ordinal : cache.owner[p] <= run.done + run.claimed
  BY DEF Replay, RunTypeOK, RunState, RunKnows, Clearing
<1>3. c \in Nat /\ r + c <= run.done
  BY <1>2 DEF Chunk
<1>4. /\ run' = [run EXCEPT !.replayed = @ + c] /\ UNCHANGED <<rows, cache, stored, journal, faults>>
      /\ router' = ReplayBatch(router, r + 1, c)
  BY DEF Replay
<1> HIDE DEF c
<1>5. /\ run'.at = "replay" /\ run'.done = run.done /\ run'.replayed = r + c
      /\ run'.batch = <<>> /\ run'.claimed = 0 /\ run' \in RunState
  <2>1. run' = [run EXCEPT !.replayed = r + c] /\ r + c \in Nat
    BY <1>2, <1>3, <1>4
  <2> HIDE DEF r
  <2> QED
    BY <1>2, <2>1 DEF RunState
<1>6. router' = Uninterrupted[r + c]
  <2>1. ASSUME NEW k \in 1 .. c PROVE cache.routed[cache.position[r + k]] = OutputOf(r + k)
    <3>1. r + k \in 1 .. Len(journal.shown) /\ r + k \in Ordinal
      <4>1. r \in Nat /\ c \in Nat /\ r + c <= run.done /\ run.done \in 0 .. RowCount
        BY <1>2, <1>3
      <4>2. r + k \in 1 .. run.done /\ r + k \in 1 .. RowCount
        <5> HIDE DEF r
        <5> QED
          BY <4>1
      <4> QED
        BY <1>2, <4>2
    <3>2. cache.position[r + k] = Order[r + k] /\ cache.routed[Order[r + k]] = Outputs[r + k]
      BY <3>1 DEF ArraysBack, Holds
    <3> QED
      BY <3>1, <3>2, OutputsAre DEF RunTypeOK
  <2>2. r + c <= RowCount
    BY <1>2, <1>3
  <2>3. ReplayBatch(Uninterrupted[r], r + 1, c) = Uninterrupted[r + c]
    BY <1>2, <1>3, <2>1, <2>2, ReplayFollowsPass
  <2> QED
    BY <1>2, <1>4, <2>3
<1>7. RunTypeOK' /\ JournalFollows' /\ ArraysBack'
  BY <1>2, <1>3, <1>4, <1>5, MemoryStepKeeps DEF RunTypeOK
<1>8. RunKnows'
  <2>1. "replay" \in Clearing /\ "replay" \notin Batching /\ "replay" \notin Scattered
    BY DEF Clearing, Batching, Scattered
  <2> HIDE DEF r
  <2> QED
    BY <1>1, <1>2, <1>4, <1>5, <1>6, <2>1 DEF RunKnows
<1> QED
  BY <1>7, <1>8

LEMMA PlaceKeeps ==
  ASSUME RoutingAssumption, RoutingInv, ReplayDone \/ Finish
  PROVE  RoutingInv'
<1> USE OrderIs DEF RoutingInv
<1>1. rows' = rows /\ Outputs' = Outputs /\ Uninterrupted' = Uninterrupted
  BY OutputsStay DEF ReplayDone, Finish
<1>2. PICK place \in {"ready", "done"} :
        /\ run' = [run EXCEPT !.at = place] /\ UNCHANGED <<rows, cache, stored, journal, router, faults>>
        /\ run.at \in {"replay", "ready"} /\ (run.at = "replay" => run.replayed = run.done)
  BY DEF ReplayDone, Finish, Go
<1>3. /\ run \in RunState /\ run.done = Len(journal.shown) /\ run.batch = <<>> /\ run.claimed = 0
      /\ router = Uninterrupted[run.done] /\ \A p \in Ordinal : cache.owner[p] <= run.done + run.claimed
  BY <1>2 DEF RunTypeOK, RunState, RunKnows, Clearing
<1>4. /\ run'.at = place /\ run'.done = run.done /\ run'.replayed = run.replayed
      /\ run'.batch = <<>> /\ run'.claimed = 0 /\ run' \in RunState
  BY <1>2, <1>3 DEF RunState, Clearing
<1>5. RunTypeOK' /\ JournalFollows' /\ ArraysBack'
  <2>1. run'.claimed <= Len(run'.batch) /\ run'.replayed <= run'.done /\ run'.done + Len(run'.batch) <= RowCount
    BY <1>3, <1>4 DEF RunTypeOK
  <2> QED
    BY <1>2, <1>4, <2>1, MemoryStepKeeps DEF RunTypeOK
<1>6. RunKnows'
  <2>1. place \in Clearing /\ place \notin Batching /\ place \notin Scattered
    BY DEF Clearing, Batching, Scattered
  <2> QED
    BY <1>1, <1>2, <1>3, <1>4, <2>1 DEF RunKnows
<1> QED
  BY <1>5, <1>6

LEMMA RouteKeeps ==
  ASSUME RoutingAssumption, RoutingInv, Route
  PROVE  RoutingInv'
<1> USE OrderIs DEF RoutingInv
<1>1. rows' = rows /\ Outputs' = Outputs /\ Uninterrupted' = Uninterrupted
  BY OutputsStay DEF Route
<1> DEFINE d == run.done
<1>2. /\ run \in RunState /\ d \in 0 .. RowCount /\ d = Len(journal.shown) /\ run.batch = <<>> /\ run.claimed = 0
      /\ router = Uninterrupted[d] /\ run.replayed <= d
      /\ \A p \in Ordinal : cache.owner[p] <= d + run.claimed
  BY DEF Route, RunTypeOK, RunState, RunKnows, Clearing
<1>3. PICK n \in 1 .. ChunkRows :
        /\ d + n <= RowCount
        /\ router' = RouteBatch(router, d + 1, n).machine
        /\ run' = [run EXCEPT !.at = "claim", !.batch = RouteBatch(router, d + 1, n).outputs]
        /\ UNCHANGED <<rows, cache, stored, journal, faults>>
  BY DEF Route
<1> DEFINE outs == [k \in 1 .. n |-> OutputOf(d + k)]
<1>4. RouteBatch(router, d + 1, n) = [machine |-> Uninterrupted[d + n], outputs |-> outs]
  <2>1. rows \in [Ordinal -> RowKind] /\ d \in Nat /\ n \in Nat /\ d + n <= RowCount
    BY <1>2, <1>3 DEF RunTypeOK
  <2>2. RouteBatch(Uninterrupted[d], d + 1, n) = [machine |-> Uninterrupted[d + n], outputs |-> outs]
    BY <2>1, BatchFollowsPass
  <2> QED
    BY <1>2, <2>2
<1>5. ASSUME NEW k \in 1 .. n PROVE outs[k] = Outputs[d + k] /\ outs[k] \in Output
  <2>1. d + k \in Ordinal
    BY <1>2, <1>3
  <2> QED
    BY <2>1, OutputsAre DEF RunTypeOK
<1>6. outs \in Seq(Output) /\ Len(outs) = n
  BY <1>5
<1> HIDE DEF outs, d
<1>7. /\ run'.at = "claim" /\ run'.done = d /\ run'.replayed = run.replayed
      /\ run'.batch = outs /\ run'.claimed = 0 /\ run' \in RunState
  <2>1. run' = [[run EXCEPT !.at = "claim"] EXCEPT !.batch = outs]
    <3> DEFINE b == RouteBatch(router, d + 1, n)
    <3>1. run' = [run EXCEPT !.at = "claim", !.batch = b.outputs] /\ b.outputs = outs
      BY <1>3, <1>4
    <3> HIDE DEF b
    <3> QED
      BY <3>1
  <2>2. run \in RunState /\ run.done = d /\ run.claimed = 0 /\ "claim" \in Batching
    BY <1>2 DEF d, Batching
  <2> QED
    BY <1>6, <2>1, <2>2 DEF RunState
<1>8. RunTypeOK' /\ JournalFollows' /\ ArraysBack'
  <2>1. run'.claimed <= Len(run'.batch) /\ run'.replayed <= run'.done /\ run'.done + Len(run'.batch) <= RowCount
    BY <1>2, <1>3, <1>6, <1>7
  <2> QED
    BY <1>3, <1>7, <2>1, MemoryStepKeeps DEF RunTypeOK
<1>9. RunKnows'
  <2>1. "claim" \in Batching /\ "claim" \notin Clearing /\ "claim" \notin Scattered
    BY DEF Clearing, Batching, Scattered
  <2>2. router' = Uninterrupted'[d + n]
    BY <1>1, <1>3, <1>4
  <2>3. \A k \in 1 .. Len(outs) : outs[k] = Outputs'[d + k]
    BY <1>1, <1>5, <1>6
  <2>4. cache' = cache /\ Len(journal'.shown) = d
    BY <1>2, <1>3
  <2>5. \A p \in Ordinal : cache'.owner[p] <= d + 0
    BY <1>2, <2>4
  <2>6. Len(run'.batch) = n /\ \A k \in 1 .. 0 : FALSE
    BY <1>6, <1>7
  <2> QED
    BY <1>7, <2>1, <2>2, <2>3, <2>4, <2>5, <2>6 DEF RunKnows
<1> QED
  BY <1>8, <1>9

\* The row of the next ordinal is claimed: only the ordinal itself could own it.
LEMMA ClaimKeeps ==
  ASSUME RoutingAssumption, RoutingInv, Claim
  PROVE  RoutingInv'
<1> USE OrderIs DEF RoutingInv
<1>1. rows' = rows /\ Outputs' = Outputs /\ Uninterrupted' = Uninterrupted
  BY OutputsStay DEF Claim
<1> DEFINE d == run.done
           c == run.claimed
           next == d + c + 1
           row == Order[next]
<1>2. /\ run \in RunState /\ run.at = "claim" /\ d \in 0 .. RowCount /\ c \in Nat /\ c < Len(run.batch)
      /\ Len(run.batch) \in Nat /\ d + Len(run.batch) <= RowCount /\ d = Len(journal.shown)
      /\ \A p \in Ordinal : cache.owner[p] <= d + c
  BY DEF Claim, RunTypeOK, RunState, RunKnows
<1>a. d \in Nat /\ c \in Nat /\ d + c < RowCount
  <2>1. d \in Nat /\ c \in Nat /\ RowCount \in Nat
    BY <1>2
  <2>2. Len(run.batch) \in Nat /\ d + Len(run.batch) <= RowCount /\ c < Len(run.batch)
    BY <1>2
  <2> QED
    BY <2>1, <2>2
<1>3. next \in Ordinal /\ row \in Ordinal /\ next \in 0 .. RowCount /\ next # 0
  <2> HIDE DEF d, c
  <2>2. next \in 1 .. RowCount
    BY <1>a
  <2> QED
    BY <2>2
<1>4. cache \in Layout /\ cache.owner \in [Ordinal -> 0 .. RowCount]
      /\ cache.position \in [Ordinal -> 0 .. RowCount]
  BY DEF RunTypeOK, Layout
<1>5. cache.owner[row] = 0
  <2> SUFFICES ASSUME cache.owner[row] # 0 PROVE FALSE
    OBVIOUS
  <2>1. cache.owner[row] \in Ordinal /\ Order[cache.owner[row]] = row
    BY <1>3, <1>4 DEF ArraysBack
  <2>2. cache.owner[row] = next
    BY <1>3, <2>1
  <2> QED
    BY <1>2, <1>3, <2>2
<1>6. /\ cache' = [cache EXCEPT !.position[next] = row, !.owner[row] = next]
      /\ run' = [run EXCEPT !.claimed = @ + 1]
      /\ UNCHANGED <<rows, stored, journal, router, faults>>
  BY <1>5 DEF Claim
<1>7. /\ cache' \in Layout
      /\ cache'.position = [cache.position EXCEPT ![next] = row]
      /\ cache'.owner = [cache.owner EXCEPT ![row] = next]
      /\ cache'.routed = cache.routed
  <2> DEFINE pos == [cache.position EXCEPT ![next] = row]
             own == [cache.owner EXCEPT ![row] = next]
  <2>1. pos \in [Ordinal -> 0 .. RowCount] /\ own \in [Ordinal -> 0 .. RowCount]
    <3>1. row \in 0 .. RowCount
      BY <1>3
    <3> HIDE DEF next, row
    <3> QED
      BY <1>3, <1>4, <3>1
  <2>2. cache' = [[cache EXCEPT !.position = pos] EXCEPT !.owner = own]
    <3> HIDE DEF next, row
    <3> QED
      BY <1>4, <1>6 DEF Layout
  <2> HIDE DEF pos, own
  <2>3. cache' \in Layout /\ cache'.position = pos /\ cache'.owner = own /\ cache'.routed = cache.routed
    BY <1>4, <2>1, <2>2 DEF Layout
  <2> QED
    BY <2>3 DEF pos, own
<1>8. /\ run'.at = "claim" /\ run'.done = d /\ run'.replayed = run.replayed
      /\ run'.batch = run.batch /\ run'.claimed = c + 1 /\ run' \in RunState
  <2>1. run' = [run EXCEPT !.claimed = c + 1] /\ c + 1 \in Nat
    BY <1>a, <1>6
  <2>2. run \in RunState /\ run.at = "claim" /\ run.done = d
    BY <1>2
  <2> HIDE DEF next, row, c, d
  <2> QED
    BY <2>1, <2>2 DEF RunState
<1>9. \A i \in Ordinal : i # next => Order[i] # row /\ cache'.position[i] = cache.position[i]
                                      /\ cache'.owner[Order[i]] = cache.owner[Order[i]]
  BY <1>3, <1>4, <1>7
<1>10. cache'.position[next] = row /\ cache'.owner[row] = next
  BY <1>3, <1>4, <1>7
<1>11. \A p \in Ordinal : cache'.owner[p] = IF p = row THEN next ELSE cache.owner[p]
  BY <1>3, <1>4, <1>7
<1> DEFINE n == Len(journal.shown)
<1>12. \A i \in 1 .. n : i \in Ordinal /\ i # next
  BY <1>2
<1>13. \A k \in 1 .. c : d + k \in Ordinal /\ d + k # next
  <2> HIDE DEF d, c
  <2>2. \A k \in 1 .. c : d + k \in 1 .. RowCount /\ d + k # next
    BY <1>a
  <2> QED
    BY <2>2
<1> HIDE DEF next, row, d, c, n
<1>14. RunTypeOK'
  <2>1. run'.claimed <= Len(run'.batch) /\ run'.replayed <= run'.done /\ run'.done + Len(run'.batch) <= RowCount
    BY <1>2, <1>8 DEF RunTypeOK, d
  <2> QED
    BY <1>1, <1>6, <1>7, <1>8, <2>1 DEF RunTypeOK, RunState
<1>15. JournalFollows'
  BY <1>1, <1>6 DEF JournalFollows
<1>16. ArraysBack'
  <2>1. \A i \in 1 .. n : cache'.position[i] = Order[i] /\ cache'.owner[Order[i]] = i /\ cache'.routed[Order[i]] = Outputs[i]
    BY <1>7, <1>9, <1>12 DEF ArraysBack, Holds, n
  <2>2. Holds(cache, n)' /\ Holds(stored, n)'
    BY <1>1, <1>6, <2>1 DEF ArraysBack, Holds, n
  <2>3. \A p \in Ordinal : cache'.owner[p] # 0 => Order[cache'.owner[p]] = p
    BY <1>11 DEF ArraysBack, row
  <2> QED
    BY <1>6, <2>2, <2>3 DEF ArraysBack, n
<1>17. RunKnows'
  <2>1. "claim" \in Batching /\ "claim" \notin Clearing /\ "claim" \notin Scattered
    BY DEF Clearing, Batching, Scattered
  <2>2. \A p \in Ordinal : cache'.owner[p] <= d + (c + 1)
    <3> SUFFICES ASSUME NEW p \in Ordinal PROVE cache'.owner[p] <= d + (c + 1)
      OBVIOUS
    <3>1. cache.owner[p] \in Nat /\ cache.owner[p] <= d + c /\ d \in Nat /\ c \in Nat
      BY <1>2, <1>4 DEF d, c
    <3>2. cache'.owner[p] \in {d + c + 1, cache.owner[p]}
      BY <1>11 DEF next
    <3> QED
      BY <3>1, <3>2
  <2>3. ASSUME NEW k \in 1 .. c + 1
        PROVE  cache'.position[d + k] = Order[d + k] /\ cache'.owner[Order[d + k]] = d + k
    <3>1. CASE k \in 1 .. c
      <4>1. cache.position[d + k] = Order[d + k] /\ cache.owner[Order[d + k]] = d + k
        BY <1>2, <2>1, <3>1 DEF RunKnows, d, c
      <4> QED
        BY <1>9, <1>13, <3>1, <4>1
    <3>2. CASE k = c + 1
      <4>0. \A i, j \in Nat : i + (j + 1) = i + j + 1
        OBVIOUS
      <4>1. d + k = next
        BY <1>a, <3>2, <4>0 DEF next
      <4> QED
        BY <1>10, <4>1 DEF row
    <3> QED
      BY <1>2, <3>1, <3>2
  <2>4. /\ \A k \in 1 .. Len(run.batch) : run.batch[k] = Outputs'[d + k]
        /\ router' = Uninterrupted'[d + Len(run.batch)] /\ Len(journal'.shown) = d
    BY <1>1, <1>2, <1>6, <2>1 DEF RunKnows, d
  <2> QED
    BY <1>8, <2>1, <2>2, <2>3, <2>4 DEF RunKnows
<1> QED
  BY <1>14, <1>15, <1>16, <1>17

\* The outputs of the batch reach the rows it claimed and no other.
LEMMA ScatterKeeps ==
  ASSUME RoutingAssumption, RoutingInv, Scatter
  PROVE  RoutingInv'
<1> USE OrderIs DEF RoutingInv
<1>1. rows' = rows /\ Outputs' = Outputs /\ Uninterrupted' = Uninterrupted
  BY OutputsStay DEF Scatter
<1> DEFINE d == run.done
           b == Len(run.batch)
           n == Len(journal.shown)
           routed == [p \in Ordinal |-> IF p \in Claimed THEN run.batch[cache.owner[p] - run.done]
                                        ELSE cache.routed[p]]
<1>2. /\ run \in RunState /\ run.at = "claim" /\ d \in 0 .. RowCount /\ run.claimed = b
      /\ b \in Nat /\ d + b <= RowCount /\ d = n
      /\ \A p \in Ordinal : cache.owner[p] <= d + b
      /\ \A k \in 1 .. b : run.batch[k] = Outputs[d + k]
      /\ \A k \in 1 .. b : cache.position[d + k] = Order[d + k] /\ cache.owner[Order[d + k]] = d + k
      /\ router = Uninterrupted[d + b]
  BY DEF Scatter, RunTypeOK, RunState, RunKnows, Batching
<1>3. /\ cache' = [cache EXCEPT !.routed = routed] /\ run' = [run EXCEPT !.at = "flushPosition"]
      /\ UNCHANGED <<rows, stored, journal, router, faults>>
  BY DEF Scatter, Go
<1>4. \A k \in 1 .. b : d + k \in Ordinal /\ Order[d + k] \in Ordinal
  <2> HIDE DEF d, b
  <2>1. \A k \in 1 .. b : d + k \in 1 .. RowCount
    BY <1>2
  <2> QED
    BY <2>1
<1>5. Claimed = {Order[d + k] : k \in 1 .. b}
  <2>1. Claimed = {cache.position[d + k] : k \in 1 .. b}
    BY <1>2 DEF Claimed
  <2> HIDE DEF d, b
  <2>2. \A k \in 1 .. b : cache.position[d + k] = Order[d + k]
    BY <1>2
  <2> QED
    BY <2>1, <2>2
<1>6. ASSUME NEW k \in 1 .. b PROVE routed[Order[d + k]] = Outputs[d + k]
  <2>1. routed[Order[d + k]] = run.batch[cache.owner[Order[d + k]] - run.done]
    BY <1>4, <1>5
  <2>2. cache.owner[Order[d + k]] - run.done = k
    BY <1>2
  <2> QED
    BY <1>2, <2>1, <2>2
<1>7. ASSUME NEW i \in 1 .. n PROVE routed[Order[i]] = cache.routed[Order[i]]
  <2>1. i \in Ordinal /\ \A k \in 1 .. b : i # d + k
    BY <1>2
  <2>2. Order[i] \in Ordinal /\ Order[i] \notin Claimed
    BY <1>4, <1>5, <2>1
  <2> QED
    BY <2>2
<1>8. routed \in [Ordinal -> Output \cup {NoOutput}]
  <2>1. ASSUME NEW p \in Ordinal PROVE routed[p] \in Output \cup {NoOutput}
    <3>1. CASE p \in Claimed
      <4>1. PICK k \in 1 .. b : p = Order[d + k]
        BY <1>5, <3>1
      <4>2. d + k \in Ordinal /\ Outputs[d + k] \in Output
        BY <1>4, OutputsAre DEF RunTypeOK
      <4> QED
        BY <1>6, <4>1, <4>2
    <3>2. CASE p \notin Claimed
      BY <3>2 DEF RunTypeOK, Layout
    <3> QED
      BY <3>1, <3>2
  <2> QED
    BY <2>1
<1> HIDE DEF routed
<1>9. /\ cache' \in Layout /\ cache'.position = cache.position /\ cache'.owner = cache.owner
      /\ cache'.routed = routed
  BY <1>3, <1>8 DEF RunTypeOK, Layout
<1>10. /\ run'.at = "flushPosition" /\ run'.done = d /\ run'.replayed = run.replayed
       /\ run'.batch = run.batch /\ run'.claimed = b /\ run' \in RunState
  BY <1>2, <1>3 DEF RunState, Batching
<1> HIDE DEF d, b, n
<1>11. RunTypeOK'
  <2>1. run'.claimed <= Len(run'.batch) /\ run'.replayed <= run'.done /\ run'.done + Len(run'.batch) <= RowCount
    BY <1>2, <1>10 DEF RunTypeOK, d, b
  <2> QED
    BY <1>1, <1>3, <1>9, <1>10, <2>1 DEF RunTypeOK, RunState
<1>12. JournalFollows'
  BY <1>1, <1>3 DEF JournalFollows
<1>13. ArraysBack'
  <2>1. \A i \in 1 .. n : /\ cache'.position[i] = Order[i] /\ cache'.owner[Order[i]] = i
                          /\ cache'.routed[Order[i]] = Outputs[i]
    BY <1>7, <1>9 DEF ArraysBack, Holds, n
  <2>2. Holds(cache, n)' /\ Holds(stored, n)'
    BY <1>1, <1>3, <2>1 DEF ArraysBack, Holds, n
  <2> QED
    BY <1>3, <1>9, <2>2 DEF ArraysBack, n
<1>14. RunKnows'
  <2>1. /\ "flushPosition" \in Batching /\ "flushPosition" \notin Clearing
        /\ "flushPosition" \in Scattered
    BY DEF Clearing, Batching, Scattered
  <2>2. /\ \A k \in 1 .. b : run.batch[k] = Outputs'[d + k]
        /\ router' = Uninterrupted'[d + b] /\ Len(journal'.shown) = d
        /\ \A k \in 1 .. b : cache'.position[d + k] = Order[d + k] /\ cache'.owner[Order[d + k]] = d + k
        /\ \A k \in 1 .. b : cache'.routed[Order[d + k]] = Outputs'[d + k]
        /\ \A p \in Ordinal : cache'.owner[p] <= d + b
    BY <1>1, <1>2, <1>3, <1>6, <1>9 DEF n
  <2>3. Len(run'.batch) = b
    BY <1>10 DEF b
  <2> QED
    BY <1>10, <2>1, <2>2, <2>3 DEF RunKnows
<1> QED
  BY <1>11, <1>12, <1>13, <1>14

LEMMA FamilyIsSequence ==
  ASSUME NEW S, NEW b \in Nat, NEW f, f = [k \in 1 .. b |-> f[k]], \A k \in 1 .. b : f[k] \in S
  PROVE  f \in Seq(S) /\ Len(f) = b
<1>1. f \in [1 .. b -> S]
  OBVIOUS
<1> QED
  BY <1>1

LEMMA Joined ==
  ASSUME NEW S, NEW s \in Seq(S), NEW t \in Seq(S)
  PROVE  /\ s \o t \in Seq(S) /\ Len(s \o t) = Len(s) + Len(t)
         /\ \A i \in 1 .. Len(s) + Len(t) : (s \o t)[i] = IF i <= Len(s) THEN s[i] ELSE t[i - Len(s)]
OBVIOUS

\* The rows the journal comes to name are on the disk under their owner.
LEMMA PublishKeeps ==
  ASSUME RoutingAssumption, RoutingInv, PublishJournal
  PROVE  RoutingInv'
<1> USE OrderIs DEF RoutingInv
<1>1. rows' = rows /\ Outputs' = Outputs /\ Uninterrupted' = Uninterrupted
  BY OutputsStay DEF PublishJournal
<1> DEFINE d == run.done
           b == Len(run.batch)
           entry(i) == [position |-> Order[i], output |-> Outputs[i]]
           added == [k \in 1 .. b |-> [position |-> cache.position[d + k],
                                       output |-> cache.routed[cache.position[d + k]]]]
           log == journal.shown
<1>2. /\ run \in RunState /\ run.at = "publish" /\ d \in 0 .. RowCount /\ run.claimed = b
      /\ b \in Nat /\ d + b <= RowCount /\ d = Len(log)
      /\ \A p \in Ordinal : cache.owner[p] <= d + b
      /\ \A k \in 1 .. b : run.batch[k] = Outputs[d + k]
      /\ \A k \in 1 .. b : cache.position[d + k] = Order[d + k] /\ cache.owner[Order[d + k]] = d + k
      /\ \A k \in 1 .. b : cache.routed[Order[d + k]] = Outputs[d + k]
      /\ stored.position = cache.position /\ stored.owner = cache.owner /\ stored.routed = cache.routed
      /\ router = Uninterrupted[d + b]
  BY DEF PublishJournal, RunTypeOK, RunState, RunKnows, Batching, Scattered
<1>n. d \in Nat /\ b \in Nat /\ d + b <= RowCount /\ RowCount \in Nat
  <2>1. RowCount \in Nat /\ b \in Nat /\ d + b <= RowCount
    BY <1>2
  <2>2. d \in Nat
    BY <1>2
  <2> QED
    BY <2>1, <2>2
<1>3. /\ journal' = [journal EXCEPT !.shown = log \o added] /\ run' = [run EXCEPT !.at = "syncJournal"]
      /\ UNCHANGED <<rows, cache, stored, router, faults>>
  BY DEF PublishJournal, Go
<1>4. journal \in [shown : Log, onDisk : Log]
  BY DEF RunTypeOK
<1>5. ASSUME NEW i \in Ordinal PROVE entry(i) \in [position : Ordinal, output : Output]
  BY OutputsAre DEF RunTypeOK
<1>6. \A k \in 1 .. b : d + k \in Ordinal /\ added[k] = entry(d + k)
  <2>1. \A k \in 1 .. b : added[k] = entry(d + k)
    BY <1>2
  <2> HIDE DEF d, b
  <2>3. \A k \in 1 .. b : d + k \in 1 .. RowCount
    BY <1>n
  <2> QED
    BY <2>1, <2>3
<1>7. added \in Log /\ Len(added) = b
  <2> DEFINE E == [position : Ordinal, output : Output]
  <2>1. \A k \in 1 .. b : added[k] \in E
    BY <1>5, <1>6
  <2>2. added = [k \in 1 .. b |-> added[k]]
    OBVIOUS
  <2>3. added \in Seq(E) /\ Len(added) = b
    <3> HIDE DEF entry, d, b, added, E
    <3> QED
      BY <1>n, <2>1, <2>2, FamilyIsSequence
  <2> QED
    BY <2>3 DEF Log
<1> HIDE DEF added, entry
<1>8. /\ log \o added \in Log /\ Len(log \o added) = d + b
      /\ \A i \in 1 .. d + b : (log \o added)[i] = IF i <= d THEN log[i] ELSE added[i - d]
  <2>1. log \in Log /\ Len(log) = d
    BY <1>2, <1>4
  <2> DEFINE E == [position : Ordinal, output : Output]
  <2>2. log \in Seq(E) /\ added \in Seq(E)
    BY <1>7, <2>1 DEF Log
  <2>3. /\ log \o added \in Seq(E) /\ Len(log \o added) = Len(log) + Len(added)
        /\ \A i \in 1 .. Len(log) + Len(added) :
              (log \o added)[i] = IF i <= Len(log) THEN log[i] ELSE added[i - Len(log)]
    <3> HIDE DEF log, E
    <3> QED
      BY <2>2, Joined
  <2> QED
    BY <1>7, <2>1, <2>3 DEF Log
<1>9. ASSUME NEW i \in 1 .. d + b PROVE (log \o added)[i] = entry(i)
  <2>1. CASE i <= d
    <3>1. i \in 1 .. Len(log)
      BY <1>2, <2>1
    <3> QED
      BY <1>8, <2>1, <3>1 DEF JournalFollows, entry
  <2>2. CASE ~ (i <= d)
    <3>1. i - d \in 1 .. b /\ d + (i - d) = i
      <4> HIDE DEF d, b
      <4> QED
        BY <1>n, <2>2
    <3> QED
      BY <1>6, <1>8, <2>2, <3>1
  <2> QED
    BY <2>1, <2>2
<1>10. /\ journal'.shown = log \o added /\ journal'.onDisk = journal.onDisk
       /\ journal' \in [shown : Log, onDisk : Log]
  <2> HIDE DEF log
  <2> QED
    BY <1>3, <1>4, <1>8
<1>11. /\ run'.at = "syncJournal" /\ run'.done = d /\ run'.replayed = run.replayed
       /\ run'.batch = run.batch /\ run'.claimed = b /\ run' \in RunState
  BY <1>2, <1>3 DEF RunState, Batching
<1> HIDE DEF d, b, log
<1>12. RunTypeOK'
  <2>1. run'.claimed <= Len(run'.batch) /\ run'.replayed <= run'.done /\ run'.done + Len(run'.batch) <= RowCount
    BY <1>2, <1>11 DEF RunTypeOK, d, b
  <2> QED
    BY <1>1, <1>3, <1>10, <1>11, <2>1 DEF RunTypeOK, RunState
<1>13. JournalFollows'
  <2>1. /\ Len(journal'.shown) = d + b /\ d + b <= RowCount /\ Len(journal'.onDisk) <= d + b
        /\ Len(journal'.onDisk) <= RowCount
    <3>1. Len(journal.onDisk) <= d /\ Len(journal.onDisk) \in Nat /\ d \in Nat /\ b \in Nat
      BY <1>2, LogLength DEF JournalFollows, log
    <3> QED
      BY <1>2, <1>8, <1>10, <3>1
  <2>2. \A i \in 1 .. d + b : journal'.shown[i] = [position |-> Order[i], output |-> Outputs'[i]]
    BY <1>1, <1>9, <1>10 DEF entry
  <2>3. \A i \in 1 .. Len(journal'.onDisk) :
          journal'.onDisk[i] = [position |-> Order[i], output |-> Outputs'[i]]
    BY <1>1, <1>10 DEF JournalFollows
  <2> QED
    BY <2>1, <2>2, <2>3 DEF JournalFollows
<1>14. ASSUME NEW i \in 1 .. d + b
       PROVE  /\ cache.position[i] = Order[i] /\ cache.owner[Order[i]] = i
              /\ cache.routed[Order[i]] = Outputs[i]
  <2>1. CASE i <= d
    <3>1. i \in 1 .. Len(log)
      BY <1>2, <2>1
    <3>2. Holds(cache, Len(log))
      BY DEF ArraysBack, log
    <3> HIDE DEF RoutingInv
    <3> QED
      BY <3>1, <3>2 DEF Holds
  <2>2. CASE ~ (i <= d)
    <3>1. i - d \in 1 .. b /\ d + (i - d) = i
      <4> HIDE DEF d, b
      <4> QED
        BY <1>n, <2>2
    <3>2. /\ cache.position[d + (i - d)] = Order[d + (i - d)]
          /\ cache.owner[Order[d + (i - d)]] = d + (i - d)
          /\ cache.routed[Order[d + (i - d)]] = Outputs[d + (i - d)]
      BY <1>2, <3>1
    <3> QED
      BY <3>1, <3>2
  <2> QED
    BY <2>1, <2>2
<1>15. ArraysBack'
  <2>1. Len(journal'.shown) = d + b
    BY <1>8, <1>10
  <2>2. \A arrays \in {cache', stored'} : \A i \in 1 .. d + b :
          /\ arrays.position[i] = Order[i] /\ arrays.owner[Order[i]] = i
          /\ arrays.routed[Order[i]] = Outputs'[i]
    BY <1>1, <1>2, <1>3, <1>14
  <2>3. \A arrays \in {cache', stored'} : \A p \in Ordinal :
          arrays.owner[p] # 0 => Order[arrays.owner[p]] = p
    BY <1>3 DEF ArraysBack
  <2> HIDE DEF RoutingInv
  <2> QED
    BY <2>1, <2>2, <2>3 DEF ArraysBack, Holds
<1>16. RunKnows'
  <2>1. /\ "syncJournal" \in Batching /\ "syncJournal" \notin Clearing
        /\ "syncJournal" \in Scattered
    BY DEF Clearing, Batching, Scattered
  <2>2. /\ \A k \in 1 .. b : run.batch[k] = Outputs'[d + k]
        /\ router' = Uninterrupted'[d + b] /\ d + b = Len(journal'.shown)
        /\ \A k \in 1 .. b : cache'.position[d + k] = Order[d + k] /\ cache'.owner[Order[d + k]] = d + k
        /\ \A k \in 1 .. b : cache'.routed[Order[d + k]] = Outputs'[d + k]
        /\ \A p \in Ordinal : cache'.owner[p] <= d + b
    BY <1>1, <1>2, <1>3, <1>8, <1>10
  <2>3. Len(run'.batch) = b
    BY <1>11 DEF b
  <2> QED
    BY <1>11, <2>1, <2>2, <2>3 DEF RunKnows
<1> QED
  BY <1>12, <1>13, <1>15, <1>16

LEMMA SyncJournalKeeps ==
  ASSUME RoutingAssumption, RoutingInv, SyncJournal
  PROVE  RoutingInv'
<1> USE OrderIs DEF RoutingInv
<1>1. rows' = rows /\ Outputs' = Outputs /\ Uninterrupted' = Uninterrupted
  BY OutputsStay DEF SyncJournal
<1> DEFINE total == run.done + Len(run.batch)
<1>2. /\ run \in RunState /\ total \in 0 .. RowCount /\ total = Len(journal.shown)
      /\ run.claimed = Len(run.batch) /\ \A p \in Ordinal : cache.owner[p] <= total
      /\ router = Uninterrupted[total]
  BY DEF SyncJournal, RunTypeOK, RunState, RunKnows, Batching, Scattered
<1>3. /\ journal' = [journal EXCEPT !.onDisk = journal.shown]
      /\ run' = [Closed EXCEPT !.at = "ready", !.done = total]
      /\ UNCHANGED <<rows, cache, stored, router, faults>>
  BY DEF SyncJournal
<1> HIDE DEF total
<1>4. run' = [at |-> "ready", done |-> total, replayed |-> 0, batch |-> <<>>, claimed |-> 0]
  BY <1>3 DEF Closed
<1>5. /\ journal'.shown = journal.shown /\ journal'.onDisk = journal.shown
      /\ journal' \in [shown : Log, onDisk : Log]
  BY <1>3 DEF RunTypeOK
<1>6. RunTypeOK'
  <2>1. run' \in RunState
    BY <1>2, <1>4 DEF RunState, Clearing
  <2>2. run'.claimed <= Len(run'.batch) /\ run'.replayed <= run'.done /\ run'.done + Len(run'.batch) <= RowCount
    BY <1>2, <1>4
  <2> QED
    BY <1>1, <1>3, <1>5, <2>1, <2>2 DEF RunTypeOK, RunState
<1>7. JournalFollows'
  BY <1>1, <1>5, LogLength DEF JournalFollows
<1>8. ArraysBack'
  BY <1>1, <1>3, <1>5 DEF ArraysBack, Holds
<1>9. RunKnows'
  <2>1. "ready" \in Clearing /\ "ready" \notin Batching /\ "ready" \notin Scattered
    BY DEF Clearing, Batching, Scattered
  <2>2. /\ router' = Uninterrupted'[total] /\ total = Len(journal'.shown)
        /\ \A p \in Ordinal : cache'.owner[p] <= total + 0
    BY <1>1, <1>2, <1>3, <1>5
  <2>3. run'.at = "ready" /\ run'.done = total /\ run'.batch = <<>> /\ run'.claimed = 0
    BY <1>4
  <2> QED
    BY <2>1, <2>2, <2>3 DEF RunKnows
<1> QED
  BY <1>6, <1>7, <1>8, <1>9

\* Nothing of a run is left in memory after a fault.
LEMMA FaultForgets ==
  ASSUME RoutingAssumption, RoutingInv, Fault
  PROVE  /\ RunKnows' /\ run' \in RunState /\ faults' \in 0 .. MaxFaults
         /\ run'.claimed <= Len(run'.batch) /\ run'.replayed <= run'.done
         /\ run'.done + Len(run'.batch) <= RowCount
<1>1. run' = Closed /\ router' = NoDevices
  BY DEF Fault
<1>2. /\ run'.at = "closed" /\ run'.done = 0 /\ run'.replayed = 0 /\ run'.batch = <<>> /\ run'.claimed = 0
  BY <1>1 DEF Closed
<1>3. run' \in RunState
  BY <1>1, OrderIs DEF Closed, RunState
<1>4. RunKnows'
  <2>1. "closed" \notin Batching /\ "closed" \notin Clearing /\ "closed" \notin Scattered
    BY DEF Batching, Clearing, Scattered
  <2> QED
    BY <1>1, <1>2, <2>1 DEF RunKnows, Closed
<1>5. faults' \in 0 .. MaxFaults
  BY OrderIs DEF Fault, RoutingInv, RunTypeOK
<1> QED
  BY <1>2, <1>3, <1>4, <1>5, OrderIs

LEMMA CrashKeeps ==
  ASSUME RoutingAssumption, RoutingInv, Crash
  PROVE  RoutingInv'
<1>1. Fault /\ UNCHANGED <<rows, cache, stored, journal>>
  BY DEF Crash, Fault
<1> QED
  BY <1>1, FaultForgets, MemoryStepKeeps DEF RoutingInv

\* Each element that a power loss leaves is the page cache's or the disk's.
LEMMA Survives ==
  ASSUME NEW array, NEW left \in Survivors(array)
  PROVE  left = [i \in Ordinal |-> left[i]]
         /\ \A i \in Ordinal : left[i] = cache[array][i] \/ left[i] = stored[array][i]
BY DEF Survivors

LEMMA PowerLossKeeps ==
  ASSUME RoutingAssumption, RoutingInv, PowerLoss
  PROVE  RoutingInv'
<1> USE OrderIs DEF RoutingInv
<1>1. rows' = rows /\ Outputs' = Outputs /\ Uninterrupted' = Uninterrupted
  BY OutputsStay DEF PowerLoss, Fault
<1>2. PICK p \in Survivors("position"), o \in Survivors("owner"), r \in Survivors("routed") :
        cache' = [position |-> p, owner |-> o, routed |-> r]
  BY DEF PowerLoss
<1>3. stored' = cache' /\ Fault
  BY DEF PowerLoss
<1>4. PICK log \in {journal.shown, journal.onDisk} : journal' = [shown |-> log, onDisk |-> log]
  BY DEF PowerLoss
<1>5. /\ cache'.position = p /\ cache'.owner = o /\ cache'.routed = r
      /\ p = [i \in Ordinal |-> p[i]] /\ o = [i \in Ordinal |-> o[i]] /\ r = [i \in Ordinal |-> r[i]]
      /\ \A i \in Ordinal : /\ p[i] = cache.position[i] \/ p[i] = stored.position[i]
                            /\ o[i] = cache.owner[i] \/ o[i] = stored.owner[i]
                            /\ r[i] = cache.routed[i] \/ r[i] = stored.routed[i]
  BY <1>2, Survives
<1>6. cache' \in Layout
  <2>1. \A i \in Ordinal : p[i] \in 0 .. RowCount /\ o[i] \in 0 .. RowCount /\ r[i] \in Output \cup {NoOutput}
    BY <1>5 DEF RunTypeOK, Layout
  <2>2. /\ p \in [Ordinal -> 0 .. RowCount] /\ o \in [Ordinal -> 0 .. RowCount]
        /\ r \in [Ordinal -> Output \cup {NoOutput}]
    BY <1>5, <2>1
  <2> QED
    BY <1>2, <2>2 DEF Layout
<1>7. /\ journal'.shown = log /\ journal'.onDisk = log /\ journal' \in [shown : Log, onDisk : Log]
      /\ Len(log) <= Len(journal.shown) /\ Len(log) \in 0 .. RowCount
  <2>1. log \in Log /\ Len(log) <= Len(journal.shown) /\ Len(log) \in 0 .. RowCount
    BY LogLength DEF RunTypeOK, JournalFollows
  <2> QED
    BY <1>4, <2>1
<1>8. RunTypeOK'
  BY <1>1, <1>3, <1>6, <1>7, FaultForgets DEF RunTypeOK, RunState
<1>9. JournalFollows'
  <2>1. \A i \in 1 .. Len(log) : log[i] = [position |-> Order[i], output |-> Outputs[i]]
    BY DEF JournalFollows
  <2> QED
    BY <1>1, <1>7, <2>1 DEF JournalFollows
<1>10. ArraysBack'
  <2>1. ASSUME NEW i \in 1 .. Len(log)
        PROVE  p[i] = Order[i] /\ o[Order[i]] = i /\ r[Order[i]] = Outputs[i]
    <3>1. i \in 1 .. Len(journal.shown) /\ i \in Ordinal /\ Order[i] \in Ordinal
      BY <1>7, LogLength
    <3>2. /\ cache.position[i] = Order[i] /\ cache.owner[Order[i]] = i /\ cache.routed[Order[i]] = Outputs[i]
          /\ stored.position[i] = Order[i] /\ stored.owner[Order[i]] = i /\ stored.routed[Order[i]] = Outputs[i]
      BY <3>1 DEF ArraysBack, Holds
    <3> QED
      BY <1>5, <3>1, <3>2
  <2>2. \A i \in Ordinal : o[i] # 0 => Order[o[i]] = i
    <3> SUFFICES ASSUME NEW i \in Ordinal, o[i] # 0 PROVE Order[o[i]] = i
      OBVIOUS
    <3>1. o[i] = cache.owner[i] \/ o[i] = stored.owner[i]
      BY <1>5
    <3> QED
      BY <3>1 DEF ArraysBack
  <2>3. Holds(cache, Len(log))'
    BY <1>1, <1>5, <1>7, <2>1 DEF Holds
  <2> QED
    <3>1. Holds(stored, Len(log))'
      BY <1>3, <2>3 DEF Holds
    <3>2. \A arrays \in {cache', stored'} : \A i \in Ordinal : arrays.owner[i] # 0 => Order[arrays.owner[i]] = i
      BY <1>3, <1>5, <2>2
    <3> QED
      BY <1>7, <2>3, <3>1, <3>2 DEF ArraysBack
<1> QED
  BY <1>3, <1>8, <1>9, <1>10, FaultForgets

LEMMA RoutingKeeps ==
  ASSUME RoutingAssumption, RoutingInv, [RoutingNext]_routingVars
  PROVE  RoutingInv'
<1>1. CASE RoutingNext
  BY <1>1, OpenKeeps, FlushKeeps, ReplayKeeps, PlaceKeeps, RouteKeeps, ClaimKeeps, ScatterKeeps,
     PublishKeeps, SyncJournalKeeps, CrashKeeps, PowerLossKeeps DEF RoutingNext, Advance
<1>2. CASE UNCHANGED routingVars
  <2>1. UNCHANGED <<rows, cache, stored, journal, router, run, faults>> /\ Outputs' = Outputs
        /\ Uninterrupted' = Uninterrupted
    BY <1>2, OutputsStay DEF routingVars
  <2>2. RunTypeOK' /\ JournalFollows' /\ ArraysBack'
    BY <2>1 DEF RoutingInv, RunTypeOK, JournalFollows, ArraysBack, Holds
  <2>3. RunKnows'
    BY <2>1 DEF RoutingInv, RunKnows
  <2> QED
    BY <2>2, <2>3 DEF RoutingInv
<1> QED
  BY <1>1, <1>2

-----------------------------------------------------------------------------
(* The temporal machine *)

LEMMA SequenceIs ==
  ASSUME NEW D, NEW s \in Seq(D)
  PROVE  /\ Len(s) \in Nat /\ DOMAIN s = 1 .. Len(s) /\ \A i \in 1 .. Len(s) : s[i] \in D
         /\ ToSet(s) = {s[i] : i \in 1 .. Len(s)}
         /\ IsInjective(s) <=> \A i, j \in 1 .. Len(s) : s[i] = s[j] => i = j
BY DEF ToSet, IsInjective

LEMMA RemovedIs ==
  ASSUME NEW D, NEW s \in Seq(D), IsInjective(s), NEW gap \in 1 .. Len(s)
  PROVE  /\ RemoveAt(s, gap) \in Seq(D) /\ IsInjective(RemoveAt(s, gap))
         /\ Len(RemoveAt(s, gap)) = Len(s) - 1
         /\ ToSet(RemoveAt(s, gap)) = ToSet(s) \ {s[gap]}
<1> DEFINE n == Len(s)
           left == SubSeq(s, 1, gap - 1)
           right == SubSeq(s, gap + 1, n)
           w == left \o right
<1>1. n \in Nat /\ gap \in Nat /\ gap \in 1 .. n
  BY SequenceIs
<1>2. RemoveAt(s, gap) = w
  BY Zenon DEF RemoveAt
<1>3. /\ left \in Seq(D) /\ Len(left) = gap - 1 /\ \A j \in 1 .. gap - 1 : left[j] = s[j]
  BY <1>1
<1>4. /\ right \in Seq(D) /\ Len(right) = n - gap /\ \A j \in 1 .. n - gap : right[j] = s[j + gap]
  BY <1>1
<1> HIDE DEF left, right
<1>5. w \in Seq(D) /\ Len(w) = n - 1
  <2>1. w \in Seq(D) /\ Len(w) = Len(left) + Len(right)
    BY <1>3, <1>4, Joined
  <2> QED
    BY <1>1, <1>3, <1>4, <2>1
<1>6. ASSUME NEW j \in 1 .. n - 1 PROVE w[j] = IF j < gap THEN s[j] ELSE s[j + 1]
  <2>1. w[j] = IF j <= Len(left) THEN left[j] ELSE right[j - Len(left)]
    BY <1>1, <1>3, <1>4, Joined
  <2>2. CASE j < gap
    <3>1. j \in 1 .. gap - 1 /\ j <= gap - 1
      BY <1>1, <2>2
    <3> QED
      BY <1>3, <2>1, <2>2, <3>1
  <2>3. CASE ~ (j < gap)
    <3>1. ~ (j <= gap - 1) /\ j - (gap - 1) \in 1 .. n - gap /\ j - (gap - 1) + gap = j + 1
      BY <1>1, <2>3
    <3> QED
      BY <1>3, <1>4, <2>1, <2>3, <3>1
  <2> QED
    BY <2>2, <2>3
<1> HIDE DEF w
<1>7. \A i, j \in 1 .. n : s[i] = s[j] => i = j
  BY SequenceIs
<1>8. ASSUME NEW i \in 1 .. n - 1 PROVE i \in 1 .. n /\ i + 1 \in 1 .. n
  BY <1>1
<1> HIDE DEF n
<1>9. ASSUME NEW i \in 1 .. n - 1, NEW j \in 1 .. n - 1, w[i] = w[j] PROVE i = j
  BY <1>1, <1>6, <1>7, <1>8, <1>9
<1>10. ASSUME NEW i \in 1 .. n - 1 PROVE w[i] # s[gap] /\ \E j \in 1 .. n : w[i] = s[j]
  BY <1>1, <1>6, <1>7, <1>8
<1>11. IsInjective(w)
  BY <1>5, <1>9, SequenceIs
<1>12. ToSet(w) = ToSet(s) \ {s[gap]}
  <2>1. ToSet(w) = {w[i] : i \in 1 .. n - 1}
    <3>1. ToSet(w) = {w[i] : i \in 1 .. Len(w)}
      BY <1>5, SequenceIs
    <3> QED
      BY <1>5, <3>1
  <2>2. ToSet(s) = {s[i] : i \in 1 .. n}
    BY SequenceIs DEF n
  <2>3. ASSUME NEW i \in 1 .. n, s[i] # s[gap] PROVE \E j \in 1 .. n - 1 : w[j] = s[i]
    <3>1. CASE i < gap
      <4>1. i \in 1 .. n - 1
        BY <1>1, <3>1 DEF n
      <4> QED
        BY <1>6, <3>1, <4>1
    <3>2. CASE gap < i
      <4>1. i - 1 \in 1 .. n - 1 /\ ~ (i - 1 < gap) /\ i - 1 + 1 = i
        BY <1>1, <3>2 DEF n
      <4> QED
        BY <1>6, <4>1
    <3>3. i < gap \/ gap < i
      <4>1. i # gap /\ i \in Nat /\ gap \in Nat
        BY <1>1, <2>3 DEF n
      <4> QED
        BY <4>1
    <3> QED
      BY <3>1, <3>2, <3>3
  <2>4. ASSUME NEW v \in ToSet(w) PROVE v \in ToSet(s) \ {s[gap]}
    <3>1. PICK i \in 1 .. n - 1 : v = w[i]
      BY <2>1
    <3> QED
      BY <1>10, <2>2, <3>1
  <2>5. ASSUME NEW v \in ToSet(s), v # s[gap] PROVE v \in ToSet(w)
    <3>1. PICK i \in 1 .. n : v = s[i]
      BY <2>2
    <3>2. \E j \in 1 .. n - 1 : w[j] = v
      BY <2>3, <2>5, <3>1
    <3> QED
      BY <2>1, <3>2
  <2> QED
    BY <2>4, <2>5
<1> QED
  BY <1>2, <1>5, <1>11, <1>12 DEF n

LEMMA TouchIs ==
  ASSUME NEW D, NEW s \in Seq(D), IsInjective(s), NEW limit \in Nat \ {0}, Len(s) <= limit,
         NEW key \in D
  PROVE  /\ Touch(s, key, limit) \in Seq(D) /\ IsInjective(Touch(s, key, limit))
         /\ Len(Touch(s, key, limit)) <= limit /\ key \in ToSet(Touch(s, key, limit))
         /\ ToSet(Touch(s, key, limit)) \subseteq ToSet(s) \cup {key}
<1> DEFINE gone == {i \in DOMAIN s : s[i] = key \/ (i = 1 /\ Displaces(s, key, limit))}
           rest == IF gone = {} THEN s ELSE RemoveAt(s, CHOOSE i \in gone : TRUE)
<1>1. DOMAIN s = 1 .. Len(s) /\ Len(s) \in Nat /\ ToSet(s) = {s[i] : i \in 1 .. Len(s)}
  BY SequenceIs
<1>2. /\ rest \in Seq(D) /\ IsInjective(rest) /\ key \notin ToSet(rest) /\ Len(rest) <= limit - 1
      /\ Len(rest) \in Nat /\ ToSet(rest) \subseteq ToSet(s)
  <2>1. CASE gone = {}
    <3>1. key \notin ToSet(s)
      BY <1>1, <2>1
    <3>2. ~ Displaces(s, key, limit)
      BY <1>1, <2>1 DEF Displaces
    <3> QED
      BY <1>1, <2>1, <3>1, <3>2 DEF Displaces
  <2>2. CASE gone # {}
    <3>1. PICK i \in gone : rest = RemoveAt(s, i)
      BY <2>2
    <3>2. i \in 1 .. Len(s) /\ (s[i] = key \/ key \notin ToSet(s))
      BY <1>1, <3>1 DEF Displaces
    <3> HIDE DEF gone, rest
    <3>3. /\ rest \in Seq(D) /\ IsInjective(rest) /\ Len(rest) = Len(s) - 1
          /\ s[i] \notin ToSet(rest) /\ ToSet(rest) \subseteq ToSet(s)
      BY <3>1, <3>2, RemovedIs
    <3> QED
      BY <1>1, <3>2, <3>3
  <2> QED
    BY <2>1, <2>2
<1>3. Touch(s, key, limit) = Append(rest, key)
  BY Zenon DEF Touch
<1> HIDE DEF rest
<1>4. /\ Append(rest, key) \in Seq(D) /\ Len(Append(rest, key)) = Len(rest) + 1
      /\ \A i \in 1 .. Len(rest) : Append(rest, key)[i] = rest[i]
      /\ Append(rest, key)[Len(rest) + 1] = key
  BY <1>2
<1>5. \A i \in 1 .. Len(rest) : rest[i] # key
  BY <1>2, SequenceIs
<1>6. \A i, j \in 1 .. Len(rest) : rest[i] = rest[j] => i = j
  BY <1>2, SequenceIs
<1> DEFINE t == Append(rest, key)
<1> HIDE DEF t
<1>7. ASSUME NEW i \in 1 .. Len(t), NEW j \in 1 .. Len(t), t[i] = t[j] PROVE i = j
  BY <1>2, <1>4, <1>5, <1>6, <1>7 DEF t
<1>8. IsInjective(t) /\ key \in ToSet(t)
  <2>1. t \in Seq(D) /\ Len(t) \in 1 .. Len(t) /\ t[Len(t)] = key
    BY <1>2, <1>4 DEF t
  <2> QED
    BY <1>7, <2>1, SequenceIs
<1>9. ToSet(t) \subseteq ToSet(s) \cup {key}
  <2>0. t \in Seq(D)
    BY <1>4 DEF t
  <2>1. ToSet(t) = {t[i] : i \in 1 .. Len(t)} /\ ToSet(rest) = {rest[i] : i \in 1 .. Len(rest)}
    BY <1>2, <2>0, SequenceIs
  <2>2. ASSUME NEW i \in 1 .. Len(t) PROVE t[i] = key \/ t[i] \in ToSet(rest)
    <3>1. Len(t) = Len(rest) + 1 /\ t[Len(rest) + 1] = key /\ \A j \in 1 .. Len(rest) : t[j] = rest[j]
      BY <1>4 DEF t
    <3>2. i \in 1 .. Len(rest) \/ i = Len(rest) + 1
      BY <1>2, <3>1
    <3> QED
      BY <2>1, <3>1, <3>2
  <2> QED
    BY <1>2, <2>1, <2>2
<1> QED
  BY <1>2, <1>3, <1>4, <1>8, <1>9 DEF t

LEMMA ClipIs ==
  ASSUME Top \in Nat, NEW n \in Int
  PROVE  Clip(n) \in 0 .. Top
BY DEF Clip

LEMMA IntervalsAre ==
  ASSUME MachineAssumption, NEW last \in Time, NEW t \in Time
  PROVE  Intervals(last, t) \in Nat /\ Accounted(last, t) \in Time
<1>1. Interval \in Nat \ {0}
  BY DEF MachineAssumption
<1>2. Intervals(last, t) \in Nat
  BY <1>1 DEF Intervals, Time
<1>3. \A a, b \in Nat : a + b * Interval \in Nat
  BY <1>1
<1>4. Accounted(last, t) \in Time
  BY <1>2, <1>3 DEF Accounted, Time
<1> QED
  BY <1>2, <1>4

LEMMA CountedIs ==
  ASSUME MachineAssumption, NEW c \in [level : [Evidence -> 0 .. Top], last : Time], NEW seen,
         NEW t \in Time
  PROVE  Counted(c, seen, t) \in [level : [Evidence -> 0 .. Top], last : Time]
<1>1. /\ Top \in Nat /\ Increment \in Int /\ -Decay \in Int /\ Decay \in Nat
      /\ c.level \in [Evidence -> 0 .. Top] /\ c.last \in Time
  BY DEF MachineAssumption
<1>2. Intervals(c.last, t) \in Nat /\ Accounted(c.last, t) \in Time
  BY <1>1, IntervalsAre
<1>3. ASSUME NEW e \in Evidence
      PROVE  Clip(c.level[e] + (IF e \in seen THEN Increment ELSE -Decay)
                             - Intervals(c.last, t) * Decay) \in 0 .. Top
  <2>1. Intervals(c.last, t) * Decay \in Int
    BY <1>1, <1>2
  <2>2. c.level[e] \in Int /\ (IF e \in seen THEN Increment ELSE -Decay) \in Int
    BY <1>1
  <2> HIDE DEF MachineAssumption
  <2> QED
    BY <1>1, <2>1, <2>2, ClipIs
<1> QED
  BY <1>2, <1>3 DEF Counted

\* A row keeps the machine in its layout, whatever evidence it brings.
LEMMA UpdateKeeps ==
  ASSUME MachineAssumption, NEW m, IsMachine(m), NEW d \in Device, NEW seen, NEW t \in Time
  PROVE  IsMachine(Update(m, d, seen, t))
<1> DEFINE Counters == [level : [Evidence -> 0 .. Top], last : Time]
           order == Touch(m.order, d, MaxDevices)
           states == [k \in ToSet(order) |-> IF k \in DOMAIN m.states THEN m.states[k] ELSE NewCounters]
           evictions == m.evictions + (IF Displaces(m.order, d, MaxDevices) THEN 1 ELSE 0)
           counted == Counted(states[d], seen, t)
<1>1. MaxDevices \in Nat \ {0} /\ Top \in Nat
  BY DEF MachineAssumption
<1>2. order \in Seq(Device) /\ IsInjective(order) /\ Len(order) <= MaxDevices /\ d \in ToSet(order)
  BY <1>1, TouchIs DEF IsMachine
<1>3. NewCounters \in Counters
  BY <1>1 DEF NewCounters, Time
<1>4. states \in [ToSet(order) -> Counters]
  <2>1. \A k \in DOMAIN m.states : m.states[k] \in Counters
    BY DEF IsMachine
  <2> HIDE DEF Counters, order
  <2> QED
    BY <1>3, <2>1
<1>5. evictions \in Nat
  BY DEF IsMachine
<1>6. Get(m, d) = [order |-> order, states |-> states, evictions |-> evictions]
  BY DEF Get
<1> HIDE DEF order, states, evictions
<1>7. counted \in Counters
  BY <1>2, <1>4, CountedIs
<1>8. Update(m, d, seen, t) =
        [order |-> order, states |-> [states EXCEPT ![d] = counted], evictions |-> evictions]
  BY <1>6 DEF Update
<1> HIDE DEF counted, Counters
<1>9. [states EXCEPT ![d] = counted] \in [ToSet(order) -> Counters]
  BY <1>4, <1>7
<1> QED
  BY <1>2, <1>5, <1>8, <1>9 DEF IsMachine, Counters

LEMMA PassIsMachine ==
  ASSUME RoutingAssumption, rows \in [Ordinal -> RowKind]
  PROVE  \A n \in 0 .. RowCount : IsMachine(Uninterrupted[n])
<1> USE OrderIs
<1> DEFINE S == {n \in 0 .. RowCount : IsMachine(Uninterrupted[n])}
<1>1. 0 \in S
  <2>1. IsMachine(NoDevices)
    BY DEF RoutingAssumption, MachineAssumption, IsMachine, NoDevices, ToSet, IsInjective
  <2>2. 0 \in 0 .. RowCount
    OBVIOUS
  <2> QED
    BY <2>1, <2>2, PassIs
<1>2. ASSUME NEW k \in 1 .. RowCount, k - 1 \in S PROVE k \in S
  <2>1. rows[k] \in Row /\ k \in Ordinal
    BY DEF RoutingAssumption
  <2>2. Uninterrupted[k] = After(Uninterrupted[k - 1], k)
    BY <2>1, PassIs
  <2>3. IsMachine(Uninterrupted[k - 1])
    BY <1>2
  <2>4. rows[k].device \in Device /\ rows[k].at \in Time
    BY <2>1 DEF Row
  <2>5. MachineAssumption
    BY DEF RoutingAssumption
  <2>6. IsMachine(After(Uninterrupted[k - 1], k))
    BY <2>3, <2>4, <2>5, UpdateKeeps DEF After
  <2> QED
    BY <2>2, <2>6
<1> HIDE DEF S
<1>3. \A n \in 0 .. RowCount : n \in S
  BY <1>1, <1>2, UpTo
<1> QED
  BY <1>3 DEF S

-----------------------------------------------------------------------------
(* What holds of routing *)

LEMMA RoutingIsTyped ==
  ASSUME RoutingAssumption, RoutingInv
  PROVE  RoutingTypeOK
<1> USE OrderIs DEF RoutingInv
<1>1. rows \in [Ordinal -> RowKind]
  BY DEF RunTypeOK
<1>2. \A arrays \in {cache, stored} :
        /\ DOMAIN arrays = Arrays
        /\ arrays.position \in [Ordinal -> 0 .. RowCount]
        /\ arrays.owner \in [Ordinal -> 0 .. RowCount]
        /\ arrays.routed \in [Ordinal -> Output \cup {NoOutput}]
  BY DEF RunTypeOK, Layout, Arrays
<1>3. \A log \in {journal.shown, journal.onDisk} : log \in Seq([position : Ordinal, output : Output])
  BY DEF RunTypeOK, Log
<1>4. run \in RunState /\ run.batch \in Seq(Output) /\ Len(run.batch) \in Nat /\ faults \in 0 .. MaxFaults
      /\ run.done \in 0 .. RowCount
  BY DEF RunTypeOK, RunState
<1>5. /\ run.claimed \in 0 .. Len(run.batch) /\ run.replayed \in 0 .. run.done
      /\ run.done + Len(run.batch) <= RowCount
  BY <1>4 DEF RunTypeOK, RunState
<1>6. IsMachine(router)
  <2>1. \E n \in 0 .. RowCount : router = Uninterrupted[n]
    <3>1. CASE run.at \in {"closed", "flushCleared"}
      BY <3>1, PassIs DEF RunKnows
    <3>2. CASE run.at = "replay"
      BY <1>4, <1>5, <3>2 DEF RunKnows
    <3>3. CASE run.at \in {"ready", "done"}
      BY <1>4, <3>3 DEF RunKnows
    <3>4. CASE run.at \in Batching
      <4>1. run.done + Len(run.batch) \in 0 .. RowCount
        BY <1>4, <1>5
      <4> QED
        BY <3>4, <4>1 DEF RunKnows
    <3> QED
      BY <1>4, <3>1, <3>2, <3>3, <3>4 DEF RunState, Clearing, RunKnows
  <2> QED
    BY <1>1, <2>1, PassIsMachine
<1>7. run.at \in {"closed", "flushCleared", "replay", "ready", "claim", "flushPosition",
                  "flushOwner", "flushRouted", "publish", "syncJournal", "done", "refused"}
  BY <1>4 DEF RunState, Clearing, Batching
<1> QED
  BY <1>1, <1>2, <1>3, <1>4, <1>5, <1>6, <1>7 DEF RoutingTypeOK

LEMMA RoutingIsRight ==
  ASSUME RoutingAssumption, RoutingInv
  PROVE  RoutedAsUninterrupted
<1> USE DEF RoutingInv
<1>1. ASSUME NEW log \in {journal.shown, journal.onDisk}, NEW i \in DOMAIN log
      PROVE  /\ i \in Ordinal /\ log[i] = [position |-> Order[i], output |-> OutputOf(i)]
             /\ stored.position[i] = Order[i] /\ stored.owner[Order[i]] = i
             /\ stored.routed[Order[i]] = OutputOf(i)
  <2>1. i \in 1 .. Len(log) /\ Len(log) <= Len(journal.shown) /\ Len(log) \in 0 .. RowCount
    BY <1>1, LogLength DEF JournalFollows
  <2>2. i \in 1 .. Len(journal.shown) /\ i \in Ordinal
    <3>1. Len(journal.shown) \in 0 .. RowCount /\ RowCount \in Nat /\ Ordinal = 1 .. RowCount
      BY LogLength, OrderIs
    <3> QED
      BY <2>1, <3>1
  <2>3. Outputs[i] = OutputOf(i)
    BY <2>2, OutputsAre DEF RunTypeOK
  <2>4. log[i] = [position |-> Order[i], output |-> Outputs[i]]
    BY <1>1, <2>1 DEF JournalFollows
  <2>5. stored.position[i] = Order[i] /\ stored.owner[Order[i]] = i /\ stored.routed[Order[i]] = Outputs[i]
    BY <2>2 DEF ArraysBack, Holds
  <2> QED
    BY <2>2, <2>3, <2>4, <2>5
<1>2. CommittedAsUninterrupted
  BY <1>1 DEF CommittedAsUninterrupted, OutputOf, RunKnows
<1>3. JournalIsBacked
  <2> SUFFICES ASSUME NEW log \in {journal.shown, journal.onDisk}, NEW i \in DOMAIN log
               PROVE  /\ stored.position[i] = log[i].position
                      /\ stored.owner[log[i].position] = i
                      /\ stored.routed[log[i].position] = log[i].output
    BY DEF JournalIsBacked
  <2>1. log[i].position = Order[i] /\ log[i].output = OutputOf(i)
    <3>1. log[i] = [position |-> Order[i], output |-> OutputOf(i)]
      BY <1>1
    <3> QED
      BY <3>1
  <2> HIDE DEF RoutingInv
  <2> QED
    BY <1>1, <2>1
<1>4. CacheAccepted
  BY DEF CacheAccepted, RunKnows
<1> QED
  BY <1>2, <1>3, <1>4, RoutingIsTyped DEF RoutedAsUninterrupted

\* Wherever the routing of the validation rows is killed or loses power, however often,
\* and however the rows are cut into batches: what is committed to the calibration cache
\* is row for row what one uninterrupted pass would commit, a resumed run goes on with
\* exactly the temporal state of that pass, the journal vouches for rows on the disk
\* only, and no start refuses the cache (route_validation_cache).
THEOREM RoutingSurvivesFaults == RoutingSpec => []RoutedAsUninterrupted
<1>1. RoutingInit => RoutingInv
  BY RoutingStarts, RowsAssumption
<1>2. RoutingInv /\ [RoutingNext]_routingVars => RoutingInv'
  BY RoutingKeeps, RowsAssumption
<1>3. RoutingInv => RoutedAsUninterrupted
  BY RoutingIsRight, RowsAssumption
<1> QED
  BY <1>1, <1>2, <1>3, PTL DEF RoutingSpec

-----------------------------------------------------------------------------
(* What holds of the counters *)

Counters == [level : [Evidence -> 0 .. Top], last : Time]
History == [first : Time, latest : Time, quiet : 0 .. Top]
IsRecord(m) == m = [order |-> m.order, states |-> m.states, evictions |-> m.evictions]
HeldBy(m, d) == IF d \in DOMAIN m.states THEN m.states[d] ELSE NewCounters

\* The counters of a device against what its rows told: the time accounted for is whole
\* intervals after the first timestamp and less than one before the latest; each quiet
\* row took its decay from every counter of an attack.
Tracks(c, h) ==
    /\ c.last = NoTime <=> h.first = NoTime
    /\ h.latest = NoTime <=> h.first = NoTime
    /\ c.last # NoTime =>
          /\ \E k \in Nat : c.last = h.first + k * Interval
          /\ c.last <= h.latest /\ h.latest < c.last + Interval
    /\ \A e \in Class : c.level[e] = 0 \/ c.level[e] + h.quiet * Decay <= Top

ReplayInv ==
    /\ IsMachine(machine) /\ IsRecord(machine)
    /\ heard \in [ToSet(machine.order) -> History]
    /\ \A d \in ToSet(machine.order) : Tracks(machine.states[d], heard[d])

\* Division by Interval, and what it says of the intervals since a time.
LEMMA WholeIntervals ==
  ASSUME NEW n \in Nat, NEW b \in Nat \ {0}
  PROVE  n \div b \in Nat /\ (n \div b) * b <= n /\ n < (n \div b) * b + b
<1>1. n = b * (n \div b) + (n % b) /\ n \div b \in Nat /\ n % b \in 0 .. b - 1
  OBVIOUS
<1>2. b * (n \div b) = (n \div b) * b /\ (n \div b) * b \in Nat
  BY <1>1
<1> QED
  BY <1>1, <1>2

LEMMA MultipleOf ==
  ASSUME NEW k \in Nat, NEW b \in Nat \ {0}
  PROVE  (k * b) % b = 0
<1> DEFINE n == k * b
           q == n \div b
           r == n % b
<1>1. n \in Nat
  OBVIOUS
<1>2. n = b * q + r /\ q \in Nat /\ r \in 0 .. b - 1
  BY <1>1
<1> HIDE DEF q, r
<1>3. k * b = q * b + r
  BY <1>2
<1>4. CASE q < k
  <2>1. PICK j \in Nat : k = q + 1 + j
    <3>1. k - q - 1 \in Nat /\ k = q + 1 + (k - q - 1)
      BY <1>2, <1>4
    <3> QED
      BY <3>1
  <2>2. k * b = q * b + b + j * b /\ j * b \in Nat /\ q * b \in Nat
    BY <1>2, <2>1
  <2> HIDE DEF n
  <2> QED
    BY <1>2, <1>3, <2>2
<1>5. CASE k < q
  <2>1. PICK j \in Nat : q = k + 1 + j
    <3>1. q - k - 1 \in Nat /\ q = k + 1 + (q - k - 1)
      BY <1>2, <1>5
    <3> QED
      BY <3>1
  <2>2. q * b = k * b + b + j * b /\ j * b \in Nat /\ k * b \in Nat
    BY <1>2, <2>1
  <2> HIDE DEF n
  <2> QED
    BY <1>2, <1>3, <2>2
<1>6. CASE q = k
  <2>1. k * b \in Nat
    OBVIOUS
  <2> HIDE DEF n
  <2>2. r = 0
    BY <1>2, <1>3, <1>6, <2>1
  <2> QED
    BY <2>2 DEF r, n
<1> QED
  BY <1>2, <1>4, <1>5, <1>6

LEMMA AccountedIs ==
  ASSUME MachineAssumption, NEW last \in Nat, NEW t \in Nat
  PROVE  /\ Intervals(last, t) \in Nat
         /\ Accounted(last, t) = last + Intervals(last, t) * Interval
         /\ Intervals(last, t) * Interval \in Nat
         /\ t < last + Interval => Accounted(last, t) = last
         /\ last <= t => Accounted(last, t) <= t /\ t < Accounted(last, t) + Interval
<1> DEFINE n == t - last
           q == n \div Interval
<1>1. Interval \in Nat \ {0} /\ last # NoTime /\ t # NoTime
  BY DEF MachineAssumption
<1>2. Intervals(last, t) = IF t < last THEN 0 ELSE q
  BY <1>1 DEF Intervals
<1>3. Accounted(last, t) = last + Intervals(last, t) * Interval
  BY <1>1 DEF Accounted
<1>4. CASE t < last
  BY <1>1, <1>2, <1>3, <1>4
<1>5. CASE last <= t
  <2>1. n \in Nat
    BY <1>5
  <2>2. q \in Nat /\ q * Interval <= n /\ n < q * Interval + Interval
    BY <1>1, <2>1, WholeIntervals
  <2> HIDE DEF q
  <2>3. q * Interval \in Nat
    BY <1>1, <2>2
  <2>4. Intervals(last, t) = q
    BY <1>2, <1>5
  <2>5. n < Interval => q = 0
    <3>1. CASE q = 0
      BY <3>1
    <3>2. CASE q # 0
      <4>1. PICK j \in Nat : q = 1 + j
        <5>1. q - 1 \in Nat /\ q = 1 + (q - 1)
          BY <2>2, <3>2
        <5> QED
          BY <5>1
      <4>2. q * Interval = Interval + j * Interval /\ j * Interval \in Nat
        BY <1>1, <4>1
      <4> QED
        BY <1>1, <2>1, <2>2, <4>2
    <3> QED
      BY <3>1, <3>2
  <2>6. n < Interval => q * Interval = 0
    BY <1>1, <2>5
  <2> QED
    BY <1>1, <1>3, <1>5, <2>2, <2>3, <2>4, <2>6
<1> QED
  BY <1>4, <1>5

LEMMA NewTracks ==
  ASSUME MachineAssumption
  PROVE  NewCounters \in Counters /\ NothingHeard \in History /\ Tracks(NewCounters, NothingHeard)
BY DEF MachineAssumption, NewCounters, Counters, NothingHeard, History, Tracks, Evidence, Time

\* A row's time: an interval is charged once it is whole, whenever rows come.
LEMMA RowTracksTime ==
  ASSUME MachineAssumption, NEW c \in Counters, NEW h \in History, Tracks(c, h),
         NEW seen, NEW suspects, NEW t \in Time
  PROVE  LET last == Counted(c, seen, t).last
             g == Hears(h, suspects, t)
         IN  /\ last = NoTime <=> g.first = NoTime
             /\ g.latest = NoTime <=> g.first = NoTime
             /\ last # NoTime =>
                   /\ \E k \in Nat : last = g.first + k * Interval
                   /\ last <= g.latest /\ g.latest < last + Interval
<1> DEFINE last == Counted(c, seen, t).last
           g == Hears(h, suspects, t)
<1>1. last = Accounted(c.last, t)
  BY DEF Counted
<1>2. /\ g.first = IF h.first = NoTime THEN t ELSE h.first
      /\ g.latest = IF h.latest = NoTime THEN t
                    ELSE IF t = NoTime \/ t < h.latest THEN h.latest ELSE t
  BY DEF Hears
<1>3. c.last \in Time /\ h.first \in Time /\ h.latest \in Time /\ Interval \in Nat \ {0} /\ NoTime \notin Nat
  BY DEF Counters, History, MachineAssumption
<1> HIDE DEF last, g
<1>4. CASE t = NoTime
  <2>1. last = c.last /\ g.first = h.first /\ g.latest = h.latest
    BY <1>1, <1>2, <1>4 DEF Accounted, Tracks
  <2> QED
    BY <2>1 DEF Tracks, last, g
<1>5. CASE t # NoTime /\ c.last = NoTime
  <2>1. last = t /\ g.first = t /\ g.latest = t
    BY <1>1, <1>2, <1>5 DEF Accounted, Tracks
  <2>2. t \in Nat /\ 0 \in Nat /\ t = t + 0 * Interval /\ t < t + Interval
    BY <1>3, <1>5 DEF Time
  <2> QED
    BY <1>3, <2>1, <2>2 DEF last, g
<1>6. CASE t # NoTime /\ c.last # NoTime
  <2>1. t \in Nat /\ c.last \in Nat /\ h.first \in Nat /\ h.latest \in Nat
    BY <1>3, <1>6 DEF Time, Tracks
  <2>2. g.first = h.first /\ g.latest = IF t < h.latest THEN h.latest ELSE t
    BY <1>2, <1>3, <1>6, <2>1
  <2>3. /\ Intervals(c.last, t) \in Nat
        /\ last = c.last + Intervals(c.last, t) * Interval
        /\ t < c.last + Interval => last = c.last
        /\ c.last <= t => last <= t /\ t < last + Interval
        /\ last \in Nat
    <3>1. /\ Intervals(c.last, t) \in Nat
          /\ Accounted(c.last, t) = c.last + Intervals(c.last, t) * Interval
          /\ Intervals(c.last, t) * Interval \in Nat
          /\ t < c.last + Interval => Accounted(c.last, t) = c.last
          /\ c.last <= t => Accounted(c.last, t) <= t /\ t < Accounted(c.last, t) + Interval
      BY <2>1, AccountedIs
    <3>2. Accounted(c.last, t) \in Nat
      BY <2>1, <3>1
    <3> QED
      BY <1>1, <3>1, <3>2
  <2>4. PICK k \in Nat : c.last = h.first + k * Interval
    BY <1>6 DEF Tracks
  <2>5. c.last <= h.latest /\ h.latest < c.last + Interval
    BY <1>6 DEF Tracks
  <2>6. /\ k + Intervals(c.last, t) \in Nat
        /\ last = g.first + (k + Intervals(c.last, t)) * Interval
    <3> DEFINE i == Intervals(c.last, t)
    <3>1. i \in Nat /\ last = c.last + i * Interval
      BY <2>3
    <3> HIDE DEF i
    <3>2. (k + i) * Interval = k * Interval + i * Interval /\ k * Interval \in Nat /\ i * Interval \in Nat
      BY <1>3, <3>1
    <3> QED
      BY <2>1, <2>2, <2>4, <3>1, <3>2 DEF i
  <2>7. last <= g.latest /\ g.latest < last + Interval
    BY <1>3, <2>1, <2>2, <2>3, <2>5
  <2>8. last # NoTime /\ g.first # NoTime /\ g.latest # NoTime
    BY <1>3, <2>1, <2>2, <2>3
  <2> QED
    BY <2>6, <2>7, <2>8 DEF last, g
<1> QED
  BY <1>4, <1>5, <1>6

\* A row's evidence: a quiet row takes the decay from every attack counter.
LEMMA RowWearsOff ==
  ASSUME MachineAssumption, NEW c \in Counters, NEW h \in History, Tracks(c, h),
         NEW suspects \in SUBSET Class, NEW calm \in SUBSET {Benign}, NEW t \in Time, NEW e \in Class
  PROVE  LET level == Counted(c, suspects \cup calm, t).level[e]
         IN  level = 0 \/ level + Hears(h, suspects, t).quiet * Decay <= Top
<1> DEFINE seen == suspects \cup calm
           lost == Intervals(c.last, t) * Decay
           level == Counted(c, seen, t).level[e]
           quiet == Hears(h, suspects, t).quiet
<1>1. Top \in Nat \ {0} /\ Decay \in Nat \ {0} /\ Increment \in Nat
  BY DEF MachineAssumption
<1>2. c.level[e] \in 0 .. Top /\ h.quiet \in 0 .. Top /\ e \in Evidence
  BY DEF Counters, History, Evidence
<1>3. lost \in Nat
  <2>1. Intervals(c.last, t) \in Nat
    BY IntervalsAre DEF Counters
  <2> QED
    BY <1>1, <2>1
<1>4. level = Clip(c.level[e] + (IF e \in seen THEN Increment ELSE -Decay) - lost)
  BY <1>2 DEF Counted
<1>5. quiet = IF suspects # {} THEN 0 ELSE IF h.quiet < Top THEN h.quiet + 1 ELSE Top
  BY DEF Hears
<1>6. c.level[e] = 0 \/ c.level[e] + h.quiet * Decay <= Top
  BY DEF Tracks
<1>7. e \in seen => suspects # {}
  BY DEF MachineAssumption
<1> HIDE DEF seen, lost, level, quiet
<1>8. CASE suspects # {}
  <2>1. level \in 0 .. Top
    <3>1. c.level[e] + (IF e \in seen THEN Increment ELSE -Decay) - lost \in Int
      BY <1>1, <1>2, <1>3
    <3> QED
      BY <1>1, <1>4, <3>1, ClipIs
  <2>2. quiet * Decay = 0
    BY <1>1, <1>5, <1>8
  <2> QED
    BY <1>1, <2>1, <2>2 DEF level, quiet, seen
<1>9. CASE suspects = {}
  <2>1. level = IF c.level[e] - Decay - lost < 0 THEN 0 ELSE c.level[e] - Decay - lost
    <3>1. c.level[e] + (-Decay) - lost = c.level[e] - Decay - lost /\ ~ (c.level[e] - Decay - lost > Top)
      BY <1>1, <1>2, <1>3
    <3> QED
      BY <1>4, <1>7, <1>9, <3>1 DEF Clip
  <2>2. CASE c.level[e] = 0
    BY <1>1, <1>3, <2>1, <2>2 DEF level, seen
  <2>3. CASE c.level[e] # 0 /\ h.quiet < Top
    <3>1. quiet = h.quiet + 1
      BY <1>5, <1>9, <2>3
    <3>2. quiet * Decay = h.quiet * Decay + Decay /\ h.quiet * Decay \in Nat
      BY <1>1, <1>2, <3>1
    <3>3. c.level[e] + h.quiet * Decay <= Top
      BY <1>6, <2>3
    <3>4. level = 0 \/ level + quiet * Decay <= Top
      BY <1>1, <1>2, <1>3, <2>1, <3>2, <3>3
    <3> QED
      BY <3>4 DEF level, quiet, seen
  <2>4. CASE c.level[e] # 0 /\ ~ (h.quiet < Top)
    <3>1. h.quiet = Top
      BY <1>1, <1>2, <2>4
    <3>2. PICK j \in Nat : Decay = 1 + j
      <4>1. Decay - 1 \in Nat /\ Decay = 1 + (Decay - 1)
        BY <1>1
      <4> QED
        BY <4>1
    <3>3. h.quiet * Decay = Top + Top * j /\ Top * j \in Nat
      BY <1>1, <3>1, <3>2
    <3>4. c.level[e] + h.quiet * Decay <= Top
      BY <1>6, <2>4
    <3> DEFINE p == h.quiet * Decay
               x == Top * j
    <3>5. c.level[e] \in Nat /\ c.level[e] # 0 /\ p = Top + x /\ x \in Nat /\ c.level[e] + p <= Top
      BY <1>2, <2>4, <3>3, <3>4
    <3> HIDE DEF p, x
    <3> QED
      BY <1>1, <3>5
  <2> QED
    BY <2>2, <2>3, <2>4
<1> QED
  BY <1>8, <1>9

LEMMA RowTracks ==
  ASSUME MachineAssumption, NEW c \in Counters, NEW h \in History, Tracks(c, h),
         NEW suspects \in SUBSET Class, NEW calm \in SUBSET {Benign}, NEW t \in Time
  PROVE  /\ Hears(h, suspects, t) \in History
         /\ Tracks(Counted(c, suspects \cup calm, t), Hears(h, suspects, t))
<1>1. Hears(h, suspects, t) \in History
  BY DEF Hears, History, MachineAssumption
<1>2. \A e \in Class :
         LET level == Counted(c, suspects \cup calm, t).level[e]
         IN  level = 0 \/ level + Hears(h, suspects, t).quiet * Decay <= Top
  BY RowWearsOff
<1> DEFINE g == Hears(h, suspects, t)
           b == Counted(c, suspects \cup calm, t)
<1>3. /\ b.last = NoTime <=> g.first = NoTime
      /\ g.latest = NoTime <=> g.first = NoTime
      /\ b.last # NoTime =>
            /\ \E k \in Nat : b.last = g.first + k * Interval
            /\ b.last <= g.latest /\ g.latest < b.last + Interval
  BY RowTracksTime
<1> HIDE DEF g, b
<1>4. \A e \in Class : b.level[e] = 0 \/ b.level[e] + g.quiet * Decay <= Top
  BY <1>2 DEF g, b
<1>5. Tracks(b, g)
  BY <1>3, <1>4 DEF Tracks
<1> QED
  BY <1>1, <1>5 DEF g, b

\* What looking a device up leaves of the others, and what a row changes.
LEMMA GetIs ==
  ASSUME MachineAssumption, NEW m, IsMachine(m), NEW d \in Device
  PROVE  LET n == Get(m, d)
         IN  /\ IsMachine(n) /\ IsRecord(n)
             /\ DOMAIN n.states = ToSet(n.order) /\ d \in ToSet(n.order)
             /\ n.states[d] = HeldBy(m, d) /\ HeldBy(m, d) \in Counters
             /\ \A k \in ToSet(n.order) \ {d} : k \in DOMAIN m.states /\ n.states[k] = m.states[k]
<1> DEFINE order == Touch(m.order, d, MaxDevices)
           states == [k \in ToSet(order) |-> IF k \in DOMAIN m.states THEN m.states[k] ELSE NewCounters]
           evictions == m.evictions + (IF Displaces(m.order, d, MaxDevices) THEN 1 ELSE 0)
<1>1. MaxDevices \in Nat \ {0}
  BY DEF MachineAssumption
<1>2. /\ order \in Seq(Device) /\ IsInjective(order) /\ Len(order) <= MaxDevices /\ d \in ToSet(order)
      /\ ToSet(order) \subseteq ToSet(m.order) \cup {d}
  BY <1>1, TouchIs DEF IsMachine
<1>3. NewCounters \in Counters
  BY NewTracks
<1>4. DOMAIN m.states = ToSet(m.order) /\ \A k \in DOMAIN m.states : m.states[k] \in Counters
  BY DEF IsMachine, Counters
<1>5. evictions \in Nat
  BY DEF IsMachine
<1>6. Get(m, d) = [order |-> order, states |-> states, evictions |-> evictions]
  BY DEF Get
<1> HIDE DEF order, evictions
<1>7. states \in [ToSet(order) -> Counters]
  BY <1>3, <1>4
<1>8. states[d] = HeldBy(m, d)
  BY <1>2 DEF HeldBy
<1>9. \A k \in ToSet(order) \ {d} : k \in DOMAIN m.states /\ states[k] = m.states[k]
  BY <1>2, <1>4
<1> HIDE DEF states
<1>10. IsMachine(Get(m, d))
  BY <1>2, <1>5, <1>6, <1>7 DEF IsMachine, Counters
<1>11. HeldBy(m, d) \in Counters
  BY <1>3, <1>4 DEF HeldBy
<1>12. IsRecord(Get(m, d))
  BY <1>6 DEF IsRecord
<1> QED
  BY <1>2, <1>6, <1>7, <1>8, <1>9, <1>10, <1>11, <1>12

LEMMA UpdateIs ==
  ASSUME MachineAssumption, NEW m, IsMachine(m), NEW d \in Device, NEW seen, NEW t \in Time
  PROVE  LET n == Update(m, d, seen, t)
         IN  /\ IsMachine(n) /\ IsRecord(n)
             /\ DOMAIN n.states = ToSet(n.order) /\ d \in ToSet(n.order)
             /\ n.states[d] = Counted(HeldBy(m, d), seen, t)
             /\ \A k \in ToSet(n.order) \ {d} : k \in DOMAIN m.states /\ n.states[k] = m.states[k]
<1> DEFINE got == Get(m, d)
           n == Update(m, d, seen, t)
           counted == Counted(got.states[d], seen, t)
<1>1. /\ IsMachine(got) /\ DOMAIN got.states = ToSet(got.order) /\ d \in ToSet(got.order)
      /\ got.states[d] = HeldBy(m, d)
      /\ \A k \in ToSet(got.order) \ {d} : k \in DOMAIN m.states /\ got.states[k] = m.states[k]
  BY GetIs
<1>2. IsMachine(n)
  BY UpdateKeeps
<1>3. n = [got EXCEPT !.states[d] = counted]
  BY DEF Update
<1>4. got = [order |-> got.order, states |-> got.states, evictions |-> got.evictions]
  BY GetIs DEF IsRecord
<1> HIDE DEF got, counted, n
<1>5. n = [order |-> got.order, states |-> [got.states EXCEPT ![d] = counted],
           evictions |-> got.evictions]
  BY <1>3, <1>4
<1>6. DOMAIN n.states = ToSet(n.order) /\ n.states[d] = counted
  BY <1>1, <1>5
<1>7. \A k \in ToSet(n.order) \ {d} : n.states[k] = got.states[k]
  BY <1>1, <1>5
<1>8. counted = Counted(HeldBy(m, d), seen, t)
  BY <1>1 DEF counted
<1>9. IsRecord(n)
  BY <1>5 DEF IsRecord
<1> QED
  BY <1>1, <1>2, <1>5, <1>6, <1>7, <1>8, <1>9 DEF n

LEMMA HeardIs ==
  ASSUME MachineAssumption, ReplayInv, NEW d \in Device
  PROVE  Heard(d) \in History /\ Tracks(HeldBy(machine, d), Heard(d))
<1>1. DOMAIN machine.states = ToSet(machine.order) /\ DOMAIN heard = ToSet(machine.order)
  BY DEF ReplayInv, IsMachine
<1>2. CASE d \in ToSet(machine.order)
  BY <1>1, <1>2 DEF ReplayInv, HeldBy, Heard
<1>3. CASE d \notin ToSet(machine.order)
  BY <1>1, <1>3, NewTracks DEF HeldBy, Heard
<1> QED
  BY <1>2, <1>3

\* A step that changes one device's counters and history so that they still agree.
LEMMA DeviceKeeps ==
  ASSUME ReplayInv, NEW d \in Device, NEW g \in History, Remember(d, g),
         IsMachine(machine'), IsRecord(machine'), DOMAIN machine'.states = ToSet(machine'.order), d \in ToSet(machine'.order),
         Tracks(machine'.states[d], g),
         \A k \in ToSet(machine'.order) \ {d} :
             k \in DOMAIN machine.states /\ machine'.states[k] = machine.states[k]
  PROVE  ReplayInv'
<1>1. DOMAIN machine.states = ToSet(machine.order)
  BY DEF ReplayInv, IsMachine
<1>2. heard' = [k \in ToSet(machine'.order) |-> IF k = d THEN g ELSE heard[k]]
  BY DEF Remember
<1>3. \A k \in ToSet(machine'.order) \ {d} : heard[k] \in History /\ Tracks(machine.states[k], heard[k])
  BY <1>1 DEF ReplayInv
<1>4. heard' \in [ToSet(machine'.order) -> History]
  BY <1>2, <1>3
<1>5. \A k \in ToSet(machine'.order) : Tracks(machine'.states[k], heard'[k])
  BY <1>2, <1>3
<1>6. \A k \in ToSet(machine'.order) : Tracks(machine.states[k], heard[k])'
  BY <1>5 DEF Tracks
<1>7. IsRecord(machine)'
  BY DEF IsRecord
<1> QED
  BY <1>4, <1>6, <1>7 DEF ReplayInv

LEMMA ScoreRowKeeps ==
  ASSUME MachineAssumption, ReplayInv, NEW d \in Device, NEW suspects \in SUBSET Class,
         NEW calm \in BOOLEAN, NEW t \in Time, ScoreRow(d, suspects, calm, t)
  PROVE  ReplayInv'
<1> DEFINE benign == IF calm THEN {Benign} ELSE {}
           g == Hears(Heard(d), suspects, t)
<1>1. machine' = Update(machine, d, suspects \cup benign, t) /\ Remember(d, g)
  BY DEF ScoreRow
<1>2. /\ IsMachine(machine') /\ IsRecord(machine')
      /\ DOMAIN machine'.states = ToSet(machine'.order) /\ d \in ToSet(machine'.order)
      /\ machine'.states[d] = Counted(HeldBy(machine, d), suspects \cup benign, t)
      /\ \A k \in ToSet(machine'.order) \ {d} :
             k \in DOMAIN machine.states /\ machine'.states[k] = machine.states[k]
  BY <1>1, UpdateIs DEF ReplayInv
<1>3. g \in History /\ Tracks(machine'.states[d], g)
  <2>1. Heard(d) \in History /\ Tracks(HeldBy(machine, d), Heard(d))
    BY HeardIs
  <2>2. HeldBy(machine, d) \in Counters /\ benign \in SUBSET {Benign}
    BY GetIs DEF ReplayInv
  <2> HIDE DEF benign
  <2>3. g \in History /\ Tracks(Counted(HeldBy(machine, d), suspects \cup benign, t), g)
    BY <2>1, <2>2, RowTracks
  <2> QED
    BY <1>2, <2>3
<1> HIDE DEF g, benign
<1> QED
  BY <1>1, <1>2, <1>3, DeviceKeeps

LEMMA AskSuspicionKeeps ==
  ASSUME MachineAssumption, ReplayInv, NEW d \in Device, AskSuspicion(d)
  PROVE  ReplayInv'
<1>1. machine' = Get(machine, d) /\ Remember(d, Heard(d))
  BY DEF AskSuspicion
<1>2. /\ IsMachine(machine') /\ IsRecord(machine')
      /\ DOMAIN machine'.states = ToSet(machine'.order) /\ d \in ToSet(machine'.order)
      /\ machine'.states[d] = HeldBy(machine, d)
      /\ \A k \in ToSet(machine'.order) \ {d} :
             k \in DOMAIN machine.states /\ machine'.states[k] = machine.states[k]
  BY <1>1, GetIs DEF ReplayInv
<1>3. Heard(d) \in History /\ Tracks(machine'.states[d], Heard(d))
  BY <1>2, HeardIs
<1> QED
  BY <1>1, <1>2, <1>3, DeviceKeeps

LEMMA ResetDeviceKeeps ==
  ASSUME MachineAssumption, ReplayInv, NEW d \in Device, ResetDevice(d)
  PROVE  ReplayInv'
<1> DEFINE old == machine.order
           gap == CHOOSE i \in DOMAIN old : old[i] = d
           order == RemoveAt(old, gap)
           states == [k \in DOMAIN machine.states \ {d} |-> machine.states[k]]
<1>1. /\ old \in Seq(Device) /\ IsInjective(old) /\ Len(old) <= MaxDevices /\ MaxDevices \in Nat
      /\ machine.states \in [ToSet(old) -> Counters] /\ machine.evictions \in Nat
      /\ DOMAIN machine.states = ToSet(old) /\ DOMAIN heard = ToSet(old)
  BY DEF ReplayInv, IsMachine, MachineAssumption, Counters
<1>2. gap \in 1 .. Len(old) /\ old[gap] = d
  <2>1. d \in ToSet(old)
    BY <1>1 DEF ResetDevice
  <2>2. \E i \in DOMAIN old : old[i] = d
    BY <1>1, <2>1, SequenceIs
  <2> QED
    BY <1>1, <2>2, SequenceIs
<1>3. machine' = [machine EXCEPT !.order = order, !.states = states]
  BY DEF ResetDevice
<1>4. heard' = [k \in ToSet(old) \ {d} |-> heard[k]]
  BY <1>1 DEF ResetDevice
<1> HIDE DEF gap
<1>5. /\ order \in Seq(Device) /\ IsInjective(order) /\ Len(order) = Len(old) - 1 /\ Len(old) \in Nat
      /\ ToSet(order) = ToSet(old) \ {d}
  <2> HIDE DEF old
  <2>1. Len(old) \in Nat
    BY <1>1
  <2>2. /\ order \in Seq(Device) /\ IsInjective(order) /\ Len(order) = Len(old) - 1
        /\ ToSet(order) = ToSet(old) \ {old[gap]}
    BY <1>1, <1>2, RemovedIs
  <2> QED
    BY <1>2, <2>1, <2>2
<1>6. machine' = [order |-> order, states |-> states, evictions |-> machine.evictions]
  <2>1. machine = [order |-> old, states |-> machine.states, evictions |-> machine.evictions]
    BY DEF ReplayInv, IsRecord
  <2> HIDE DEF order, old, states
  <2> QED
    BY <1>3, <2>1
<1> HIDE DEF order, old
<1>7. states \in [ToSet(order) -> Counters]
  BY <1>1, <1>5
<1> HIDE DEF states
<1>8. IsMachine(machine')
  BY <1>1, <1>5, <1>6, <1>7 DEF IsMachine, Counters
<1>9. heard' \in [ToSet(order) -> History]
  BY <1>1, <1>4, <1>5 DEF ReplayInv, old
<1>10. \A k \in ToSet(order) : Tracks(states[k], heard'[k])
  BY <1>1, <1>4, <1>5 DEF ReplayInv, old, states
<1>11. \A k \in ToSet(machine'.order) : Tracks(machine.states[k], heard[k])'
  BY <1>6, <1>10 DEF Tracks
<1>12. IsRecord(machine)'
  BY <1>6 DEF IsRecord
<1> QED
  BY <1>6, <1>8, <1>9, <1>11, <1>12 DEF ReplayInv

LEMMA NoDevicesHeard ==
  ASSUME MachineAssumption, NEW n \in Nat
  PROVE  /\ IsMachine([order |-> <<>>, states |-> <<>>, evictions |-> n])
         /\ ToSet(<<>>) = {}
BY DEF MachineAssumption, IsMachine, ToSet, IsInjective

LEMMA ReplayStarts ==
  ASSUME MachineAssumption, ReplayInit
  PROVE  ReplayInv
<1>1. IsMachine(machine) /\ IsRecord(machine) /\ machine.order = <<>> /\ ToSet(<<>>) = {}
  BY NoDevicesHeard DEF ReplayInit, NoDevices, IsRecord
<1>2. heard \in [{} -> History]
  BY DEF ReplayInit
<1> QED
  BY <1>1, <1>2 DEF ReplayInv

LEMMA ReplayStepKeeps ==
  ASSUME ReplayInv, [ReplayNext]_replayVars
  PROVE  ReplayInv'
<1>1. MachineAssumption /\ Stamp \subseteq Time
  BY ReplayAssumption DEF Stamp, Time
<1>2. ASSUME NEW d \in Device, NEW suspects \in SUBSET Class, NEW calm \in BOOLEAN, NEW t \in Stamp,
             ScoreRow(d, suspects, calm, t)
      PROVE  ReplayInv'
  BY <1>1, <1>2, ScoreRowKeeps
<1>3. ASSUME NEW d \in Device, AskSuspicion(d) PROVE ReplayInv'
  BY <1>1, <1>3, AskSuspicionKeeps
<1>4. ASSUME NEW d \in Device, ResetDevice(d) PROVE ReplayInv'
  BY <1>1, <1>4, ResetDeviceKeeps
<1>5. CASE ResetDevices
  <2>1. machine.evictions \in Nat
    BY DEF ReplayInv, IsMachine
  <2>2. machine' = [machine EXCEPT !.order = <<>>, !.states = <<>>] /\ heard' = <<>>
    BY <1>5 DEF ResetDevices
  <2>3. machine' = [order |-> <<>>, states |-> <<>>, evictions |-> machine.evictions]
    BY <2>2 DEF ReplayInv, IsRecord
  <2>4. IsMachine(machine') /\ machine'.order = <<>> /\ ToSet(<<>>) = {}
    BY <1>1, <2>1, <2>3, NoDevicesHeard
  <2>5. IsRecord(machine)'
    BY <2>3 DEF IsRecord
  <2>6. heard' \in [{} -> History]
    BY <2>2
  <2> QED
    BY <2>4, <2>5, <2>6 DEF ReplayInv
<1>6. CASE UNCHANGED replayVars
  BY <1>6 DEF replayVars, ReplayInv, IsMachine, IsRecord, Tracks
<1> QED
  BY <1>2, <1>3, <1>4, <1>5, <1>6 DEF ReplayNext

LEMMA CountersFollow ==
  ASSUME ReplayInv
  PROVE  CountersAreRight
<1>1. MachineAssumption
  BY ReplayAssumption
<1>2. DOMAIN machine.states = ToSet(machine.order) /\ DOMAIN heard = ToSet(machine.order)
  BY DEF ReplayInv, IsMachine
<1>3. CountersTypeOK
  BY <1>2 DEF CountersTypeOK, ReplayInv
<1>4. ASSUME NEW d \in DOMAIN heard
      PROVE  LET last == machine.states[d].last
             IN  /\ (last = NoTime) <=> (heard[d].first = NoTime)
                 /\ last # NoTime =>
                       /\ (last - heard[d].first) % Interval = 0
                       /\ last <= heard[d].latest
                       /\ heard[d].latest < last + Interval
  <2>1. Tracks(machine.states[d], heard[d]) /\ heard[d] \in History
    BY <1>2, <1>4 DEF ReplayInv
  <2>2. ASSUME machine.states[d].last # NoTime
        PROVE  (machine.states[d].last - heard[d].first) % Interval = 0
    <3>1. PICK k \in Nat : machine.states[d].last = heard[d].first + k * Interval
      BY <2>1, <2>2 DEF Tracks
    <3>2. heard[d].first \in Nat /\ Interval \in Nat \ {0}
      BY <1>1, <2>1, <2>2 DEF Tracks, History, Time, MachineAssumption
    <3>3. k * Interval \in Nat
      BY <3>2
    <3>4. machine.states[d].last - heard[d].first = k * Interval
      BY <3>1, <3>2, <3>3
    <3> QED
      BY <3>2, <3>4, MultipleOf
  <2> QED
    BY <2>1, <2>2 DEF Tracks
<1>5. ASSUME NEW d \in DOMAIN heard, heard[d].quiet * Decay >= Top, NEW c \in Class
      PROVE  machine.states[d].level[c] = 0
  <2>1. Tracks(machine.states[d], heard[d]) /\ heard[d] \in History /\ machine.states[d] \in Counters
    BY <1>2, <1>5 DEF ReplayInv, IsMachine, Counters
  <2>2. machine.states[d].level[c] \in 0 .. Top /\ heard[d].quiet \in Nat /\ Top \in Nat /\ Decay \in Nat
    BY <1>1, <2>1 DEF Counters, History, Evidence, MachineAssumption
  <2>3. heard[d].quiet * Decay \in Nat
    BY <2>2
  <2>4. machine.states[d].level[c] = 0 \/ machine.states[d].level[c] + heard[d].quiet * Decay <= Top
    BY <2>1 DEF Tracks
  <2> QED
    BY <1>5, <2>2, <2>3, <2>4
<1>6. NoTimeLost
  BY <1>4 DEF NoTimeLost
<1>7. QuietDeviceIsCleared
  BY <1>5 DEF QuietDeviceIsCleared
<1> QED
  BY <1>3, <1>6, <1>7 DEF CountersAreRight

\* Whatever rows a replay gives the temporal machine, in whatever order and with whatever
\* times, and whichever devices are evicted or reset: every counter stays within its
\* bounds, the decay charged is that of every whole interval since the first timestamp,
\* once, and a device that stays quiet loses all suspicion (_time_decay, update).
THEOREM CountersFollowTheClock == ReplaySpec => []CountersAreRight
<1>1. ReplayInit => ReplayInv
  BY ReplayStarts, ReplayAssumption
<1>2. ReplayInv /\ [ReplayNext]_replayVars => ReplayInv'
  BY ReplayStepKeeps
<1>3. ReplayInv => CountersAreRight
  BY CountersFollow
<1> QED
  BY <1>1, <1>2, <1>3, PTL DEF ReplaySpec
=============================================================================
