--------------------------- MODULE ReportPublication ---------------------------
(***************************************************************************)
(* persist_report of run_bootstrap: how a run publishes its final report.  *)
(* The writer lock is released by then, so the reports of several runs on  *)
(* one data root may be published at the same time.                        *)
(*                                                                         *)
(* The targets are tried in order: the canonical report first, then the    *)
(* fallbacks.  A report is the run it comes from and its status; what else *)
(* it says is left out.                                                    *)
(***************************************************************************)
EXTENDS Integers

CONSTANTS
  Run,       \* the runs that publish a report
  Outcome,   \* the statuses a run that held the lock may end with
  Fallbacks  \* how many fallback targets there are

ASSUME OutcomeAssumption ==
  Outcome \subseteq {"sources_verified", "prepared", "completed", "failed"}
ASSUME RunAssumption == "none" \notin Run
ASSUME FallbacksAssumption == Fallbacks \in Nat \ {0}

Canonical == 0
Target == Canonical .. Fallbacks

\* The statuses that the verification of a report that could not be
\* invalidated takes for a success.
Contradictory == {"sources_verified", "prepared"}

VARIABLES
  report,  \* what each target names: a report, or what was there before
  at,      \* where each run is
  target,  \* the target a run is at
  status,  \* the status a run is about to report
  tries,   \* its attempts to invalidate a report
  told     \* what its caller was told: a status, or "raised"

vars == <<report, at, target, status, tries, told>>

Nothing == [run |-> "none", status |-> "earlier"]
Saying(r, s) == [run |-> r, status |-> s]

\* A run that did not get the lock has failed and has no canonical target.
Init ==
  /\ report = [t \in Target |-> Nothing]
  /\ at = [r \in Run |-> "write"]
  /\ \E locked \in SUBSET Run :
       /\ target = [r \in Run |-> IF r \in locked THEN Canonical ELSE 1]
       /\ status \in [Run -> Outcome \cup {"failed"}]
       /\ \A r \in Run \ locked : status[r] = "failed"
  /\ tries = [r \in Run |-> 0]
  /\ told = [r \in Run |-> "nothing"]

-----------------------------------------------------------------------------

Goto(r, place) == at' = [at EXCEPT ![r] = place]

Put(r, s) == report' = [report EXCEPT ![target[r]] = Saying(r, s)]

Tell(r, s) == Goto(r, "over") /\ told' = [told EXCEPT ![r] = s]

\* On to the next target; after the last one the caller gets a report that is
\* in no file.
NextTarget(r) ==
  IF target[r] = Fallbacks
    THEN Tell(r, "failed") /\ UNCHANGED target
    ELSE /\ Goto(r, "write")
         /\ target' = [target EXCEPT ![r] = @ + 1]
         /\ UNCHANGED told

\* _write_json fails before or after it has replaced the target; either way
\* the run has failed now.
Write(r) ==
  /\ at[r] = "write"
  /\ \/ /\ Put(r, status[r])
        /\ Tell(r, status[r])
        /\ UNCHANGED <<target, status>>
     \/ /\ NextTarget(r)
        /\ status' = [status EXCEPT ![r] = "failed"]
        /\ UNCHANGED report
     \/ /\ Put(r, status[r])
        /\ Goto(r, "reconcile")
        /\ status' = [status EXCEPT ![r] = "failed"]
        /\ UNCHANGED <<target, told>>
  /\ UNCHANGED tries

\* The report whose durability is uncertain is replaced by a failed one.
Reconcile(r) ==
  /\ at[r] = "reconcile"
  /\ \/ /\ Put(r, "failed")
        /\ Tell(r, "failed")
        /\ UNCHANGED target
     \/ /\ Put(r, "failed")
        /\ NextTarget(r)
     \/ /\ Goto(r, "invalidate")
        /\ UNCHANGED <<report, target, told>>
  /\ tries' = [tries EXCEPT ![r] = 0]
  /\ UNCHANGED status

\* _invalidate_published_json opens the target; a report that is not this
\* run's is left alone.
Own(r, content) == content.run = r

\* The invalidation is tried twice.
Failed(r) ==
  /\ tries' = [tries EXCEPT ![r] = @ + 1]
  /\ Goto(r, IF tries[r] = 1 THEN "verify" ELSE "invalidate")

OpenForInvalidation(r) ==
  /\ at[r] = "invalidate"
  /\ \/ /\ Own(r, report[target[r]])
        /\ Goto(r, "truncate")
        /\ UNCHANGED tries
     \/ Failed(r)
  /\ UNCHANGED <<report, target, status, told>>

\* (a variant that truncates whatever the target names by now)
TruncatedByName(r) == [report EXCEPT ![target[r]] = Saying(r, "empty")]

\* The file that was opened is truncated, which is no longer the target when
\* another run has replaced that.
Truncated(r) ==
  [report EXCEPT ![target[r]] = IF Own(r, @) THEN Saying(r, "empty") ELSE @]

Truncate(r) ==
  /\ at[r] = "truncate"
  /\ \/ report' = Truncated(r) /\ NextTarget(r) /\ UNCHANGED tries
     \/ report' \in {report, Truncated(r)} /\ Failed(r) /\ UNCHANGED <<target, told>>
  /\ UNCHANGED status

\* (a variant that goes on whenever it can read the target)
SuspectNothing(s) == FALSE

\* Both attempts failed: the run ends with an exception when it cannot read
\* the target, or reads a success there; otherwise it goes on.
Suspect(s) == s \in Contradictory

Verify(r) ==
  /\ at[r] = "verify"
  /\ \/ Tell(r, "raised") /\ UNCHANGED target
     \/ /\ report[target[r]].status # "empty"
        /\ ~ Suspect(report[target[r]].status)
        /\ NextTarget(r)
  /\ UNCHANGED <<report, status, tries>>

Step(r) ==
  \/ Write(r) \/ Reconcile(r) \/ OpenForInvalidation(r) \/ Truncate(r)
  \/ Verify(r)

Next == \E r \in Run : Step(r)

Spec == Init /\ [][Next]_vars

-----------------------------------------------------------------------------
(* Properties *)

Success == {"sources_verified", "prepared", "completed"}
Status == Success \cup {"failed"}
Report == {Nothing} \cup [run : Run, status : Status \cup {"empty"}]

TypeOK ==
  /\ report \in [Target -> Report]
  /\ at \in [Run -> {"write", "reconcile", "invalidate", "truncate", "verify",
                     "over"}]
  /\ target \in [Run -> Target]
  /\ status \in [Run -> Status]
  /\ tries \in [Run -> 0..2]
  /\ told \in [Run -> Status \cup {"nothing", "raised"}]

\* The caller of a run is never told that it failed while a report of that
\* run says that it succeeded.
ToldTheTruth ==
  \A r \in Run, t \in Target :
    told[r] = "failed" /\ report[t].run = r => report[t].status \notin Success

\* Two reports of one run do not contradict each other: no fallback says that
\* the run failed next to a canonical report of its success.
ReportsAgree ==
  \A t, u \in Target :
    report[t].run = report[u].run /\ report[t].status \in Success =>
      report[u].status # "failed"

\* A run takes no report of another run away: it replaces it by its own, and
\* empties only what it published itself.
OthersReportsSurvive ==
  [][\A r \in Run, t \in Target :
       report[t].run = r /\ report'[t] # report[t] =>
         \/ report'[t].status # "empty"
         \/ report'[t].run = r]_vars
=============================================================================
