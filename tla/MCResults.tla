------------------------------ MODULE MCResults ------------------------------
(* What comes out of a trained detector: the validation rows it is routed over,*)
(* the results of an evaluation or a prediction replay, the final report of a  *)
(* bootstrap run.  They share no state in the code; each behaviour here is one *)
(* of one of them, while the others stand still.                               *)
EXTENDS ReportPublication, ResultArtifacts, CascadeRouting, TLC

CONSTANTS x, y

\* What a run ends with before the train and summarize stages exist, and the
\* status of a run that trained.
Preparing == {"sources_verified", "prepared", "failed"}

VARIABLES
  part,
  now, work, removed, lock, serial   \* results; faults is theirs and that of routing

resultVars ==
  <<now, disk, since, work, removed, lock, call, serial, answered, unbacked, torn, faults>>
all == <<part, vars, resultVars, routingVars>>

R == INSTANCE ResultTransaction

\* Rows of two devices, with room for the state of one: an attack, a row that
\* only suspicion keeps from leaving early, the other device's attack, which has
\* no time.
Kind(device, fast, calm, early, main, time) ==
  [device |-> device, fast |-> fast, calm |-> calm, early |-> early, main |-> main,
   at |-> time]
Attack == Kind(x, FALSE, -1, {}, {"scan"}, 0)
Devices == {x, y}
Kinds == {Attack, Kind(x, TRUE, 0, {"benign"}, {}, 3), Kind(y, FALSE, 1, {"benign"}, {"flood"}, NoTime)}
Shuffled == <<3, 1, 2>>

\* The reports that stand still: a run each with the canonical target.
NoReports ==
  /\ target = [r \in Run |-> Canonical] /\ status = [r \in Run |-> "failed"]
  /\ Init

NoRouting == rows = <<Attack, Attack, Attack>> /\ RoutingInit

PartInit ==
  \/ part = "reports" /\ Init /\ R!Init /\ NoRouting
  \/ part = "results" /\ NoReports /\ R!Init /\ NoRouting
  \/ part = "routing" /\ NoReports /\ R!Init /\ RoutingInit

Reporting == part = "reports" /\ UNCHANGED <<part, resultVars, routingVars>>
Evaluating ==
  part = "results" /\ UNCHANGED <<part, vars, rows, cache, stored, journal, router, run>>
Routing ==
  /\ part = "routing"
  /\ UNCHANGED <<part, vars, now, disk, since, work, removed, lock, call, serial>>
  /\ UNCHANGED <<answered, unbacked, torn>>

RunStep(r) ==
  \/ (Reporting /\ Write(r)) \/ (Reporting /\ Reconcile(r))
  \/ (Reporting /\ OpenForInvalidation(r)) \/ (Reporting /\ Truncate(r))
  \/ (Reporting /\ Verify(r))

CallStep(p) ==
  \/ (Evaluating /\ R!Look(p)) \/ (Evaluating /\ R!LockFirst(p))
  \/ (Evaluating /\ R!Examine(p)) \/ (Evaluating /\ R!LockAgain(p))
  \/ (Evaluating /\ R!Recover(p)) \/ (Evaluating /\ R!Discard(p))
  \/ (Evaluating /\ R!RemoveSome(p)) \/ (Evaluating /\ R!RemoveRest(p))
  \/ (Evaluating /\ R!RemoveInitializing(p)) \/ (Evaluating /\ R!RefuseWork(p))
  \/ (Evaluating /\ R!DropPartials(p)) \/ (Evaluating /\ R!DropJournal(p))
  \/ (Evaluating /\ R!Dropped(p)) \/ (Evaluating /\ R!Recovered(p))
  \/ (Evaluating /\ R!Validate(p)) \/ (Evaluating /\ R!Begin(p))
  \/ (Evaluating /\ R!SyncBegin(p)) \/ (Evaluating /\ R!MakeWork(p))
  \/ (Evaluating /\ R!InitializeMarker(p)) \/ (Evaluating /\ R!Mark(p))
  \/ (Evaluating /\ R!Build(p)) \/ (Evaluating /\ R!SyncPartials(p))
  \/ (Evaluating /\ R!Record(p)) \/ (Evaluating /\ R!SyncRecord(p))
  \/ (Evaluating /\ R!Link(p)) \/ (Evaluating /\ R!Skip(p))
  \/ (Evaluating /\ R!SyncLink(p)) \/ (Evaluating /\ R!Unlink(p))
  \/ (Evaluating /\ R!SyncUnlink(p)) \/ (Evaluating /\ R!Commit(p))
  \/ (Evaluating /\ R!SyncCommit(p)) \/ (Evaluating /\ R!Answer(p))
  \/ (Evaluating /\ R!Return(p)) \/ (Evaluating /\ R!Raised(p))
  \/ (Evaluating /\ R!Done(p)) \/ (Evaluating /\ R!Raise(p)) \/ (Evaluating /\ R!Kill(p))

PartNext ==
  \/ \E r \in Run : RunStep(r)
  \/ \E p \in Process : CallStep(p)
  \/ (Evaluating /\ R!PowerLoss)
  \/ (Routing /\ Open) \/ (Routing /\ FlushCleared) \/ (Routing /\ Replay)
  \/ (Routing /\ ReplayDone) \/ (Routing /\ Route) \/ (Routing /\ Claim)
  \/ (Routing /\ Scatter) \/ (Routing /\ FlushPosition)
  \/ (Routing /\ FlushOwner) \/ (Routing /\ FlushRouted)
  \/ (Routing /\ PublishJournal) \/ (Routing /\ SyncJournal)
  \/ (Routing /\ Finish) \/ (Routing /\ Crash) \/ (Routing /\ PowerLoss)

\* The fairness of results and routing is that of their specifications.
PartSpec ==
  /\ PartInit /\ [][PartNext]_all
  /\ \A p \in Process : WF_all(Evaluating /\ R!Step(p))
  /\ WF_all(Routing /\ Advance)

-------------------------------------------------------------------------------

\* Once the faults are over every caller of an evaluation gets its result, and
\* every row is routed.
ResultsArrive ==
  (part = "results" => R!CallsSucceed) /\ (part = "routing" => RoutingFinishes)
===============================================================================
