------------------------------- MODULE SplitPlan -------------------------------
(* build_split_plan of out_of_core/split.py: which rows train, validate and    *)
(* test the model, decided in bounded memory. Rows are cut into sorted runs on *)
(* disk, runs are merged a few at a time, and a row is placed by its position  *)
(* in a merged order. What the rows, the cuts and the merges may not decide is *)
(* the plan: the same rows in another order make the same membership.          *)
(* A uid, a coordinate (source file and row), a label, a device, an attack and *)
(* a time are numbers that compare as the values do; the priority of a row is  *)
(* the keyed hash of its uid. Fractions are Train and Validation in Whole.     *)
EXTENDS Integers, FiniteSets, ExternalSort

CONSTANTS Arrivals,       \* sequences of rows, in the order the chunks bring them
          RunSizes,       \* values of max_rows_per_run
          HeldOut,        \* configured groups: devices and attacks
          Train, Validation, Whole,
          Benign, UnknownLike,          \* labels
          NoTime

SplitAssumption ==
  /\ SortAssumption
  /\ RunSizes \subseteq Nat \ {0}
  /\ Train > 0 /\ Validation > 0 /\ Train + Validation < Whole

Strategies == {"time", "random", "device", "attack"}

VARIABLES
  request,     \* rows, strategy, configured groups and run size of the call
  phase,       \* the function of build_split_plan that comes next
  runs,        \* the sorted runs on disk, by directory
  held,        \* held-out devices and attacks in force
  membership   \* what _write_membership wrote
vars == <<request, phase, runs, held, membership>>

-------------------------------------------------------------------------------
(* The orders the runs are sorted by.                                         *)

ByUid == <<"uid">>
ByCoordinate == <<"at", "uid">>
ByTime == <<"time", "uid">>
ByPriority == <<"label", "priority", "uid">>
StrategyOrder(strategy) == IF strategy = "time" THEN ByTime ELSE ByPriority

-------------------------------------------------------------------------------
(* Quotas.                                                                    *)

Labels(rows) == {rows[i].label : i \in DOMAIN rows}
LabelCounts(rows) ==
  [l \in Labels(rows) |-> Cardinality({i \in DOMAIN rows : rows[i].label = l})]
Total(counts) == FoldFunctionOnSet(+, 0, counts, DOMAIN counts)

\* _allocate_quota: shares rounded down, what is left by largest remainder.
AllocateQuota(counts, target) ==
  LET total == Total(counts)
      share == [l \in DOMAIN counts |-> (counts[l] * target) \div total]
      left == [l \in DOMAIN counts |-> (counts[l] * target) % total]
      Before(l) == {m \in DOMAIN counts :
                      left[m] > left[l] \/ (left[m] = left[l] /\ m < l)}
  IN [l \in DOMAIN counts |->
        IF total = 0 THEN 0
        ELSE share[l] + IF Cardinality(Before(l)) < target - Total(share) THEN 1 ELSE 0]

\* How many rows train and validate: of all rows, or of those not held out.
Targets(strategy, eligible, total) ==
  LET of == IF strategy \in {"time", "random"} THEN total ELSE eligible
      validation == (eligible * Validation) \div (Train + Validation)
  IN IF strategy = "device"
       THEN [train |-> eligible - validation, validation |-> validation]
       ELSE [train |-> (of * Train) \div Whole,
             validation |-> (of * Validation) \div Whole]

Quotas(counts, targets) ==
  LET train == AllocateQuota(counts, targets.train)
      remaining == [l \in DOMAIN counts |-> counts[l] - train[l]]
  IN [train |-> train, validation |-> AllocateQuota(remaining, targets.validation)]

Part(position, train, validation) ==
  IF position < train THEN "train"
  ELSE IF position < train + validation THEN "validation" ELSE "test"

-------------------------------------------------------------------------------
(* build_split_plan.                                                          *)

Rows == request.rows
Refuse == phase' = "refused" /\ UNCHANGED <<request, runs, held, membership>>
Forced(r) ==
  \/ request.strategy = "device" /\ r.device \in held.devices
  \/ request.strategy = "attack" /\ (r.attack \in held.attacks \/ r.label = UnknownLike)
Member(r, split) == [row |-> r, uid |-> r.uid, split |-> split,
                     label |-> IF request.strategy = "attack" /\ Forced(r)
                               THEN UnknownLike ELSE r.label]

Init ==
  /\ request \in [rows : Arrivals, strategy : Strategies, size : RunSizes,
                  configured : HeldOut]
  /\ phase = "inspection"
  /\ runs = [uid |-> <<>>, coordinates |-> <<>>, strategy |-> <<>>, assignments |-> <<>>]
  /\ held = [devices |-> {}, attacks |-> {}]
  /\ membership = <<>>

WriteInspectionRuns ==
  /\ phase = "inspection"
  /\ IF \/ Rows = <<>>
        \/ request.strategy = "time" /\ \E i \in DOMAIN Rows : Rows[i].time = NoTime
     THEN Refuse
     ELSE /\ runs' = [runs EXCEPT !.uid = SortedRuns(Rows, request.size, ByUid),
                                  !.coordinates = SortedRuns(Rows, request.size, ByCoordinate)]
          /\ phase' = "coordinates"
          /\ UNCHANGED <<request, held, membership>>

\* Two rows that follow each other have the same value.
Neighbours(rows, field) ==
  \E i \in 1 .. Len(rows) - 1 : rows[i][field] = rows[i + 1][field]

ValidateCoordinates ==
  /\ phase = "coordinates"
  /\ IF Neighbours(MergeRuns(runs.coordinates, ByCoordinate), "at")
     THEN Refuse
     ELSE /\ runs' = [runs EXCEPT !.coordinates = <<>>]
          /\ phase' = "uids"
          /\ UNCHANGED <<request, held, membership>>

Greatest(S) == CHOOSE x \in S : \A y \in S : y <= x
DevicesOf(rows) == {rows[i].device : i \in DOMAIN rows}
AttacksOf(rows) == {rows[i].attack : i \in DOMAIN rows}
AttackRows(rows) == SelectSeq(rows, LAMBDA r : r.label # Benign)

\* _inspect_uid_order, and the groups that are held out: the configured ones,
\* else the last device or the last attack.
InspectUidOrder ==
  /\ phase = "uids"
  /\ LET rows == MergeRuns(runs.uid, ByUid)
         devices == request.configured.devices
         attacks == request.configured.attacks
         LastAttack == request.strategy = "attack" /\ attacks = {}
     IN IF \/ Neighbours(rows, "uid")
           \/ ~ (devices \subseteq DevicesOf(rows) /\ attacks \subseteq AttacksOf(rows))
           \/ LastAttack /\ AttackRows(rows) = <<>>
        THEN Refuse
        ELSE /\ held' =
                  [devices |-> IF request.strategy = "device" /\ devices = {}
                               THEN {Greatest(DevicesOf(rows))} ELSE devices,
                   attacks |-> IF LastAttack THEN {Greatest(AttacksOf(AttackRows(rows)))}
                               ELSE attacks]
             /\ phase' = "strategy"
             /\ UNCHANGED <<request, runs, membership>>

\* _prepare_strategy_runs reads the inspection runs one after the other.
PrepareStrategyRuns ==
  /\ phase = "strategy"
  /\ LET rows == FlattenSeq(runs.uid)
         eligible == SelectSeq(rows, LAMBDA r : ~ Forced(r))
         forced == SelectSeq(rows, Forced)
         Test(r) == Member(r, "test")
     IN IF request.strategy \in {"device", "attack"} /\ (eligible = <<>> \/ forced = <<>>)
        THEN Refuse
        ELSE /\ runs' = [runs EXCEPT
                  !.uid = <<>>,
                  !.strategy = SortedRuns(eligible, request.size, StrategyOrder(request.strategy)),
                  !.assignments =
                     SortedRuns([i \in DOMAIN forced |-> Test(forced[i])], request.size, ByUid)]
             /\ phase' = "assignment"
             /\ UNCHANGED <<request, held, membership>>

StrategyRows == MergeRuns(runs.strategy, StrategyOrder(request.strategy))

\* A row is placed by its position among the rows of its label, or of all.
AssignStrategyRows ==
  /\ phase = "assignment"
  /\ LET rows == StrategyRows
         targets == Targets(request.strategy, Len(rows), Len(Rows))
         quotas == Quotas(LabelCounts(rows), targets)
         Position(i) == Cardinality({j \in 1 .. i - 1 : rows[j].label = rows[i].label})
         Split(i) ==
           IF request.strategy = "time" THEN Part(i - 1, targets.train, targets.validation)
           ELSE Part(Position(i), quotas.train[rows[i].label],
                     quotas.validation[rows[i].label])
         assigned == [i \in DOMAIN rows |-> Member(rows[i], Split(i))]
     IN runs' = [runs EXCEPT !.strategy = <<>>,
                             !.assignments = @ \o SortedRuns(assigned, request.size, ByUid)]
  /\ phase' = "membership"
  /\ UNCHANGED <<request, held, membership>>

PartOf(rows, part) == {i \in DOMAIN rows : rows[i].split = part}

\* _write_membership and the checks that follow it.
WriteMembership ==
  /\ phase = "membership"
  /\ LET rows == MergeRuns(runs.assignments, ByUid)
     IN IF \/ Neighbours(rows, "uid")
           \/ \E part \in {"train", "validation", "test"} : PartOf(rows, part) = {}
           \/ Len(rows) # Len(Rows)
           \/ request.strategy = "attack"
              /\ \E i \in PartOf(rows, "train") : rows[i].label = UnknownLike
        THEN Refuse
        ELSE /\ membership' = rows
             /\ phase' = "planned"
             /\ UNCHANGED <<request, runs, held>>

\* The call has returned or raised.
Over == phase \in {"planned", "refused"} /\ UNCHANGED vars

Next ==
  \/ WriteInspectionRuns \/ ValidateCoordinates \/ InspectUidOrder
  \/ PrepareStrategyRuns \/ AssignStrategyRows \/ WriteMembership \/ Over

Spec == Init /\ [][Next]_vars

-------------------------------------------------------------------------------
(* Reference: a row is placed by how many rows come before it, whatever the   *)
(* order of arrival, the runs and the merges.                                 *)

RowSet == {Rows[i] : i \in DOMAIN Rows}
Eligible == {r \in RowSet : ~ Forced(r)}
ReferenceTargets == Targets(request.strategy, Cardinality(Eligible), Cardinality(RowSet))
ReferenceCounts == [l \in {r.label : r \in Eligible} |->
                      Cardinality({r \in Eligible : r.label = l})]
RankOf(r) ==
  IF request.strategy = "time"
  THEN Cardinality({s \in Eligible : Precedes(ByTime, s, r)})
  ELSE Cardinality({s \in Eligible : s.label = r.label /\ Precedes(ByPriority, s, r)})
ReferencePart(r) ==
  IF Forced(r) THEN "test"
  ELSE IF request.strategy = "time"
  THEN Part(RankOf(r), ReferenceTargets.train, ReferenceTargets.validation)
  ELSE LET quotas == Quotas(ReferenceCounts, ReferenceTargets)
       IN Part(RankOf(r), quotas.train[r.label], quotas.validation[r.label])

\* A share is within one row of the exact proportion, fits what there is, and
\* the shares are the target.
Fair(quota, counts, target) ==
  /\ Total(quota) = target
  /\ \A l \in DOMAIN counts :
       LET error == quota[l] * Total(counts) - counts[l] * target
       IN quota[l] \in 0 .. counts[l] /\ error < Total(counts) /\ -error < Total(counts)

\* The published plan holds every row exactly once, in uid order, in the part
\* the reference gives it.
MembershipIsReference ==
  phase = "planned" =>
    /\ {membership[i].row : i \in DOMAIN membership} = RowSet
    /\ Len(membership) = Cardinality(RowSet)
    /\ \A i \in DOMAIN membership : membership[i].split = ReferencePart(membership[i].row)
    /\ \A i \in 1 .. Len(membership) - 1 : membership[i].uid < membership[i + 1].uid

\* No plan is made of rows of which two share a uid or a source coordinate,
\* in whatever runs the two of them landed.
DuplicatesRefused ==
  phase = "planned" =>
    \A i, j \in DOMAIN Rows :
      i # j => Rows[i].uid # Rows[j].uid /\ Rows[i].at # Rows[j].at

\* Every label's rows train and validate in the proportion of all rows, to
\* within one row, and the parts have exactly the sizes asked for.
QuotasAreFair ==
  phase = "assignment" /\ request.strategy # "time" =>
    LET targets == ReferenceTargets
        quotas == Quotas(ReferenceCounts, targets)
    IN /\ Fair(quotas.train, ReferenceCounts, targets.train)
       /\ Fair(quotas.validation,
               [l \in DOMAIN ReferenceCounts |-> ReferenceCounts[l] - quotas.train[l]],
               targets.validation)
===============================================================================
