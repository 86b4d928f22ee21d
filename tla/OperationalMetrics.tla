-------------------------- MODULE OperationalMetrics --------------------------
(* The metrics of a temporal replay, out_of_core/replay.py: predictions come in *)
(* storage order, are sorted by time on disk, and every replayed row updates    *)
(* the record of its episode and the counters; the rows then go back into       *)
(* storage order. What the temporal machine makes of a row is TemporalMachine;  *)
(* here a row brings its action level. Sources and devices are numbers that     *)
(* compare as the names do; times are in seconds; percentiles and ratios are    *)
(* left to the bags and counts they are made of.                                *)
EXTENDS Integers, FiniteSets, Bags, ExternalSort

CONSTANTS Predictions,    \* sequences of rows in storage order
          RunRows,        \* values of order_run_rows
          NoTime          \* a timestamp that is missing

MetricsAssumption == SortAssumption /\ RunRows \subseteq Nat \ {0}

Alert == 2                \* action levels from which a row alerts, and mitigates
Mitigation == 3

VARIABLES
  replayed,   \* the rows, whether they have a sequence index, and the run size
  turn,       \* "sort", "replay", "finalize", "restore" or "done"
  chronological,    \* rows still to be replayed, in chronological order
  episodes,   \* the table of episodes
  tally,      \* counters
  delays,     \* the table of delays, a bag by kind
  output      \* rows that were replayed, at last in storage order
metricVars == <<replayed, turn, chronological, episodes, tally, delays, output>>

Given == [i \in DOMAIN replayed.rows |-> replayed.rows[i] @@ [position |-> i]]
TimestampsComplete == \A i \in DOMAIN Given : Given[i].time # NoTime

Chronological ==
  IF TimestampsComplete THEN <<"time", "device", "position">>
  ELSE IF replayed.sequences THEN <<"device", "sequence", "position">>
  ELSE <<"position">>
StorageOrder == <<"position">>

Kinds == {"alert_decisions", "alert_seconds", "mitigation_decisions", "mitigation_seconds"}
NoTally == [alerts |-> 0, mitigations |-> 0, attackRows |-> 0, attackAlerts |-> 0,
            attackMitigations |-> 0, falseAlerts |-> 0, attackEpisodes |-> 0,
            missedAlerts |-> 0, missedMitigations |-> 0,
            wallClock |-> TRUE, continuous |-> TRUE]
NoFirst == [decision |-> 0, time |-> NoTime]     \* a decision of 0 is no decision

Init ==
  /\ replayed \in [rows : Predictions, sequences : BOOLEAN, size : RunRows]
  /\ turn = "sort"
  /\ chronological = <<>> /\ episodes = <<>> /\ output = <<>>
  /\ tally = NoTally
  /\ delays = [k \in Kinds |-> EmptyBag]

SortPredictions ==
  /\ turn = "sort"
  /\ chronological' = MergeRuns(SortedRuns(Given, replayed.size, Chronological), Chronological)
  /\ tally' = [tally EXCEPT !.wallClock = TimestampsComplete]
  /\ turn' = "replay"
  /\ UNCHANGED <<replayed, episodes, delays, output>>

-------------------------------------------------------------------------------
(* _OperationalAccumulator.                                                   *)

EpisodeKey(r) == <<r.source, r.device>>
One(condition) == IF condition THEN 1 ELSE 0
Earlier(t, u) == IF t = NoTime \/ u < t THEN u ELSE t
Later(t, u) == IF t = NoTime \/ u > t THEN u ELSE t

Fresh == [decisions |-> 0, attack |-> FALSE, alert |-> FALSE, onset |-> NoFirst,
          alerted |-> NoFirst, mitigated |-> NoFirst, start |-> NoTime, end |-> NoTime]

DelaysOf(episode, first, decisions, seconds, table) ==
  IF first.decision = 0 THEN table
  ELSE [table EXCEPT
          ![decisions] = @ (+) SetToBag({first.decision - episode.onset.decision}),
          ![seconds] = IF NoTime \in {episode.onset.time, first.time} THEN @
                       ELSE @ (+) SetToBag({first.time - episode.onset.time})]

\* _finish_episode: an attack is over, and so are its delays.
FinishedTally(counts, episode) ==
  [counts EXCEPT !.attackEpisodes = @ + 1,
                 !.missedAlerts = @ + One(episode.alerted.decision = 0),
                 !.missedMitigations = @ + One(episode.mitigated.decision = 0)]
FinishedDelays(table, episode) ==
  DelaysOf(episode, episode.mitigated, "mitigation_decisions", "mitigation_seconds",
    DelaysOf(episode, episode.alerted, "alert_decisions", "alert_seconds", table))

\* The counters that only add rows up.
Counted(counts, r) ==
  LET alert == r.level >= Alert
      mitigation == r.level >= Mitigation
  IN [counts EXCEPT
        !.alerts = @ + One(alert), !.mitigations = @ + One(mitigation),
        !.attackRows = @ + One(r.attack), !.attackAlerts = @ + One(r.attack /\ alert),
        !.attackMitigations = @ + One(r.attack /\ mitigation),
        !.wallClock = @ /\ r.wall, !.continuous = @ /\ r.continuous]

\* The record of an episode after one more row; an onset begins it anew.
StepOf(state, r) ==
  LET now == [decision |-> state.decisions + 1, time |-> r.time]
      rising == r.attack /\ ~ state.attack
      Kept(first) == IF rising \/ ~ r.attack THEN NoFirst ELSE first
      First(first, level) ==
        IF r.attack /\ r.level >= level /\ Kept(first).decision = 0 THEN now ELSE Kept(first)
  IN [decisions |-> state.decisions + 1, attack |-> r.attack, alert |-> r.level >= Alert,
      onset |-> IF rising THEN now ELSE Kept(state.onset),
      alerted |-> First(state.alerted, Alert),
      mitigated |-> First(state.mitigated, Mitigation),
      start |-> IF r.time = NoTime THEN state.start ELSE Earlier(state.start, r.time),
      end |-> IF r.time = NoTime THEN state.end ELSE Later(state.end, r.time)]

\* update, and the row goes to the runs in storage order.
ReplayRow ==
  /\ turn = "replay" /\ chronological # <<>>
  /\ LET r == Head(chronological)
         key == EpisodeKey(r)
         state == IF key \in DOMAIN episodes THEN episodes[key] ELSE Fresh
         over == state.attack /\ ~ r.attack
         falseAlert == r.level >= Alert /\ ~ state.alert /\ ~ r.attack
         counts == IF over THEN FinishedTally(Counted(tally, r), state) ELSE Counted(tally, r)
     IN /\ episodes' = (key :> StepOf(state, r)) @@ episodes
        /\ tally' = [counts EXCEPT !.falseAlerts = @ + One(falseAlert)]
        /\ delays' = IF over THEN FinishedDelays(delays, state) ELSE delays
        /\ output' = Append(output, r)
  /\ chronological' = Tail(chronological)
  /\ UNCHANGED <<replayed, turn>>

Open == {key \in DOMAIN episodes : episodes[key].attack}

\* finalize ends the attacks that the rows have left open.
Finalize ==
  /\ turn = "replay" /\ chronological = <<>>
  /\ tally' = FoldSet(LAMBDA key, counts : FinishedTally(counts, episodes[key]), tally, Open)
  /\ delays' = FoldSet(LAMBDA key, table : FinishedDelays(table, episodes[key]), delays, Open)
  /\ turn' = "restore"
  /\ UNCHANGED <<replayed, chronological, episodes, output>>

RestoreStorageOrder ==
  /\ turn = "restore"
  /\ output' = MergeRuns(SortedRuns(output, replayed.size, StorageOrder), StorageOrder)
  /\ turn' = "done"
  /\ UNCHANGED <<replayed, chronological, episodes, tally, delays>>

\* The replay has returned.
Replayed == turn = "done" /\ UNCHANGED metricVars

Next == SortPredictions \/ ReplayRow \/ Finalize \/ RestoreStorageOrder \/ Replayed

Spec == Init /\ [][Next]_metricVars

-------------------------------------------------------------------------------
(* Reference: operational_metrics of state.py, which looks at the rows of an   *)
(* episode as a whole.                                                        *)

RowsOfEpisode(key) ==
  SelectSeq(SortSeq(Given, LAMBDA r, s : Precedes(Chronological, r, s)),
            LAMBDA r : EpisodeKey(r) = key)
Keys == {EpisodeKey(Given[i]) : i \in DOMAIN Given}
Onsets(rows) == {i \in DOMAIN rows : rows[i].attack /\ (i = 1 \/ ~ rows[i - 1].attack)}
\* The rows of the attack that begins at i.
Attack(rows, i) == {j \in i .. Len(rows) : \A k \in i .. j : rows[k].attack}
Attacks == UNION {{[key |-> key, onset |-> i] : i \in Onsets(RowsOfEpisode(key))} :
                    key \in Keys}
FirstAt(a, level) ==
  LET rows == RowsOfEpisode(a.key)
      at == {j \in Attack(rows, a.onset) : rows[j].level >= level}
  IN IF at = {} THEN 0 ELSE CHOOSE j \in at : \A k \in at : j <= k
Detected(level) == {a \in Attacks : FirstAt(a, level) # 0}
BagOver(S, f(_)) == [v \in {f(x) : x \in S} |-> Cardinality({x \in S : f(x) = v})]
DecisionDelay(a, level) == FirstAt(a, level) - a.onset
SecondDelay(a, level) ==
  LET rows == RowsOfEpisode(a.key) IN rows[FirstAt(a, level)].time - rows[a.onset].time
FalselyAlerted(rows) ==
  {j \in DOMAIN rows : /\ rows[j].level >= Alert /\ ~ rows[j].attack
                       /\ j = 1 \/ rows[j - 1].level < Alert}
HowMany(Which(_)) == Cardinality({i \in DOMAIN Given : Which(Given[i])})

\* After a replay the counters, the delays and the spans of the episodes are those
\* of the whole rows, and the rows are back in storage order.
MetricsAreReference ==
  turn = "done" =>
    /\ output = Given
    /\ tally.alerts = HowMany(LAMBDA r : r.level >= Alert)
    /\ tally.attackAlerts = HowMany(LAMBDA r : r.attack /\ r.level >= Alert)
    /\ tally.attackMitigations = HowMany(LAMBDA r : r.attack /\ r.level >= Mitigation)
    /\ tally.attackEpisodes = Cardinality(Attacks)
    /\ tally.missedAlerts = Cardinality(Attacks \ Detected(Alert))
    /\ tally.missedMitigations = Cardinality(Attacks \ Detected(Mitigation))
    /\ tally.falseAlerts =
         FoldSet(LAMBDA key, n : n + Cardinality(FalselyAlerted(RowsOfEpisode(key))), 0, Keys)
    /\ delays["alert_decisions"] =
         BagOver(Detected(Alert), LAMBDA a : DecisionDelay(a, Alert))
    /\ delays["mitigation_decisions"] =
         BagOver(Detected(Mitigation), LAMBDA a : DecisionDelay(a, Mitigation))
    /\ TimestampsComplete =>
         /\ delays["alert_seconds"] =
              BagOver(Detected(Alert), LAMBDA a : SecondDelay(a, Alert))
         /\ delays["mitigation_seconds"] =
              BagOver(Detected(Mitigation), LAMBDA a : SecondDelay(a, Mitigation))
         /\ \A key \in Keys :
              LET rows == RowsOfEpisode(key)
              IN /\ episodes[key].start = rows[1].time
                 /\ episodes[key].end = rows[Len(rows)].time
    /\ tally.wallClock = (TimestampsComplete /\ \A i \in DOMAIN Given : Given[i].wall)
    /\ tally.continuous = \A i \in DOMAIN Given : Given[i].continuous
===============================================================================
