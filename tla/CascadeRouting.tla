--------------------------- MODULE CascadeRouting ---------------------------
(* Routing of the validation rows through the cascade (cascade.py), and its *)
(* durable progress: route_validation_cache (calibrate.py) hands batches to *)
(* CascadeStreamRouter, whose choice for a row depends on the temporal      *)
(* state all rows before it left, and commits the outputs to the            *)
(* calibration cache (cache.py): memory-mapped arrays and a journal.  A     *)
(* killed or powered-off run is resumed by replaying the committed outputs. *)
(* Rows are numbered in routing order; Order says which cache row each is.  *)
EXTENDS TemporalMachine

CONSTANTS
    RowKind,     \* what a row can be
    RowCount,    \* rows in the cache
    Order,       \* the deterministic order: ordinal to cache row
    ChunkRows,   \* chunk_rows, the largest batch
    MaxFaults,   \* crashes and power losses
    NoOutput     \* a preallocated slot

Ordinal == 1 .. RowCount
Row == [device : Device, fast : BOOLEAN, calm : -1 .. Top * Cardinality(Class),
        early : SUBSET Evidence, main : SUBSET Evidence, at : Time]
Output == [stage : 0 .. 2, seen : SUBSET Evidence]

RoutingAssumption ==
    /\ MachineAssumption
    /\ RowKind \subseteq Row
    /\ {RowCount, ChunkRows} \subseteq Nat \ {0}
    /\ Order \in [Ordinal -> Ordinal]
    /\ IsInjective(Order)
    /\ MaxFaults \in Nat
    /\ NoOutput \notin Output

ASSUME RowsAssumption == RoutingAssumption

VARIABLES
    rows,    \* the cache's inference rows in routing order
    cache,   \* the routing arrays as the page cache shows them
    stored,  \* and as a power loss would leave them at worst
    journal, \* the routing journal: [shown, onDisk], each the committed outputs
    router,  \* the router's temporal machine, in memory
    run,     \* the process: where it is, rows committed, replayed, batch, claimed
    faults

routingVars == <<rows, cache, stored, journal, router, run, faults>>

Arrays == {"position", "owner", "routed"}
Closed == [at |-> "closed", done |-> 0, replayed |-> 0, batch |-> <<>>, claimed |-> 0]
Go(place) == run' = [run EXCEPT !.at = place]

\* Rows sorted by timestamp when every row has one, else by device.
Chronological(s) ==
    IF \A i \in Ordinal : s[i].at # NoTime
    THEN \A i, j \in Ordinal : i < j => s[i].at <= s[j].at
    ELSE \A i, j, k \in Ordinal :
            (i < j /\ j < k /\ s[i].device = s[k].device) => s[j].device = s[i].device

\* What CalibrationCache.create preallocates and publishes.
RoutingInit ==
    /\ rows \in {s \in [Ordinal -> RowKind] : Chronological(s)}
    /\ cache = [position |-> [i \in Ordinal |-> 0], owner |-> [p \in Ordinal |-> 0],
                routed |-> [p \in Ordinal |-> NoOutput]]
    /\ stored = cache
    /\ journal = [shown |-> <<>>, onDisk |-> <<>>]
    /\ router = NoDevices
    /\ run = Closed
    /\ faults = 0

-----------------------------------------------------------------------------
(* The router.  A row's calm is the largest suspicion with which the tiny   *)
(* model's score still reaches exit_threshold (-1: it never does).          *)

RouteRow(m, row) ==
    LET suspicion == Suspicion(Get(m, row.device), row.device)
    IN  IF row.fast /\ suspicion = 0 THEN [stage |-> 0, seen |-> {Benign}]
        ELSE IF suspicion <= row.calm THEN [stage |-> 1, seen |-> row.early]
        ELSE [stage |-> 2, seen |-> row.main]

\* route_batch over the next n rows: the outputs and the machine after them.
RouteBatch(m, first, n) ==
    LET step[k \in 0 .. n] ==
            IF k = 0 THEN [machine |-> m, outputs |-> <<>>]
            ELSE LET before == step[k - 1]
                     row    == rows[first + k - 1]
                     output == RouteRow(before.machine, row)
                 IN  [machine |-> Update(before.machine, row.device, output.seen, row.at),
                      outputs |-> Append(before.outputs, output)]
    IN  step[n]

\* A variant that starts every chunk with a new machine.
ReplayBatchAfresh(m, first, n) ==
    LET step[k \in 0 .. n] ==
            IF k = 0 THEN NoDevices
            ELSE Update(step[k - 1], rows[first + k - 1].device,
                        cache.routed[cache.position[first + k - 1]].seen,
                        rows[first + k - 1].at)
    IN  step[n]

\* replay_batch over n committed rows: it updates and does not route.
ReplayBatch(m, first, n) ==
    LET step[k \in 0 .. n] ==
            IF k = 0 THEN m
            ELSE Update(step[k - 1], rows[first + k - 1].device,
                        cache.routed[cache.position[first + k - 1]].seen,
                        rows[first + k - 1].at)
    IN  step[n]

-----------------------------------------------------------------------------
(* CalibrationCache: opening for resume.                                    *)

\* The digest of every committed range covers position, owner and output.
Verified(log) ==
    \A i \in DOMAIN log :
        /\ cache.position[i] = log[i].position
        /\ cache.owner[log[i].position] = i
        /\ cache.routed[log[i].position] = log[i].output

\* _clear_stale_routing_owners: claims no journal confirms are given up.
WithoutStaleOwners(owner, committed) ==
    [p \in Ordinal |-> IF owner[p] > committed THEN 0 ELSE owner[p]]

\* _open: a committed range that fails its digest ends the run.
Open ==
    /\ run.at = "closed"
    /\ IF Verified(journal.shown)
       THEN /\ cache' = [cache EXCEPT !.owner = WithoutStaleOwners(@, Len(journal.shown))]
            /\ run' = [run EXCEPT !.at = "flushCleared", !.done = Len(journal.shown)]
       ELSE Go("refused") /\ UNCHANGED cache
    /\ UNCHANGED <<rows, stored, journal, router, faults>>

\* Flush one array of the cache: its bytes survive a power loss from here on.
Flush(array, place) ==
    /\ stored' = [stored EXCEPT ![array] = cache[array]]
    /\ Go(place)
    /\ UNCHANGED <<rows, cache, journal, router, faults>>

FlushCleared == run.at = "flushCleared" /\ Flush("owner", "replay")

\* The rows of the next chunk of the committed prefix.
Chunk == IF run.done - run.replayed < ChunkRows THEN run.done - run.replayed
         ELSE ChunkRows

Replay ==
    /\ run.at = "replay"
    /\ run.replayed < run.done
    /\ router' = ReplayBatch(router, run.replayed + 1, Chunk)
    /\ run' = [run EXCEPT !.replayed = @ + Chunk]
    /\ UNCHANGED <<rows, cache, stored, journal, faults>>

ReplayDone ==
    /\ run.at = "replay"
    /\ run.replayed = run.done
    /\ Go("ready")
    /\ UNCHANGED <<rows, cache, stored, journal, router, faults>>

-----------------------------------------------------------------------------
(* One batch: route, claim the cache rows, scatter, flush, publish.         *)

\* A batch is shorter at the end and where stop_after_routed_rows cuts it.
Route ==
    /\ run.at = "ready"
    /\ run.done < RowCount
    /\ \E n \in 1 .. ChunkRows :
          /\ run.done + n <= RowCount
          /\ LET routed == RouteBatch(router, run.done + 1, n)
             IN  /\ router' = routed.machine
                 /\ run' = [run EXCEPT !.at = "claim", !.batch = routed.outputs]
    /\ UNCHANGED <<rows, cache, stored, journal, faults>>

\* The cache rows the batch has claimed so far.
Claimed == {cache.position[run.done + k] : k \in 1 .. run.claimed}

\* _claim_routing_positions, as far as the next row.  A row somebody owns
\* ends the run, and what the batch claimed so far is cleared.
Claim ==
    LET next == run.done + run.claimed + 1
        position == Order[next]
    IN  /\ run.at = "claim"
        /\ run.claimed < Len(run.batch)
        /\ IF cache.owner[position] = 0
           THEN /\ cache' = [cache EXCEPT !.position[next] = position,
                                          !.owner[position] = next]
                /\ run' = [run EXCEPT !.claimed = @ + 1]
           ELSE /\ cache' = [cache EXCEPT !.owner =
                                [p \in Ordinal |-> IF p \in Claimed THEN 0 ELSE @[p]]]
                /\ Go("refused")
        /\ UNCHANGED <<rows, stored, journal, router, faults>>

Scatter ==
    /\ run.at = "claim"
    /\ run.claimed = Len(run.batch)
    /\ cache' = [cache EXCEPT !.routed = [p \in Ordinal |->
                    IF p \in Claimed THEN run.batch[cache.owner[p] - run.done] ELSE @[p]]]
    /\ Go("flushPosition")
    /\ UNCHANGED <<rows, stored, journal, router, faults>>

FlushPosition == run.at = "flushPosition" /\ Flush("position", "flushOwner")
FlushOwner == run.at = "flushOwner" /\ Flush("owner", "flushRouted")
FlushRouted == run.at = "flushRouted" /\ Flush("routed", "publish")

\* _publish_journal: os.replace shows the new journal, the commits before it
\* kept; the directory flush makes it durable and ends the commit.
PublishJournal ==
    /\ run.at = "publish"
    /\ journal' = [journal EXCEPT !.shown = @ \o
                      [k \in 1 .. Len(run.batch) |->
                          [position |-> cache.position[run.done + k],
                           output   |-> cache.routed[cache.position[run.done + k]]]]]
    /\ Go("syncJournal")
    /\ UNCHANGED <<rows, cache, stored, router, faults>>

SyncJournal ==
    /\ run.at = "syncJournal"
    /\ journal' = [journal EXCEPT !.onDisk = journal.shown]
    /\ run' = [Closed EXCEPT !.at = "ready", !.done = run.done + Len(run.batch)]
    /\ UNCHANGED <<rows, cache, stored, router, faults>>

Finish ==
    /\ run.at = "ready"
    /\ run.done = RowCount
    /\ Go("done")
    /\ UNCHANGED <<rows, cache, stored, journal, router, faults>>

-----------------------------------------------------------------------------
(* The environment: a kill (also an error, which poisons the cache object)  *)
(* and a power loss, which keeps any of the unflushed elements.             *)

Fault ==
    /\ run.at # "closed"
    /\ run.at # "refused"
    /\ faults < MaxFaults
    /\ faults' = faults + 1
    /\ run' = Closed
    /\ router' = NoDevices
    /\ UNCHANGED rows

Crash == Fault /\ UNCHANGED <<cache, stored, journal>>

\* Every mix of the flushed and the unflushed elements of an array.
Survivors(array) ==
    LET dirty == {i \in Ordinal : cache[array][i] # stored[array][i]}
    IN  {[i \in Ordinal |-> IF i \in kept THEN cache[array][i] ELSE stored[array][i]] :
            kept \in SUBSET dirty}

PowerLoss ==
    /\ Fault
    /\ \E p \in Survivors("position"), o \in Survivors("owner"), r \in Survivors("routed") :
          cache' = [position |-> p, owner |-> o, routed |-> r]
    /\ stored' = cache'
    /\ \E log \in {journal.shown, journal.onDisk} : journal' = [shown |-> log, onDisk |-> log]

-----------------------------------------------------------------------------
Advance ==
    \/ Open \/ FlushCleared \/ Replay \/ ReplayDone
    \/ Route \/ Claim \/ Scatter
    \/ FlushPosition \/ FlushOwner \/ FlushRouted
    \/ PublishJournal \/ SyncJournal \/ Finish

RoutingNext == Advance \/ Crash \/ PowerLoss

RoutingSpec == RoutingInit /\ [][RoutingNext]_routingVars

\* The command that routes is started again after a fault and runs.
FairRoutingSpec == RoutingSpec /\ WF_routingVars(Advance)

-----------------------------------------------------------------------------
(* Properties.                                                              *)

\* The saturating counters stay in range and the cache in its layout; the
\* run never has more claims than outputs nor commits more than there is.
RoutingTypeOK ==
    /\ rows \in [Ordinal -> RowKind]
    /\ \A arrays \in {cache, stored} :
          /\ DOMAIN arrays = Arrays
          /\ arrays.position \in [Ordinal -> 0 .. RowCount]
          /\ arrays.owner \in [Ordinal -> 0 .. RowCount]
          /\ arrays.routed \in [Ordinal -> Output \cup {NoOutput}]
    /\ \A log \in {journal.shown, journal.onDisk} :
          log \in Seq([position : Ordinal, output : Output])
    /\ IsMachine(router)
    /\ run.at \in {"closed", "flushCleared", "replay", "ready", "claim", "flushPosition",
                   "flushOwner", "flushRouted", "publish", "syncJournal", "done", "refused"}
    /\ run.batch \in Seq(Output)
    /\ run.claimed \in 0 .. Len(run.batch)
    /\ run.replayed \in 0 .. run.done
    /\ run.done + Len(run.batch) <= RowCount
    /\ faults \in 0 .. MaxFaults

\* The machine of one process that routes all rows and is never stopped.
Uninterrupted ==
    LET m[n \in 0 .. RowCount] ==
            IF n = 0 THEN NoDevices
            ELSE LET before == m[n - 1]
                 IN  Update(before, rows[n].device, RouteRow(before, rows[n]).seen,
                            rows[n].at)
    IN  m

\* Wherever runs were stopped and however the rows were cut into batches,
\* the committed outputs are those of one uninterrupted pass, row for row,
\* and a run that is ready for its next batch holds exactly the temporal
\* state, order of devices and evictions included, that this pass has there.
CommittedAsUninterrupted ==
    LET machine == Uninterrupted
    IN  /\ \A i \in DOMAIN journal.shown :
              journal.shown[i] = [position |-> Order[i],
                                  output   |-> RouteRow(machine[i - 1], rows[i])]
        /\ run.at = "ready" => router = machine[run.done]

\* What the code's own crashes leave behind is never taken for damage: no
\* start refuses the cache over a committed range that fails its digest, and
\* no batch is refused because a dead run's claim still owns its row.
CacheAccepted == run.at # "refused"

\* A journal never runs ahead of the arrays it vouches for: whichever of its
\* two versions a power loss leaves, its rows are on the disk under their
\* owner, so no order of write-back can tear a committed range.
JournalIsBacked ==
    \A log \in {journal.shown, journal.onDisk} : \A i \in DOMAIN log :
        /\ stored.position[i] = log[i].position
        /\ stored.owner[log[i].position] = i
        /\ stored.routed[log[i].position] = log[i].output

\* Wherever routing is stopped, what is committed is what one pass would
\* commit, the journal names durable rows only, no start refuses the cache.
RoutedAsUninterrupted ==
    RoutingTypeOK /\ CommittedAsUninterrupted /\ JournalIsBacked /\ CacheAccepted

\* If faults end and the command is repeated, every row is routed.
RoutingFinishes == <>[](run.at = "done")
=============================================================================
