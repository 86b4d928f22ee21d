-------------------------- MODULE TemporalMachine --------------------------
(* TemporalSecurityStateMachine of state.py as operators on a value: per    *)
(* device one saturating counter for every kind of evidence, kept for the   *)
(* MaxDevices devices used last and worn down by the clock.  A row's        *)
(* probabilities are reduced to the set of kinds whose score reaches        *)
(* evidence_threshold; counters hold 0 .. Top (15 in the code).             *)
EXTENDS Integers, FiniteSetsExt, LruOrder

CONSTANTS
    Device,      \* the episode and device keys
    Class,       \* the suspicious kinds: scan, flood, beacon, unknown
    Benign,      \* the benign kind
    Top,         \* where a counter saturates
    Increment,   \* what evidence adds
    Decay,       \* what its absence, or one interval, takes away
    Interval,    \* decay_interval_seconds
    MaxDevices,  \* max_devices
    NoTime       \* a row without a timestamp

MachineAssumption ==
    /\ Benign \notin Class
    /\ {Top, Increment, Decay, Interval, MaxDevices} \subseteq Nat \ {0}
    /\ NoTime \notin Int

Evidence == Class \cup {Benign}
Time == Nat \cup {NoTime}

NewCounters == [level |-> [e \in Evidence |-> 0], last |-> NoTime]
NoDevices == [order |-> <<>>, states |-> <<>>, evictions |-> 0]

IsMachine(m) ==
    /\ m.order \in Seq(Device)
    /\ Len(m.order) <= MaxDevices
    /\ IsInjective(m.order)
    /\ m.states \in [ToSet(m.order) ->
                        [level : [Evidence -> 0 .. Top], last : Time]]
    /\ m.evictions \in Nat

-----------------------------------------------------------------------------
\* get: even a lookup creates the device, and may push another one out.
Get(m, d) ==
    LET order == Touch(m.order, d, MaxDevices)
    IN  [order     |-> order,
         states    |-> [k \in ToSet(order) |->
                            IF k \in DOMAIN m.states THEN m.states[k] ELSE NewCounters],
         evictions |-> m.evictions + (IF Displaces(m.order, d, MaxDevices) THEN 1 ELSE 0)]

\* Whole intervals since the time already accounted for; an older row: none.
Intervals(last, at) ==
    IF NoTime \in {last, at} \/ at < last THEN 0 ELSE (at - last) \div Interval

\* A variant that moves on to the row's own time and loses the remainder.
AccountedToRow(last, at) ==
    IF at = NoTime THEN last
    ELSE IF last = NoTime \/ Intervals(last, at) > 0 THEN at ELSE last

\* _time_decay moves on by the intervals it charged and keeps the remainder.
Accounted(last, at) ==
    IF at = NoTime THEN last
    ELSE IF last = NoTime THEN at
    ELSE last + Intervals(last, at) * Interval

\* SecurityCounters.clip.
Clip(n) == IF n < 0 THEN 0 ELSE IF n > Top THEN Top ELSE n

\* update: every counter moves by its evidence less the elapsed decay.
Counted(c, seen, at) ==
    [level |-> [e \in Evidence |->
                   Clip(c.level[e] + (IF e \in seen THEN Increment ELSE -Decay)
                                   - Intervals(c.last, at) * Decay)],
     last  |-> Accounted(c.last, at)]

Update(m, d, seen, at) ==
    LET got == Get(m, d)
    IN  [got EXCEPT !.states[d] = Counted(got.states[d], seen, at)]

\* temporal_suspicion of a device the machine holds, in sixtieths.
Suspicion(m, d) ==
    LET level == m.states[d].level
        excess == MapThenSumSet(LAMBDA c : level[c], Class) - level[Benign]
    IN  IF excess > 0 THEN excess ELSE 0
=============================================================================
