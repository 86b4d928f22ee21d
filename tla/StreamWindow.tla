---------------------------- MODULE StreamWindow ----------------------------
(* MicroSecurityFeatureProcessor of streaming.py, fed in timestamp order by *)
(* process_metadata_csv: per device a sliding window of packet events and   *)
(* the statistics its features are computed from, kept up to date event by  *)
(* event and never recomputed.  `destinations` stands for the three         *)
(* counters per key (protocol, destination, port), `fresh` for the sums of  *)
(* one number per event (flags, lengths), which the code treats alike.      *)
EXTENDS Integers, FiniteSetsExt, LruOrder

CONSTANTS
    Device, Destination,
    Second,      \* ticks in a second: timestamps are fractions of seconds
    Window,      \* window_seconds, in ticks
    MaxEvents,   \* max_events_per_device
    MaxKnown,    \* max_known_destinations
    MaxDevices,  \* max_devices
    LastTick     \* bound on time

LimitsAssumption ==
    /\ {Second, Window, MaxEvents, MaxKnown, MaxDevices} \subseteq Nat \ {0}
    /\ LastTick \in Nat

VARIABLES
    order,    \* the devices, the one seen longest ago first
    windows,  \* their windows
    clock     \* the timestamp of the last row

vars == <<order, windows, clock>>

Tick == 0 .. LastTick
SecondOf(at) == at \div Second
Event == [destination : Destination, at : Tick, new : BOOLEAN]

NewWindow ==
    [events       |-> <<>>,
     known        |-> <<>>,
     destinations |-> [d \in Destination |-> 0],
     seconds      |-> [s \in 0 .. SecondOf(LastTick) |-> 0],
     frequencies  |-> [n \in 1 .. MaxEvents |-> 0],
     maximum      |-> 0,
     fresh        |-> 0,
     intervals    |-> 0]

Init == order = <<>> /\ windows = <<>> /\ clock = 0

-----------------------------------------------------------------------------
(* One window.  A Counter without a key is a count of zero.                 *)

\* How many seconds hold n events, after one of them went from m to n.
Moved(frequencies, m, n) ==
    [k \in DOMAIN frequencies |->
        frequencies[k] + (IF k = n THEN 1 ELSE 0) - (IF k = m THEN 1 ELSE 0)]

One(flag) == IF flag THEN 1 ELSE 0

\* A variant of _remove_left that never lowers the maximum.
RemoveLeftKeepingMaximum(w) ==
    LET event == Head(w.events)
        rest  == Tail(w.events)
        n     == w.seconds[SecondOf(event.at)]
    IN  [w EXCEPT
            !.events = rest,
            !.intervals = @ - (IF rest = <<>> THEN 0 ELSE Head(rest).at - event.at),
            !.destinations[event.destination] = @ - 1,
            !.seconds[SecondOf(event.at)] = @ - 1,
            !.frequencies = Moved(@, n, n - 1),
            !.fresh = @ - One(event.new)]

\* _remove_left
RemoveLeft(w) ==
    LET event == Head(w.events)
        rest  == Tail(w.events)
        n     == w.seconds[SecondOf(event.at)]
        moved == Moved(w.frequencies, n, n - 1)
    IN  [w EXCEPT
            !.events = rest,
            !.intervals = @ - (IF rest = <<>> THEN 0 ELSE Head(rest).at - event.at),
            !.destinations[event.destination] = @ - 1,
            !.seconds[SecondOf(event.at)] = @ - 1,
            !.frequencies = moved,
            !.maximum = IF n = @ /\ moved[n] = 0 THEN n - 1 ELSE @,
            !.fresh = @ - One(event.new)]

\* A variant of the window's edge that takes the event exactly on it.
StaleOnEdge(event, now) == event.at <= now - Window

\* Events before the cutoff have left the window.
Stale(event, now) == event.at < now - Window

\* The loop of update that empties the left end of the window.
Expire(w, now) ==
    LET kept[k \in 0 .. MaxEvents] ==
            IF k = 0 THEN w
            ELSE LET v == kept[k - 1]
                 IN  IF v.events # <<>> /\ Stale(Head(v.events), now)
                     THEN RemoveLeft(v) ELSE v
    IN  kept[MaxEvents]

\* _append: a full window makes room first.
AppendEvent(w, event) ==
    LET v == IF Len(w.events) >= MaxEvents THEN RemoveLeft(w) ELSE w
        n == v.seconds[SecondOf(event.at)] + 1
    IN  [v EXCEPT
            !.events = Append(@, event),
            !.intervals = @ + (IF v.events = <<>> THEN 0 ELSE event.at - Last(v.events).at),
            !.destinations[event.destination] = @ + 1,
            !.seconds[SecondOf(event.at)] = n,
            !.frequencies = Moved(@, n - 1, n),
            !.maximum = IF n > @ THEN n ELSE @,
            !.fresh = @ + One(event.new)]

-----------------------------------------------------------------------------
\* update: one row of the metadata file.
Update(device, destination, at) ==
    LET touched == Touch(order, device, MaxDevices)
        old     == IF device \in ToSet(order) THEN windows[device] ELSE NewWindow
        w       == Expire(old, at)
        event   == [destination |-> destination, at |-> at,
                    new |-> destination \notin ToSet(w.known)]
        updated == AppendEvent([w EXCEPT !.known = Touch(@, destination, MaxKnown)], event)
    IN  /\ order' = touched
        /\ windows' = [d \in ToSet(touched) |-> IF d = device THEN updated ELSE windows[d]]
        /\ clock' = at

\* reset of one device; reset() forgets them all.
Reset(device) ==
    /\ device \in ToSet(order)
    /\ order' = SelectSeq(order, LAMBDA d : d # device)
    /\ windows' = [d \in ToSet(order) \ {device} |-> windows[d]]
    /\ UNCHANGED clock

ResetAll == order' = <<>> /\ windows' = <<>> /\ UNCHANGED clock

Next ==
    \/ \E device \in Device, destination \in Destination, at \in clock .. LastTick :
          Update(device, destination, at)
    \/ \E device \in Device : Reset(device)
    \/ ResetAll

Spec == Init /\ [][Next]_vars

-----------------------------------------------------------------------------
(* Properties.                                                              *)

TypeOK ==
    /\ order \in Seq(Device)
    /\ Len(order) <= MaxDevices
    /\ IsInjective(order)
    /\ clock \in Tick
    /\ DOMAIN windows = ToSet(order)
    /\ \A d \in DOMAIN windows :
          /\ windows[d].events \in Seq(Event)
          /\ Len(windows[d].events) \in 1 .. MaxEvents
          /\ windows[d].known \in Seq(Destination)
          /\ Len(windows[d].known) <= MaxKnown
          /\ IsInjective(windows[d].known)

\* The incremental statistics are at all times what a pass over the window
\* would compute: counts per key and per second, how many seconds hold how
\* many events, the fullest second, the sums over events and intervals.
StatisticsMatchWindow ==
    \A d \in DOMAIN windows :
        LET w == windows[d]
            Where(P(_)) == Cardinality({i \in DOMAIN w.events : P(w.events[i])})
        IN  /\ \A k \in Destination :
                  w.destinations[k] = Where(LAMBDA e : e.destination = k)
            /\ \A s \in DOMAIN w.seconds :
                  w.seconds[s] = Where(LAMBDA e : SecondOf(e.at) = s)
            /\ \A n \in DOMAIN w.frequencies :
                  w.frequencies[n] = Cardinality({s \in DOMAIN w.seconds : w.seconds[s] = n})
            /\ w.maximum = Max({w.seconds[s] : s \in DOMAIN w.seconds})
            /\ w.fresh = Where(LAMBDA e : e.new)
            /\ w.intervals = Last(w.events).at - Head(w.events).at

\* After any pause, however long and whatever arrived in between, a window
\* holds nothing older than window_seconds before its newest event.
WindowIsRecent ==
    \A d \in DOMAIN windows :
        LET events == windows[d].events
        IN  \A i \in DOMAIN events : events[i].at >= Last(events).at - Window

\* A destination seen in the window is taken for new again only if at least
\* max_known_destinations others were used since: the bounded memory forgets
\* the least recently used destination, never one in use.
UsedDestinationsKnown ==
    \A d \in DOMAIN windows :
        LET events == windows[d].events
            LastUse(k) == Max({0} \cup {i \in DOMAIN events : events[i].destination = k})
        IN  \A k \in Destination :
                (/\ LastUse(k) > 0
                 /\ Cardinality({o \in Destination : LastUse(o) > LastUse(k)}) < MaxKnown)
                    => k \in ToSet(windows[d].known)

\* The device given up for a new one is the one silent for longest.
DevicesByRecency ==
    \A i, j \in DOMAIN order :
        i < j => Last(windows[order[i]].events).at <= Last(windows[order[j]].events).at

\* An update takes an event out of a surviving window only because it is too
\* old or because the window is full; the event on the window's edge stays.
OnlyStaleOrSurplusLeaves ==
    [][\A d \in DOMAIN windows \cap DOMAIN windows' :
          LET before == windows[d].events
              after  == windows'[d].events
          IN  \A i \in DOMAIN before :
                  \/ before[i] \in ToSet(after)
                  \/ before[i].at < clock' - Window
                  \/ Len(after) = MaxEvents]_vars
=============================================================================
