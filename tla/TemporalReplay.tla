--------------------------- MODULE TemporalReplay ---------------------------
(* The life of a TemporalSecurityStateMachine under replay_predictions and  *)
(* the cascade: rows of many devices update it in the order the prediction  *)
(* file gives them, with timestamps that may be missing and, in a file that *)
(* is ordered by sequence, may go back.  `heard` is what the rows of a      *)
(* device told the machine since the machine last created its state.        *)
EXTENDS TemporalMachine

CONSTANTS
    LastTime,     \* bound on timestamps
    MaxEvictions  \* bound on the evictions followed

ASSUME ReplayAssumption ==
    /\ MachineAssumption
    /\ LastTime \in Nat /\ MaxEvictions \in Nat

VARIABLES
    machine,
    heard      \* history: [first, latest, quiet] of every held device

replayVars == <<machine, heard>>

NothingHeard == [first |-> NoTime, latest |-> NoTime, quiet |-> 0]
Stamp == 0 .. LastTime \cup {NoTime}

ReplayInit == machine = NoDevices /\ heard = <<>>

\* The history of the devices machine' holds, `new` being that of the one looked up.
Remember(device, new) ==
    heard' = [d \in DOMAIN machine'.states |-> IF d = device THEN new ELSE heard[d]]

Heard(device) == IF device \in DOMAIN heard THEN heard[device] ELSE NothingHeard

\* What is known of a device once a row told of `suspects` at a time.
Hears(old, suspects, at) ==
    [first  |-> IF old.first = NoTime THEN at ELSE old.first,
     latest |-> IF old.latest = NoTime THEN at
                ELSE IF at = NoTime \/ at < old.latest THEN old.latest ELSE at,
     quiet  |-> IF suspects # {} THEN 0
                ELSE IF old.quiet < Top THEN old.quiet + 1 ELSE Top]

\* A row: suspicious kinds in `suspects`, the benign score high or not.
ScoreRow(device, suspects, calm, at) ==
    /\ machine' = Update(machine, device, suspects \cup (IF calm THEN {Benign} ELSE {}), at)
    /\ Remember(device, Hears(Heard(device), suspects, at))

\* temporal_suspicion looks the device up, which creates it and may evict.
AskSuspicion(device) ==
    /\ machine' = Get(machine, device)
    /\ Remember(device, Heard(device))

\* reset of one device, and of all.
ResetDevice(device) ==
    /\ device \in DOMAIN machine.states
    /\ machine' = [machine EXCEPT
                      !.order = RemoveAt(@, CHOOSE i \in DOMAIN @ : @[i] = device),
                      !.states = [d \in DOMAIN @ \ {device} |-> @[d]]]
    /\ heard' = [d \in DOMAIN heard \ {device} |-> heard[d]]

ResetDevices ==
    /\ machine' = [machine EXCEPT !.order = <<>>, !.states = <<>>]
    /\ heard' = <<>>

ReplayNext ==
    /\ \/ \E device \in Device, suspects \in SUBSET Class, calm \in BOOLEAN, at \in Stamp :
             ScoreRow(device, suspects, calm, at)
       \/ \E device \in Device : AskSuspicion(device) \/ ResetDevice(device)
       \/ ResetDevices
    /\ machine'.evictions <= MaxEvictions

ReplaySpec == ReplayInit /\ [][ReplayNext]_replayVars

-----------------------------------------------------------------------------
(* Properties.                                                              *)

\* Counters saturate at both ends, whatever decay a long silence adds up to.
CountersTypeOK ==
    /\ IsMachine(machine)
    /\ DOMAIN heard = DOMAIN machine.states

\* Decay follows the clock, not the rows: however the rows of a device cut
\* its time up, and whichever of them are late or have no time, the machine
\* has accounted for every whole interval since the first timestamp once.
NoTimeLost ==
    \A d \in DOMAIN heard :
        LET last == machine.states[d].last
        IN  /\ (last = NoTime) <=> (heard[d].first = NoTime)
            /\ last # NoTime =>
                  /\ (last - heard[d].first) % Interval = 0
                  /\ last <= heard[d].latest
                  /\ heard[d].latest < last + Interval

\* Suspicion wears off: after rows enough without suspicious evidence, of
\* whatever times, no earlier attack is left in the counters.
QuietDeviceIsCleared ==
    \A d \in DOMAIN heard :
        heard[d].quiet * Decay >= Top =>
            \A c \in Class : machine.states[d].level[c] = 0

\* The counters are right whatever the order and the times of the rows: within
\* their bounds, with no interval lost or counted twice, and cleared in time.
CountersAreRight == CountersTypeOK /\ NoTimeLost /\ QuietDeviceIsCleared
=============================================================================
