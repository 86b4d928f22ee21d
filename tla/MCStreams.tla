------------------------------ MODULE MCStreams ------------------------------
(* The code that works row by row: the epochs of streaming training, the       *)
(* windows of the streaming features, and the temporal state of the cascade.   *)
(* They share no state in the code; each behaviour here is of one of them,     *)
(* while the others stand still.                                               *)
EXTENDS EpochStream, TemporalReplay, TLC

CONSTANT Destination

\* Two classes, whose row groups fill neither a batch nor the buffer.
TwoShards == << [label |-> 1, groups |-> <<2, 1>>], [label |-> 2, groups |-> <<2, 2>>] >>

VARIABLES
  part,
  order, windows, clock  \* StreamWindow: windows that fill before they go stale

windowVars == <<order, windows, clock>>
all == <<part, streamVars, windowVars, replayVars>>

W == INSTANCE StreamWindow WITH
  Second <- 2, Window <- 1, MaxEvents <- 3, MaxKnown <- 2, MaxDevices <- 2, LastTick <- 2

ASSUME StreamsAssumption ==
  MixesInOrder /\ W!LimitsAssumption

NoEpochs == score = [i \in 1 .. EpochLimit |-> 0] /\ StreamInit
PartInit ==
  /\ part \in {"epochs", "windows", "machine"}
  /\ IF part = "epochs" THEN StreamInit ELSE NoEpochs
  /\ W!Init /\ ReplayInit

Training == part = "epochs" /\ UNCHANGED <<part, windowVars, replayVars>>
Streaming == part = "windows" /\ UNCHANGED <<part, streamVars, replayVars>>
Scoring == part = "machine" /\ UNCHANGED <<part, streamVars, windowVars>>

PartNext ==
  \/ \E w \in WorkerCounts : Training /\ StartProcess(w)
  \/ (Training /\ ChunkArrives) \/ (Training /\ TrainBatch) \/ (Training /\ EndEpoch)
  \/ (Training /\ Validate) \/ (Training /\ KillProcess) \/ (Training /\ Ended)
  \/ \E device \in Device, destination \in Destination, at \in clock .. 2 :
       Streaming /\ W!Update(device, destination, at)
  \/ \E device \in Device : Streaming /\ W!Reset(device)
  \/ Streaming /\ W!ResetAll
  \/ Scoring /\ ReplayNext

PartSpec == PartInit /\ [][PartNext]_all

\* Devices are alike, and so are destinations.
Symmetry == Permutations(Device) \cup Permutations(Destination)

-------------------------------------------------------------------------------

\* The statistics kept event by event are those of a pass over the window, the
\* window is recent, the memory of destinations and devices is bounded, and what
\* it gives up is what was used longest ago.
WindowsAreRight ==
  /\ W!TypeOK /\ W!StatisticsMatchWindow /\ W!WindowIsRecent
  /\ W!UsedDestinationsKnown /\ W!DevicesByRecency

\* Events leave a window only because they are too old or there are too many.
OnlyStaleOrSurplusLeaves == W!OnlyStaleOrSurplusLeaves
===============================================================================
