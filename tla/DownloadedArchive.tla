--------------------------- MODULE DownloadedArchive ---------------------------
(* What a download leaves under the name of an archive, and what a reader of it *)
(* relies on. An archive is a sequence of blocks, each written as the version   *)
(* that it was cut from.                                                        *)
EXTENDS Integers, Sequences

CONSTANTS
  Version,     \* what the server may serve over time
  Blocks,      \* the length of each version
  Absent       \* a file that is not there, and what the caller does not know

ASSUME DownloadAssumption ==
  Blocks \in [Version -> Nat \ {0}] /\ Absent \notin Version \cup Nat

VARIABLES
  pinned,      \* the version whose size and digest the caller expects, or Absent
  final,       \* what the name holds, or Absent
  cut,         \* a body of undeclared length was cut off, history
  replaced     \* how often the server changed the version that it serves, history

AllBlocks(v) == [i \in 1..Blocks[v] |-> v]

\* However calls were interrupted and resumed, a published archive is one that
\* the server served whole: the blocks of one version, each once, in order.  A
\* pinned one is that very version, whatever the server did.  Without a pin a
\* replaced archive may be mixed with what was received of the old one, and a
\* body of undeclared length that was cut off cannot be told from a whole one.
PublishedIsOneVersion ==
  final # Absent =>
    IF pinned # Absent THEN final = AllBlocks(pinned)
    ELSE cut \/ replaced > 0 \/ \E v \in Version : final = AllBlocks(v)
================================================================================
