------------------------- MODULE MCBootstrapPipeline -------------------------
(* Two archives of the same size, so that preflight cannot tell them apart. *)
EXTENDS BootstrapPipeline

CONSTANTS s1, c1

SameSize == [s \in Source |-> "size"]

\* Sources and configurations are alike, and a behaviour may as well begin
\* with s1 and c1.
BegunInit == Init /\ source = s1 /\ config = c1 /\ compute = "cuda"
BegunSpec ==
  BegunInit /\ [][Next]_vars /\ WF_vars(Begin) /\ WF_vars(Advance)
=============================================================================
