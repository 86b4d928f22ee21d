---------------------------- MODULE PreparedArtifacts ----------------------------
(* The artifacts of one prepared generation, as the calls of                     *)
(* prepare_full_dataset leave them, and what a reader of them relies on.         *)
(* The content of an artifact is the set of source contents it was made from.    *)
CONSTANTS Manifest, \* the contents the source manifest names
          None      \* an artifact that is not there

Artifact == {"config", "membership", "splitManifest", "preprocessor", "features",
             "shards", "descriptor"}

VARIABLES
  disk,     \* content of every published artifact
  durable   \* what a power loss is sure to leave of disk

\* Whatever is published, by a call that succeeded or not, was made from the
\* contents the source manifest names and from nothing else, although the raw
\* source may change under the passes.
ArtifactsAreTrue == \A a \in Artifact : disk[a] \in {None, {Manifest}}

\* Once a power loss cannot take the descriptor any more it cannot take
\* anything the descriptor names.
DescriptorIsBacked ==
  durable["descriptor"] # None => \A a \in Artifact : durable[a] = {Manifest}

\* Published artifacts are made from the source that the manifest names, and a
\* durable descriptor names durable artifacts only.
PublishedIsTrue == ArtifactsAreTrue /\ DescriptorIsBacked
===================================================================================
