--------------------------- MODULE Preparation_proofs ---------------------------
(***************************************************************************)
(* Theorems about prepare_full_dataset, for any source, any contents of    *)
(* it, and any number of faults and edits.                                 *)
(***************************************************************************)
EXTENDS Preparation, TLAPS

-----------------------------------------------------------------------------
(* The order of the steps *)

PastShards == {"verification", "descriptor"}
PastFeatures == {"materialization", "shards"} \cup PastShards
PastPreprocessor == {"features"} \cup PastFeatures
PastSplit ==
  {"imputation", "anova", "calibration", "preprocessor"} \cup PastPreprocessor
Made == {"membership", "splitManifest"} \cup PastSplit
PastProof == {"split"} \cup Made
PastConfig == {"plan", "proof"} \cup PastProof
Building == {"config"} \cup PastConfig
Undoing == {"undoSplitManifest", "undoMembership", "undone"}
Place ==
  Building \cup Undoing \cup {"idle", "verify", "returned", "refused", "blocked", "raised"}

LEMMA OrderDomain == DOMAIN Order = 1..16
BY SMT DEF Order

LEMMA OrderInjective == \A i, j \in 1..16 : Order[i] = Order[j] => i = j
BY SMT DEF Order

\* The successor of a step is what Order lists next.
LEMMA AfterIsNext ==
  ASSUME NEW i \in 1..15
  PROVE  After(Order[i]) = Order[i + 1]
<1>1. Turn(Order[i]) \in DOMAIN Order /\ Order[Turn(Order[i])] = Order[i]
  BY OrderDomain DEF Turn
<1>2. Turn(Order[i]) = i
  BY <1>1, OrderDomain, OrderInjective, SMT
<1>3. QED
  BY <1>2 DEF After

LEMMA Successors ==
  /\ After("config") = "plan" /\ After("plan") = "proof"
  /\ After("split") = "membership" /\ After("membership") = "splitManifest"
  /\ After("splitManifest") = "imputation" /\ After("imputation") = "anova"
  /\ After("anova") = "calibration" /\ After("calibration") = "preprocessor"
  /\ After("preprocessor") = "features" /\ After("features") = "materialization"
  /\ After("materialization") = "shards" /\ After("shards") = "verification"
  /\ After("descriptor") = "returned"
<1>1. /\ Order[1] = "config" /\ Order[2] = "plan" /\ Order[3] = "proof"
      /\ Order[4] = "split" /\ Order[5] = "membership"
      /\ Order[6] = "splitManifest" /\ Order[7] = "imputation"
      /\ Order[8] = "anova" /\ Order[9] = "calibration"
  BY SMT DEF Order
<1>2. /\ Order[10] = "preprocessor" /\ Order[11] = "features"
      /\ Order[12] = "materialization" /\ Order[13] = "shards"
      /\ Order[14] = "verification" /\ Order[15] = "descriptor"
      /\ Order[16] = "returned"
  BY SMT DEF Order
<1>3. /\ After(Order[1]) = Order[2] /\ After(Order[2]) = Order[3]
      /\ After(Order[4]) = Order[5] /\ After(Order[5]) = Order[6]
      /\ After(Order[6]) = Order[7] /\ After(Order[7]) = Order[8]
      /\ After(Order[8]) = Order[9] /\ After(Order[9]) = Order[10]
  BY AfterIsNext, SMT
<1>4. /\ After(Order[10]) = Order[11] /\ After(Order[11]) = Order[12]
      /\ After(Order[12]) = Order[13] /\ After(Order[13]) = Order[14]
      /\ After(Order[15]) = Order[16]
  BY AfterIsNext, SMT
<1>5. QED
  BY <1>1, <1>2, <1>3, <1>4

-----------------------------------------------------------------------------
(* The inductive invariant *)

Reading == [Block -> Version \cup {None}]

CallRecord ==
  [step : Place, pin : Nat, snapshot : [Block -> Version] \cup {None},
   unread : SUBSET Block, read : Reading \cup {<<>>}, made : SUBSET [Block -> Version],
   linked : BOOLEAN]

TypeOK ==
  /\ raw \in [Block -> Version] /\ stat \in Nat
  /\ disk \in [Artifact -> {None, {Manifest}}]
  /\ durable \in [Artifact -> {None, {Manifest}}]
  /\ run \in CallRecord
  /\ halved \in BOOLEAN /\ leftover \in BOOLEAN

\* What the passes have read: past the proof the snapshot is the manifest's, and
\* what a pass reads of it is too, so that everything is made of the manifest's.
SourceKnown ==
  /\ run.pin <= stat
  /\ run.unread # {} => run.read \in Reading
  /\ run.step \in Passes /\ run.read # <<>> =>
       \A b \in Block \ run.unread :
         run.read[b] \in IF At("plan") THEN Version ELSE {Manifest[b]}
  /\ run.step \in Building \ Passes => run.read = <<>> /\ run.unread = {}
  /\ At("proof") => run.snapshot # None
  /\ run.step \in PastProof => run.snapshot = Manifest
  /\ At("split") => run.made = {}
  /\ run.step \in Made => run.made = {Manifest}

There(a) == disk[a] = {Manifest}
Backed(a) == There(a) /\ durable[a] = {Manifest}

\* What a call has behind it is published. Entries that an earlier call left are
\* adopted without a flush, but the shards flush the whole output directory and
\* the split flushes its own.
InOrder ==
  /\ run.linked => run.step \in Artifact /\ There(run.step)
  /\ run.step \in PastConfig => There("config")
  /\ At("splitManifest") => There("membership")
  /\ run.step \in PastSplit => Backed("membership") /\ Backed("splitManifest")
  /\ run.step \in PastPreprocessor => There("preprocessor")
  /\ run.step \in PastFeatures => There("features")
  /\ run.step \in PastShards =>
       /\ Backed("config") /\ Backed("preprocessor")
       /\ Backed("features") /\ Backed("shards")

\* The descriptor is published over durable artifacts, and from then on no call
\* publishes or takes back anything.
DescriptorIsLast ==
  /\ run.step \in Building \cup Undoing /\ disk["descriptor"] # None =>
       At("descriptor") /\ run.linked
  /\ disk["descriptor"] # None => \A a \in Artifact \ {"descriptor"} : Backed(a)
  /\ durable["descriptor"] # None => There("descriptor")

IInv == TypeOK /\ SourceKnown /\ InOrder /\ DescriptorIsLast

LEMMA InitIInv ==
  ASSUME PreparationAssumption, Init
  PROVE  IInv
<1>1. TypeOK
  BY DEF Init, Idle, TypeOK, PreparationAssumption, CallRecord, Place, Artifact, Reading
<1>2. SourceKnown
  BY DEF Init, Idle, SourceKnown, At, Passes, Building, PastConfig, PastProof, Made,
     PastSplit, PastPreprocessor, PastFeatures, PastShards
<1>3. InOrder /\ DescriptorIsLast
  BY DEF Init, Idle, InOrder, DescriptorIsLast, At, Building, Undoing, PastConfig,
     PastProof, Made, PastSplit, PastPreprocessor, PastFeatures, PastShards, Artifact
<1>4. QED
  BY <1>1, <1>2, <1>3 DEF IInv

-----------------------------------------------------------------------------
(* Every step keeps the invariant *)

\* A call that ends, whatever it has done, owes nothing any more.
LEMMA EndKeeps ==
  ASSUME PreparationAssumption, IInv,
         run'.step \in {"idle", "verify", "returned", "refused", "blocked", "raised"},
         TypeOK', run'.pin <= stat', run'.unread = {}  \/ run'.read \in Reading,
         ~ run'.linked, UNCHANGED <<disk, durable>>
  PROVE  IInv'
<1>1. SourceKnown'
  BY DEF IInv, SourceKnown, At, Passes, Building, PastConfig, PastProof, Made, PastSplit,
     PastPreprocessor, PastFeatures, PastShards
<1>2. InOrder'
  BY DEF InOrder, At, PastConfig, PastProof, Made, PastSplit, PastPreprocessor,
     PastFeatures, PastShards
<1>3. DescriptorIsLast'
  BY DEF IInv, DescriptorIsLast, There, Backed, At, Building, Undoing, PastConfig,
     PastProof, Made, PastSplit, PastPreprocessor, PastFeatures, PastShards
<1>4. QED
  BY <1>1, <1>2, <1>3 DEF IInv

LEMMA GoFields ==
  ASSUME TypeOK, NEW step, Go(step)
  PROVE  /\ run'.step = step /\ run'.linked = FALSE
         /\ run'.pin = run.pin /\ run'.snapshot = run.snapshot
         /\ run'.unread = run.unread /\ run'.read = run.read /\ run'.made = run.made
BY DEF TypeOK, CallRecord, Go

LEMMA GoTypes ==
  ASSUME TypeOK, NEW step \in Place, Go(step), UNCHANGED <<raw, stat, halved>>,
         leftover' \in BOOLEAN, disk' \in [Artifact -> {None, {Manifest}}],
         durable' \in [Artifact -> {None, {Manifest}}]
  PROVE  TypeOK'
<1>1. run' \in CallRecord
  BY DEF TypeOK, CallRecord, Go
<1>2. QED
  BY <1>1 DEF TypeOK

LEMMA GoOver ==
  ASSUME PreparationAssumption, IInv,
         UNCHANGED <<raw, stat, halved, leftover, disk, durable>>,
         NEW step \in {"returned", "refused", "blocked", "raised"}, Go(step)
  PROVE  IInv'
<1>1. TypeOK'
  BY GoTypes DEF IInv, TypeOK, Place
<1>2. QED
  BY <1>1, GoFields, EndKeeps DEF IInv, SourceKnown

LEMMA CallKeeps ==
  ASSUME PreparationAssumption, IInv, Call
  PROVE  IInv'
<1>1. PICK step \in {"verify", "config"} :
        /\ run' = [Idle EXCEPT !.step = step]
        /\ step = "config" => disk["descriptor"] = None
  BY DEF Call
<1>2. /\ run'.step = step /\ run'.linked = FALSE /\ run'.pin = 0 /\ run'.read = <<>>
      /\ run'.unread = {} /\ run'.made = {}
  BY <1>1 DEF Idle
<1>3. TypeOK'
  <2>1. run' = [step |-> step, pin |-> 0, snapshot |-> None, unread |-> {},
                read |-> <<>>, made |-> {}, linked |-> FALSE]
    BY <1>1 DEF Idle
  <2>2. run' \in CallRecord
    BY <2>1 DEF CallRecord, Place, Building
  <2>3. QED
    BY <2>2 DEF Call, Stored, Outside, IInv, TypeOK
<1>4. CASE step = "verify"
  BY <1>2, <1>3, <1>4, EndKeeps DEF Call, Stored, Outside, IInv, TypeOK
<1>5. CASE step = "config"
  <2>1. SourceKnown'
    BY <1>2, <1>3, <1>5 DEF SourceKnown, TypeOK, At, Passes, PastProof, Made, PastSplit,
       PastPreprocessor, PastFeatures, PastShards
  <2>2. InOrder'
    BY <1>2, <1>5 DEF InOrder, At, PastConfig, PastProof, Made, PastSplit,
       PastPreprocessor, PastFeatures, PastShards
  <2>3. DescriptorIsLast'
    BY <1>1, <1>5 DEF Call, Stored, IInv, DescriptorIsLast, There, Backed
  <2>4. QED
    BY <1>3, <2>1, <2>2, <2>3 DEF IInv
<1>6. QED
  BY <1>4, <1>5

LEMMA VerifyKeeps ==
  ASSUME PreparationAssumption, IInv, Verify
  PROVE  IInv'
BY GoOver DEF Verify, Refuse, Stored, Outside

LEMMA RefuseLeftoverKeeps ==
  ASSUME PreparationAssumption, IInv, RefuseLeftover
  PROVE  IInv'
BY GoOver DEF RefuseLeftover, Stored, Outside

LEMMA SameStep ==
  ASSUME IInv, run'.step = run.step, run'.linked = run.linked, UNCHANGED <<disk, durable>>
  PROVE  InOrder' /\ DescriptorIsLast'
BY DEF IInv, InOrder, DescriptorIsLast, At, There, Backed

LEMMA StartPassKeeps ==
  ASSUME PreparationAssumption, IInv, StartPass
  PROVE  IInv'
<1>1. CASE Refuse
  BY <1>1, GoOver DEF StartPass, Refuse, Stored, Outside
<1>2. CASE run' = [run EXCEPT !.pin = IF At("plan") THEN stat ELSE @,
                              !.unread = Block, !.read = [b \in Block |-> None]]
  <2>1. /\ run'.step = run.step /\ run'.linked = run.linked /\ run'.made = run.made
        /\ run'.snapshot = run.snapshot /\ run'.unread = Block
        /\ run'.read = [b \in Block |-> None] /\ run'.pin \in {run.pin, stat}
    BY <1>2 DEF IInv, TypeOK, CallRecord
  <2>2. [b \in Block |-> None] \in Reading
    BY DEF Reading
  <2>3. run' \in CallRecord
    BY <1>2, <2>2 DEF IInv, TypeOK, CallRecord
  <2>4. TypeOK'
    BY <2>3 DEF IInv, TypeOK, StartPass, Stored, Outside
  <2>5. SourceKnown'
    BY <2>1, <2>2, <2>4 DEF IInv, TypeOK, SourceKnown, At, StartPass, Outside
  <2>6. QED
    BY <2>1, <2>4, <2>5, SameStep DEF IInv, StartPass, Stored
<1>3. QED
  BY <1>1, <1>2 DEF StartPass

LEMMA ReadBlockKeeps ==
  ASSUME PreparationAssumption, IInv, ReadBlock
  PROVE  IInv'
<1>1. CASE Refuse
  BY <1>1, GoOver DEF ReadBlock, Refuse, Stored, Outside
<1>2. ASSUME NEW b \in run.unread,
             run' = [run EXCEPT !.unread = @ \ {b},
                       !.read[b] = IF At("plan") THEN raw[b] ELSE run.snapshot[b]]
      PROVE  IInv'
  <2> DEFINE value == IF At("plan") THEN raw[b] ELSE run.snapshot[b]
  <2>1. run \in CallRecord /\ raw \in [Block -> Version] /\ b \in Block
    BY DEF IInv, TypeOK, CallRecord
  <2>2. run.read \in Reading
    BY DEF IInv, SourceKnown
  <2>3. /\ run'.step = run.step /\ run'.linked = run.linked /\ run'.made = run.made
        /\ run'.snapshot = run.snapshot /\ run'.unread = run.unread \ {b}
        /\ run'.read = [run.read EXCEPT ![b] = value] /\ run'.pin = run.pin
    BY <1>2, <2>1 DEF CallRecord
  <2>4. value \in IF At("plan") THEN Version ELSE {Manifest[b]}
    BY <2>1 DEF IInv, SourceKnown, ReadBlock, At, Passes, PastProof, Made, PastSplit,
       PastPreprocessor, PastFeatures, PreparationAssumption
  <2>5. value \in Version
    BY <2>1, <2>4 DEF PreparationAssumption
  <2> HIDE DEF value
  <2>6. run'.read \in Reading
    BY <2>1, <2>2, <2>3, <2>5 DEF Reading
  <2>7. run' \in CallRecord
    BY <1>2, <2>1, <2>2, <2>3, <2>6 DEF CallRecord
  <2>8. TypeOK'
    BY <2>7 DEF IInv, TypeOK, ReadBlock, Stored, Outside
  <2>9. \A c \in Block \ run'.unread :
          run'.read[c] \in IF At("plan") THEN Version ELSE {Manifest[c]}
    <3> SUFFICES ASSUME NEW c \in Block \ run'.unread
                 PROVE  run'.read[c] \in IF At("plan") THEN Version ELSE {Manifest[c]}
      OBVIOUS
    <3>1. CASE c = b
      BY <2>1, <2>2, <2>3, <2>4, <3>1 DEF Reading
    <3>2. CASE c # b
      <4>1. run.read # <<>>
        BY <2>1, <2>2 DEF Reading
      <4>2. c \in Block \ run.unread /\ run'.read[c] = run.read[c]
        BY <2>2, <2>3, <3>2 DEF Reading
      <4>3. QED
        BY <4>1, <4>2 DEF IInv, SourceKnown, ReadBlock
    <3>3. QED
      BY <3>1, <3>2
  <2>10. SourceKnown'
    BY <2>3, <2>6, <2>9 DEF IInv, SourceKnown, At, ReadBlock, Outside
  <2>11. QED
    BY <2>3, <2>8, <2>10, SameStep DEF IInv, ReadBlock, Stored
<1>3. QED
  BY <1>1, <1>2 DEF ReadBlock

LEMMA EndPassKeeps ==
  ASSUME PreparationAssumption, IInv, EndPass
  PROVE  IInv'
<1>1. CASE Refuse
  BY <1>1, GoOver DEF EndPass, Refuse, Stored, Outside
<1>2. CASE run' = [run EXCEPT !.step = After(@), !.read = <<>>,
                     !.snapshot = IF At("plan") THEN run.read ELSE @,
                     !.made = @ \cup {run.read}]
  <2>1. run \in CallRecord /\ run.step \in Passes /\ run.unread = {} /\ run.read # <<>>
    BY DEF IInv, TypeOK, EndPass
  <2>2. \A b \in Block : run.read[b] \in IF At("plan") THEN Version ELSE {Manifest[b]}
    BY <2>1 DEF IInv, SourceKnown
  <2>3. run.read \in Reading
    BY <2>1 DEF CallRecord
  <2>4. run.read \in [Block -> Version]
    BY <2>2, <2>3 DEF Reading, PreparationAssumption
  <2>5. ~ At("plan") => run.read = Manifest
    BY <2>2, <2>4 DEF PreparationAssumption
  <2>6. /\ run'.step = After(run.step) /\ run'.linked = run.linked
        /\ run'.made = run.made \cup {run.read} /\ run'.pin = run.pin
        /\ run'.snapshot = IF At("plan") THEN run.read ELSE run.snapshot
        /\ run'.read = <<>> /\ run'.unread = {}
    BY <1>2, <2>1 DEF CallRecord
  <2>7. ~ run.linked
    BY <2>1 DEF IInv, InOrder, Passes, Artifact
  <2>8. After(run.step) \in {"proof", "membership", "anova", "calibration",
                             "preprocessor", "shards"}
    BY <2>1, Successors DEF Passes
  <2>9. run' \in CallRecord
    <3>1. After(run.step) \in Place
      BY <2>8 DEF Place, Building, PastConfig, PastProof, Made, PastSplit,
         PastPreprocessor, PastFeatures
    <3>2. QED
      BY <1>2, <2>1, <2>4, <3>1 DEF CallRecord
  <2>10. TypeOK'
    BY <2>9 DEF IInv, TypeOK, EndPass, Stored, Outside
  <2>11. ~ At("plan") => run'.made = {Manifest}
    BY <2>1, <2>5, <2>6 DEF IInv, SourceKnown, At, Passes, Made, PastSplit,
       PastPreprocessor, PastFeatures
  <2>12. SourceKnown'
    <3>1. CASE At("plan")
      BY <2>4, <2>6, <3>1, Successors DEF IInv, SourceKnown, At, Passes, PastProof, Made,
         PastSplit, PastPreprocessor, PastFeatures, PastShards, PreparationAssumption,
         EndPass, Outside
    <3>2. CASE ~ At("plan")
      <4>1. run'.step \in Made
        BY <2>1, <2>6, <3>2, Successors DEF At, Passes, Made, PastSplit,
           PastPreprocessor, PastFeatures
      <4>2. run.snapshot = Manifest
        BY <2>1, <3>2 DEF IInv, SourceKnown, At, Passes, PastProof, Made, PastSplit,
           PastPreprocessor, PastFeatures
      <4>3. QED
        BY <2>6, <2>11, <3>2, <4>1, <4>2 DEF IInv, SourceKnown, At, PastProof, Made,
           PastSplit, PastPreprocessor, PastFeatures, PastShards, EndPass, Outside
    <3>3. QED
      BY <3>1, <3>2
  <2>13. InOrder'
    BY <2>1, <2>6, <2>7, Successors DEF IInv, InOrder, At, There, Backed, Passes,
       PastConfig, PastProof, Made, PastSplit, PastPreprocessor, PastFeatures, PastShards,
       EndPass, Stored
  <2>14. DescriptorIsLast'
    <3>1. run.step \in Building /\ ~ At("descriptor")
      BY <2>1 DEF At, Passes, Building, PastConfig, PastProof, Made, PastSplit,
         PastPreprocessor, PastFeatures
    <3>2. QED
      BY <3>1 DEF IInv, DescriptorIsLast, There, Backed, EndPass, Stored
  <2>15. QED
    BY <2>10, <2>12, <2>13, <2>14 DEF IInv
<1>3. QED
  BY <1>1, <1>2 DEF EndPass

LEMMA VerifyProofKeeps ==
  ASSUME PreparationAssumption, IInv, VerifyProof
  PROVE  IInv'
<1>1. CASE Refuse
  BY <1>1, GoOver DEF VerifyProof, Refuse, Stored, Outside
<1>2. CASE ProofHolds /\ run' = [run EXCEPT !.step = "split", !.made = {}]
  <2>1. /\ run.step = "proof" /\ ~ run.linked
        /\ run'.step = "split" /\ run'.linked = run.linked /\ run'.made = {}
        /\ run'.pin = run.pin /\ run'.snapshot = Manifest
        /\ run'.read = run.read /\ run'.unread = run.unread
    BY <1>2 DEF IInv, TypeOK, CallRecord, InOrder, Artifact, VerifyProof, At, ProofHolds
  <2>2. run' \in CallRecord
    BY <1>2 DEF IInv, TypeOK, CallRecord, Place, Building, PastConfig, PastProof
  <2>3. TypeOK'
    BY <2>2 DEF IInv, TypeOK, VerifyProof, Stored, Outside
  <2>4. SourceKnown'
    BY <2>1 DEF IInv, SourceKnown, At, Passes, Building, PastConfig, PastProof, Made,
       PastSplit, PastPreprocessor, PastFeatures, PastShards, VerifyProof, Outside
  <2>5. InOrder' /\ DescriptorIsLast'
    BY <2>1 DEF IInv, InOrder, DescriptorIsLast, At, There, Backed, Building, Undoing,
       PastConfig, PastProof, Made, PastSplit, PastPreprocessor, PastFeatures, PastShards,
       VerifyProof, Stored
  <2>6. QED
    BY <2>3, <2>4, <2>5 DEF IInv
<1>3. QED
  BY <1>1, <1>2 DEF VerifyProof

-----------------------------------------------------------------------------
(* Publications *)

\* A step past the proof that goes on, or ends, keeps what was read and made.
LEMMA GoSourceKnown ==
  ASSUME PreparationAssumption, IInv, NEW step, Go(step), UNCHANGED stat,
         \/ run.step = "config" /\ step = "plan"
         \/ /\ run.step \in Made \ Passes
            /\ step \in PastSplit \cup Undoing
                     \cup {"splitManifest", "returned", "refused", "raised"}
  PROVE  SourceKnown'
<1>1. run.step \in Building \ Passes
  BY DEF Building, Passes, PastConfig, PastProof, Made, PastSplit, PastPreprocessor,
     PastFeatures, PastShards
<1>2. run.read = <<>> /\ run.unread = {}
  BY <1>1 DEF IInv, SourceKnown
<1>3. QED
  BY <1>2, GoFields DEF IInv, SourceKnown, At, Passes, PastProof, Made, PastSplit,
     PastPreprocessor, PastFeatures, PastShards, Undoing

\* A flush of a directory makes durable what is there, and loses nothing.
LEMMA FlushedEffect ==
  ASSUME TypeOK, NEW a \in Artifact, Flushed(a)
  PROVE  /\ durable' \in [Artifact -> {None, {Manifest}}]
         /\ \A x \in Artifact : Backed(x) => Backed(x)'
         /\ \A x \in Artifact : There(x) => There(x)'
         /\ \A x \in Artifact :
              DirectoryOf(x) = DirectoryOf(a) /\ There(x) => Backed(x)'
         /\ \A x \in Artifact : durable'[x] \in {disk[x], durable[x]}
         /\ disk' = disk
BY DEF TypeOK, Flushed, There, Backed

LEMMA Directories ==
  /\ DirectoryOf("membership") = "split" /\ DirectoryOf("splitManifest") = "split"
  /\ DirectoryOf("descriptor") = "control" /\ DirectoryOf("config") = "output"
  /\ DirectoryOf("preprocessor") = "output" /\ DirectoryOf("features") = "output"
  /\ DirectoryOf("shards") = "output"
BY DEF DirectoryOf

\* The step after an artifact's, once the artifact is there and, of the split and
\* of the shards, flushed.
LEMMA OnwardKeeps ==
  ASSUME PreparationAssumption, IInv, TypeOK', run.step \in Artifact, Go(After(run.step)),
         There(run.step), UNCHANGED stat,
         Flushed(run.step) \/ (run.step \notin {"shards", "membership", "splitManifest"}
                              /\ run.step # "descriptor" /\ UNCHANGED <<disk, durable>>)
  PROVE  IInv'
<1>1. SourceKnown'
  BY GoSourceKnown, Successors DEF Artifact, Made, Passes, PastSplit, PastPreprocessor,
     PastFeatures, PastShards
<1>2. \A x \in Artifact : There(x) => There(x)'
  BY FlushedEffect DEF IInv, There
<1>3. \A x \in Artifact : Backed(x) => Backed(x)'
  BY FlushedEffect DEF IInv, There, Backed
<1>4. run.step = "shards" =>
        \A x \in {"config", "preprocessor", "features", "shards"} : Backed(x)'
  <2>1. run.step = "shards" => 
          \A x \in {"config", "preprocessor", "features", "shards"} : There(x)
    BY DEF IInv, InOrder, PastConfig, PastProof, Made, PastSplit, PastPreprocessor,
       PastFeatures
  <2>2. QED
    BY <2>1, FlushedEffect, Directories DEF IInv, Artifact
<1>5. run.step = "splitManifest" => Backed("membership")' /\ Backed("splitManifest")'
  BY FlushedEffect, Directories DEF IInv, InOrder, At, Artifact
<1>6. run'.step = After(run.step) /\ ~ run'.linked
  BY GoFields DEF IInv
<1>7. InOrder'
  BY <1>2, <1>3, <1>4, <1>5, <1>6, Successors DEF IInv, InOrder, At, Artifact, PastConfig,
     PastProof, Made, PastSplit, PastPreprocessor, PastFeatures, PastShards
<1>8. DescriptorIsLast'
  <2>1. \A x \in Artifact : disk'[x] = disk[x] /\ durable'[x] \in {disk[x], durable[x]}
    BY FlushedEffect DEF IInv
  <2>2. "descriptor" \in Artifact
    BY DEF Artifact
  <2>3. run.step = "descriptor" => run'.step = "returned"
    BY <1>6, Successors
  <2>4. run.step \in Building /\ "returned" \notin Building \cup Undoing
    BY DEF Artifact, Building, Undoing, PastConfig, PastProof, Made, PastSplit,
       PastPreprocessor, PastFeatures, PastShards
  <2>5. QED
    BY <1>3, <2>1, <2>2, <2>3, <2>4 DEF IInv, TypeOK, DescriptorIsLast, At, There
<1>9. QED
  BY <1>1, <1>7, <1>8 DEF IInv

LEMMA ArtifactPlaces ==
  ASSUME NEW a \in Artifact
  PROVE  a \in Building /\ After(a) \in Place
BY Successors DEF Artifact, Place, Building, PastConfig, PastProof, Made, PastSplit,
   PastPreprocessor, PastFeatures, PastShards

LEMMA SyncDirectoryKeeps ==
  ASSUME PreparationAssumption, IInv, SyncDirectory
  PROVE  IInv'
<1>1. run.step \in Artifact /\ There(run.step)
  BY DEF SyncDirectory, IInv, InOrder
<1>2. TypeOK'
  <2>1. /\ durable' \in [Artifact -> {None, {Manifest}}]
        /\ disk' \in [Artifact -> {None, {Manifest}}]
    BY <1>1, FlushedEffect DEF SyncDirectory, IInv, TypeOK
  <2>2. QED
    BY <1>1, <2>1, ArtifactPlaces, GoTypes DEF SyncDirectory, IInv, TypeOK, Outside
<1>3. QED
  BY <1>1, <1>2, OnwardKeeps DEF SyncDirectory, Outside

\* What an artifact is made of, at its step, is the manifest's.
LEMMA ContentIsManifest ==
  ASSUME IInv, NEW a \in Artifact, At(a)
  PROVE  Content(a) = {Manifest} /\ (a # "config" => run.made = {Manifest})
BY DEF IInv, SourceKnown, At, Content, Artifact, Made, PastSplit, PastPreprocessor,
   PastFeatures, PastShards

LEMMA AdoptKeeps ==
  ASSUME PreparationAssumption, IInv, Adopt
  PROVE  IInv'
<1>1. run.step \in Artifact \ {"membership", "splitManifest"} /\ ~ run.linked
  BY DEF Adopt, Immutable
<1>2. run.step # "descriptor"
  BY <1>1 DEF Adopt, IInv, DescriptorIsLast, At, Building, PastConfig, PastProof, Made,
     PastSplit, PastPreprocessor, PastFeatures, PastShards
<1>3. There(run.step) /\ Content(run.step) = {Manifest}
  BY <1>1, ContentIsManifest DEF Adopt, IInv, TypeOK, There, At
<1>4. Go(After(run.step))
  BY <1>3 DEF Adopt, There
<1>5. TypeOK'
  <2>1. /\ durable' \in [Artifact -> {None, {Manifest}}]
        /\ disk' \in [Artifact -> {None, {Manifest}}]
    <3>1. CASE At("shards")
      BY <1>1, <3>1, FlushedEffect DEF Adopt, IInv, TypeOK, At
    <3>2. CASE ~ At("shards")
      BY <3>2 DEF Adopt, IInv, TypeOK, Stored
    <3>3. QED
      BY <3>1, <3>2
  <2>2. QED
    BY <1>1, <1>4, <2>1, ArtifactPlaces, GoTypes DEF Adopt, IInv, TypeOK, Outside
<1>6. QED
  BY <1>1, <1>2, <1>3, <1>4, <1>5, OnwardKeeps DEF Adopt, Outside, Stored, At

LEMMA VerifyShardsKeeps ==
  ASSUME PreparationAssumption, IInv, VerifyShards
  PROVE  IInv'
<1>1. CASE Refuse
  BY <1>1, GoOver DEF VerifyShards, Refuse, Stored, Outside
<1>2. CASE Go("descriptor")
  <2>1. run.step = "verification" /\ run'.step = "descriptor" /\ ~ run'.linked
    BY <1>2, GoFields DEF VerifyShards, IInv, At
  <2>2. TypeOK'
    BY <1>2, GoTypes DEF VerifyShards, IInv, TypeOK, Stored, Outside, Place, Building,
       PastConfig, PastProof, Made, PastSplit, PastPreprocessor, PastFeatures, PastShards
  <2>3. SourceKnown'
    BY <1>2, <2>1, GoSourceKnown DEF VerifyShards, Outside, Made, Passes, PastSplit,
       PastPreprocessor, PastFeatures, PastShards
  <2>4. InOrder' /\ DescriptorIsLast'
    BY <2>1 DEF VerifyShards, Stored, IInv, InOrder, DescriptorIsLast, At, There, Backed,
       Building, Undoing, PastConfig, PastProof, Made, PastSplit, PastPreprocessor,
       PastFeatures, PastShards, Artifact
  <2>5. QED
    BY <2>2, <2>3, <2>4 DEF IInv
<1>3. QED
  BY <1>1, <1>2 DEF VerifyShards

\* An artifact is published at its step; the descriptor's is the last.
LEMMA PublishedKeeps ==
  ASSUME PreparationAssumption, IInv, run.step \in Artifact, ~ run.linked,
         Show(run.step, {Manifest}), run' = [run EXCEPT !.linked = TRUE], Outside
  PROVE  IInv'
<1>1. /\ run'.step = run.step /\ run'.linked /\ run'.pin = run.pin
      /\ run'.snapshot = run.snapshot /\ run'.read = run.read
      /\ run'.unread = run.unread /\ run'.made = run.made /\ run' \in CallRecord
  BY DEF IInv, TypeOK, CallRecord
<1>2. /\ disk' \in [Artifact -> {None, {Manifest}}] /\ durable' = durable
      /\ disk'[run.step] = {Manifest}
      /\ \A x \in Artifact : x # run.step => disk'[x] = disk[x]
  BY DEF IInv, TypeOK, Show
<1>3. TypeOK'
  BY <1>1, <1>2 DEF IInv, TypeOK, Outside
<1>4. SourceKnown'
  <2>1. stat' = stat
    BY DEF Outside
  <2>2. SourceKnown
    BY DEF IInv
  <2>3. /\ run'.step = run.step /\ run'.pin = run.pin /\ run'.snapshot = run.snapshot
        /\ run'.read = run.read /\ run'.unread = run.unread /\ run'.made = run.made
    BY <1>1
  <2>4. QED
    BY <2>1, <2>2, <2>3, SMTT(30) DEF SourceKnown, At
<1>5. /\ \A x \in Artifact : There(x) => There(x)'
      /\ \A x \in Artifact : Backed(x) => Backed(x)'
  BY <1>2 DEF There, Backed
<1>6. InOrder'
  BY <1>1, <1>2, <1>5 DEF IInv, InOrder, At, There, Artifact
<1>7. DescriptorIsLast'
  <2>1. run.step \in Building /\ disk["descriptor"] = None
    BY ArtifactPlaces DEF IInv, DescriptorIsLast
  <2>2. CASE run.step = "descriptor"
    <3>1. \A x \in Artifact \ {"descriptor"} : Backed(x)
      BY <2>2 DEF IInv, InOrder, Artifact, PastSplit, PastPreprocessor, PastFeatures,
         PastShards
    <3>2. QED
      BY <1>1, <1>2, <1>5, <2>2, <3>1 DEF DescriptorIsLast, At, There
  <2>3. CASE run.step # "descriptor"
    <3>1. disk'["descriptor"] = None
      BY <1>2, <2>1, <2>3 DEF Artifact
    <3>2. QED
      BY <1>2, <2>1, <3>1 DEF IInv, DescriptorIsLast, There
  <2>4. QED
    BY <2>2, <2>3
<1>8. QED
  BY <1>3, <1>4, <1>6, <1>7 DEF IInv

LEMMA LinkKeeps ==
  ASSUME PreparationAssumption, IInv, Link
  PROVE  IInv'
<1>1. run.step \in Artifact /\ At(run.step)
  BY DEF Link, Immutable, At
<1>2. Content(run.step) = {Manifest}
  BY <1>1, ContentIsManifest
<1>3. QED
  BY <1>1, <1>2, PublishedKeeps DEF Link

LEMMA ReplaceKeeps ==
  ASSUME PreparationAssumption, IInv, ReplaceMembership \/ ReplaceSplitManifest
  PROVE  IInv'
<1>1. /\ run.step \in {"membership", "splitManifest"} /\ ~ run.linked
      /\ Show(run.step, run.made) /\ run' = [run EXCEPT !.linked = TRUE] /\ Outside
  BY DEF ReplaceMembership, ReplaceSplitManifest, At
<1>2. run.step \in Artifact /\ run.made = {Manifest}
  BY <1>1, ContentIsManifest DEF Artifact, At
<1>3. QED
  BY <1>1, <1>2, PublishedKeeps

LEMMA AdoptSplitKeeps ==
  ASSUME PreparationAssumption, IInv, AdoptSplit
  PROVE  IInv'
<1>1. run.step = "membership" /\ Go("imputation") /\ Flushed("membership")
  BY DEF AdoptSplit, At
<1>2. There("membership") /\ There("splitManifest")
  BY <1>1, ContentIsManifest DEF AdoptSplit, ExistingSplitMatches, There, At, Artifact
<1>3. run'.step = "imputation" /\ ~ run'.linked
  BY <1>1, GoFields DEF IInv
<1>4. TypeOK'
  BY <1>1, FlushedEffect, GoTypes DEF AdoptSplit, IInv, TypeOK, Artifact, Outside, Place,
     Building, PastConfig, PastProof, Made, PastSplit
<1>5. SourceKnown'
  BY <1>1, GoSourceKnown DEF AdoptSplit, Outside, Made, Passes, PastSplit
<1>6. InOrder'
  <2>1. Backed("membership")' /\ Backed("splitManifest")'
    BY <1>1, <1>2, FlushedEffect, Directories DEF IInv, Artifact
  <2>2. There("config")'
    BY <1>1, FlushedEffect DEF IInv, InOrder, There, Artifact, PastConfig, PastProof, Made
  <2>3. QED
    BY <1>3, <2>1, <2>2 DEF InOrder, At, PastPreprocessor, PastFeatures, PastShards
<1>7. DescriptorIsLast'
  <2>1. disk["descriptor"] = None /\ durable["descriptor"] = None
    BY <1>1 DEF IInv, TypeOK, DescriptorIsLast, At, There, Building, PastConfig, PastProof,
       Made, Artifact, PreparationAssumption
  <2>2. disk'["descriptor"] = None /\ durable'["descriptor"] = None
    BY <1>1, <2>1, FlushedEffect DEF IInv, Artifact
  <2>3. QED
    BY <2>2 DEF DescriptorIsLast
<1>8. QED
  BY <1>4, <1>5, <1>6, <1>7 DEF IInv

LEMMA RefuseSplitKeeps ==
  ASSUME PreparationAssumption, IInv, RefuseSplit
  PROVE  IInv'
BY GoOver DEF RefuseSplit, Refuse, Stored, Outside

-----------------------------------------------------------------------------
(* Exceptions, faults and edits *)

\* A call that takes back the split, or ends, has nothing of what it did to keep.
LEMMA OffKeeps ==
  ASSUME PreparationAssumption, IInv, TypeOK', UNCHANGED stat,
         NEW step \in Undoing \cup {"raised"}, Go(step),
         step \in Undoing => disk["descriptor"] = None,
         \/ UNCHANGED <<disk, durable>>
         \/ /\ disk["descriptor"] = None /\ disk'["descriptor"] = None
            /\ durable'["descriptor"] = None
  PROVE  IInv'
<1>1. /\ run'.step = step /\ ~ run'.linked /\ run'.pin = run.pin
      /\ run'.read = run.read /\ run'.unread = run.unread
  BY GoFields DEF IInv
<1>2. SourceKnown' /\ InOrder'
  BY <1>1 DEF IInv, SourceKnown, InOrder, At, Passes, Building, Undoing, PastConfig,
     PastProof, Made, PastSplit, PastPreprocessor, PastFeatures, PastShards
<1>3. DescriptorIsLast'
  BY <1>1 DEF IInv, DescriptorIsLast, There, Backed, Building, PastConfig, PastProof,
     Made, PastSplit, PastPreprocessor, PastFeatures, PastShards
<1>4. QED
  BY <1>2, <1>3 DEF IInv

LEMMA RaiseKeeps ==
  ASSUME PreparationAssumption, IInv, Raise
  PROVE  IInv'
<1>1. PICK step \in {"undoSplitManifest", "undoMembership", "raised"} :
        /\ Go(step)
        /\ step # "raised" => run.step \in {"membership", "splitManifest"}
  <2>1. "splitManifest" \in PublishedSplit => At("splitManifest")
    BY DEF PublishedSplit
  <2>2. "membership" \in PublishedSplit => At("membership") \/ At("splitManifest")
    BY DEF PublishedSplit
  <2>3. QED
    BY <2>1, <2>2 DEF Raise, At
<1>2. step # "raised" => disk["descriptor"] = None
  BY <1>1 DEF IInv, DescriptorIsLast, At, Building, PastConfig, PastProof, Made
<1>3. TypeOK'
  BY <1>1, GoTypes DEF Raise, MayLeave, Stored, IInv, TypeOK, Place, Undoing
<1>4. QED
  BY <1>1, <1>2, <1>3, OffKeeps DEF Raise, Stored, Undoing

LEMMA UndoKeeps ==
  ASSUME PreparationAssumption, IInv, UndoSplitManifest \/ UndoMembership
  PROVE  IInv'
<1>1. PICK a \in {"splitManifest", "membership"}, step \in {"undoMembership", "undone"} :
        run.step \in Undoing /\ Show(a, None) /\ Go(step) /\ Outside
  BY DEF UndoSplitManifest, UndoMembership, At, Undoing
<1>2. disk["descriptor"] = None /\ durable["descriptor"] = None
  BY <1>1 DEF IInv, TypeOK, DescriptorIsLast, At, There, Undoing, Artifact,
     PreparationAssumption
<1>3. /\ disk' \in [Artifact -> {None, {Manifest}}] /\ durable' = durable
      /\ disk'["descriptor"] = None
  BY <1>1, <1>2 DEF IInv, TypeOK, Show, Artifact
<1>4. TypeOK'
  BY <1>1, <1>3, GoTypes DEF IInv, TypeOK, Outside, Place, Undoing
<1>5. QED
  BY <1>1, <1>2, <1>3, <1>4, OffKeeps DEF Outside, Undoing

LEMMA SyncUndoneKeeps ==
  ASSUME PreparationAssumption, IInv, SyncUndone
  PROVE  IInv'
<1>1. run.step = "undone" /\ Flushed("membership") /\ Go("raised") /\ Outside
  BY DEF SyncUndone, At
<1>2. disk["descriptor"] = None /\ durable["descriptor"] = None
  BY <1>1 DEF IInv, TypeOK, DescriptorIsLast, At, There, Undoing, Artifact,
     PreparationAssumption
<1>3. /\ durable' \in [Artifact -> {None, {Manifest}}] /\ disk' = disk
      /\ durable'["descriptor"] = None
  BY <1>1, <1>2, FlushedEffect DEF IInv, Artifact
<1>4. TypeOK'
  BY <1>1, <1>3, GoTypes DEF IInv, TypeOK, Outside, Place
<1>5. QED
  BY <1>1, <1>2, <1>3, <1>4, OffKeeps DEF Outside

LEMMA IdleCall ==
  Idle \in CallRecord /\ Idle.step = "idle" /\ Idle.pin = 0 /\ Idle.unread = {}
  /\ ~ Idle.linked
BY DEF Idle, CallRecord, Place

LEMMA KillKeeps ==
  ASSUME PreparationAssumption, IInv, Kill
  PROVE  IInv'
<1>1. TypeOK'
  BY IdleCall DEF Kill, MayLeave, Stored, IInv, TypeOK, Half
<1>2. QED
  BY <1>1, IdleCall, EndKeeps DEF Kill, Stored, IInv, TypeOK

LEMMA PowerLossKeeps ==
  ASSUME PreparationAssumption, IInv, PowerLoss
  PROVE  IInv'
<1>1. /\ \A a \in Artifact : disk'[a] \in {disk[a], durable[a]}
      /\ disk' \in [Artifact -> {None, {Manifest}}] /\ durable' = disk'
  BY DEF PowerLoss, IInv, TypeOK
<1>2. run' = Idle /\ halved' \in BOOLEAN
  BY DEF PowerLoss, IInv, TypeOK, Half
<1>3. TypeOK'
  BY <1>1, <1>2, IdleCall DEF PowerLoss, MayLeave, IInv, TypeOK
<1>4. SourceKnown' /\ InOrder'
  BY <1>2, <1>3, IdleCall DEF IInv, TypeOK, SourceKnown, InOrder, At, Passes, Building,
     PastConfig, PastProof, Made, PastSplit, PastPreprocessor, PastFeatures, PastShards
<1>5. DescriptorIsLast'
  <2>1. disk'["descriptor"] # None => disk["descriptor"] # None
    BY <1>1 DEF IInv, DescriptorIsLast, There, Artifact, PreparationAssumption
  <2>2. disk'["descriptor"] # None => disk'["descriptor"] = {Manifest}
    BY <1>1 DEF Artifact
  <2>3. disk'["descriptor"] # None => \A a \in Artifact \ {"descriptor"} : Backed(a)'
    BY <1>1, <2>1 DEF IInv, DescriptorIsLast, There, Backed
  <2>4. QED
    BY <1>1, <1>2, <2>2, <2>3, IdleCall DEF DescriptorIsLast, There, Building, Undoing,
       PastConfig, PastProof, Made, PastSplit, PastPreprocessor, PastFeatures, PastShards
<1>6. QED
  BY <1>3, <1>4, <1>5 DEF IInv

LEMMA EditRawKeeps ==
  ASSUME PreparationAssumption, IInv, EditRaw
  PROVE  IInv'
<1>1. raw' \in [Block -> Version] /\ stat' = stat + 1 /\ run' = run
  BY DEF EditRaw, IInv, TypeOK, PreparationAssumption
<1>2. TypeOK'
  BY <1>1 DEF EditRaw, Stored, IInv, TypeOK
<1>3. run'.pin <= stat'
  BY <1>1 DEF IInv, TypeOK, CallRecord, SourceKnown
<1>4. SourceKnown'
  BY <1>1, <1>3 DEF IInv, SourceKnown, At
<1>5. QED
  BY <1>1, <1>2, <1>4, SameStep DEF EditRaw, Stored, IInv

LEMMA NextKeeps ==
  ASSUME PreparationAssumption, IInv, [Next]_vars
  PROVE  IInv'
<1>1. CASE UNCHANGED vars
  <2>1. TypeOK'
    BY <1>1 DEF vars, IInv, TypeOK
  <2>2. SourceKnown'
    BY <1>1 DEF vars, IInv, SourceKnown, At
  <2>3. QED
    BY <1>1, <2>1, <2>2, SameStep DEF vars, IInv
<1>2. CASE Step
  BY <1>2, CallKeeps, VerifyKeeps, RefuseLeftoverKeeps, StartPassKeeps, ReadBlockKeeps, EndPassKeeps,
     VerifyProofKeeps, LinkKeeps, SyncDirectoryKeeps, AdoptKeeps, VerifyShardsKeeps,
     ReplaceKeeps, AdoptSplitKeeps, RefuseSplitKeeps, UndoKeeps, SyncUndoneKeeps
  DEF Step
<1>3. QED
  BY <1>1, <1>2, RaiseKeeps, KillKeeps, PowerLossKeeps, EditRawKeeps DEF Next

LEMMA Invariance ==
  ASSUME PreparationAssumption
  PROVE  Spec => []IInv
BY InitIInv, NextKeeps, PTL DEF Spec

\* The types of the preparation: among them, that an artifact holds the contents of
\* the source manifest or is not there, on the disk and after a power loss.
THEOREM TypeCorrect ==
  ASSUME PreparationAssumption
  PROVE  Spec => []TypeOK
BY Invariance, PTL DEF IInv

\* Whatever prepare_full_dataset publishes is made from the source that the manifest
\* names, while somebody edits the raw source and calls are killed or raise; and a
\* descriptor that a power loss spares has all its artifacts on the disk.
THEOREM PublicationsAreTrue ==
  ASSUME PreparationAssumption
  PROVE  Spec => []PublishedIsTrue
<1>1. IInv => PublishedIsTrue
  <2> SUFFICES ASSUME IInv PROVE PublishedIsTrue
    OBVIOUS
  <2>1. ArtifactsAreTrue
    BY DEF IInv, TypeOK, ArtifactsAreTrue
  <2>2. DescriptorIsBacked
    BY DEF IInv, TypeOK, DescriptorIsLast, There, Backed, DescriptorIsBacked, Artifact
  <2>3. QED
    BY <2>1, <2>2 DEF PublishedIsTrue
<1>2. QED
  BY <1>1, Invariance, PTL

-----------------------------------------------------------------------------
(* Refusals *)

Split == {"membership", "splitManifest"}
Halving == {"membership", "splitManifest", "undoSplitManifest", "undoMembership"}

\* The two names of the split differ only while one call publishes it or takes it
\* back, or after a crash in between.
HalfForCause ==
  /\ Half => halved \/ (run.step \in Halving /\ (At("membership") => run.linked))
  /\ (At("membership") /\ run.linked) \/ At("undoMembership") =>
       disk["splitManifest"] = None

\* Steps that are not about the split keep its names as they are.
LEMMA HalfStays ==
  ASSUME HalfForCause, UNCHANGED halved, \A a \in Split : disk'[a] = disk[a],
         run.step \notin Halving \/ (At("membership") /\ ~ run.linked),
         ~ run'.linked \/ run'.step \notin Halving, run'.step # "undoMembership"
  PROVE  HalfForCause'
BY DEF HalfForCause, Half, At, Halving, Split

LEMMA SyncDirectoryHalf ==
  ASSUME PreparationAssumption, IInv, HalfForCause, SyncDirectory
  PROVE  HalfForCause'
<1>1. /\ run.step \in Artifact /\ run.linked /\ There(run.step) /\ disk' = disk
      /\ halved' = halved
  BY DEF SyncDirectory, IInv, InOrder, Flushed, Outside
<1>2. run'.step = After(run.step) /\ ~ run'.linked
  BY GoFields DEF SyncDirectory, IInv
<1>3. CASE run.step = "membership"
  BY <1>1, <1>2, <1>3, Successors DEF HalfForCause, Half, At, Halving
<1>4. CASE run.step = "splitManifest"
  BY <1>1, <1>2, <1>4, Successors DEF HalfForCause, Half, At, Halving, IInv, InOrder,
     There, PreparationAssumption
<1>5. CASE run.step \notin Split
  BY <1>1, <1>2, <1>5, HalfStays, Successors DEF Split, Halving, Artifact
<1>6. QED
  BY <1>3, <1>4, <1>5 DEF Split

LEMMA RaiseHalf ==
  ASSUME IInv, HalfForCause, Raise
  PROVE  HalfForCause'
<1>1. disk' = disk /\ halved' = halved /\ run.step \notin Undoing /\ ~ run'.linked
  BY GoFields DEF Raise, Stored, Undoing, IInv
<1>2. PublishedSplit = IF run.step = "membership" /\ run.linked THEN {"membership"}
                       ELSE IF run.step = "splitManifest" THEN Split ELSE {}
  BY DEF PublishedSplit, At, Split
<1>3. run'.step = IF "splitManifest" \in PublishedSplit THEN "undoSplitManifest"
                  ELSE IF "membership" \in PublishedSplit THEN "undoMembership"
                  ELSE "raised"
  BY GoFields DEF Raise, IInv
<1>4. CASE run.step = "membership" /\ run.linked
  BY <1>1, <1>2, <1>3, <1>4 DEF HalfForCause, Half, At, Halving
<1>5. CASE run.step = "splitManifest"
  <2>1. PublishedSplit = Split
    BY <1>2, <1>5
  <2>2. run'.step = "undoSplitManifest"
    BY <1>3, <2>1 DEF Split
  <2>3. QED
    BY <2>2 DEF HalfForCause, At, Halving
<1>6. CASE run.step \notin Split \/ (~ run.linked /\ run.step = "membership")
  <2>1. PublishedSplit = {}
    BY <1>2, <1>6 DEF Split
  <2>2. run'.step = "raised"
    BY <1>3, <2>1
  <2>3. QED
    BY <1>1, <1>6, <2>2, HalfStays DEF Halving, Undoing, Split, At
<1>7. QED
  BY <1>4, <1>5, <1>6 DEF Split

LEMMA SplitHalf ==
  ASSUME PreparationAssumption, IInv, HalfForCause,
         ReplaceMembership \/ ReplaceSplitManifest \/ UndoSplitManifest \/ UndoMembership
  PROVE  HalfForCause'
<1>1. "membership" \in Artifact /\ "splitManifest" \in Artifact /\ halved' = halved
      /\ disk \in [Artifact -> {None, {Manifest}}]
  BY DEF Artifact, ReplaceMembership, ReplaceSplitManifest, UndoSplitManifest,
     UndoMembership, Outside, IInv, TypeOK
<1>2. CASE ReplaceMembership
  <2>1. /\ disk'["splitManifest"] = None /\ run'.step = "membership" /\ run'.linked
    BY <1>1, <1>2 DEF ReplaceMembership, Show, IInv, TypeOK, CallRecord, At
  <2>2. QED
    BY <2>1 DEF HalfForCause, At, Halving
<1>3. CASE ReplaceSplitManifest
  <2>1. run'.step = "splitManifest"
    BY <1>3 DEF ReplaceSplitManifest, IInv, TypeOK, CallRecord, At
  <2>2. QED
    BY <2>1 DEF HalfForCause, At, Halving
<1>4. CASE UndoSplitManifest
  <2>1. run'.step = "undoMembership" /\ disk'["splitManifest"] = None
    BY <1>1, <1>4, GoFields DEF UndoSplitManifest, Show, IInv
  <2>2. QED
    BY <2>1 DEF HalfForCause, At, Halving
<1>5. CASE UndoMembership
  <2>1. /\ run'.step = "undone" /\ disk'["membership"] = None
        /\ disk'["splitManifest"] = None
    BY <1>1, <1>5, GoFields DEF UndoMembership, Show, IInv, HalfForCause, At
  <2>2. QED
    BY <2>1 DEF HalfForCause, Half, At
<1>6. QED
  BY <1>2, <1>3, <1>4, <1>5

LEMMA HalfKeeps ==
  ASSUME PreparationAssumption, IInv, HalfForCause, [Next]_vars
  PROVE  HalfForCause'
<1>1. CASE UNCHANGED vars
  BY <1>1 DEF vars, HalfForCause, Half, At
<1>2. CASE \/ Call \/ Verify \/ RefuseLeftover \/ VerifyShards \/ SyncUndone
           \/ RefuseSplit \/ AdoptSplit
  <2>1. /\ UNCHANGED halved /\ \A a \in Split : disk'[a] = disk[a]
        /\ run.step \notin Halving \/ (At("membership") /\ ~ run.linked)
    BY <1>2 DEF Call, Verify, RefuseLeftover, VerifyShards, SyncUndone, RefuseSplit,
       AdoptSplit, Stored, Outside, Flushed, Over, At, Halving
  <2>2. ~ run'.linked /\ run'.step # "undoMembership"
    <3>1. CASE Call
      BY <3>1 DEF Call, Idle
    <3>2. CASE ~ Call
      <4>1. PICK step \in {"returned", "refused", "blocked", "descriptor", "raised",
                           "imputation"} : Go(step)
        BY <1>2, <3>2 DEF Verify, RefuseLeftover, VerifyShards, SyncUndone, RefuseSplit,
           AdoptSplit, Refuse
      <4>2. QED
        BY <4>1, GoFields DEF IInv
    <3>3. QED
      BY <3>1, <3>2
  <2>3. QED
    BY <2>1, <2>2, HalfStays
<1>3. CASE StartPass \/ ReadBlock \/ EndPass \/ VerifyProof
  <2>1. /\ UNCHANGED halved /\ \A a \in Split : disk'[a] = disk[a]
        /\ run.step \in Passes \cup {"proof"} /\ ~ run.linked
    BY <1>3 DEF StartPass, ReadBlock, EndPass, VerifyProof, Stored, Outside, At, IInv,
       InOrder, Passes, Artifact
  <2>2. /\ run'.linked \in {run.linked, FALSE}
        /\ run'.step \in {run.step, After(run.step), "split", "refused"}
    BY <1>3, GoFields DEF StartPass, ReadBlock, EndPass, VerifyProof, Refuse, IInv, TypeOK,
       CallRecord
  <2>3. run.step \in Passes => After(run.step) # "undoMembership"
    BY Successors DEF Passes
  <2>4. run.step = "proof" => run'.step # "undoMembership"
    <3>1. run.step = "proof" =>
            Refuse \/ run' = [run EXCEPT !.step = "split", !.made = {}]
      BY <1>3 DEF StartPass, ReadBlock, EndPass, VerifyProof, Passes
    <3>2. QED
      BY <3>1, GoFields DEF Refuse, IInv, TypeOK, CallRecord
  <2>5. ~ run'.linked /\ run'.step # "undoMembership"
    BY <2>1, <2>2, <2>3, <2>4 DEF Passes
  <2>6. QED
    BY <2>1, <2>5, HalfStays DEF Halving, Passes
<1>4. CASE Link \/ Adopt
  <2>1. run.step \in Immutable /\ UNCHANGED halved /\ \A a \in Split : disk'[a] = disk[a]
    BY <1>4 DEF Link, Adopt, Immutable, Show, Stored, Flushed, Outside, IInv, TypeOK, Split,
       Artifact
  <2>2. CASE Link
    BY <2>1, <2>2, HalfStays DEF Link, IInv, TypeOK, CallRecord, Immutable, Artifact, Halving
  <2>3. CASE Adopt
    <3>1. PICK step \in {After(run.step), "refused"} : Go(step)
      BY <2>3 DEF Adopt, Refuse
    <3>2. ~ run'.linked /\ run'.step \in {After(run.step), "refused"}
      BY <3>1, GoFields DEF IInv
    <3>3. run'.step # "undoMembership"
      BY <2>1, <3>2, Successors DEF Immutable, Artifact
    <3>4. QED
      BY <2>1, <3>2, <3>3, HalfStays DEF Immutable, Artifact, Halving
  <2>4. QED
    BY <1>4, <2>2, <2>3
<1>5. CASE Kill \/ PowerLoss
  <2>1. run' = Idle /\ (Half' => halved')
    <3>1. CASE Kill
      BY <3>1 DEF Kill, Stored, Half
    <3>2. CASE PowerLoss
      BY <3>2 DEF PowerLoss
    <3>3. QED
      BY <1>5, <3>1, <3>2
  <2>2. QED
    BY <2>1, IdleCall DEF HalfForCause, At
<1>6. CASE EditRaw
  BY <1>6 DEF EditRaw, Stored, HalfForCause, Half, At
<1>7. QED
  BY <1>1, <1>2, <1>3, <1>4, <1>5, <1>6, SyncDirectoryHalf, RaiseHalf, SplitHalf DEF Next, Step

\* A refusal that blames the source.
LEMMA Blamed ==
  ASSUME IInv, Refuse, UNCHANGED <<raw, stat>>, SourceAtFault
  PROVE  SourceAtFault'
BY GoFields DEF Refuse, IInv, SourceAtFault

\* A call verifies what it has found.
VerifyFinds == At("verify") => disk["descriptor"] # None

LEMMA VerifyBlames ==
  ASSUME IInv, PreparationAssumption, VerifyFinds, Verify, At("refused")'
  PROVE  SourceAtFault'
<1>1. Refuse /\ UNCHANGED <<raw, stat>>
  BY GoFields DEF Verify, Outside, IInv, At
<1>2. \A a \in Artifact : disk[a] = {Manifest}
  BY DEF Verify, VerifyFinds, IInv, TypeOK, DescriptorIsLast, There, Backed, Artifact
<1>3. raw # Manifest
  BY <1>2, GoFields DEF Verify, IInv, At
<1>4. QED
  BY <1>1, <1>3, Blamed DEF SourceAtFault

LEMMA PassBlames ==
  ASSUME IInv, PreparationAssumption, StartPass \/ ReadBlock \/ EndPass, At("refused")'
  PROVE  SourceAtFault'
<1>1. UNCHANGED <<raw, stat>> /\ run.step \in Passes
  BY DEF StartPass, ReadBlock, EndPass, Outside
<1>2. Refuse
  <2>1. CASE StartPass
    BY <2>1 DEF StartPass, IInv, TypeOK, CallRecord, At, Passes
  <2>2. CASE ReadBlock
    BY <2>2 DEF ReadBlock, IInv, TypeOK, CallRecord, At, Passes
  <2>3. CASE EndPass
    <3>1. After(run.step) # "refused"
      BY <1>1, Successors DEF Passes
    <3>2. QED
      BY <2>3, <3>1 DEF EndPass, IInv, TypeOK, CallRecord, At
  <2>4. QED
    BY <2>1, <2>2, <2>3
<1>3. ~ Guarded
  <2>1. CASE StartPass
    BY <2>1 DEF StartPass, IInv, TypeOK, CallRecord, At, Passes
  <2>2. CASE ReadBlock
    BY <2>2 DEF ReadBlock, IInv, TypeOK, CallRecord, At, Passes
  <2>3. CASE EndPass
    <3>1. ~ At("plan") => run.read = run.snapshot
      <4> SUFFICES ASSUME ~ At("plan") PROVE run.read = run.snapshot
        OBVIOUS
      <4>1. run.snapshot = Manifest
        BY <1>1 DEF IInv, SourceKnown, At, Passes, PastProof, Made, PastSplit,
           PastPreprocessor, PastFeatures
      <4>2. \A b \in Block : run.read[b] = Manifest[b]
        BY <2>3 DEF EndPass, IInv, SourceKnown, At
      <4>3. run.read \in Reading
        BY <2>3 DEF EndPass, IInv, TypeOK, CallRecord
      <4>4. QED
        BY <4>1, <4>2, <4>3 DEF Reading, PreparationAssumption
    <3>2. After(run.step) # "refused"
      BY <1>1, Successors DEF Passes
    <3>3. QED
      BY <2>3, <3>1, <3>2 DEF EndPass, IInv, TypeOK, CallRecord, At
  <2>4. QED
    BY <2>1, <2>2, <2>3
<1>4. QED
  BY <1>1, <1>2, <1>3, Blamed DEF SourceAtFault, Guarded

LEMMA ProofBlames ==
  ASSUME IInv, PreparationAssumption, VerifyProof, At("refused")'
  PROVE  SourceAtFault'
<1>1. Refuse /\ UNCHANGED <<raw, stat>> /\ run.snapshot # Manifest
  BY DEF VerifyProof, ProofHolds, Outside, IInv, TypeOK, CallRecord, At
<1>2. run.snapshot # None
  BY DEF VerifyProof, IInv, SourceKnown
<1>3. QED
  BY <1>1, <1>2, Blamed DEF SourceAtFault

\* An artifact that is there is the right one: Adopt and VerifyShards go on.
LEMMA AdoptGoesOn ==
  ASSUME IInv, PreparationAssumption, Adopt \/ VerifyShards
  PROVE  ~ At("refused")'
<1>1. CASE Adopt
  <2>1. run.step \in Artifact /\ At(run.step)
    BY <1>1 DEF Adopt, Immutable, At
  <2>2. disk[run.step] = Content(run.step)
    BY <1>1, <2>1, ContentIsManifest DEF Adopt, IInv, TypeOK
  <2>3. run'.step = After(run.step)
    BY <1>1, <2>2, GoFields DEF Adopt, IInv
  <2>4. QED
    BY <2>1, <2>3, Successors DEF Artifact, At
<1>2. CASE VerifyShards
  <2>1. run.step \in PastShards /\ run.step \in Made
    BY <1>2 DEF VerifyShards, At, PastShards, Made, PastSplit, PastPreprocessor,
       PastFeatures
  <2>2. disk["shards"] = run.made
    BY <2>1 DEF IInv, InOrder, Backed, There, SourceKnown
  <2>3. Go("descriptor")
    BY <1>2, <2>2 DEF VerifyShards
  <2>4. run'.step = "descriptor"
    BY <2>3, GoFields DEF IInv
  <2>5. QED
    BY <2>4 DEF At
<1>3. QED
  BY <1>1, <1>2

LEMMA SplitBlames ==
  ASSUME IInv, PreparationAssumption, HalfForCause, RefuseSplit
  PROVE  halved' /\ Half'
<1>1. /\ run.step = "membership" /\ ~ run.linked /\ run.made = {Manifest}
      /\ UNCHANGED <<disk, halved>>
  BY DEF RefuseSplit, Stored, Outside, At, IInv, SourceKnown, Made
<1>2. /\ disk["membership"] \in {None, {Manifest}}
      /\ disk["splitManifest"] \in {None, {Manifest}}
  BY DEF IInv, TypeOK, Artifact
<1>3. Half
  BY <1>1, <1>2 DEF RefuseSplit, ExistingSplitMatches, Half, PreparationAssumption
<1>4. halved
  BY <1>1, <1>3 DEF HalfForCause, At
<1>5. QED
  BY <1>1, <1>3, <1>4 DEF Half

\* The other steps of a call do not refuse.
LEMMA OthersGoOn ==
  ASSUME IInv, \/ Call \/ Link \/ SyncDirectory \/ ReplaceMembership
               \/ ReplaceSplitManifest \/ AdoptSplit \/ UndoSplitManifest
               \/ UndoMembership \/ SyncUndone \/ Raise \/ Kill \/ PowerLoss
  PROVE  ~ At("refused")'
<1>1. CASE Call \/ Kill \/ PowerLoss
  BY <1>1 DEF Call, Kill, PowerLoss, Idle, At
<1>2. CASE Link \/ ReplaceMembership \/ ReplaceSplitManifest
  BY <1>2 DEF Link, ReplaceMembership, ReplaceSplitManifest, IInv, TypeOK, CallRecord, At,
     Immutable, Artifact
<1>3. CASE SyncDirectory
  BY <1>3, GoFields, Successors DEF SyncDirectory, IInv, InOrder, Artifact, At
<1>4. CASE AdoptSplit \/ UndoSplitManifest \/ UndoMembership \/ SyncUndone \/ Raise
  <2>1. PICK step \in {"imputation", "undoSplitManifest", "undoMembership", "undone",
                       "raised"} : Go(step)
    BY <1>4 DEF AdoptSplit, UndoSplitManifest, UndoMembership, SyncUndone, Raise
  <2>2. QED
    BY <2>1, GoFields DEF IInv, At
<1>5. QED
  BY <1>1, <1>2, <1>3, <1>4

\* A refusal has its cause as long as it stands.
LEMMA RefusedKeeps ==
  ASSUME PreparationAssumption, IInv, HalfForCause, VerifyFinds, RefusedForCause,
         [Next]_vars
  PROVE  At("refused")' => (SourceAtFault \/ (halved /\ Half))'
<1>1. CASE UNCHANGED vars
  BY <1>1 DEF vars, RefusedForCause, SourceAtFault, Half, At
<1>2. CASE EditRaw
  <2>1. stat' # run'.pin
    BY <1>2 DEF EditRaw, IInv, TypeOK, CallRecord, SourceKnown
  <2>2. QED
    BY <2>1 DEF SourceAtFault
<1>3. CASE RefuseLeftover
  <2>1. run'.step = "blocked"
    BY <1>3, GoFields DEF RefuseLeftover, IInv
  <2>2. QED
    BY <2>1 DEF At
<1>4. CASE (Step /\ ~ RefuseLeftover) \/ Raise \/ Kill \/ PowerLoss
  BY <1>4, VerifyBlames, PassBlames, ProofBlames, AdoptGoesOn, SplitBlames, OthersGoOn
  DEF Step
<1>5. QED
  BY <1>1, <1>2, <1>3, <1>4 DEF Next

\* A call that verifies what it has found, or writes shards, has the rest before it.
LEMMA BlockedAfterTheRest ==
  ASSUME PreparationAssumption, IInv, VerifyFinds, leftover,
         At("verify") \/ At("materialization"), NEW a \in Artifact \ {"shards", "descriptor"}
  PROVE  disk[a] # None
<1>1. There(a)
  <2>1. CASE At("verify")
    BY <2>1 DEF VerifyFinds, IInv, DescriptorIsLast, Backed
  <2>2. CASE At("materialization")
    BY <2>2 DEF IInv, InOrder, Backed, At, Artifact, PastConfig, PastProof, Made, PastSplit,
       PastPreprocessor, PastFeatures
  <2>3. QED
    BY <2>1, <2>2
<1>2. QED
  BY <1>1 DEF There, PreparationAssumption

\* No other step blocks a call.
LEMMA OthersDoNotBlock ==
  ASSUME IInv, ~ Verify, ~ RefuseLeftover, ~ At("blocked"), Next
  PROVE  ~ At("blocked")'
<1>1. CASE Call \/ Kill \/ PowerLoss
  BY <1>1 DEF Call, Kill, PowerLoss, Idle, At
<1>2. CASE EditRaw
  BY <1>2 DEF EditRaw, At
<1>3. CASE VerifyProof
  <2>1. Refuse \/ run' = [run EXCEPT !.step = "split", !.made = {}]
    BY <1>3 DEF VerifyProof
  <2>2. Refuse => run'.step = "refused"
    BY GoFields DEF Refuse, IInv
  <2>3. run'.step \in {"split", "refused"}
    BY <2>1, <2>2 DEF IInv, TypeOK, CallRecord
  <2>4. QED
    BY <2>3 DEF At
<1>4. CASE \/ StartPass \/ ReadBlock \/ EndPass \/ Link \/ SyncDirectory \/ Adopt
           \/ ReplaceMembership \/ ReplaceSplitManifest
  <2>1. run.step \in Passes \cup Artifact
    BY <1>4 DEF StartPass, ReadBlock, EndPass, Link, SyncDirectory, Adopt, Immutable,
       ReplaceMembership, ReplaceSplitManifest, Artifact, At, IInv, InOrder
  <2>2. run'.step \in {run.step, After(run.step), "refused"}
    <3>1. CASE SyncDirectory \/ Adopt
      BY <3>1, GoFields DEF SyncDirectory, Adopt, Refuse, IInv
    <3>2. CASE \/ StartPass \/ ReadBlock \/ EndPass \/ Link \/ ReplaceMembership
               \/ ReplaceSplitManifest
      BY <3>2, GoFields DEF StartPass, ReadBlock, EndPass, Link, ReplaceMembership,
         ReplaceSplitManifest, Refuse, IInv, TypeOK, CallRecord
    <3>3. QED
      BY <1>4, <3>1, <3>2
  <2>3. QED
    BY <2>1, <2>2, Successors DEF Passes, Artifact, At
<1>5. CASE \/ VerifyShards \/ AdoptSplit \/ RefuseSplit \/ UndoSplitManifest
           \/ UndoMembership \/ SyncUndone \/ Raise
  <2>1. PICK step \in {"refused", "descriptor", "imputation", "undoSplitManifest",
                       "undoMembership", "undone", "raised"} : Go(step)
    BY <1>5 DEF VerifyShards, AdoptSplit, RefuseSplit, UndoSplitManifest, UndoMembership,
       SyncUndone, Raise, Refuse
  <2>2. QED
    BY <2>1, GoFields DEF IInv, At
<1>6. QED
  BY <1>1, <1>2, <1>3, <1>4, <1>5 DEF Next, Step

\* A blocked call moves no more until another call, a kill or a power loss.
LEMMA BlockedRests ==
  ASSUME IInv, At("blocked"), Next
  PROVE  UNCHANGED <<disk, leftover>> \/ ~ At("blocked")'
<1>1. CASE Call \/ Kill \/ PowerLoss
  BY <1>1 DEF Call, Kill, PowerLoss, Idle, At
<1>2. CASE EditRaw
  BY <1>2 DEF EditRaw, Stored
<1>3. ~ Raise
  BY DEF Raise, Over, At
<1>4. ~ (Step /\ ~ Call)
  <2>1. run.step \notin Passes \cup Immutable \cup Artifact
    BY DEF At, Passes, Immutable, Artifact
  <2>2. ~ run.linked
    BY <2>1 DEF IInv, InOrder
  <2>3. QED
    BY <2>1, <2>2 DEF Step, Verify, RefuseLeftover, StartPass, ReadBlock, EndPass,
       VerifyProof, Link, SyncDirectory, Adopt, VerifyShards, ReplaceMembership,
       ReplaceSplitManifest, AdoptSplit, RefuseSplit, UndoSplitManifest, UndoMembership,
       SyncUndone, At
<1>5. QED
  BY <1>1, <1>2, <1>3, <1>4 DEF Next

\* A call is blocked by what is left of the shards, with the rest before it.
LEMMA BlockedKeeps ==
  ASSUME PreparationAssumption, IInv, VerifyFinds, At("blocked") => BlockedForCause,
         [Next]_vars
  PROVE  At("blocked")' => BlockedForCause'
<1>1. CASE UNCHANGED vars
  BY <1>1 DEF vars, BlockedForCause, At
<1>2. CASE Verify /\ ~ leftover
  <2>1. Go("returned") \/ Go("refused")
    BY <1>2 DEF Verify, Refuse
  <2>2. run'.step \in {"returned", "refused"}
    BY <2>1, GoFields DEF IInv
  <2>3. QED
    BY <2>2 DEF At
<1>3. CASE (Verify \/ RefuseLeftover) /\ leftover
  <2>1. At("verify") \/ At("materialization")
    BY <1>3 DEF Verify, RefuseLeftover
  <2>2. UNCHANGED <<disk, leftover>>
    BY <1>3 DEF Verify, RefuseLeftover, Stored, Outside
  <2>3. QED
    BY <1>3, <2>1, <2>2, BlockedAfterTheRest DEF BlockedForCause
<1>4. CASE At("blocked") /\ Next
  BY <1>4, BlockedRests DEF BlockedForCause
<1>5. CASE ~ At("blocked") /\ Next /\ ~ Verify /\ ~ RefuseLeftover
  BY <1>5, OthersDoNotBlock
<1>6. QED
  BY <1>1, <1>2, <1>3, <1>4, <1>5 DEF RefuseLeftover

LEMMA VerifyFindsKeeps ==
  ASSUME IInv, VerifyFinds, [Next]_vars
  PROVE  VerifyFinds'
<1>1. CASE UNCHANGED vars \/ EditRaw
  BY <1>1 DEF vars, EditRaw, Stored, VerifyFinds, At
<1>2. CASE Call
  BY <1>2 DEF Call, Idle, Stored, VerifyFinds, At
<1>3. CASE StartPass \/ ReadBlock \/ EndPass \/ Link \/ ReplaceMembership
           \/ ReplaceSplitManifest
  <2>1. /\ run.step \in Passes \cup Artifact
        /\ \/ Refuse
           \/ run'.step \in {run.step, After(run.step)}
    BY <1>3 DEF StartPass, ReadBlock, EndPass, Link, ReplaceMembership,
       ReplaceSplitManifest, Immutable, Artifact, At, IInv, TypeOK, CallRecord
  <2>2. Refuse => run'.step = "refused"
    BY GoFields DEF Refuse, IInv
  <2>3. run'.step # "verify"
    BY <2>1, <2>2, Successors DEF Passes, Artifact
  <2>4. QED
    BY <2>3 DEF VerifyFinds, At
<1>4. CASE SyncDirectory \/ Adopt
  <2>1. run.step \in Artifact /\ (Refuse \/ Go(After(run.step)))
    BY <1>4 DEF SyncDirectory, Adopt, Immutable, IInv, InOrder
  <2>2. run'.step \in {"refused", After(run.step)}
    BY <2>1, GoFields DEF Refuse, IInv
  <2>3. run'.step # "verify"
    BY <2>1, <2>2, Successors DEF Artifact
  <2>4. QED
    BY <2>3 DEF VerifyFinds, At
<1>5. CASE VerifyProof \/ Kill \/ PowerLoss
  <2>1. Refuse \/ run' = [run EXCEPT !.step = "split", !.made = {}] \/ run' = Idle
    BY <1>5 DEF VerifyProof, Kill, PowerLoss
  <2>2. Refuse => run'.step = "refused"
    BY GoFields DEF Refuse, IInv
  <2>3. run' = Idle => run'.step = "idle"
    BY DEF Idle
  <2>4. run' = [run EXCEPT !.step = "split", !.made = {}] => run'.step = "split"
    BY DEF IInv, TypeOK, CallRecord
  <2>5. QED
    BY <2>1, <2>2, <2>3, <2>4 DEF VerifyFinds, At
<1>6. CASE \/ Verify \/ RefuseLeftover \/ VerifyShards \/ AdoptSplit \/ RefuseSplit
           \/ UndoSplitManifest \/ UndoMembership \/ SyncUndone \/ Raise
  <2>1. PICK step \in {"returned", "refused", "blocked", "descriptor", "imputation",
                       "undoSplitManifest", "undoMembership", "undone", "raised"} :
          Go(step)
    BY <1>6 DEF Verify, RefuseLeftover, VerifyShards, AdoptSplit, RefuseSplit, UndoSplitManifest,
       UndoMembership, SyncUndone, Raise, Refuse
  <2>2. QED
    BY <2>1, GoFields DEF IInv, VerifyFinds, At
<1>7. QED
  BY <1>1, <1>2, <1>3, <1>4, <1>5, <1>6 DEF Next, Step

\* A call of prepare_full_dataset refuses to go on because of the raw source, because
\* a crash has cut the split publication in half, or, with everything published that
\* comes before the shards, because of a shard transaction cut where its recovery
\* refuses or of a verification's work directory: nothing else that earlier calls left,
\* killed or raised, stands in its way.
THEOREM RefusalsHaveCause ==
  ASSUME PreparationAssumption
  PROVE  Spec => []RefusedForCause
<1>1. Init => HalfForCause /\ VerifyFinds /\ RefusedForCause
  BY DEF Init, Idle, HalfForCause, Half, VerifyFinds, RefusedForCause, At, Artifact
<1>2. ASSUME IInv, HalfForCause, VerifyFinds, RefusedForCause, [Next]_vars
      PROVE  RefusedForCause'
  BY <1>2, RefusedKeeps, BlockedKeeps DEF RefusedForCause
<1>3. QED
  BY <1>1, <1>2, Invariance, HalfKeeps, VerifyFindsKeeps, PTL DEF Spec
=============================================================================
