---------------------------- MODULE ShardContents ----------------------------
(* What write_parquet_shards of out_of_core/shard.py puts into shards, and what *)
(* verify_shard_manifest reads back. The rows of a source, in whatever order    *)
(* they come, are joined with the membership of the split, sorted by partition  *)
(* and cut into shards; the manifest is made while they are written. How the    *)
(* files get their public names is ShardTransaction. Splits, labels, source     *)
(* files, uids and attacks are numbers that compare as the strings do.          *)
EXTENDS Integers, FiniteSets, ExternalSort

CONSTANTS Arrivals,       \* sequences of rows, in the order the chunks bring them
          Memberships,    \* sequences by uid of [uid, split, label]
          RunSizes,       \* values of max_rows_per_run
          TargetRows,     \* values of shard_target_rows
          HeldOutAttacks, \* the split plan's
          Splits, Test,   \* _PARTITIONS, and its test part
          UnknownLike     \* the label of a held-out attack

ContentsAssumption ==
  /\ SortAssumption
  /\ RunSizes \subseteq Nat \ {0} /\ TargetRows \subseteq Nat \ {0}

VARIABLES
  build,      \* rows, membership, strategy, run size and target of the call
  stage,      \* the function that comes next
  sorted,     \* the sorted runs in the private work directory
  shards,     \* the shards, each with what the manifest claims of it
  manifest    \* what it claims of all of them
contentVars == <<build, stage, sorted, shards, manifest>>

Arrived == build.rows
Members == build.membership
Reject == stage' = "rejected" /\ UNCHANGED <<build, sorted, shards, manifest>>

BySourceUid == <<"uid">>
ByPartition == <<"split", "label", "file", "sequence", "uid">>
OrderingKey(r) == <<r.file, r.sequence, r.uid>>
Before(k, l) == Precedes(<<1, 2, 3>>, k, l)

\* One run after another, each sorted: what the buffers of a function leave.
NoRuns == [source |-> <<>>, joined |-> <<>>, coverage |-> <<>>]
NoManifest == [uids |-> <<>>, classes |-> <<>>, sources |-> <<>>]

Init ==
  /\ build \in [rows : Arrivals, membership : Memberships, attacks : BOOLEAN,
                size : RunSizes, target : TargetRows]
  /\ stage = "source"
  /\ sorted = NoRuns
  /\ shards = <<>>
  /\ manifest = NoManifest

\* _write_source_runs; _collapse_runs refuses a source without rows.
WriteSourceRuns ==
  /\ stage = "source"
  /\ IF Arrived = <<>> THEN Reject
     ELSE /\ sorted' = [sorted EXCEPT !.source = SortedRuns(Arrived, build.size, BySourceUid)]
          /\ stage' = "join"
          /\ UNCHANGED <<build, shards, manifest>>

Repeats(rows) == \E i \in 1 .. Len(rows) - 1 : rows[i].uid = rows[i + 1].uid
Uids(rows) == [i \in DOMAIN rows |-> rows[i].uid]

\* A label may differ only where the split made a held-out attack unknown.
LabelAgrees(row, member) ==
  \/ row.label = member.label
  \/ build.attacks /\ member.split = Test /\ member.label = UnknownLike
     /\ row.attack \in HeldOutAttacks

\* _join_membership walks both in uid order and stops at the first difference.
JoinMembership ==
  /\ stage = "join"
  /\ LET rows == Collapsed(sorted.source, BySourceUid)
         Joined(i) == [rows[i] EXCEPT !.split = Members[i].split, !.label = Members[i].label]
     IN IF \/ Repeats(rows) \/ Repeats(Members)
           \/ Uids(rows) # Uids(Members)
           \/ \E i \in DOMAIN rows : ~ LabelAgrees(rows[i], Members[i])
        THEN Reject
        ELSE /\ sorted' = [sorted EXCEPT
                  !.source = <<>>,
                  !.joined = SortedRuns([i \in DOMAIN rows |-> Joined(i)],
                                        build.size, ByPartition)]
             /\ manifest' = [manifest EXCEPT !.uids = Uids(rows)]
             /\ stage' = "shards"
             /\ UNCHANGED <<build, shards>>

-------------------------------------------------------------------------------
(* Shards and their manifest.                                                 *)

CountOf(row, counts) ==
  [f \in DOMAIN counts \cup {row.file} |->
     (IF f \in DOMAIN counts THEN counts[f] ELSE 0) + IF f = row.file THEN 1 ELSE 0]
NoCounts == [f \in {} |-> 0]

\* open_shard: a shard without rows, the next part of its bucket.
Opened(written, row) ==
  [split |-> row.split, label |-> row.label,
   part |-> Cardinality({i \in DOMAIN written :
                           written[i].split = row.split /\ written[i].label = row.label}),
   stored |-> <<>>, rows |-> 0, first |-> <<>>, last |-> <<>>,
   least |-> row.uid, greatest |-> row.uid, sources |-> NoCounts]

\* One turn of the loop: the row is stored and the claims follow it.
Extended(shard, row) ==
  [shard EXCEPT
     !.stored = Append(@, row), !.rows = @ + 1,
     !.first = IF @ = <<>> THEN OrderingKey(row) ELSE @, !.last = OrderingKey(row),
     !.least = IF row.uid < @ THEN row.uid ELSE @,
     !.greatest = IF row.uid > @ THEN row.uid ELSE @,
     !.sources = CountOf(row, @)]

\* A shard is closed when the bucket changes and when it is full.
StoredRow(written, row) ==
  LET n == Len(written)
  IN IF n > 0 /\ written[n].split = row.split /\ written[n].label = row.label
        /\ written[n].rows < build.target
     THEN [written EXCEPT ![n] = Extended(@, row)]
     ELSE Append(written, Extended(Opened(written, row), row))

WriteStagedShards ==
  /\ stage = "shards"
  /\ shards' = FoldLeft(StoredRow, <<>>, Collapsed(sorted.joined, ByPartition))
  /\ sorted' = [sorted EXCEPT !.joined = <<>>]
  /\ stage' = "manifest"
  /\ UNCHANGED <<build, manifest>>

Total(counts) == FoldFunctionOnSet(+, 0, counts, DOMAIN counts)
Buckets(entries) == {<<entries[i].split, entries[i].label>> : i \in DOMAIN entries}
OfBucket(entries, bucket) ==
  SelectSeq(entries, LAMBDA e : <<e.split, e.label>> = bucket)
ClassCounts(entries) ==
  [b \in Buckets(entries) |->
     LET of == OfBucket(entries, b) IN Total([i \in DOMAIN of |-> of[i].rows])]
SourceCounts(entries) ==
  [f \in UNION {DOMAIN entries[i].sources : i \in DOMAIN entries} |->
     Total([i \in {j \in DOMAIN entries : f \in DOMAIN entries[j].sources} |->
              entries[i].sources[f]])]

\* _build_manifest adds up what the entries claim.
BuildManifest ==
  /\ stage = "manifest"
  /\ manifest' = [manifest EXCEPT
        !.classes = ClassCounts(shards), !.sources = SourceCounts(shards)]
  /\ stage' = "entries"
  /\ UNCHANGED <<build, sorted, shards>>

-------------------------------------------------------------------------------
(* verify_shard_manifest.                                                     *)

\* _verify_entry_and_index: the claims are computed again from the rows.
Again(e) ==
  FoldLeft(Extended, [e EXCEPT !.stored = <<>>, !.rows = 0, !.first = <<>>,
                               !.least = e.stored[1].uid, !.greatest = e.stored[1].uid,
                               !.sources = NoCounts], e.stored)
EntryHolds(e) ==
  /\ e.stored # <<>>
  /\ \A i \in DOMAIN e.stored : e.stored[i].label = e.label
  /\ \A i \in 1 .. Len(e.stored) - 1 :
       ~ Before(OrderingKey(e.stored[i + 1]), OrderingKey(e.stored[i]))
  /\ Again(e) = e

\* The parts of a bucket are contiguous, full but for the last, and in order.
BucketHolds(of) ==
  \A i \in DOMAIN of :
    /\ of[i].part = i - 1
    /\ of[i].rows \in 1 .. build.target
    /\ i < Len(of) => of[i].rows = build.target
    /\ i > 1 => ~ Before(of[i].first, of[i - 1].last)

Covered(e) ==
  SortedRuns([i \in DOMAIN e.stored |->
                [uid |-> e.stored[i].uid, split |-> e.split, label |-> e.stored[i].label]],
             build.size, BySourceUid)
PartCount(rows, split) == Cardinality({i \in DOMAIN rows : rows[i].split = split})

VerifyEntries ==
  /\ stage = "entries"
  /\ IF /\ \A i \in DOMAIN shards : EntryHolds(shards[i])
        /\ \A b \in Buckets(shards) : BucketHolds(OfBucket(shards, b))
        /\ LET read == [i \in DOMAIN shards |-> Again(shards[i])]
           IN /\ ClassCounts(read) = manifest.classes
              /\ SourceCounts(read) = manifest.sources
        /\ \A p \in Splits :
             Total([i \in {j \in DOMAIN shards : shards[j].split = p} |-> shards[i].rows])
               = PartCount(Members, p)
     THEN /\ sorted' = [sorted EXCEPT
                !.coverage = FlattenSeq([i \in DOMAIN shards |-> Covered(shards[i])])]
          /\ stage' = "coverage"
          /\ UNCHANGED <<build, shards, manifest>>
     ELSE Reject

\* _verify_uid_coverage: the uids of all shards are those of the membership.
VerifyUidCoverage ==
  /\ stage = "coverage"
  /\ LET covered == Collapsed(sorted.coverage, BySourceUid)
     IN IF ~ Repeats(covered) /\ covered = Members /\ Uids(covered) = manifest.uids
        THEN /\ stage' = "accepted"
             /\ UNCHANGED <<build, sorted, shards, manifest>>
        ELSE Reject

\* The call has returned or raised.
Settled == stage \in {"accepted", "rejected"} /\ UNCHANGED contentVars

Next ==
  \/ WriteSourceRuns \/ JoinMembership \/ WriteStagedShards \/ BuildManifest
  \/ VerifyEntries \/ VerifyUidCoverage \/ Settled

Spec == Init /\ [][Next]_contentVars

-------------------------------------------------------------------------------
(* Reference: a row has its place by how many rows of its bucket come before   *)
(* it, whatever the order of arrival, the runs and the merges.                 *)

MemberOf(row) == CHOOSE i \in DOMAIN Members : Members[i].uid = row.uid
Final(row) == [row EXCEPT !.split = Members[MemberOf(row)].split,
                          !.label = Members[MemberOf(row)].label]
FinalRows == {Final(Arrived[i]) : i \in DOMAIN Arrived}
Bucketmates(row) == {r \in FinalRows : r.split = row.split /\ r.label = row.label}
RankIn(row) == Cardinality({r \in Bucketmates(row) :
                              Before(OrderingKey(r), OrderingKey(row))})
PlaceOf(row) == [split |-> row.split, label |-> row.label,
                 part |-> RankIn(row) \div build.target,
                 position |-> RankIn(row) % build.target, row |-> row]

\* What is written is the reference, each row once in its place.
ShardsAreReference ==
  stage \in {"manifest", "entries", "coverage", "accepted"} =>
    /\ Total([i \in DOMAIN shards |-> Len(shards[i].stored)]) = Len(Arrived)
    /\ \A i \in DOMAIN shards : \A j \in DOMAIN shards[i].stored :
         [split |-> shards[i].split, label |-> shards[i].label, part |-> shards[i].part,
          position |-> j - 1, row |-> shards[i].stored[j]]
           \in {PlaceOf(r) : r \in FinalRows}

\* The source and the membership do not fit each other.
Mismatch ==
  \/ Arrived = <<>>
  \/ \E i, j \in DOMAIN Arrived : i # j /\ Arrived[i].uid = Arrived[j].uid
  \/ {Arrived[i].uid : i \in DOMAIN Arrived} # {Members[i].uid : i \in DOMAIN Members}
  \/ \E i \in DOMAIN Arrived :
       ~ LabelAgrees(Arrived[i], Members[MemberOf(Arrived[i])])

\* Shards are refused, while they are built or verified, only for a source that
\* does not fit its membership, and never made of such a source.
RejectedForMismatch ==
  /\ stage = "rejected" => Mismatch
  /\ stage = "accepted" => ~ Mismatch
==============================================================================
