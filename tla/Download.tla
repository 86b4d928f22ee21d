------------------------------- MODULE Download -------------------------------
(***************************************************************************)
(* download_file: an archive is fetched by HTTP into "<name>.partial",      *)
(* resumed by a byte range when an earlier call left one, copied into a     *)
(* private snapshot whose digest is taken while it is copied, and linked    *)
(* to its name without replacing anything.  Between two calls, or during    *)
(* one, the process may be killed, the connection may break, the machine    *)
(* may lose power, and the server may start to serve another version: a     *)
(* range request carries no validator (no ETag, no If-Range).               *)
(* The server is external.                                                  *)
(***************************************************************************)
EXTENDS DownloadedArchive

CONSTANTS
  MaxTroubles, \* bounds kills, power losses and bad answers
  MaxReplaced  \* bounds the changes of the version that is served

VARIABLES
  remote,      \* the version that the server serves now
  ranges,      \* the server answers range requests with ranges
  naming,      \* whether calls share one name or each has one of its own
  partial,     \* what the partial file of this name holds, or Absent
  synced,      \* how many of its blocks are on the disk
  finalSynced, \* the entry of the name is on the disk
  call,        \* the call in progress
  troubles

entries == <<partial, synced, final, finalSynced>>
world == <<remote, pinned, ranges, naming>>
everything == <<entries, world, call, cut, troubles, replaced>>

Prefix(s, n) == SubSeq(s, 1, n)

Idle == [at |-> "idle"]

DownloadInit ==
  /\ remote \in Version /\ pinned \in {remote, Absent}
  /\ ranges \in BOOLEAN /\ naming \in {"same", "fresh"}
  /\ partial = Absent /\ synced = 0
  /\ final = Absent /\ finalSynced = FALSE
  /\ call = Idle /\ cut = FALSE /\ troubles = 0 /\ replaced = 0

Trouble == troubles < MaxTroubles /\ troubles' = troubles + 1
Unspent == UNCHANGED <<troubles, replaced>>
Fail == call' = Idle
Goto(to) == call' = [call EXCEPT !.at = to]

-----------------------------------------------------------------------------
(* The call *)

Offset == IF partial = Absent THEN 0 ELSE Len(partial)

\* run_acquire draws a new name for every candidate; other callers use theirs.
Call ==
  /\ call = Idle
  /\ \/ /\ naming = "same"
        /\ UNCHANGED entries
     \/ /\ naming = "fresh"
        /\ partial' = Absent /\ synced' = 0
        /\ final' = Absent /\ finalSynced' = FALSE
  /\ call' = [at |-> "start"]
  /\ UNCHANGED <<world, cut>> /\ Unspent

\* A file under the name is trusted if it has the expected digest and size,
\* and refused without one.
Reuse ==
  /\ call.at = "start" /\ final # Absent
  /\ IF pinned # Absent /\ final = AllBlocks(pinned) THEN Goto("done") ELSE Fail
  /\ UNCHANGED <<entries, world, cut>> /\ Unspent

\* from = 0 requests the whole, otherwise a range that starts at block from.
Request ==
  /\ call.at = "start" /\ final = Absent
  /\ call' = [at |-> "requested", from |-> Offset]
  /\ UNCHANGED <<entries, world, cut>> /\ Unspent

Streaming(first, declared) ==
  [at |-> "stream", version |-> remote, next |-> first, declared |-> declared,
   received |-> 0, body |-> Blocks[remote] - first + 1]

\* 206: the range starts where the partial ends, and is appended to it.
Append206 ==
  /\ call.at = "requested" /\ ranges
  /\ call.from \in 1..(Blocks[remote] - 1)
  /\ call' = Streaming(call.from + 1, TRUE)
  /\ UNCHANGED <<entries, world, cut>> /\ Unspent

\* 200: the whole body, with a declared length or without.  The partial is
\* created, or opened and truncated.
\* (a variant that opens an existing partial for appending)
Restart200Appending ==
  /\ call.at = "requested" /\ (ranges => call.from = 0)
  /\ \E declared \in BOOLEAN : call' = Streaming(1, declared)
  /\ partial' = IF partial = Absent THEN <<>> ELSE partial
  /\ UNCHANGED <<synced, final, finalSynced, world, cut>> /\ Unspent

Restart200 ==
  /\ call.at = "requested" /\ (ranges => call.from = 0)
  /\ \E declared \in BOOLEAN : call' = Streaming(1, declared)
  /\ partial' = <<>> /\ synced' = 0
  /\ UNCHANGED <<final, finalSynced, world, cut>> /\ Unspent

\* 416: nothing lies beyond the partial.  If the server's length is the
\* partial's, it is complete; otherwise the whole is requested, once.
\* (a variant that asks for the same range again)
Unsatisfied416AsksAgain ==
  /\ call.at = "requested" /\ ranges /\ call.from >= Blocks[remote]
  /\ IF call.from = Blocks[remote]
       THEN call' = [at |-> "streamed", total |-> call.from]
       ELSE UNCHANGED call
  /\ UNCHANGED <<entries, world, cut>> /\ Unspent

Unsatisfied416 ==
  /\ call.at = "requested" /\ ranges /\ call.from >= Blocks[remote]
  /\ call' = IF call.from = Blocks[remote]
               THEN [at |-> "streamed", total |-> call.from]
               ELSE [at |-> "requested", from |-> 0]
  /\ UNCHANGED <<entries, world, cut>> /\ Unspent

\* An error status, an answer whose range or length contradicts the request,
\* or no answer: the partial stays as it was.
BadAnswer ==
  /\ call.at = "requested" /\ Trouble
  /\ Fail
  /\ UNCHANGED <<entries, world, cut, replaced>>

Receive ==
  /\ call.at = "stream" /\ call.received < call.body
  /\ partial' = Append(partial, call.version)
  /\ call' = [call EXCEPT !.received = @ + 1]
  /\ UNCHANGED <<synced, final, finalSynced, world, cut>> /\ Unspent

\* The connection ends, here or too early; what was received is flushed.  A
\* body that is shorter than declared is an error.
Total == IF call.declared THEN call.body + call.next - 1 ELSE Absent

EndBody ==
  /\ call.at = "stream"
  /\ \/ call.received = call.body /\ Unspent /\ UNCHANGED cut
     \/ /\ call.received < call.body /\ Trouble
        /\ cut' = (cut \/ ~ call.declared)
        /\ UNCHANGED replaced
  /\ synced' = Len(partial)
  /\ IF call.declared /\ call.received # call.body
       THEN Fail
       ELSE call' = [at |-> "streamed", total |-> Total]
  /\ UNCHANGED <<partial, final, finalSynced, world>>

\* _snapshot_partial: a private copy, digested as it is copied, flushed and
\* pinned by a second link.  It must have the length of the response and the
\* expected size and digest.
Verify ==
  /\ call.at = "streamed"
  /\ IF /\ call.total # Absent => Len(partial) = call.total
        /\ pinned # Absent => partial = AllBlocks(pinned)
       THEN call' = [at |-> "verified", copy |-> partial]
       ELSE Fail
  /\ UNCHANGED <<entries, world, cut>> /\ Unspent

\* The pin is linked to the name, unless the name is taken.
Link ==
  /\ call.at = "verified"
  /\ IF final # Absent THEN Fail /\ UNCHANGED final
       ELSE final' = call.copy /\ Goto("linked")
  /\ UNCHANGED <<partial, synced, finalSynced, world, cut>> /\ Unspent

SyncName ==
  /\ call.at = "linked"
  /\ finalSynced' = TRUE
  /\ Goto("published")
  /\ UNCHANGED <<partial, synced, final, world, cut>> /\ Unspent

\* The partial is moved to a quarantine and truncated there.
RetirePartial ==
  /\ call.at = "published"
  /\ partial' = Absent /\ synced' = 0
  /\ Goto("done")
  /\ UNCHANGED <<final, finalSynced, world, cut>> /\ Unspent

\* The caller has its archive and does not call again.
Return ==
  /\ call.at = "done"
  /\ UNCHANGED everything

-----------------------------------------------------------------------------
(* The environment *)

Kill ==
  /\ call # Idle /\ call.at # "done" /\ Trouble
  /\ Fail
  /\ UNCHANGED <<entries, world, cut, replaced>>

\* What was not flushed is kept up to some length, the directory's entries
\* are kept or lost.
LosePower ==
  /\ call # Idle /\ call.at # "done" /\ Trouble
  /\ Fail
  /\ \/ partial' = Absent /\ synced' = 0
     \/ /\ partial # Absent
        /\ \E n \in synced..Len(partial) : partial' = Prefix(partial, n) /\ synced' = n
  /\ \/ UNCHANGED <<final, finalSynced>>
     \/ ~ finalSynced /\ final' = Absent /\ UNCHANGED finalSynced
  /\ UNCHANGED <<world, cut, replaced>>

\* The server replaces the archive; one that left may come back.
ServeOther ==
  /\ replaced < MaxReplaced /\ replaced' = replaced + 1
  /\ remote' \in Version \ {remote}
  /\ UNCHANGED <<pinned, ranges, naming, entries, call, cut, troubles>>

Proceed ==
  \/ Call \/ Reuse \/ Request \/ Append206 \/ Restart200 \/ Unsatisfied416
  \/ Receive \/ EndBody \/ Verify \/ Link \/ SyncName \/ RetirePartial \/ Return

DownloadNext == Proceed \/ BadAnswer \/ Kill \/ LosePower \/ ServeOther

DownloadSpec == DownloadInit /\ [][DownloadNext]_everything

\* A call goes on, a failed one is made again, and a good server answers.
Progress ==
  \/ Call \/ Reuse \/ Request \/ Append206 \/ Restart200 \/ Unsatisfied416
  \/ Receive \/ (call.at = "stream" /\ call.received = call.body /\ EndBody)
  \/ Verify \/ Link \/ SyncName \/ RetirePartial

FairDownload == DownloadSpec /\ WF_everything(Progress)

-----------------------------------------------------------------------------
(* Properties *)

\* A partial that shares a name with the calls to come and does not begin like
\* the pinned archive: it is resumed, refused for its digest, and kept.
Spoilt ==
  /\ naming = "same" /\ partial # Absent
  /\ \E i \in 1..Len(partial) : i <= Blocks[pinned] /\ partial[i] # pinned

\* Once the troubles and replacements are over and the server serves the pinned
\* archive, calling again publishes it -- unless the partial is spoilt.
Settled ==
  /\ pinned # Absent /\ remote = pinned
  /\ troubles = MaxTroubles /\ replaced = MaxReplaced
  /\ call = Idle /\ ~ Spoilt

DownloadFinishes == Settled ~> call.at = "done"
=============================================================================
