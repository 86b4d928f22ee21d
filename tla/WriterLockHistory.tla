-------------------------- MODULE WriterLockHistory --------------------------
(***************************************************************************)
(* WriterLock with history variables that steps never read: what recovery  *)
(* has done to the exclusion that the lock is there for.                   *)
(***************************************************************************)
EXTENDS WriterLock, Integers

VARIABLES
  recovered,  \* processes that have found a lock stale
  late,       \* a lock found stale was no longer the one at the path
  mistaken    \* a recoverer has moved aside another lock than it had read

historyVars == <<recovered, late, mistaken>>

Noted ==
  /\ recovered' = recovered \cup {p \in Proc : pc'[p] = "recover"}
  /\ late' = (late \/ \E p \in Proc : /\ pc[p] = "probe" /\ pc'[p] = "recover"
                                      /\ lockPath # expected[p])
  /\ mistaken' = (mistaken \/ \E p \in Proc : /\ pc[p] = "recover" /\ pc'[p] = "verifyRecover"
                                              /\ aside'[p] # expected[p])

NotedInit == Init /\ recovered = {} /\ late = FALSE /\ mistaken = FALSE
NotedSpec == NotedInit /\ [][\E p \in Proc : Step(p) /\ Noted]_<<vars, historyVars>>

\* One mistake alone breaks the lock: until a recoverer moves aside another lock
\* than the one it had read, there is one holder, and a release moves aside the
\* releaser's own lock.
ExcludesUntilMistaken == ~ mistaken => MutualExclusion /\ ReleaseTakesOwnLock

\* And it takes a race to make it: a second recoverer, or an owner that leaves
\* and dies between the reading of its lock and the probe of its PID.
MistakesHaveCause == mistaken => late \/ Cardinality(recovered) > 1

OneMistakeApart == ExcludesUntilMistaken /\ MistakesHaveCause
=============================================================================
