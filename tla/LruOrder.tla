----------------------------- MODULE LruOrder -----------------------------
(* The bounded OrderedDict shared by the temporal state machine (state.py)  *)
(* and the streaming feature processor (streaming.py): the keys from the    *)
(* least to the most recently used one, at most `limit` of them.            *)
EXTENDS Naturals, Sequences, SequencesExt

\* A new key displaces the oldest: popitem(last=False) on a full dictionary.
Displaces(order, key, limit) == key \notin ToSet(order) /\ Len(order) >= limit

\* The order after `key` has been used: an old key moves to the end, a new
\* one is put there and the oldest goes when there is no room for it.
Touch(order, key, limit) ==
    LET gone == {i \in DOMAIN order :
                    order[i] = key \/ (i = 1 /\ Displaces(order, key, limit))}
    IN  Append(IF gone = {} THEN order ELSE RemoveAt(order, CHOOSE i \in gone : TRUE), key)
=============================================================================
