---------------------------- MODULE MCImportCache ----------------------------
(***************************************************************************)
(* A shard with two interchangeable threads, under one of two workloads.   *)
(* "shard": every operation, on one key.  Two threads make every pair of   *)
(* operations overlap at every step, one clear separates the two           *)
(* generations an entry can come from, and an identity more than memory    *)
(* and the threads can refer to at once is never missing.                  *)
(* "queue": only inserts, of several keys, into a queue with room for one, *)
(* while flushes fail.                                                     *)
(***************************************************************************)
EXTENDS ImportCache, TLC

CONSTANT k1

VARIABLE workload

Symmetry == Permutations(Thread) \cup Permutations(EntryId)

MCInit ==
    /\ Init
    /\ workload \in {"shard", "queue"}
    /\ \A k \in Key \ (IF workload = "shard" THEN {k1} ELSE {}) : table[k] = Nil

OnOneKey == \A t \in Thread : key'[t] \in {k1, Nil} /\ keys'[t] \subseteq {k1}

InsertOrFail ==
    \E t \in Thread :
        \/ \E k \in Key, i \in EntryId : BeginInsert(t, k, i)
        \/ EnqueueInsert(t) \/ TakePending(t) \/ CommitWrites(t) \/ CommitFails(t)
        \/ GuardPasses(t) \/ PutMemory(t) \/ RecheckKeeps(t) \/ TrimNothing(t)

MCNext ==
    /\ \/ workload = "shard" /\ Next /\ OnOneKey
       \/ workload = "queue" /\ InsertOrFail
    /\ UNCHANGED workload

MCSpec == MCInit /\ [][MCNext]_<<vars, workload>>
=============================================================================
