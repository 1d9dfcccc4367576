----------------------------- MODULE ImportCache -----------------------------
(***************************************************************************)
(* One shard of the import cache: the memory mirror (ImportCache,          *)
(* daemon/src/cache/memory.rs) over the queued disk writes and committed   *)
(* rows (DiskCache, daemon/src/cache/disk.rs), under concurrent inserts,   *)
(* reads, evictions, flushes and clears.                                   *)
(*                                                                         *)
(* A step is one atomic access to shared state: a papaya map operation, a  *)
(* critical section of the pending or dirty mutex, one redb transaction,   *)
(* or one load of clear_generation. The clear generation is what keeps the *)
(* layers together, so a cached measurement is reduced to its provenance:  *)
(* the generation its writer captured (`tag`) and the generation captured  *)
(* when it was first inserted (`born`, history); a queued or committed     *)
(* write also says whether it re-persists a memory entry rather than being *)
(* an insert (`resaved`, history). Recency is reduced to `hot`: used since *)
(* it was last persisted (last_seq > persisted_seq). The measurements are  *)
(* the ones the durability gate lets through.                              *)
(***************************************************************************)
EXTENDS Naturals, FiniteSets

CONSTANTS
    Thread,     \* request, maintenance and background threads on the shard
    Key,        \* cache keys
    EntryId,    \* identities of a memory entry: its last_seq Arc
    FlushBatch, \* INSERT_FLUSH_BATCH
    MaxPending, \* MAX_PENDING_INSERTS
    MaxClears   \* bound: how many clears a behaviour contains

CONSTANT Nil

VARIABLES
    memory,     \* the papaya map: Key -> entry
    pending,    \* pending_inserts: Key -> queued write
    table,      \* committed rows of CACHE_TABLE
    gen,        \* clear_generation
    clearLock,  \* holder of clear_lock, or Nil
    dirty,      \* keys whose disk insert failed
    wipeFailed, \* history: some clear's transaction did not commit
    pc,         \* each thread's place
    ret,        \* where its call of flush_pending_inserts or remove returns to
    key,        \* the key it works on
    cap,        \* the clear generation it captured
    hand,       \* the entry it is about to put in memory, or has judged
    batch,      \* entries it snapshotted from memory and still has to enqueue
    taken,      \* the queue its flush has taken
    keys        \* keys it removes, or the dirty keys its flush took

layers == <<memory, pending, table>>
control == <<gen, clearLock, dirty, wipeFailed>>
call == <<ret, key, cap, hand, batch, taken, keys>>
vars == <<memory, pending, table, gen, clearLock, dirty, wipeFailed,
          pc, ret, key, cap, hand, batch, taken, keys>>

Write == [tag : Nat, born : Nat, resaved : BOOLEAN]
Entry == [id : EntryId, tag : Nat, born : Nat, hot : BOOLEAN]

\* "guard", "put" and "recheck" are the steps of insert_into_memory_guarded,
\* "flush" and "commit" those of flush_pending_inserts.
Place == {"idle", "enqueue", "guard", "put", "recheck", "trim", "trim_pick",
          "trim_drop", "trim_rm", "judge", "miss", "probe", "read",
          "rm_pending", "rm_table", "rm_memory", "pg_table", "pg_pending",
          "wipe", "drop_pending", "drop_memory", "drop_dirty", "take_dirty",
          "replay_snap", "replay", "sweep_snap", "sweep", "flush", "commit",
          "restore"}

\* Places of a thread that holds clear_lock.
Locking == {"commit", "wipe", "drop_pending"}

ASSUME NilAssumption == Nil \notin Thread \cup Key \cup Entry \cup Write
ASSUME BoundAssumption ==
    /\ FlushBatch \in Nat \ {0} /\ MaxPending \in Nat /\ FlushBatch <= MaxPending
    /\ MaxClears \in Nat

Nothing == [k \in Key |-> Nil]

TypeOK ==
    /\ memory \in [Key -> Entry \cup {Nil}]
    /\ pending \in [Key -> Write \cup {Nil}]
    /\ table \in [Key -> Write \cup {Nil}]
    /\ gen \in Nat
    /\ clearLock \in Thread \cup {Nil}
    /\ dirty \in SUBSET Key
    /\ wipeFailed \in BOOLEAN
    /\ pc \in [Thread -> Place]
    /\ ret \in [Thread -> Place]
    /\ key \in [Thread -> Key \cup {Nil}]
    /\ cap \in [Thread -> Nat]
    /\ hand \in [Thread -> Entry \cup {Nil}]
    /\ batch \in [Thread -> [Key -> Entry \cup {Nil}]]
    /\ taken \in [Thread -> [Key -> Write \cup {Nil}]]
    /\ keys \in [Thread -> SUBSET Key]

\* A row an earlier process left, read as of this one's first generation.
OldRow == [tag |-> 0, born |-> 0, resaved |-> FALSE]

Init ==
    /\ memory = Nothing /\ pending = Nothing
    /\ table \in [Key -> {OldRow, Nil}]
    /\ gen = 0
    /\ clearLock = Nil
    /\ dirty = {}
    /\ wipeFailed = FALSE
    /\ pc = [t \in Thread |-> "idle"]
    /\ ret = [t \in Thread |-> "idle"]
    /\ key = [t \in Thread |-> Nil]
    /\ cap = [t \in Thread |-> 0]
    /\ hand = [t \in Thread |-> Nil]
    /\ batch = [t \in Thread |-> Nothing]
    /\ taken = [t \in Thread |-> Nothing]
    /\ keys = [t \in Thread |-> {}]

----------------------------------------------------------------------------
Goto(t, from, to) ==
    /\ pc[t] = from
    /\ pc' = [pc EXCEPT ![t] = to]

\* A thread's locals go out of scope, except the set of keys it goes on with.
Forget(t, S) ==
    /\ ret' = [ret EXCEPT ![t] = "idle"]
    /\ key' = [key EXCEPT ![t] = Nil]
    /\ cap' = [cap EXCEPT ![t] = 0]
    /\ hand' = [hand EXCEPT ![t] = Nil]
    /\ batch' = [batch EXCEPT ![t] = Nothing]
    /\ taken' = [taken EXCEPT ![t] = Nothing]
    /\ keys' = [keys EXCEPT ![t] = S]

\* The call returns to its caller outside the cache.
Return(t) ==
    /\ pc' = [pc EXCEPT ![t] = "idle"]
    /\ Forget(t, {})

Resident(m) == {k \in Key : m[k] # Nil}
Without(m, S) == [k \in Key |-> IF k \in S THEN Nil ELSE m[k]]

\* Set or clear "used since last persisted" (last_seq against persisted_seq).
Mark(e, used) == [e EXCEPT !.hot = used]

\* A new Arc: no memory entry and no thread refers to it.
FreshId(i) ==
    /\ \A k \in Key : memory[k] # Nil => memory[k].id # i
    /\ \A t \in Thread : /\ hand[t] # Nil => hand[t].id # i
                         /\ \A k \in Key : batch[t][k] # Nil =>
                                               batch[t][k].id # i

\* shed_oldest_pending_inserts: past the ceiling, make room for a batch. Which
\* writes are oldest is a matter of recency, so any may go.
Shed(q) ==
    IF Cardinality(Resident(q)) <= MaxPending THEN {q}
    ELSE {Without(q, S) : S \in {S \in SUBSET Resident(q) :
              Cardinality(S) = Cardinality(Resident(q)) - (MaxPending - FlushBatch)}}

\* write_at_generation queues the bytes tagged with the captured generation and,
\* at the batch size, unless a failed flush is backing off, flushes the queue
\* before it goes on.
QueuedWrite(t, born, resaved) == [tag |-> cap[t], born |-> born, resaved |-> resaved]

Enqueue(t, k, write, next) ==
    /\ pending' \in Shed([pending EXCEPT ![k] = write])
    /\ \/ pc' = [pc EXCEPT ![t] = next] /\ UNCHANGED ret
       \/ /\ Cardinality(Resident(pending')) >= FlushBatch
          /\ pc' = [pc EXCEPT ![t] = "flush"]
          /\ ret' = [ret EXCEPT ![t] = next]

----------------------------------------------------------------------------
(* insert_with_fingerprints_at_generation *)

\* Capture the clear generation before the disk enqueue and the memory insert.
BeginInsert(t, k, i) ==
    /\ Goto(t, "idle", "enqueue")
    /\ FreshId(i)
    /\ key' = [key EXCEPT ![t] = k]
    /\ cap' = [cap EXCEPT ![t] = gen]
    /\ hand' = [hand EXCEPT ![t] = [id |-> i, tag |-> gen, born |-> gen,
                                       hot |-> FALSE]]
    /\ UNCHANGED <<layers, control, ret, batch, taken, keys>>

\* disk.insert_at_generation succeeds.
EnqueueInsert(t) ==
    /\ pc[t] = "enqueue"
    /\ Enqueue(t, key[t], QueuedWrite(t, hand[t].born, FALSE), "guard")
    /\ UNCHANGED <<memory, table, control, key, cap, hand, batch, taken, keys>>

\* It fails (encoding, poisoned queue): the key becomes dirty.
EnqueueInsertFails(t) ==
    /\ Goto(t, "enqueue", "guard")
    /\ dirty' = dirty \cup {key[t]}
    /\ UNCHANGED <<layers, gen, clearLock, wipeFailed, call>>

----------------------------------------------------------------------------
(* insert_into_memory_guarded, shared by inserts and disk hydration *)

\* Skip outright when a clear has superseded the caller.
GuardSkips(t) ==
    /\ gen # cap[t]
    /\ Goto(t, "guard", "trim")
    /\ Forget(t, {})
    /\ UNCHANGED <<layers, control>>

GuardPasses(t) ==
    /\ gen = cap[t]
    /\ Goto(t, "guard", "put")
    /\ UNCHANGED <<layers, control, call>>

PutMemory(t) ==
    /\ Goto(t, "put", "recheck")
    /\ memory' = [memory EXCEPT ![key[t]] = hand[t]]
    /\ UNCHANGED <<pending, table, control, call>>

RecheckKeeps(t) ==
    /\ gen = cap[t]
    /\ Goto(t, "recheck", "trim")
    /\ Forget(t, {})
    /\ UNCHANGED <<layers, control>>

\* remove_from_memory_if_current: only the entry with this identity.
RemoveIfCurrent(k, e) ==
    memory' = [memory EXCEPT ![k] = IF @ # Nil /\ @.id = e.id THEN Nil ELSE @]

\* Mutant of Rollback: the generation is not looked at again after the put.
NoRollback(t) ==
    /\ gen # cap[t]
    /\ Goto(t, "recheck", "trim")
    /\ Forget(t, {})
    /\ UNCHANGED <<layers, control>>

\* A clear moved the generation meanwhile: take our own entry back out.
Rollback(t) ==
    /\ gen # cap[t]
    /\ Goto(t, "recheck", "trim")
    /\ RemoveIfCurrent(key[t], hand[t])
    /\ Forget(t, {})
    /\ UNCHANGED <<pending, table, control>>

----------------------------------------------------------------------------
(* enforce_memory_cap. What is over the cap depends on the entries' weights, *)
(* so any moment may be, and any entries that are not dirty may be dropped.  *)

TrimNothing(t) ==
    /\ pc[t] = "trim"
    /\ Return(t)
    /\ UNCHANGED <<layers, control>>

BeginTrim(t) ==
    /\ Goto(t, "trim", "trim_pick")
    /\ Resident(memory) # {}
    /\ cap' = [cap EXCEPT ![t] = gen]
    /\ UNCHANGED <<layers, control, ret, key, hand, batch, taken, keys>>

\* The candidates are snapshotted once; dirty keys are never among them.
TrimPick(t, S) ==
    /\ Goto(t, "trim_pick", "trim_drop")
    /\ S \subseteq Resident(memory) \ dirty
    /\ keys' = [keys EXCEPT ![t] = S]
    /\ UNCHANGED <<layers, control, ret, key, cap, hand, batch, taken>>

\* A promoted victim is re-persisted before its mirror is dropped.
TrimPersist(t, k) ==
    /\ pc[t] = "trim_drop"
    /\ k \in keys[t]
    /\ memory[k] # Nil /\ memory[k].hot
    /\ Enqueue(t, k, QueuedWrite(t, memory[k].born, TRUE), "trim_rm")
    /\ key' = [key EXCEPT ![t] = k]
    /\ memory' = [memory EXCEPT ![k] = Mark(@, FALSE)]
    /\ UNCHANGED <<table, control, cap, hand, batch, taken, keys>>

\* Nothing to re-persist (the victim is gone or cold), or the enqueue fails.
TrimSkipPersist(t, k) ==
    /\ Goto(t, "trim_drop", "trim_rm")
    /\ k \in keys[t]
    /\ key' = [key EXCEPT ![t] = k]
    /\ UNCHANGED <<layers, control, ret, cap, hand, batch, taken, keys>>

\* memory.remove(&key), by key and not by identity.
TrimRemove(t) ==
    /\ Goto(t, "trim_rm", "trim_drop")
    /\ memory' = Without(memory, {key[t]})
    /\ keys' = [keys EXCEPT ![t] = @ \ {key[t]}]
    /\ key' = [key EXCEPT ![t] = Nil]
    /\ UNCHANGED <<pending, table, control, ret, cap, hand, batch, taken>>

EndTrim(t) ==
    /\ pc[t] = "trim_drop"
    /\ keys[t] = {}
    /\ Return(t)
    /\ UNCHANGED <<layers, control>>

----------------------------------------------------------------------------
(* lookup *)

\* A memory hit that is served; an interactive one promotes the entry.
ServeMemory(t, k) ==
    /\ pc[t] = "idle"
    /\ memory[k] # Nil
    /\ memory' = [memory EXCEPT ![k] = Mark(@, TRUE)]
    /\ UNCHANGED <<pending, table, control, pc, call>>

\* A memory hit whose files changed or vanished: the verdict is about the entry
\* that was read, and fingerprinting takes time.
JudgeStale(t, k) ==
    /\ Goto(t, "idle", "judge")
    /\ memory[k] # Nil
    /\ key' = [key EXCEPT ![t] = k]
    /\ hand' = [hand EXCEPT ![t] = memory[k]]
    /\ UNCHANGED <<layers, control, ret, cap, batch, taken, keys>>

\* evict_if_current: the disk copy goes only when the memory one did.
EvictIfCurrent(t) ==
    /\ pc[t] = "judge"
    /\ RemoveIfCurrent(key[t], hand[t])
    /\ IF memory[key[t]] # Nil /\ memory[key[t]].id = hand[t].id
       THEN /\ pc' = [pc EXCEPT ![t] = "rm_pending"]
            /\ Forget(t, {key[t]})
       ELSE Return(t)
    /\ UNCHANGED <<pending, table, control>>

LookupMisses(t, k) ==
    /\ Goto(t, "idle", "miss")
    /\ memory[k] = Nil
    /\ key' = [key EXCEPT ![t] = k]
    /\ UNCHANGED <<layers, control, ret, cap, hand, batch, taken, keys>>

\* The clear generation is captured before the disk probe.
CaptureForProbe(t) ==
    /\ Goto(t, "miss", "probe")
    /\ cap' = [cap EXCEPT ![t] = gen]
    /\ UNCHANGED <<layers, control, ret, key, hand, batch, taken, keys>>

\* What get_entry does with bytes it found: serve them (a new Arc, promoted or
\* not), remove them because the files changed or the bytes are unusable, or
\* leave them when freshness is required and could not be verified.
Found(t, write) ==
    \/ \E i \in EntryId, promoted \in BOOLEAN :
          /\ FreshId(i)
          /\ pc' = [pc EXCEPT ![t] = "guard"]
          /\ hand' = [hand EXCEPT ![t] = [id |-> i, tag |-> cap[t],
                                           born |-> write.born, hot |-> promoted]]
          /\ UNCHANGED <<ret, key, cap, batch, taken, keys>>
    \/ /\ pc' = [pc EXCEPT ![t] = "rm_pending"]
       /\ Forget(t, {key[t]})
    \/ Return(t)

\* pending_insert: a queued write is served only under the current generation.
Queued(k) == pending[k] # Nil /\ pending[k].tag = gen

ProbePending(t) ==
    /\ pc[t] = "probe"
    /\ Queued(key[t])
    /\ Found(t, pending[key[t]])
    /\ UNCHANGED <<layers, control>>

ProbeMisses(t) ==
    /\ Goto(t, "probe", "read")
    /\ ~Queued(key[t])
    /\ UNCHANGED <<layers, control, call>>

ReadCommitted(t) ==
    /\ pc[t] = "read"
    /\ IF table[key[t]] # Nil
       THEN Found(t, table[key[t]])
       ELSE Return(t)
    /\ UNCHANGED <<layers, control>>

----------------------------------------------------------------------------
(* remove, evict_keys, invalidate_packages: the queue, then the table, then, *)
(* for the last two, the memory mirror. purge_orphan_entries: the table      *)
(* first.                                                                    *)

BeginRemove(t, S) ==
    /\ Goto(t, "idle", "rm_pending")
    /\ keys' = [keys EXCEPT ![t] = S]
    /\ ret' = [ret EXCEPT ![t] = "rm_memory"]
    /\ UNCHANGED <<layers, control, key, cap, hand, batch, taken>>

RemovePending(t) ==
    /\ Goto(t, "rm_pending", "rm_table")
    /\ pending' = Without(pending, keys[t])
    /\ UNCHANGED <<memory, table, control, call>>

\* The removal transaction commits, or fails and leaves the rows.
RemoveRows(t) ==
    /\ pc[t] = "rm_table"
    /\ table' \in {Without(table, keys[t]), table}
    /\ IF ret[t] = "idle" THEN Return(t)
       ELSE pc' = [pc EXCEPT ![t] = "rm_memory"] /\ UNCHANGED call
    /\ UNCHANGED <<memory, pending, control>>

RemoveMemory(t) ==
    /\ pc[t] = "rm_memory"
    /\ memory' = Without(memory, keys[t])
    /\ Return(t)
    /\ UNCHANGED <<pending, table, control>>

BeginPurge(t, S) ==
    /\ pc[t] = "idle"
    /\ pc' = [pc EXCEPT ![t] = IF S \cap Resident(table) = {} THEN "rm_memory"
                                                              ELSE "pg_table"]
    /\ keys' = [keys EXCEPT ![t] = S]
    /\ UNCHANGED <<layers, control, ret, key, cap, hand, batch, taken>>

PurgeRows(t) ==
    /\ Goto(t, "pg_table", "pg_pending")
    /\ table' \in {Without(table, keys[t]), table}
    /\ UNCHANGED <<memory, pending, control, call>>

PurgePending(t) ==
    /\ Goto(t, "pg_pending", "rm_memory")
    /\ pending' = Without(pending, keys[t])
    /\ UNCHANGED <<memory, table, control, call>>

----------------------------------------------------------------------------
(* clear *)

\* disk.clear: under clear_lock, bump the generation before anything else.
BeginClear(t) ==
    /\ Goto(t, "idle", "wipe")
    /\ clearLock = Nil
    /\ gen < MaxClears
    /\ clearLock' = t
    /\ gen' = gen + 1
    /\ UNCHANGED <<layers, dirty, wipeFailed, call>>

\* Its transaction empties the tables; a failed one is ignored.
WipeTable(t) ==
    /\ Goto(t, "wipe", "drop_pending")
    /\ \/ table' = Nothing /\ UNCHANGED wipeFailed
       \/ wipeFailed' = TRUE /\ UNCHANGED table
    /\ UNCHANGED <<memory, pending, gen, clearLock, dirty, call>>

DropPending(t) ==
    /\ Goto(t, "drop_pending", "drop_memory")
    /\ pending' = Nothing
    /\ clearLock' = Nil
    /\ UNCHANGED <<memory, table, gen, dirty, wipeFailed, call>>

DropMemory(t) ==
    /\ Goto(t, "drop_memory", "drop_dirty")
    /\ memory' = Nothing
    /\ UNCHANGED <<pending, table, control, call>>

DropDirty(t) ==
    /\ pc[t] = "drop_dirty"
    /\ dirty' = {}
    /\ Return(t)
    /\ UNCHANGED <<layers, gen, clearLock, wipeFailed>>

----------------------------------------------------------------------------
(* flush_pending_inserts, entirely under clear_lock *)

\* recent_keys, shard_rollup and the like flush the queue on their own.
BeginFlushPending(t) ==
    /\ Goto(t, "idle", "flush")
    /\ UNCHANGED <<layers, control, call>>

ReturnTo(t, place) ==
    /\ pc' = [pc EXCEPT ![t] = place]
    /\ ret' = [ret EXCEPT ![t] = "idle"]
    /\ taken' = [taken EXCEPT ![t] = Nothing]

\* Mutant of Kept: the generation filter is missing.
KeptUnfiltered == pending

\* The writes a flush keeps: those of the current generation.
Kept == [k \in Key |-> IF Queued(k) THEN pending[k] ELSE Nil]

\* Take the whole queue; with nothing to keep, return at once.
TakePending(t) ==
    /\ pc[t] = "flush"
    /\ clearLock = Nil
    /\ pending' = Nothing
    /\ IF Kept = Nothing
       THEN ReturnTo(t, ret[t]) /\ UNCHANGED clearLock
       ELSE /\ pc' = [pc EXCEPT ![t] = "commit"]
            /\ taken' = [taken EXCEPT ![t] = Kept]
            /\ clearLock' = t
            /\ UNCHANGED ret
    /\ UNCHANGED <<memory, table, gen, dirty, wipeFailed, key, cap, hand, batch, keys>>

Over(m, n) == [k \in Key |-> IF m[k] # Nil THEN m[k] ELSE n[k]]

CommitWrites(t) ==
    /\ pc[t] = "commit"
    /\ table' = Over(taken[t], table)
    /\ ReturnTo(t, ret[t])
    /\ clearLock' = Nil
    /\ UNCHANGED <<memory, pending, gen, dirty, wipeFailed, key, cap, hand, batch, keys>>

\* The transaction fails: re-queue what was taken, behind anything newer.
CommitFails(t) ==
    /\ pc[t] = "commit"
    /\ pending' \in Shed(Over(pending, taken[t]))
    /\ ReturnTo(t, ret[t])
    /\ clearLock' = Nil
    /\ UNCHANGED <<memory, table, gen, dirty, wipeFailed, key, cap, hand, batch, keys>>

----------------------------------------------------------------------------
(* flush_to_disk *)

\* The clear generation is captured before memory is snapshotted.
BeginFlush(t) ==
    /\ Goto(t, "idle", "take_dirty")
    /\ cap' = [cap EXCEPT ![t] = gen]
    /\ UNCHANGED <<layers, control, ret, key, hand, batch, taken, keys>>

TakeDirty(t) ==
    /\ Goto(t, "take_dirty", "replay_snap")
    /\ dirty' = {}
    /\ keys' = [keys EXCEPT ![t] = dirty]
    /\ UNCHANGED <<layers, gen, clearLock, wipeFailed, ret, key, cap, hand, batch, taken>>

Snapshot(S) == [k \in Key |-> IF k \in S THEN memory[k] ELSE Nil]

ReplaySnapshot(t) ==
    /\ Goto(t, "replay_snap", "replay")
    /\ batch' = [batch EXCEPT ![t] = Snapshot(keys[t])]
    /\ keys' = [keys EXCEPT ![t] = {}]
    /\ UNCHANGED <<layers, control, ret, key, cap, hand, taken>>

ReplayDirty(t, k) ==
    /\ pc[t] = "replay"
    /\ batch[t][k] # Nil
    /\ Enqueue(t, k, QueuedWrite(t, batch[t][k].born, TRUE), "replay")
    /\ batch' = [batch EXCEPT ![t] = Without(@, {k})]
    /\ UNCHANGED <<memory, table, control, key, cap, hand, taken, keys>>

\* The enqueue fails again: the key goes to failed_dirty.
ReplayFails(t, k) ==
    /\ pc[t] = "replay"
    /\ batch[t][k] # Nil
    /\ keys' = [keys EXCEPT ![t] = @ \cup {k}]
    /\ batch' = [batch EXCEPT ![t] = Without(@, {k})]
    /\ UNCHANGED <<layers, control, pc, ret, key, cap, hand, taken>>

EndReplay(t) ==
    /\ Goto(t, "replay", "sweep_snap")
    /\ batch[t] = Nothing
    /\ UNCHANGED <<layers, control, call>>

\* The recency sweep re-persists every entry promoted since its last persist.
SweepSnapshot(t) ==
    /\ Goto(t, "sweep_snap", "sweep")
    /\ LET promoted == {k \in Resident(memory) : memory[k].hot}
       IN  batch' = [batch EXCEPT ![t] = Snapshot(promoted \ keys[t])]
    /\ UNCHANGED <<layers, control, ret, key, cap, hand, taken, keys>>

SweepOne(t, k) ==
    /\ pc[t] = "sweep"
    /\ batch[t][k] # Nil
    /\ Enqueue(t, k, QueuedWrite(t, batch[t][k].born, TRUE), "sweep")
    /\ batch' = [batch EXCEPT ![t] = Without(@, {k})]
    /\ memory' = IF memory[k] # Nil /\ memory[k].id = batch[t][k].id
                 THEN [memory EXCEPT ![k] = Mark(@, FALSE)] ELSE memory
    /\ UNCHANGED <<table, control, key, cap, hand, taken, keys>>

\* An enqueue that fails is only reported.
SweepFails(t, k) ==
    /\ pc[t] = "sweep"
    /\ batch[t][k] # Nil
    /\ batch' = [batch EXCEPT ![t] = Without(@, {k})]
    /\ UNCHANGED <<layers, control, pc, ret, key, cap, hand, taken, keys>>

EndSweep(t) ==
    /\ Goto(t, "sweep", "flush")
    /\ batch[t] = Nothing
    /\ ret' = [ret EXCEPT ![t] = "restore"]
    /\ UNCHANGED <<layers, control, key, cap, hand, batch, taken, keys>>

\* Keys that failed again stay dirty.
RestoreDirty(t) ==
    /\ pc[t] = "restore"
    /\ dirty' = dirty \cup keys[t]
    /\ Return(t)
    /\ UNCHANGED <<layers, gen, clearLock, wipeFailed>>

----------------------------------------------------------------------------
Call(t) ==
    \/ \E k \in Key : \/ \E i \in EntryId : BeginInsert(t, k, i)
                      \/ ServeMemory(t, k) \/ JudgeStale(t, k) \/ LookupMisses(t, k)
    \/ \E S \in SUBSET Key \ {{}} : BeginRemove(t, S) \/ BeginPurge(t, S)
    \/ BeginClear(t) \/ BeginFlushPending(t) \/ BeginFlush(t)

Insert(t) ==
    \/ EnqueueInsert(t) \/ EnqueueInsertFails(t)
    \/ GuardSkips(t) \/ GuardPasses(t) \/ PutMemory(t)
    \/ RecheckKeeps(t) \/ Rollback(t)

Trim(t) ==
    \/ TrimNothing(t) \/ BeginTrim(t) \/ TrimRemove(t) \/ EndTrim(t)
    \/ \E S \in SUBSET Key : TrimPick(t, S)
    \/ \E k \in Key : TrimPersist(t, k) \/ TrimSkipPersist(t, k)

Lookup(t) ==
    \/ EvictIfCurrent(t) \/ CaptureForProbe(t)
    \/ ProbePending(t) \/ ProbeMisses(t) \/ ReadCommitted(t)

Remove(t) ==
    \/ RemovePending(t) \/ RemoveRows(t) \/ RemoveMemory(t)
    \/ PurgeRows(t) \/ PurgePending(t)

Clear(t) == WipeTable(t) \/ DropPending(t) \/ DropMemory(t) \/ DropDirty(t)

Flush(t) ==
    \/ TakePending(t) \/ CommitWrites(t) \/ CommitFails(t)
    \/ TakeDirty(t) \/ ReplaySnapshot(t) \/ EndReplay(t)
    \/ \E k \in Key : \/ ReplayDirty(t, k) \/ ReplayFails(t, k)
                      \/ SweepOne(t, k) \/ SweepFails(t, k)
    \/ SweepSnapshot(t) \/ EndSweep(t) \/ RestoreDirty(t)

Next ==
    \E t \in Thread :
        Call(t) \/ Insert(t) \/ Trim(t) \/ Lookup(t) \/ Remove(t) \/ Clear(t) \/ Flush(t)

Spec == Init /\ [][Next]_vars

----------------------------------------------------------------------------
\* clear_lock is held exactly by the thread inside a flush's commit or a
\* clear's wipe, so a flush runs entirely before or entirely after a clear.
FlushXorClear ==
    \A t \in Thread : pc[t] \in Locking <=> clearLock = t

\* An insert that raced a clear never puts a pre-clear measurement back on disk
\* (flush_pending_inserts: "it sees the bumped generation and drops every
\* pre-clear entry"): outside a clear's wipe, every committed row an insert
\* wrote was inserted under the current clear generation.
InsertsNeverResurrect ==
    \A k \in Key :
        /\ table[k] # Nil /\ ~table[k].resaved
        /\ ~wipeFailed
        /\ \A t \in Thread : pc[t] # "wipe"
        => table[k].born = gen

\* A memory entry whose writer captured an older generation is about to go: the
\* thread that put it will find the generation moved and roll it back, or a
\* clear has bumped the generation and not yet emptied the map.
MemorySurvivorsDoomed ==
    \A k \in Key :
        memory[k] # Nil /\ memory[k].tag # gen =>
            \E t \in Thread :
                \/ pc[t] \in {"wipe", "drop_pending", "drop_memory"}
                \/ pc[t] = "recheck" /\ key[t] = k
                   /\ hand[t].id = memory[k].id /\ cap[t] = memory[k].tag

\* A rollback takes out only the entry its own thread put in, never one that a
\* post-clear insert of the same key put in its place.
RollbackSparesNewer ==
    [][\A t \in Thread :
           Rollback(t) =>
               \A k \in Key : memory[k] # Nil /\ memory[k].tag = gen
                                  => memory'[k] = memory[k]]_vars

=============================================================================
