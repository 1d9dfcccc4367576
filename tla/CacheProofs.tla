----------------------------- MODULE CacheProofs -----------------------------
(***************************************************************************)
(* The import cache and the registry of its shards.                        *)
(*                                                                         *)
(* ImportCache, for any number of threads and keys: a flush never overlaps *)
(* a clear, an insert that raced a clear is never committed after it, a    *)
(* stale memory entry is always about to be removed, and a rollback        *)
(* removes only its own entry.                                             *)
(*                                                                         *)
(* ShardRegistry, for any number of shards and threads and any workload: a *)
(* registered shard writes to the file its directory holds unless that is  *)
(* torn, a database outside its load lock is described unless a pass made  *)
(* it a stray, and nothing measured before the last finished invalidation  *)
(* is served unverified.                                                   *)
(***************************************************************************)
EXTENDS ImportCache, ShardRegistry, TLAPS

\* Where a thread is in its own operation, seen through a nested flush.
Where(t) == IF pc[t] \in {"flush", "commit"} THEN ret[t] ELSE pc[t]

\* A thread between capturing the generation and its last look at it.
Inserting == {"enqueue", "guard", "put", "recheck"}

\* The entry in hand carries the captured generation, and an insert's was also
\* born under it.
HandInv ==
    \A t \in Thread :
        /\ Where(t) \in Inserting =>
               hand[t] # Nil /\ hand[t].tag = cap[t]
        /\ pc[t] = "enqueue" => hand[t].born = cap[t]

\* A thread that works on one key has one.
KeyInv ==
    \A t \in Thread :
        Where(t) \in Inserting \cup {"judge", "miss", "probe", "read", "trim_rm"} =>
            key[t] \in Key

\* An insert's queued write was born under the generation it is tagged with.
QueueInv ==
    \A k \in Key :
        pending[k] # Nil /\ ~pending[k].resaved => pending[k].born = pending[k].tag

\* What a flush is committing has the current generation: no clear can run.
TakenInv ==
    \A t \in Thread : \A k \in Key :
        pc[t] = "commit" /\ taken[t][k] # Nil =>
            /\ taken[t][k].tag = gen
            /\ ~taken[t][k].resaved => taken[t][k].born = gen

\* A nested flush returns to a place that holds no lock, and an idle thread has
\* no call to return from.
ReturnInv ==
    \A t \in Thread : /\ ret[t] \notin Locking \cup {"flush", "enqueue"}
                      /\ pc[t] = "idle" => ret[t] = "idle"

\* An entry not yet put is in nobody else's hand and not in memory; after the put
\* its identity names that entry only.
IdentityInv ==
    /\ \A t, u \in Thread :
           /\ Where(t) \in Inserting /\ Where(u) \in Inserting
           /\ hand[t].id = hand[u].id
           => t = u
    /\ \A t \in Thread : \A k \in Key :
           /\ Where(t) \in Inserting
           /\ memory[k] # Nil /\ memory[k].id = hand[t].id
           => Where(t) = "recheck" /\ memory[k].tag = cap[t]

IInv ==
    /\ TypeOK
    /\ FlushXorClear
    /\ KeyInv
    /\ HandInv
    /\ QueueInv
    /\ TakenInv
    /\ ReturnInv
    /\ IdentityInv
    /\ InsertsNeverResurrect
    /\ MemorySurvivorsDoomed

USE NilAssumption DEF Place, Locking, Inserting

----------------------------------------------------------------------------
\* Marking an entry changes its recency only.
LEMMA MarkLemma ==
    ASSUME NEW e \in Entry, NEW b \in BOOLEAN
    PROVE  /\ Mark(e, b) \in Entry
           /\ Mark(e, b).id = e.id /\ Mark(e, b).tag = e.tag
  BY DEF Mark, Entry

\* A queued write carries the generation its thread captured.
LEMMA WriteLemma ==
    ASSUME TypeOK, NEW t \in Thread, NEW born \in Nat, NEW resaved \in BOOLEAN
    PROVE  /\ QueuedWrite(t, born, resaved) \in Write
           /\ QueuedWrite(t, born, resaved).tag = cap[t]
           /\ QueuedWrite(t, born, resaved).born = born
           /\ QueuedWrite(t, born, resaved).resaved = resaved
  BY DEF QueuedWrite, TypeOK, Write

\* Shedding removes queued writes and changes none.
LEMMA ShedLemma ==
    ASSUME NEW q \in [Key -> Write \cup {Nil}], NEW r \in Shed(q)
    PROVE  /\ r \in [Key -> Write \cup {Nil}]
           /\ \A k \in Key : r[k] \in {q[k], Nil}
  BY DEF Shed, Without, Resident

\* An enqueue adds the one write, sheds others, and at most enters a flush.
LEMMA EnqueueLemma ==
    ASSUME TypeOK, NEW t \in Thread, NEW k \in Key, NEW w \in Write,
           NEW next \in Place, Enqueue(t, k, w, next)
    PROVE  /\ pending' \in [Key -> Write \cup {Nil}]
           /\ \A j \in Key : pending'[j] \in {pending[j], Nil} \/ pending'[j] = w
           /\ pc' \in [Thread -> Place] /\ ret' \in [Thread -> Place]
           /\ \/ pc'[t] = next /\ ret'[t] = ret[t]
              \/ pc'[t] = "flush" /\ ret'[t] = next
           /\ \A u \in Thread \ {t} : pc'[u] = pc[u] /\ ret'[u] = ret[u]
  <1> DEFINE q == [pending EXCEPT ![k] = w]
  <1>1. q \in [Key -> Write \cup {Nil}] /\ pending' \in Shed(q)
    BY DEF Enqueue, TypeOK
  <1>2. \A j \in Key : q[j] = pending[j] \/ q[j] = w
    BY DEF TypeOK
  <1> HIDE DEF q
  <1>3. /\ pending' \in [Key -> Write \cup {Nil}]
        /\ \A j \in Key : pending'[j] \in {q[j], Nil}
    BY <1>1, ShedLemma
  <1>4. \A j \in Key : pending'[j] \in {pending[j], Nil} \/ pending'[j] = w
    BY <1>2, <1>3
  <1>5. /\ pc' \in [Thread -> Place] /\ ret' \in [Thread -> Place]
        /\ \/ pc'[t] = next /\ ret'[t] = ret[t]
           \/ pc'[t] = "flush" /\ ret'[t] = next
        /\ \A u \in Thread \ {t} : pc'[u] = pc[u] /\ ret'[u] = ret[u]
    <2>1. CASE pc' = [pc EXCEPT ![t] = next] /\ UNCHANGED ret
      BY <2>1 DEF TypeOK
    <2>2. CASE pc' = [pc EXCEPT ![t] = "flush"] /\ ret' = [ret EXCEPT ![t] = next]
      BY <2>2 DEF TypeOK
    <2> QED  BY <2>1, <2>2 DEF Enqueue
  <1> QED  BY <1>3, <1>4, <1>5

----------------------------------------------------------------------------
\* What every step does to the threads that do not take it.
OthersKeep(t) ==
    \A u \in Thread \ {t} :
        /\ pc'[u] = pc[u] /\ ret'[u] = ret[u] /\ key'[u] = key[u]
        /\ cap'[u] = cap[u] /\ hand'[u] = hand[u] /\ taken'[u] = taken[u]
        /\ Where(u)' = Where(u)

\* A step outside the clear protocol: it may drop or re-mark memory entries, drop
\* queued writes and rows, and queue re-persisted writes.
Quiet(t) ==
    /\ OthersKeep(t)
    /\ gen' = gen /\ clearLock' = clearLock /\ wipeFailed' = wipeFailed
    /\ pc[t] \notin Locking \cup {"recheck", "drop_memory"}
    /\ pc'[t] \notin Locking \cup {"recheck", "drop_memory", "enqueue"}
    /\ ret'[t] \notin Locking \cup {"flush", "enqueue"}
    /\ pc'[t] = "idle" => ret'[t] = "idle"
    /\ Where(t)' \in Inserting =>
           /\ Where(t) \in Inserting
           /\ Where(t) = "recheck" => Where(t)' = "recheck"
           /\ hand'[t] = hand[t] /\ cap'[t] = cap[t]
    /\ Where(t)' \in Inserting \cup {"judge", "miss", "probe", "read", "trim_rm"} =>
           key'[t] \in Key
    /\ \A k \in Key :
           /\ memory'[k] # Nil => /\ memory[k] # Nil
                                  /\ memory'[k].id = memory[k].id
                                  /\ memory'[k].tag = memory[k].tag
           /\ pending'[k] # Nil => pending'[k] = pending[k] \/ pending'[k].resaved
           /\ table'[k] # Nil => table'[k] = table[k]


\* A quiet step preserves the invariant.
LEMMA QuietInv ==
    ASSUME IInv, NEW t \in Thread, Quiet(t), TypeOK'
    PROVE  IInv'
  <1> USE DEF IInv, Quiet, OthersKeep
  <1>1. FlushXorClear'
    BY DEF FlushXorClear
  <1>2. KeyInv'
    BY DEF KeyInv
  <1>3. HandInv'
    BY DEF HandInv
  <1>4. QueueInv'
    BY DEF QueueInv
  <1>5. TakenInv'
    BY DEF TakenInv
  <1>6. ReturnInv'
    BY DEF ReturnInv
  <1>7. IdentityInv'
    <2>1. ASSUME NEW u \in Thread, NEW v \in Thread,
                 Where(u)' \in Inserting, Where(v)' \in Inserting, hand'[u].id = hand'[v].id
          PROVE  u = v
      BY <2>1 DEF IdentityInv
    <2>2. ASSUME NEW u \in Thread, NEW k \in Key, Where(u)' \in Inserting,
                 memory'[k] # Nil, memory'[k].id = hand'[u].id
          PROVE  Where(u)' = "recheck" /\ memory'[k].tag = cap'[u]
      BY <2>2 DEF IdentityInv
    <2> QED  BY <2>1, <2>2 DEF IdentityInv
  <1>8. InsertsNeverResurrect'
    BY DEF InsertsNeverResurrect
  <1>9. MemorySurvivorsDoomed'
    <2> SUFFICES ASSUME NEW k \in Key, memory'[k] # Nil, memory'[k].tag # gen'
                 PROVE  \E u \in Thread :
                          \/ pc'[u] \in {"wipe", "drop_pending", "drop_memory"}
                          \/ /\ pc'[u] = "recheck" /\ key'[u] = k
                             /\ hand'[u].id = memory'[k].id /\ cap'[u] = memory'[k].tag
      BY DEF MemorySurvivorsDoomed
    <2>1. PICK u \in Thread :
                \/ pc[u] \in {"wipe", "drop_pending", "drop_memory"}
                \/ /\ pc[u] = "recheck" /\ key[u] = k
                   /\ hand[u].id = memory[k].id /\ cap[u] = memory[k].tag
      BY DEF MemorySurvivorsDoomed
    <2>2. u # t
      BY <2>1
    <2> QED  BY <2>1, <2>2
  <1> QED  BY <1>1, <1>2, <1>3, <1>4, <1>5, <1>6, <1>7, <1>8, <1>9

----------------------------------------------------------------------------
\* A served hit only re-marks the entry.
LEMMA ServeMemoryInv ==
    ASSUME IInv, NEW t \in Thread, NEW k \in Key, ServeMemory(t, k)
    PROVE  IInv'
  <1> DEFINE e == Mark(memory[k], TRUE)
  <1>0. memory[k] \in Entry
    BY DEF IInv, TypeOK, ServeMemory
  <1>1. e \in Entry /\ e.id = memory[k].id /\ e.tag = memory[k].tag
    BY <1>0, MarkLemma
  <1>2. /\ pc[t] = "idle"
        /\ memory' = [memory EXCEPT ![k] = e]
        /\ UNCHANGED <<pending, table, gen, clearLock, dirty, wipeFailed, pc, ret, key,
                       cap, hand, batch, taken, keys>>
    BY DEF ServeMemory, control, call
  <1> HIDE DEF e
  <1>3. TypeOK'
    BY <1>1, <1>2 DEF IInv, TypeOK
  <1>4. Quiet(t)
    BY <1>0, <1>1, <1>2 DEF IInv, TypeOK, ReturnInv, Quiet, OthersKeep, Where
  <1> QED  BY <1>3, <1>4, QuietInv

\* The queued write was born under the generation its thread captured.
LEMMA EnqueueInsertInv ==
    ASSUME IInv, NEW t \in Thread, EnqueueInsert(t)
    PROVE  IInv'
  <1> DEFINE w == QueuedWrite(t, hand[t].born, FALSE)
  <1>1. key[t] \in Key /\ hand[t] \in Entry /\ hand[t].born = cap[t] /\ cap[t] \in Nat
    BY DEF IInv, TypeOK, KeyInv, HandInv, Where, EnqueueInsert
  <1>2. w \in Write /\ w.tag = w.born /\ ~w.resaved
    BY <1>1, WriteLemma, ZenonT(60) DEF IInv, Entry
  <1> HIDE DEF w
  <1>3. /\ pending' \in [Key -> Write \cup {Nil}]
        /\ \A j \in Key : pending'[j] \in {pending[j], Nil} \/ pending'[j] = w
        /\ pc' \in [Thread -> Place] /\ ret' \in [Thread -> Place]
        /\ \/ pc'[t] = "guard" /\ ret'[t] = ret[t]
           \/ pc'[t] = "flush" /\ ret'[t] = "guard"
        /\ \A u \in Thread \ {t} : pc'[u] = pc[u] /\ ret'[u] = ret[u]
    BY <1>1, <1>2, EnqueueLemma DEF IInv, EnqueueInsert, w
  <1>4. UNCHANGED <<memory, table, gen, clearLock, dirty, wipeFailed, key, cap, hand,
                    batch, taken, keys>>
    BY DEF EnqueueInsert, control
  <1>5. TypeOK'
    BY <1>3, <1>4 DEF IInv, TypeOK
  <1>6. OthersKeep(t) /\ Where(t) = "enqueue" /\ Where(t)' = "guard"
    BY <1>3, <1>4 DEF OthersKeep, Where, EnqueueInsert
  <1>7. FlushXorClear' /\ ReturnInv' /\ TakenInv'
    BY <1>3, <1>4 DEF IInv, FlushXorClear, ReturnInv, TakenInv, EnqueueInsert
  <1>8. KeyInv' /\ HandInv'
    BY <1>1, <1>3, <1>4, <1>6 DEF IInv, OthersKeep, KeyInv, HandInv
  <1>9. QueueInv'
    BY <1>2, <1>3 DEF IInv, QueueInv
  <1>10. IdentityInv'
    BY <1>4, <1>6 DEF IInv, OthersKeep, IdentityInv
  <1>11. InsertsNeverResurrect' /\ MemorySurvivorsDoomed'
    BY <1>3, <1>4 DEF IInv, EnqueueInsert, InsertsNeverResurrect, MemorySurvivorsDoomed
  <1> QED  BY <1>5, <1>7, <1>8, <1>9, <1>10, <1>11 DEF IInv

\* A victim is re-persisted, possibly through a flush, and only re-marked.
LEMMA TrimPersistInv ==
    ASSUME IInv, NEW t \in Thread, NEW k \in Key, TrimPersist(t, k)
    PROVE  IInv'
  <1> DEFINE w == QueuedWrite(t, memory[k].born, TRUE)
             e == Mark(memory[k], FALSE)
  <1>0. memory[k] \in Entry /\ memory[k].born \in Nat
    BY DEF IInv, TypeOK, TrimPersist, Entry
  <1>1. e \in Entry /\ e.id = memory[k].id /\ e.tag = memory[k].tag
    BY <1>0, MarkLemma
  <1>2. w \in Write /\ w.resaved
    BY <1>0, WriteLemma DEF IInv
  <1>3. /\ pc[t] = "trim_drop"
        /\ memory' = [memory EXCEPT ![k] = e]
        /\ key' = [key EXCEPT ![t] = k]
        /\ UNCHANGED <<table, gen, clearLock, dirty, wipeFailed, cap, hand, batch, taken,
                       keys>>
    BY DEF TrimPersist, control
  <1>4. Enqueue(t, k, w, "trim_rm")
    BY DEF TrimPersist
  <1> HIDE DEF w, e
  <1>5. /\ pending' \in [Key -> Write \cup {Nil}]
        /\ \A j \in Key : pending'[j] \in {pending[j], Nil} \/ pending'[j] = w
        /\ pc' \in [Thread -> Place] /\ ret' \in [Thread -> Place]
        /\ \/ pc'[t] = "trim_rm" /\ ret'[t] = ret[t]
           \/ pc'[t] = "flush" /\ ret'[t] = "trim_rm"
        /\ \A u \in Thread \ {t} : pc'[u] = pc[u] /\ ret'[u] = ret[u]
    BY <1>2, <1>4, EnqueueLemma DEF IInv
  <1>6. TypeOK'
    BY <1>1, <1>3, <1>5 DEF IInv, TypeOK
  <1>7. Where(t)' = "trim_rm" /\ OthersKeep(t)
    BY <1>3, <1>5 DEF IInv, TypeOK, OthersKeep, Where
  <1>8. Quiet(t)
    BY <1>0, <1>1, <1>2, <1>3, <1>5, <1>7 DEF IInv, TypeOK, ReturnInv, Quiet
  <1> QED  BY <1>6, <1>8, QuietInv

\* A dirty entry is queued again.
LEMMA ReplayDirtyInv ==
    ASSUME IInv, NEW t \in Thread, NEW k \in Key, ReplayDirty(t, k)
    PROVE  IInv'
  <1> DEFINE w == QueuedWrite(t, batch[t][k].born, TRUE)
  <1>0. batch[t][k].born \in Nat
    BY DEF IInv, TypeOK, ReplayDirty, Entry
  <1>1. w \in Write /\ w.resaved
    BY <1>0, WriteLemma DEF IInv
  <1>2. Enqueue(t, k, w, "replay")
    BY DEF ReplayDirty
  <1> HIDE DEF w
  <1>3. /\ pending' \in [Key -> Write \cup {Nil}]
        /\ \A j \in Key : pending'[j] \in {pending[j], Nil} \/ pending'[j] = w
        /\ pc' \in [Thread -> Place] /\ ret' \in [Thread -> Place]
        /\ \/ pc'[t] = "replay" /\ ret'[t] = ret[t]
           \/ pc'[t] = "flush" /\ ret'[t] = "replay"
        /\ \A u \in Thread \ {t} : pc'[u] = pc[u] /\ ret'[u] = ret[u]
    BY <1>1, <1>2, EnqueueLemma DEF IInv
  <1>4. TypeOK'
    BY <1>3, ZenonT(60) DEF IInv, TypeOK, ReplayDirty, Without, control
  <1>5. Where(t)' = "replay" /\ OthersKeep(t)
    BY <1>3 DEF OthersKeep, Where, ReplayDirty
  <1>6. Quiet(t)
    BY <1>1, <1>3, <1>5 DEF IInv, ReturnInv, Quiet, ReplayDirty, control
  <1> QED  BY <1>4, <1>6, QuietInv

\* A promoted entry is queued again and re-marked if it is still the same one.
LEMMA SweepOneInv ==
    ASSUME IInv, NEW t \in Thread, NEW k \in Key, SweepOne(t, k)
    PROVE  IInv'
  <1> DEFINE w == QueuedWrite(t, batch[t][k].born, TRUE)
  <1>0. batch[t][k].born \in Nat
    BY DEF IInv, TypeOK, SweepOne, Entry
  <1>1. w \in Write /\ w.resaved
    BY <1>0, WriteLemma DEF IInv
  <1>2. Enqueue(t, k, w, "sweep")
    BY DEF SweepOne
  <1>3. /\ memory' \in [Key -> Entry \cup {Nil}]
        /\ \A j \in Key : memory'[j] # Nil => /\ memory[j] # Nil
                                              /\ memory'[j].id = memory[j].id
                                              /\ memory'[j].tag = memory[j].tag
    <2> DEFINE e == Mark(memory[k], FALSE)
    <2>1. CASE memory[k] # Nil /\ memory[k].id = batch[t][k].id
      <3>0. memory[k] \in Entry
        BY <2>1 DEF IInv, TypeOK
      <3>1. e \in Entry /\ e.id = memory[k].id /\ e.tag = memory[k].tag
        BY <3>0, MarkLemma
      <3>2. memory' = [memory EXCEPT ![k] = e]
        BY <2>1 DEF SweepOne
      <3> HIDE DEF e
      <3> QED  BY <2>1, <3>1, <3>2 DEF IInv, TypeOK
    <2>2. CASE ~(memory[k] # Nil /\ memory[k].id = batch[t][k].id)
      BY <2>2 DEF IInv, TypeOK, SweepOne
    <2> QED  BY <2>1, <2>2
  <1> HIDE DEF w
  <1>4. /\ pending' \in [Key -> Write \cup {Nil}]
        /\ \A j \in Key : pending'[j] \in {pending[j], Nil} \/ pending'[j] = w
        /\ pc' \in [Thread -> Place] /\ ret' \in [Thread -> Place]
        /\ \/ pc'[t] = "sweep" /\ ret'[t] = ret[t]
           \/ pc'[t] = "flush" /\ ret'[t] = "sweep"
        /\ \A u \in Thread \ {t} : pc'[u] = pc[u] /\ ret'[u] = ret[u]
    BY <1>1, <1>2, EnqueueLemma DEF IInv
  <1>5. UNCHANGED <<table, gen, clearLock, dirty, wipeFailed, key, cap, hand, taken, keys>>
        /\ batch' = [batch EXCEPT ![t] = Without(@, {k})] /\ pc[t] = "sweep"
    BY DEF SweepOne, control
  <1>6. TypeOK'
    BY <1>3, <1>4, <1>5 DEF IInv, TypeOK, Without
  <1>7. Where(t)' = "sweep" /\ OthersKeep(t)
    BY <1>4, <1>5 DEF OthersKeep, Where
  <1>8. Quiet(t)
    BY <1>1, <1>3, <1>4, <1>5, <1>7 DEF IInv, ReturnInv, Quiet
  <1> QED  BY <1>6, <1>8, QuietInv

\* A stale verdict removes the judged entry or nothing.
LEMMA EvictIfCurrentInv ==
    ASSUME IInv, NEW t \in Thread, EvictIfCurrent(t)
    PROVE  IInv'
  <1>1. key[t] \in Key /\ pc[t] = "judge"
    BY DEF IInv, KeyInv, Where, EvictIfCurrent
  <1>2. /\ memory' \in [Key -> Entry \cup {Nil}]
        /\ \A k \in Key : memory'[k] \in {memory[k], Nil}
        /\ UNCHANGED <<pending, table, gen, clearLock, dirty, wipeFailed>>
    BY <1>1 DEF IInv, TypeOK, EvictIfCurrent, RemoveIfCurrent, control
  <1>3. CASE pc' = [pc EXCEPT ![t] = "rm_pending"] /\ Forget(t, {key[t]})
    <2>1. TypeOK'
      BY <1>1, <1>2, <1>3 DEF IInv, TypeOK, Forget, Nothing
    <2>2. Quiet(t)
      BY <1>1, <1>2, <1>3 DEF IInv, TypeOK, Quiet, OthersKeep, Where, Forget
    <2> QED  BY <2>1, <2>2, QuietInv
  <1>4. CASE Return(t)
    <2>1. TypeOK'
      BY <1>2, <1>4 DEF IInv, TypeOK, Return, Forget, Nothing
    <2>2. Quiet(t)
      BY <1>1, <1>2, <1>4 DEF IInv, TypeOK, Quiet, OthersKeep, Where, Return, Forget
    <2> QED  BY <2>1, <2>2, QuietInv
  <1> QED  BY <1>3, <1>4 DEF EvictIfCurrent

\* A removal's transaction commits or leaves the rows.
LEMMA RemoveRowsInv ==
    ASSUME IInv, NEW t \in Thread, RemoveRows(t)
    PROVE  IInv'
  <1>1. /\ table' \in [Key -> Write \cup {Nil}]
        /\ \A k \in Key : table'[k] \in {table[k], Nil}
    BY DEF IInv, TypeOK, RemoveRows, Without
  <1>2. pc[t] = "rm_table" /\ UNCHANGED <<memory, pending, gen, clearLock, dirty, wipeFailed>>
    BY DEF RemoveRows, control
  <1>3. CASE Return(t)
    <2>1. TypeOK'
      BY <1>1, <1>2, <1>3 DEF IInv, TypeOK, Return, Forget, Nothing
    <2>2. Quiet(t)
      BY <1>1, <1>2, <1>3 DEF IInv, TypeOK, Quiet, OthersKeep, Where, Return, Forget
    <2> QED  BY <2>1, <2>2, QuietInv
  <1>4. CASE pc' = [pc EXCEPT ![t] = "rm_memory"] /\ UNCHANGED call
    <2>1. TypeOK'
      BY <1>1, <1>2, <1>4 DEF IInv, TypeOK, call
    <2>2. Quiet(t)
      BY <1>1, <1>2, <1>4 DEF IInv, TypeOK, ReturnInv, Quiet, OthersKeep, Where, call
    <2> QED  BY <2>1, <2>2, QuietInv
  <1> QED  BY <1>3, <1>4 DEF RemoveRows

\* A disk hit, of a queued write or of a row.
LEMMA FoundInv ==
    ASSUME IInv, NEW t \in Thread, pc[t] \in {"probe", "read"},
           NEW w \in Write, Found(t, w), UNCHANGED <<layers, control>>
    PROVE  IInv'
  <1>1. key[t] \in Key /\ w.born \in Nat
    BY DEF IInv, KeyInv, Where, Write
  <1>2. UNCHANGED <<memory, pending, table, gen, clearLock, dirty, wipeFailed>>
    BY DEF layers, control
  <1>3. ASSUME NEW i \in EntryId, NEW promoted \in BOOLEAN,
               FreshId(i),
               pc' = [pc EXCEPT ![t] = "guard"],
               hand' = [hand EXCEPT ![t] = [id |-> i, tag |-> cap[t],
                                           born |-> w.born, hot |-> promoted]],
               UNCHANGED <<ret, key, cap, batch, taken, keys>>
        PROVE  IInv'
    <2> DEFINE e == [id |-> i, tag |-> cap[t], born |-> w.born, hot |-> promoted]
    <2>1. e \in Entry /\ e.id = i /\ e.tag = cap[t]
      BY <1>1 DEF IInv, TypeOK, Entry
    <2>2. hand' = [hand EXCEPT ![t] = e]
      BY <1>3
    <2> HIDE DEF e
    <2>3. TypeOK'
      BY <1>2, <1>3, <2>1, <2>2 DEF IInv, TypeOK
    <2>4. OthersKeep(t) /\ pc'[t] = "guard" /\ hand'[t] = e /\ Where(t)' = "guard"
      BY <1>2, <1>3, <2>2 DEF IInv, TypeOK, OthersKeep, Where
    <2>5. FlushXorClear' /\ ReturnInv' /\ TakenInv' /\ QueueInv'
      BY <1>2, <1>3, <2>4 DEF IInv, OthersKeep, FlushXorClear, ReturnInv, TakenInv,
         QueueInv
    <2>6. KeyInv' /\ HandInv'
      BY <1>1, <1>3, <2>1, <2>4 DEF IInv, OthersKeep, KeyInv, HandInv
    <2>7. IdentityInv'
      <3>1. \A u \in Thread \ {t} : hand[u] # Nil => hand[u].id # i
        BY <1>3 DEF FreshId
      <3>2. \A k \in Key : memory[k] # Nil => memory[k].id # i
        BY <1>3 DEF FreshId
      <3> QED  BY <1>2, <1>3, <2>1, <2>4, <3>1, <3>2 DEF IInv, OthersKeep, HandInv,
         IdentityInv
    <2>8. InsertsNeverResurrect' /\ MemorySurvivorsDoomed'
      BY <1>2, <1>3, <2>4 DEF IInv, OthersKeep, InsertsNeverResurrect,
         MemorySurvivorsDoomed
    <2> QED  BY <2>3, <2>5, <2>6, <2>7, <2>8 DEF IInv
  <1>4. CASE pc' = [pc EXCEPT ![t] = "rm_pending"] /\ Forget(t, {key[t]})
    <2>1. TypeOK'
      BY <1>1, <1>2, <1>4 DEF IInv, TypeOK, Forget, Nothing
    <2>2. Quiet(t)
      BY <1>1, <1>2, <1>4 DEF IInv, TypeOK, Quiet, OthersKeep, Where, Forget
    <2> QED  BY <2>1, <2>2, QuietInv
  <1>5. CASE Return(t)
    <2>1. TypeOK'
      BY <1>2, <1>5 DEF IInv, TypeOK, Return, Forget, Nothing
    <2>2. Quiet(t)
      BY <1>1, <1>2, <1>5 DEF IInv, TypeOK, Quiet, OthersKeep, Where, Return, Forget
    <2> QED  BY <2>1, <2>2, QuietInv
  <1> QED  BY <1>3, <1>4, <1>5 DEF Found

\* A hit in the queue.
LEMMA ProbePendingInv ==
    ASSUME IInv, NEW t \in Thread, ProbePending(t)
    PROVE  IInv'
  <1>1. key[t] \in Key /\ pc[t] = "probe"
    BY DEF IInv, KeyInv, Where, ProbePending
  <1>2. pending[key[t]] \in Write
    BY <1>1 DEF IInv, TypeOK, ProbePending, Queued
  <1> QED  BY <1>1, <1>2, FoundInv DEF ProbePending

\* A hit or a miss in the table.
LEMMA ReadCommittedInv ==
    ASSUME IInv, NEW t \in Thread, ReadCommitted(t)
    PROVE  IInv'
  <1>1. key[t] \in Key /\ pc[t] = "read" /\ UNCHANGED <<layers, control>>
    BY DEF IInv, KeyInv, Where, ReadCommitted
  <1>2. CASE table[key[t]] # Nil
    <2>1. table[key[t]] \in Write /\ Found(t, table[key[t]])
      BY <1>1, <1>2 DEF IInv, TypeOK, ReadCommitted
    <2> QED  BY <1>1, <2>1, FoundInv
  <1>3. CASE Return(t)
    <2>1. TypeOK'
      BY <1>1, <1>3 DEF IInv, TypeOK, Return, Forget, Nothing, layers, control
    <2>2. Quiet(t)
      BY <1>1, <1>3 DEF IInv, TypeOK, Quiet, OthersKeep, Where, Return, Forget, layers,
         control
    <2> QED  BY <2>1, <2>2, QuietInv
  <1> QED  BY <1>2, <1>3 DEF ReadCommitted

\* A fresh identity, in no other hand and not in memory.
LEMMA BeginInsertInv ==
    ASSUME IInv, NEW t \in Thread, NEW k \in Key, NEW i \in EntryId,
           BeginInsert(t, k, i)
    PROVE  IInv'
  <1> DEFINE e == [id |-> i, tag |-> gen, born |-> gen, hot |-> FALSE]
  <1>1. e \in Entry /\ e.id = i /\ e.tag = gen /\ e.born = gen
    BY DEF IInv, TypeOK, Entry
  <1>2. /\ pc[t] = "idle" /\ FreshId(i)
        /\ pc' = [pc EXCEPT ![t] = "enqueue"] /\ key' = [key EXCEPT ![t] = k]
        /\ cap' = [cap EXCEPT ![t] = gen] /\ hand' = [hand EXCEPT ![t] = e]
        /\ UNCHANGED <<memory, pending, table, gen, clearLock, dirty, wipeFailed, ret,
                       batch, taken, keys>>
    BY DEF BeginInsert, Goto, layers, control
  <1> HIDE DEF e
  <1>3. TypeOK'
    BY <1>1, <1>2 DEF IInv, TypeOK
  <1>4. /\ OthersKeep(t) /\ Where(t)' = "enqueue" /\ pc'[t] = "enqueue"
        /\ hand'[t] = e /\ cap'[t] = gen /\ key'[t] = k
    BY <1>2 DEF IInv, TypeOK, OthersKeep, Where
  <1>5. FlushXorClear' /\ ReturnInv' /\ TakenInv' /\ QueueInv'
    BY <1>2, <1>4 DEF IInv, OthersKeep, FlushXorClear, ReturnInv, TakenInv, QueueInv
  <1>6. KeyInv' /\ HandInv'
    BY <1>1, <1>4 DEF IInv, OthersKeep, KeyInv, HandInv
  <1>7. IdentityInv'
    <2>1. \A u \in Thread \ {t} : hand[u] # Nil => hand[u].id # i
      BY <1>2 DEF FreshId
    <2>2. \A j \in Key : memory[j] # Nil => memory[j].id # i
      BY <1>2 DEF FreshId
    <2> QED  BY <1>1, <1>2, <1>4, <2>1, <2>2 DEF IInv, OthersKeep, HandInv, IdentityInv
  <1>8. InsertsNeverResurrect' /\ MemorySurvivorsDoomed'
    BY <1>2, <1>4 DEF IInv, OthersKeep, InsertsNeverResurrect, MemorySurvivorsDoomed
  <1> QED  BY <1>3, <1>5, <1>6, <1>7, <1>8 DEF IInv

\* The entry just put is its thread's to roll back.
LEMMA PutMemoryInv ==
    ASSUME IInv, NEW t \in Thread, PutMemory(t)
    PROVE  IInv'
  <1>1. /\ pc[t] = "put" /\ pc' = [pc EXCEPT ![t] = "recheck"]
        /\ memory' = [memory EXCEPT ![key[t]] = hand[t]]
        /\ UNCHANGED <<pending, table, gen, clearLock, dirty, wipeFailed, ret, key, cap,
                       hand, batch, taken, keys>>
    BY DEF PutMemory, Goto, control, call
  <1>2. Where(t) = "put" /\ key[t] \in Key /\ hand[t] \in Entry /\ hand[t].tag = cap[t]
    BY <1>1 DEF IInv, TypeOK, KeyInv, HandInv, Where
  <1>3. TypeOK'
    BY <1>1, <1>2 DEF IInv, TypeOK
  <1>4. OthersKeep(t) /\ Where(t)' = "recheck" /\ pc'[t] = "recheck"
    BY <1>1 DEF IInv, TypeOK, OthersKeep, Where
  <1>5. /\ memory'[key[t]] = hand[t]
        /\ \A j \in Key \ {key[t]} : memory'[j] = memory[j]
    BY <1>1, <1>2 DEF IInv, TypeOK
  <1>6. FlushXorClear' /\ ReturnInv' /\ TakenInv' /\ QueueInv'
    BY <1>1, <1>4 DEF IInv, OthersKeep, FlushXorClear, ReturnInv, TakenInv, QueueInv
  <1>7. KeyInv' /\ HandInv'
    BY <1>1, <1>2, <1>4 DEF IInv, OthersKeep, KeyInv, HandInv
  <1>8. IdentityInv'
    BY <1>1, <1>2, <1>4, <1>5 DEF IInv, OthersKeep, IdentityInv
  <1>9. InsertsNeverResurrect'
    BY <1>1, <1>4 DEF IInv, OthersKeep, InsertsNeverResurrect
  <1>10. MemorySurvivorsDoomed'
    <2> SUFFICES ASSUME NEW k \in Key, memory'[k] # Nil, memory'[k].tag # gen'
                 PROVE  \E u \in Thread :
                          \/ pc'[u] \in {"wipe", "drop_pending", "drop_memory"}
                          \/ /\ pc'[u] = "recheck" /\ key'[u] = k
                             /\ hand'[u].id = memory'[k].id /\ cap'[u] = memory'[k].tag
      BY DEF MemorySurvivorsDoomed
    <2>1. CASE k = key[t]
      BY <1>1, <1>2, <1>4, <1>5, <2>1
    <2>2. CASE k # key[t]
      BY <1>1, <1>2, <1>4, <1>5, <2>2 DEF IInv, OthersKeep, MemorySurvivorsDoomed
    <2> QED  BY <2>1, <2>2
  <1> QED  BY <1>3, <1>6, <1>7, <1>8, <1>9, <1>10 DEF IInv

\* The captured generation is still the current one, so the entry is not stale.
LEMMA RecheckKeepsInv ==
    ASSUME IInv, NEW t \in Thread, RecheckKeeps(t)
    PROVE  IInv'
  <1>1. /\ gen = cap[t] /\ pc[t] = "recheck" /\ pc' = [pc EXCEPT ![t] = "trim"]
        /\ Forget(t, {})
        /\ UNCHANGED <<memory, pending, table, gen, clearLock, dirty, wipeFailed>>
    BY DEF RecheckKeeps, Goto, layers, control
  <1>2. TypeOK'
    BY <1>1 DEF IInv, TypeOK, Forget, Nothing
  <1>3. OthersKeep(t) /\ Where(t)' = "trim" /\ pc'[t] = "trim" /\ ret'[t] = "idle"
    BY <1>1 DEF IInv, TypeOK, OthersKeep, Where, Forget
  <1>4. FlushXorClear' /\ ReturnInv' /\ TakenInv' /\ QueueInv'
    BY <1>1, <1>3 DEF IInv, OthersKeep, FlushXorClear, ReturnInv, TakenInv, QueueInv
  <1>5. KeyInv' /\ HandInv' /\ IdentityInv'
    BY <1>1, <1>3 DEF IInv, OthersKeep, KeyInv, HandInv, IdentityInv
  <1>6. InsertsNeverResurrect' /\ MemorySurvivorsDoomed'
    BY <1>1, <1>3 DEF IInv, OthersKeep, InsertsNeverResurrect, MemorySurvivorsDoomed
  <1> QED  BY <1>2, <1>4, <1>5, <1>6 DEF IInv

\* What remains stale after a rollback is another thread's to remove.
LEMMA RollbackInv ==
    ASSUME IInv, NEW t \in Thread, Rollback(t)
    PROVE  IInv'
  <1>1. /\ gen # cap[t] /\ pc[t] = "recheck" /\ pc' = [pc EXCEPT ![t] = "trim"]
        /\ Forget(t, {})
        /\ UNCHANGED <<pending, table, gen, clearLock, dirty, wipeFailed>>
    BY DEF Rollback, Goto, control
  <1>2. key[t] \in Key /\ Where(t) = "recheck"
    BY <1>1 DEF IInv, KeyInv, Where
  <1>3. /\ memory' \in [Key -> Entry \cup {Nil}]
        /\ \A k \in Key : memory'[k] # Nil => memory'[k] = memory[k]
        /\ memory'[key[t]] # Nil => memory[key[t]].id # hand[t].id
    BY <1>2 DEF IInv, TypeOK, Rollback, RemoveIfCurrent
  <1>4. TypeOK'
    BY <1>1, <1>3 DEF IInv, TypeOK, Forget, Nothing
  <1>5. OthersKeep(t) /\ Where(t)' = "trim" /\ pc'[t] = "trim" /\ ret'[t] = "idle"
    BY <1>1 DEF IInv, TypeOK, OthersKeep, Where, Forget
  <1>6. FlushXorClear' /\ ReturnInv' /\ TakenInv' /\ QueueInv'
    BY <1>1, <1>5 DEF IInv, OthersKeep, FlushXorClear, ReturnInv, TakenInv, QueueInv
  <1>7. KeyInv' /\ HandInv' /\ IdentityInv'
    BY <1>1, <1>3, <1>5 DEF IInv, OthersKeep, KeyInv, HandInv, IdentityInv
  <1>8. InsertsNeverResurrect'
    BY <1>1, <1>5 DEF IInv, OthersKeep, InsertsNeverResurrect
  <1>9. MemorySurvivorsDoomed'
    <2> SUFFICES ASSUME NEW k \in Key, memory'[k] # Nil, memory'[k].tag # gen'
                 PROVE  \E u \in Thread :
                          \/ pc'[u] \in {"wipe", "drop_pending", "drop_memory"}
                          \/ /\ pc'[u] = "recheck" /\ key'[u] = k
                             /\ hand'[u].id = memory'[k].id /\ cap'[u] = memory'[k].tag
      BY DEF MemorySurvivorsDoomed
    <2>1. PICK u \in Thread :
                \/ pc[u] \in {"wipe", "drop_pending", "drop_memory"}
                \/ /\ pc[u] = "recheck" /\ key[u] = k
                   /\ hand[u].id = memory[k].id /\ cap[u] = memory[k].tag
      BY <1>1, <1>3 DEF IInv, MemorySurvivorsDoomed
    <2>2. u # t
      BY <1>1, <1>3, <2>1
    <2> QED  BY <1>3, <1>5, <2>1, <2>2 DEF OthersKeep
  <1> QED  BY <1>4, <1>6, <1>7, <1>8, <1>9 DEF IInv

\* A flush that returns leaves its thread where its operation goes on.
LEMMA ReturnToLemma ==
    ASSUME IInv, NEW t \in Thread, pc[t] \in {"flush", "commit"},
           ReturnTo(t, ret[t]), UNCHANGED <<key, cap, hand>>
    PROVE  /\ OthersKeep(t)
           /\ pc'[t] = ret[t] /\ ret'[t] = "idle"
           /\ pc'[t] \notin Locking \cup {"flush", "enqueue"}
           /\ Where(t)' = Where(t)
           /\ pc' \in [Thread -> Place] /\ ret' \in [Thread -> Place]
           /\ taken' \in [Thread -> [Key -> Write \cup {Nil}]]
  <1>1. /\ pc' = [pc EXCEPT ![t] = ret[t]]
        /\ ret' = [ret EXCEPT ![t] = "idle"]
        /\ taken' = [taken EXCEPT ![t] = Nothing]
    BY DEF ReturnTo
  <1>2. ret[t] \notin Locking \cup {"flush", "enqueue"} /\ ret[t] \in Place
    BY DEF IInv, ReturnInv, TypeOK
  <1>3. Nothing \in [Key -> Write \cup {Nil}]
    BY DEF Nothing
  <1> QED  BY <1>1, <1>2, <1>3 DEF IInv, TypeOK, OthersKeep, Where

\* A flush keeps writes of the current generation only.
LEMMA TakePendingInv ==
    ASSUME IInv, NEW t \in Thread, TakePending(t)
    PROVE  IInv'
  <1>1. /\ pc[t] = "flush" /\ clearLock = Nil /\ pending' = Nothing
        /\ UNCHANGED <<memory, table, gen, dirty, wipeFailed, key, cap, hand, batch, keys>>
    BY DEF TakePending
  <1>2. QueueInv'
    BY <1>1 DEF QueueInv, Nothing
  <1>3. CASE ReturnTo(t, ret[t]) /\ UNCHANGED clearLock
    <2>1. /\ OthersKeep(t)
          /\ pc'[t] = ret[t] /\ ret'[t] = "idle"
          /\ pc'[t] \notin Locking \cup {"flush", "enqueue"}
          /\ Where(t)' = Where(t)
          /\ pc' \in [Thread -> Place] /\ ret' \in [Thread -> Place]
          /\ taken' \in [Thread -> [Key -> Write \cup {Nil}]]
      BY <1>1, <1>3, ReturnToLemma
    <2>2. TypeOK'
      BY <1>1, <1>3, <2>1 DEF IInv, TypeOK, Nothing
    <2>3. FlushXorClear'
      BY <1>1, <1>3, <2>1 DEF IInv, OthersKeep, FlushXorClear
    <2>3a. ReturnInv'
      BY <2>1 DEF IInv, OthersKeep, ReturnInv
    <2>3b. TakenInv'
      BY <1>1, <2>1 DEF IInv, OthersKeep, TakenInv
    <2>4. KeyInv' /\ IdentityInv'
      BY <1>1, <2>1 DEF IInv, OthersKeep, KeyInv, IdentityInv
    <2>5. HandInv'
      BY <1>1, <2>1 DEF IInv, OthersKeep, HandInv
    <2>6. InsertsNeverResurrect'
      BY <1>1, <2>1 DEF IInv, OthersKeep, InsertsNeverResurrect
    <2>7. MemorySurvivorsDoomed'
      BY <1>1, <2>1 DEF IInv, OthersKeep, MemorySurvivorsDoomed
    <2> QED  BY <1>2, <2>2, <2>3, <2>3a, <2>3b, <2>4, <2>5, <2>6, <2>7 DEF IInv
  <1>4. CASE /\ pc' = [pc EXCEPT ![t] = "commit"]
             /\ taken' = [taken EXCEPT ![t] = Kept]
             /\ clearLock' = t /\ UNCHANGED ret
    <2>1. /\ Kept \in [Key -> Write \cup {Nil}]
          /\ \A k \in Key : Kept[k] # Nil => Kept[k] = pending[k] /\ pending[k].tag = gen
      BY DEF IInv, TypeOK, Kept, Queued
    <2>2. TypeOK'
      BY <1>1, <1>4, <2>1 DEF IInv, TypeOK, Nothing
    <2>3. OthersKeep(t) /\ Where(t)' = Where(t) /\ pc'[t] = "commit" /\ taken'[t] = Kept
      BY <1>1, <1>4 DEF IInv, TypeOK, OthersKeep, Where
    <2>4. FlushXorClear' /\ ReturnInv'
      BY <1>1, <1>4, <2>3 DEF IInv, OthersKeep, FlushXorClear, ReturnInv
    <2>5. TakenInv'
      BY <1>1, <2>1, <2>3 DEF IInv, OthersKeep, QueueInv, TakenInv
    <2>6. KeyInv' /\ HandInv' /\ IdentityInv'
      BY <1>1, <2>3 DEF IInv, OthersKeep, KeyInv, HandInv, IdentityInv
    <2>7. InsertsNeverResurrect' /\ MemorySurvivorsDoomed'
      BY <1>1, <2>3 DEF IInv, OthersKeep, InsertsNeverResurrect, MemorySurvivorsDoomed
    <2> QED  BY <1>2, <2>2, <2>4, <2>5, <2>6, <2>7 DEF IInv
  <1> QED  BY <1>3, <1>4 DEF TakePending

\* No clear can have run since the writes were taken, so their generation is current.
LEMMA CommitWritesInv ==
    ASSUME IInv, NEW t \in Thread, CommitWrites(t)
    PROVE  IInv'
  <1>1. /\ pc[t] = "commit" /\ table' = Over(taken[t], table) /\ clearLock' = Nil
        /\ ReturnTo(t, ret[t])
        /\ UNCHANGED <<memory, pending, gen, dirty, wipeFailed, key, cap, hand, batch, keys>>
    BY DEF CommitWrites
  <1>2. /\ OthersKeep(t)
        /\ pc'[t] = ret[t] /\ ret'[t] = "idle"
        /\ pc'[t] \notin Locking \cup {"flush", "enqueue"}
        /\ Where(t)' = Where(t)
        /\ pc' \in [Thread -> Place] /\ ret' \in [Thread -> Place]
        /\ taken' \in [Thread -> [Key -> Write \cup {Nil}]]
    BY <1>1, ReturnToLemma
  <1>3. /\ table' \in [Key -> Write \cup {Nil}]
        /\ \A k \in Key : \/ table'[k] = table[k]
                          \/ taken[t][k] # Nil /\ table'[k] = taken[t][k]
    BY <1>1 DEF IInv, TypeOK, Over
  <1>4. TypeOK'
    BY <1>1, <1>2, <1>3 DEF IInv, TypeOK
  <1>5. FlushXorClear'
    BY <1>1, <1>2 DEF IInv, OthersKeep, FlushXorClear
  <1>5a. ReturnInv' /\ TakenInv' /\ QueueInv'
    BY <1>1, <1>2, SMTT(40) DEF IInv, OthersKeep, ReturnInv, TakenInv, QueueInv
  <1>6. KeyInv' /\ IdentityInv'
    BY <1>1, <1>2 DEF IInv, OthersKeep, KeyInv, IdentityInv
  <1>7. HandInv'
    BY <1>1, <1>2 DEF IInv, OthersKeep, HandInv
  <1>8. InsertsNeverResurrect'
    BY <1>1, <1>2, <1>3 DEF IInv, OthersKeep, TakenInv, InsertsNeverResurrect
  <1>9. MemorySurvivorsDoomed'
    BY <1>1, <1>2 DEF IInv, OthersKeep, MemorySurvivorsDoomed
  <1> QED  BY <1>4, <1>5, <1>5a, <1>6, <1>7, <1>8, <1>9 DEF IInv

\* What goes back to the queue was in it, or was taken from it.
LEMMA CommitFailsInv ==
    ASSUME IInv, NEW t \in Thread, CommitFails(t)
    PROVE  IInv'
  <1> DEFINE q == Over(pending, taken[t])
  <1>1. /\ pc[t] = "commit" /\ pending' \in Shed(q) /\ clearLock' = Nil
        /\ ReturnTo(t, ret[t])
        /\ UNCHANGED <<memory, table, gen, dirty, wipeFailed, key, cap, hand, batch, keys>>
    BY DEF CommitFails
  <1>2. /\ q \in [Key -> Write \cup {Nil}]
        /\ \A k \in Key : q[k] = pending[k] \/ q[k] = taken[t][k]
    BY DEF IInv, TypeOK, Over
  <1> HIDE DEF q
  <1>3. /\ pending' \in [Key -> Write \cup {Nil}]
        /\ \A k \in Key : pending'[k] \in {q[k], Nil}
    BY <1>1, <1>2, ShedLemma
  <1>4. /\ OthersKeep(t)
        /\ pc'[t] = ret[t] /\ ret'[t] = "idle"
        /\ pc'[t] \notin Locking \cup {"flush", "enqueue"}
        /\ Where(t)' = Where(t)
        /\ pc' \in [Thread -> Place] /\ ret' \in [Thread -> Place]
        /\ taken' \in [Thread -> [Key -> Write \cup {Nil}]]
    BY <1>1, ReturnToLemma
  <1>5. TypeOK'
    BY <1>1, <1>3, <1>4 DEF IInv, TypeOK
  <1>6. FlushXorClear'
    BY <1>1, <1>4 DEF IInv, OthersKeep, FlushXorClear
  <1>6a. ReturnInv' /\ TakenInv'
    BY <1>1, <1>4 DEF IInv, OthersKeep, ReturnInv, TakenInv
  <1>7. QueueInv'
    BY <1>1, <1>2, <1>3 DEF IInv, QueueInv, TakenInv
  <1>8. KeyInv' /\ IdentityInv'
    BY <1>1, <1>4 DEF IInv, OthersKeep, KeyInv, IdentityInv
  <1>9. HandInv'
    BY <1>1, <1>4 DEF IInv, OthersKeep, HandInv
  <1>10. InsertsNeverResurrect' /\ MemorySurvivorsDoomed'
    BY <1>1, <1>4, SMTT(40) DEF IInv, OthersKeep, InsertsNeverResurrect, MemorySurvivorsDoomed
  <1> QED  BY <1>5, <1>6, <1>6a, <1>7, <1>8, <1>9, <1>10 DEF IInv

\* Nothing is being committed while clear_lock is free.
LEMMA BeginClearInv ==
    ASSUME IInv, NEW t \in Thread, BeginClear(t)
    PROVE  IInv'
  <1>1. /\ pc[t] = "idle" /\ clearLock = Nil /\ clearLock' = t /\ gen' = gen + 1
        /\ pc' = [pc EXCEPT ![t] = "wipe"]
        /\ UNCHANGED <<memory, pending, table, dirty, wipeFailed, ret, key, cap, hand,
                       batch, taken, keys>>
    BY DEF BeginClear, Goto, layers, call
  <1>2. TypeOK'
    BY <1>1 DEF IInv, TypeOK
  <1>3. OthersKeep(t) /\ Where(t)' = "wipe" /\ pc'[t] = "wipe"
    BY <1>1 DEF IInv, TypeOK, OthersKeep, Where
  <1>4. FlushXorClear'
    BY <1>1, <1>3 DEF IInv, OthersKeep, FlushXorClear
  <1>5. ReturnInv' /\ QueueInv'
    BY <1>1, <1>3 DEF IInv, OthersKeep, ReturnInv, QueueInv
  <1>6. TakenInv'
    BY <1>1, <1>3 DEF IInv, OthersKeep, FlushXorClear, TakenInv
  <1>7. KeyInv' /\ HandInv' /\ IdentityInv'
    BY <1>1, <1>3 DEF IInv, OthersKeep, KeyInv, HandInv, IdentityInv
  <1>8. InsertsNeverResurrect' /\ MemorySurvivorsDoomed'
    BY <1>3 DEF InsertsNeverResurrect, MemorySurvivorsDoomed
  <1> QED  BY <1>2, <1>4, <1>5, <1>6, <1>7, <1>8 DEF IInv

\* The table is emptied, or the failure is recorded.
LEMMA WipeTableInv ==
    ASSUME IInv, NEW t \in Thread, WipeTable(t)
    PROVE  IInv'
  <1>1. /\ pc[t] = "wipe" /\ pc' = [pc EXCEPT ![t] = "drop_pending"]
        /\ UNCHANGED <<memory, pending, gen, clearLock, dirty, ret, key, cap, hand, batch,
                       taken, keys>>
        /\ wipeFailed' \in BOOLEAN /\ table' \in {Nothing, table}
        /\ wipeFailed' \/ table' = Nothing
    BY DEF IInv, TypeOK, WipeTable, Goto, call
  <1>2. TypeOK'
    BY <1>1 DEF IInv, TypeOK, Nothing
  <1>3. OthersKeep(t) /\ Where(t)' = "drop_pending" /\ pc'[t] = "drop_pending"
    BY <1>1 DEF IInv, TypeOK, OthersKeep, Where
  <1>4. FlushXorClear' /\ ReturnInv' /\ TakenInv' /\ QueueInv'
    BY <1>1, <1>3 DEF IInv, OthersKeep, FlushXorClear, ReturnInv, TakenInv, QueueInv
  <1>5. KeyInv' /\ HandInv' /\ IdentityInv'
    BY <1>1, <1>3 DEF IInv, OthersKeep, KeyInv, HandInv, IdentityInv
  <1>6. InsertsNeverResurrect'
    BY <1>1 DEF InsertsNeverResurrect, Nothing
  <1>7. MemorySurvivorsDoomed'
    BY <1>3 DEF MemorySurvivorsDoomed
  <1> QED  BY <1>2, <1>4, <1>5, <1>6, <1>7 DEF IInv

\* The queue is emptied and clear_lock released.
LEMMA DropPendingInv ==
    ASSUME IInv, NEW t \in Thread, DropPending(t)
    PROVE  IInv'
  <1>1. /\ pc[t] = "drop_pending" /\ pc' = [pc EXCEPT ![t] = "drop_memory"]
        /\ pending' = Nothing /\ clearLock' = Nil
        /\ UNCHANGED <<memory, table, gen, dirty, wipeFailed, ret, key, cap, hand, batch,
                       taken, keys>>
    BY DEF DropPending, Goto, call
  <1>2. TypeOK'
    BY <1>1 DEF IInv, TypeOK, Nothing
  <1>3. OthersKeep(t) /\ Where(t)' = "drop_memory" /\ pc'[t] = "drop_memory"
    BY <1>1 DEF IInv, TypeOK, OthersKeep, Where
  <1>4. FlushXorClear'
    BY <1>1, <1>3 DEF IInv, OthersKeep, FlushXorClear
  <1>5. ReturnInv' /\ TakenInv' /\ QueueInv'
    BY <1>1, <1>3 DEF IInv, OthersKeep, ReturnInv, TakenInv, QueueInv, Nothing
  <1>6. KeyInv' /\ HandInv' /\ IdentityInv'
    BY <1>1, <1>3 DEF IInv, OthersKeep, KeyInv, HandInv, IdentityInv
  <1>7. InsertsNeverResurrect'
    BY <1>1, <1>3 DEF IInv, OthersKeep, InsertsNeverResurrect
  <1>8. MemorySurvivorsDoomed'
    BY <1>3 DEF MemorySurvivorsDoomed
  <1> QED  BY <1>2, <1>4, <1>5, <1>6, <1>7, <1>8 DEF IInv

\* No memory entry is left to be stale.
LEMMA DropMemoryInv ==
    ASSUME IInv, NEW t \in Thread, DropMemory(t)
    PROVE  IInv'
  <1>1. /\ pc[t] = "drop_memory" /\ pc' = [pc EXCEPT ![t] = "drop_dirty"]
        /\ memory' = Nothing
        /\ UNCHANGED <<pending, table, gen, clearLock, dirty, wipeFailed, ret, key, cap,
                       hand, batch, taken, keys>>
    BY DEF DropMemory, Goto, control, call
  <1>2. TypeOK'
    BY <1>1 DEF IInv, TypeOK, Nothing
  <1>3. OthersKeep(t) /\ Where(t)' = "drop_dirty" /\ pc'[t] = "drop_dirty"
    BY <1>1 DEF IInv, TypeOK, OthersKeep, Where
  <1>4. FlushXorClear' /\ ReturnInv' /\ TakenInv' /\ QueueInv'
    BY <1>1, <1>3 DEF IInv, OthersKeep, FlushXorClear, ReturnInv, TakenInv, QueueInv
  <1>5. KeyInv' /\ HandInv' /\ IdentityInv'
    BY <1>1, <1>3 DEF IInv, OthersKeep, KeyInv, HandInv, IdentityInv, Nothing
  <1>6. InsertsNeverResurrect'
    BY <1>1, <1>3 DEF IInv, OthersKeep, InsertsNeverResurrect
  <1>7. MemorySurvivorsDoomed'
    BY <1>1 DEF MemorySurvivorsDoomed, Nothing
  <1> QED  BY <1>2, <1>4, <1>5, <1>6, <1>7 DEF IInv

\* The first step of each operation.
LEMMA CallInv ==
    ASSUME IInv, NEW t \in Thread, Call(t)
    PROVE  IInv'
  <1>1. ASSUME NEW k \in Key, NEW i \in EntryId, BeginInsert(t, k, i) PROVE IInv'
    BY <1>1, BeginInsertInv
  <1>2. ASSUME NEW k \in Key, ServeMemory(t, k) PROVE IInv'
    BY <1>2, ServeMemoryInv
  <1>3. ASSUME NEW k \in Key, JudgeStale(t, k) PROVE IInv'
    <2>1. TypeOK'
      BY <1>3 DEF IInv, TypeOK, KeyInv, Where, layers, control, call, JudgeStale, Goto
    <2>2. Quiet(t)
      BY <1>3 DEF IInv, TypeOK, ReturnInv, KeyInv, Quiet, OthersKeep, Where, layers,
         control, call, JudgeStale, Goto
    <2> QED  BY <2>1, <2>2, QuietInv
  <1>4. ASSUME NEW k \in Key, LookupMisses(t, k) PROVE IInv'
    <2>1. TypeOK'
      BY <1>4 DEF IInv, TypeOK, KeyInv, Where, layers, control, call, LookupMisses, Goto
    <2>2. Quiet(t)
      BY <1>4 DEF IInv, TypeOK, ReturnInv, KeyInv, Quiet, OthersKeep, Where, layers,
         control, call, LookupMisses, Goto
    <2> QED  BY <2>1, <2>2, QuietInv
  <1>5. ASSUME NEW S \in SUBSET Key, BeginRemove(t, S) PROVE IInv'
    <2>1. TypeOK'
      BY <1>5 DEF IInv, TypeOK, KeyInv, Where, layers, control, call, BeginRemove, Goto
    <2>2. Quiet(t)
      BY <1>5 DEF IInv, TypeOK, ReturnInv, KeyInv, Quiet, OthersKeep, Where, layers,
         control, call, BeginRemove, Goto
    <2> QED  BY <2>1, <2>2, QuietInv
  <1>6. ASSUME NEW S \in SUBSET Key, BeginPurge(t, S) PROVE IInv'
    <2>1. TypeOK'
      BY <1>6 DEF IInv, TypeOK, KeyInv, Where, layers, control, call, BeginPurge
    <2>2. Quiet(t)
      BY <1>6 DEF IInv, TypeOK, ReturnInv, KeyInv, Quiet, OthersKeep, Where, layers,
         control, call, BeginPurge
    <2> QED  BY <2>1, <2>2, QuietInv
  <1>7. CASE BeginClear(t)
    BY <1>7, BeginClearInv
  <1>8. CASE BeginFlushPending(t)
    <2>1. TypeOK'
      BY <1>8 DEF IInv, TypeOK, KeyInv, Where, layers, control, call, BeginFlushPending,
         Goto
    <2>2. Quiet(t)
      BY <1>8 DEF IInv, TypeOK, ReturnInv, KeyInv, Quiet, OthersKeep, Where, layers,
         control, call, BeginFlushPending, Goto
    <2> QED  BY <2>1, <2>2, QuietInv
  <1>9. CASE BeginFlush(t)
    <2>1. TypeOK'
      BY <1>9 DEF IInv, TypeOK, KeyInv, Where, layers, control, call, BeginFlush, Goto
    <2>2. Quiet(t)
      BY <1>9 DEF IInv, TypeOK, ReturnInv, KeyInv, Quiet, OthersKeep, Where, layers,
         control, call, BeginFlush, Goto
    <2> QED  BY <2>1, <2>2, QuietInv
  <1> QED  BY <1>1, <1>2, <1>3, <1>4, <1>5, <1>6, <1>7, <1>8, <1>9 DEF Call

\* The steps of an insert.
LEMMA InsertInv ==
    ASSUME IInv, NEW t \in Thread, Insert(t)
    PROVE  IInv'
  <1>1. CASE EnqueueInsert(t)
    BY <1>1, EnqueueInsertInv
  <1>2. CASE EnqueueInsertFails(t)
    <2>1. TypeOK'
      BY <1>2 DEF IInv, TypeOK, KeyInv, Where, layers, control, call, EnqueueInsertFails,
         Goto
    <2>2. Quiet(t)
      BY <1>2 DEF IInv, TypeOK, ReturnInv, KeyInv, Quiet, OthersKeep, Where, layers,
         control, call, EnqueueInsertFails, Goto
    <2> QED  BY <2>1, <2>2, QuietInv
  <1>3. CASE GuardSkips(t)
    <2>1. TypeOK'
      BY <1>3 DEF IInv, TypeOK, KeyInv, Where, layers, control, call, GuardSkips, Goto,
         Forget, Nothing
    <2>2. Quiet(t)
      BY <1>3 DEF IInv, TypeOK, ReturnInv, KeyInv, Quiet, OthersKeep, Where, layers,
         control, call, GuardSkips, Goto, Forget, Nothing
    <2> QED  BY <2>1, <2>2, QuietInv
  <1>4. CASE GuardPasses(t)
    <2>1. TypeOK'
      BY <1>4 DEF IInv, TypeOK, KeyInv, Where, layers, control, call, GuardPasses, Goto
    <2>2. Quiet(t)
      BY <1>4 DEF IInv, TypeOK, ReturnInv, KeyInv, Quiet, OthersKeep, Where, layers,
         control, call, GuardPasses, Goto
    <2> QED  BY <2>1, <2>2, QuietInv
  <1>5. CASE PutMemory(t)
    BY <1>5, PutMemoryInv
  <1>6. CASE RecheckKeeps(t)
    BY <1>6, RecheckKeepsInv
  <1>7. CASE Rollback(t)
    BY <1>7, RollbackInv
  <1> QED  BY <1>1, <1>2, <1>3, <1>4, <1>5, <1>6, <1>7 DEF Insert

\* The steps of enforce_memory_cap.
LEMMA TrimInv ==
    ASSUME IInv, NEW t \in Thread, Trim(t)
    PROVE  IInv'
  <1>1. CASE TrimNothing(t)
    <2>1. TypeOK'
      BY <1>1 DEF IInv, TypeOK, KeyInv, Where, layers, control, call, TrimNothing,
         Return, Forget, Nothing
    <2>2. Quiet(t)
      BY <1>1 DEF IInv, TypeOK, ReturnInv, KeyInv, Quiet, OthersKeep, Where, layers,
         control, call, TrimNothing, Return, Forget, Nothing
    <2> QED  BY <2>1, <2>2, QuietInv
  <1>2. CASE BeginTrim(t)
    <2>1. TypeOK'
      BY <1>2 DEF IInv, TypeOK, KeyInv, Where, layers, control, call, BeginTrim, Goto
    <2>2. Quiet(t)
      BY <1>2 DEF IInv, TypeOK, ReturnInv, KeyInv, Quiet, OthersKeep, Where, layers,
         control, call, BeginTrim, Goto
    <2> QED  BY <2>1, <2>2, QuietInv
  <1>3. CASE TrimRemove(t)
    <2>1. TypeOK'
      BY <1>3 DEF IInv, TypeOK, KeyInv, Where, layers, control, call, TrimRemove, Goto,
         Without
    <2>2. Quiet(t)
      BY <1>3 DEF IInv, TypeOK, ReturnInv, KeyInv, Quiet, OthersKeep, Where, layers,
         control, call, TrimRemove, Goto, Without
    <2> QED  BY <2>1, <2>2, QuietInv
  <1>4. CASE EndTrim(t)
    <2>1. TypeOK'
      BY <1>4 DEF IInv, TypeOK, KeyInv, Where, layers, control, call, EndTrim, Return,
         Forget, Nothing
    <2>2. Quiet(t)
      BY <1>4 DEF IInv, TypeOK, ReturnInv, KeyInv, Quiet, OthersKeep, Where, layers,
         control, call, EndTrim, Return, Forget, Nothing
    <2> QED  BY <2>1, <2>2, QuietInv
  <1>5. ASSUME NEW S \in SUBSET Key, TrimPick(t, S) PROVE IInv'
    <2>1. TypeOK'
      BY <1>5 DEF IInv, TypeOK, KeyInv, Where, layers, control, call, TrimPick, Goto,
         Resident
    <2>2. Quiet(t)
      BY <1>5 DEF IInv, TypeOK, ReturnInv, KeyInv, Quiet, OthersKeep, Where, layers,
         control, call, TrimPick, Goto, Resident
    <2> QED  BY <2>1, <2>2, QuietInv
  <1>6. ASSUME NEW k \in Key, TrimPersist(t, k) PROVE IInv'
    BY <1>6, TrimPersistInv
  <1>7. ASSUME NEW k \in Key, TrimSkipPersist(t, k) PROVE IInv'
    <2>1. TypeOK'
      BY <1>7 DEF IInv, TypeOK, KeyInv, Where, layers, control, call, TrimSkipPersist, Goto
    <2>2. Quiet(t)
      BY <1>7 DEF IInv, TypeOK, ReturnInv, KeyInv, Quiet, OthersKeep, Where, layers,
         control, call, TrimSkipPersist, Goto
    <2> QED  BY <2>1, <2>2, QuietInv
  <1> QED  BY <1>1, <1>2, <1>3, <1>4, <1>5, <1>6, <1>7 DEF Trim

\* The steps of lookup.
LEMMA LookupInv ==
    ASSUME IInv, NEW t \in Thread, Lookup(t)
    PROVE  IInv'
  <1>1. CASE EvictIfCurrent(t)
    BY <1>1, EvictIfCurrentInv
  <1>2. CASE CaptureForProbe(t)
    <2>1. TypeOK'
      BY <1>2 DEF IInv, TypeOK, KeyInv, Where, layers, control, call, CaptureForProbe, Goto
    <2>2. Quiet(t)
      BY <1>2 DEF IInv, TypeOK, ReturnInv, KeyInv, Quiet, OthersKeep, Where, layers,
         control, call, CaptureForProbe, Goto
    <2> QED  BY <2>1, <2>2, QuietInv
  <1>3. CASE ProbePending(t)
    BY <1>3, ProbePendingInv
  <1>4. CASE ProbeMisses(t)
    <2>1. TypeOK'
      BY <1>4 DEF IInv, TypeOK, KeyInv, Where, layers, control, call, ProbeMisses, Goto
    <2>2. Quiet(t)
      BY <1>4 DEF IInv, TypeOK, ReturnInv, KeyInv, Quiet, OthersKeep, Where, layers,
         control, call, ProbeMisses, Goto
    <2> QED  BY <2>1, <2>2, QuietInv
  <1>5. CASE ReadCommitted(t)
    BY <1>5, ReadCommittedInv
  <1> QED  BY <1>1, <1>2, <1>3, <1>4, <1>5 DEF Lookup

\* The steps of the removals.
LEMMA RemoveInv ==
    ASSUME IInv, NEW t \in Thread, Remove(t)
    PROVE  IInv'
  <1>1. CASE RemovePending(t)
    <2>1. TypeOK'
      BY <1>1 DEF IInv, TypeOK, KeyInv, Where, layers, control, call, RemovePending,
         Goto, Without
    <2>2. Quiet(t)
      BY <1>1 DEF IInv, TypeOK, ReturnInv, KeyInv, Quiet, OthersKeep, Where, layers,
         control, call, RemovePending, Goto, Without
    <2> QED  BY <2>1, <2>2, QuietInv
  <1>2. CASE RemoveRows(t)
    BY <1>2, RemoveRowsInv
  <1>3. CASE RemoveMemory(t)
    <2>1. TypeOK'
      BY <1>3 DEF IInv, TypeOK, KeyInv, Where, layers, control, call, RemoveMemory,
         Without, Return, Forget, Nothing
    <2>2. Quiet(t)
      BY <1>3 DEF IInv, TypeOK, ReturnInv, KeyInv, Quiet, OthersKeep, Where, layers,
         control, call, RemoveMemory, Without, Return, Forget, Nothing
    <2> QED  BY <2>1, <2>2, QuietInv
  <1>4. CASE PurgeRows(t)
    <2>1. TypeOK'
      BY <1>4 DEF IInv, TypeOK, KeyInv, Where, layers, control, call, PurgeRows, Goto,
         Without
    <2>2. Quiet(t)
      BY <1>4 DEF IInv, TypeOK, ReturnInv, KeyInv, Quiet, OthersKeep, Where, layers,
         control, call, PurgeRows, Goto, Without
    <2> QED  BY <2>1, <2>2, QuietInv
  <1>5. CASE PurgePending(t)
    <2>1. TypeOK'
      BY <1>5 DEF IInv, TypeOK, KeyInv, Where, layers, control, call, PurgePending, Goto,
         Without
    <2>2. Quiet(t)
      BY <1>5 DEF IInv, TypeOK, ReturnInv, KeyInv, Quiet, OthersKeep, Where, layers,
         control, call, PurgePending, Goto, Without
    <2> QED  BY <2>1, <2>2, QuietInv
  <1> QED  BY <1>1, <1>2, <1>3, <1>4, <1>5 DEF Remove

\* The steps of clear.
LEMMA ClearInv ==
    ASSUME IInv, NEW t \in Thread, Clear(t)
    PROVE  IInv'
  <1>1. CASE WipeTable(t)
    BY <1>1, WipeTableInv
  <1>2. CASE DropPending(t)
    BY <1>2, DropPendingInv
  <1>3. CASE DropMemory(t)
    BY <1>3, DropMemoryInv
  <1>4. CASE DropDirty(t)
    <2>1. TypeOK'
      BY <1>4 DEF IInv, TypeOK, KeyInv, Where, layers, control, call, DropDirty, Return,
         Forget, Nothing
    <2>2. Quiet(t)
      BY <1>4 DEF IInv, TypeOK, ReturnInv, KeyInv, Quiet, OthersKeep, Where, layers,
         control, call, DropDirty, Return, Forget, Nothing
    <2> QED  BY <2>1, <2>2, QuietInv
  <1> QED  BY <1>1, <1>2, <1>3, <1>4 DEF Clear

\* The steps of the two flushes.
LEMMA FlushInv ==
    ASSUME IInv, NEW t \in Thread, Flush(t)
    PROVE  IInv'
  <1>1. CASE TakePending(t)
    BY <1>1, TakePendingInv
  <1>2. CASE CommitWrites(t)
    BY <1>2, CommitWritesInv
  <1>3. CASE CommitFails(t)
    BY <1>3, CommitFailsInv
  <1>4. CASE TakeDirty(t)
    <2>1. TypeOK'
      BY <1>4 DEF IInv, TypeOK, KeyInv, Where, layers, control, call, TakeDirty, Goto
    <2>2. Quiet(t)
      BY <1>4 DEF IInv, TypeOK, ReturnInv, KeyInv, Quiet, OthersKeep, Where, layers,
         control, call, TakeDirty, Goto
    <2> QED  BY <2>1, <2>2, QuietInv
  <1>5. CASE ReplaySnapshot(t)
    <2>1. TypeOK'
      BY <1>5 DEF IInv, TypeOK, KeyInv, Where, layers, control, call, ReplaySnapshot,
         Goto, Snapshot
    <2>2. Quiet(t)
      BY <1>5 DEF IInv, TypeOK, ReturnInv, KeyInv, Quiet, OthersKeep, Where, layers,
         control, call, ReplaySnapshot, Goto, Snapshot
    <2> QED  BY <2>1, <2>2, QuietInv
  <1>6. CASE EndReplay(t)
    <2>1. TypeOK'
      BY <1>6 DEF IInv, TypeOK, KeyInv, Where, layers, control, call, EndReplay, Goto,
         Nothing
    <2>2. Quiet(t)
      BY <1>6 DEF IInv, TypeOK, ReturnInv, KeyInv, Quiet, OthersKeep, Where, layers,
         control, call, EndReplay, Goto, Nothing
    <2> QED  BY <2>1, <2>2, QuietInv
  <1>7. ASSUME NEW k \in Key, ReplayDirty(t, k) PROVE IInv'
    BY <1>7, ReplayDirtyInv
  <1>8. ASSUME NEW k \in Key, ReplayFails(t, k) PROVE IInv'
    <2>1. TypeOK'
      BY <1>8 DEF IInv, TypeOK, KeyInv, Where, layers, control, call, ReplayFails, Without
    <2>2. Quiet(t)
      BY <1>8 DEF IInv, TypeOK, ReturnInv, KeyInv, Quiet, OthersKeep, Where, layers,
         control, call, ReplayFails, Without
    <2> QED  BY <2>1, <2>2, QuietInv
  <1>9. ASSUME NEW k \in Key, SweepOne(t, k) PROVE IInv'
    BY <1>9, SweepOneInv
  <1>10. ASSUME NEW k \in Key, SweepFails(t, k) PROVE IInv'
    <2>1. TypeOK'
      BY <1>10 DEF IInv, TypeOK, KeyInv, Where, layers, control, call, SweepFails, Without
    <2>2. Quiet(t)
      BY <1>10 DEF IInv, TypeOK, ReturnInv, KeyInv, Quiet, OthersKeep, Where, layers,
         control, call, SweepFails, Without
    <2> QED  BY <2>1, <2>2, QuietInv
  <1>11. CASE SweepSnapshot(t)
    <2>1. TypeOK'
      BY <1>11 DEF IInv, TypeOK, KeyInv, Where, layers, control, call, SweepSnapshot,
         Goto, Snapshot, Resident
    <2>2. Quiet(t)
      BY <1>11 DEF IInv, TypeOK, ReturnInv, KeyInv, Quiet, OthersKeep, Where, layers,
         control, call, SweepSnapshot, Goto, Snapshot, Resident
    <2> QED  BY <2>1, <2>2, QuietInv
  <1>12. CASE EndSweep(t)
    <2>1. TypeOK'
      BY <1>12 DEF IInv, TypeOK, KeyInv, Where, layers, control, call, EndSweep, Goto,
         Nothing
    <2>2. Quiet(t)
      BY <1>12 DEF IInv, TypeOK, ReturnInv, KeyInv, Quiet, OthersKeep, Where, layers,
         control, call, EndSweep, Goto, Nothing
    <2> QED  BY <2>1, <2>2, QuietInv
  <1>13. CASE RestoreDirty(t)
    <2>1. TypeOK'
      BY <1>13 DEF IInv, TypeOK, KeyInv, Where, layers, control, call, RestoreDirty,
         Return, Forget, Nothing
    <2>2. Quiet(t)
      BY <1>13 DEF IInv, TypeOK, ReturnInv, KeyInv, Quiet, OthersKeep, Where, layers,
         control, call, RestoreDirty, Return, Forget, Nothing
    <2> QED  BY <2>1, <2>2, QuietInv
  <1> QED  BY <1>1, <1>2, <1>3, <1>4, <1>5, <1>6, <1>7, <1>8, <1>9, <1>10, <1>11,
     <1>12, <1>13 DEF Flush

----------------------------------------------------------------------------
\* The empty shard satisfies the invariant.
LEMMA InitIInv == Init => IInv
  <1> SUFFICES ASSUME Init PROVE IInv
    OBVIOUS
  <1>0. OldRow \in Write /\ OldRow.born = 0
    BY DEF OldRow, Write
  <1>1. TypeOK
    BY <1>0 DEF Init, TypeOK, Nothing
  <1>2. FlushXorClear /\ ReturnInv
    BY DEF Init, FlushXorClear, ReturnInv
  <1>3. KeyInv /\ HandInv /\ IdentityInv
    BY DEF Init, Where, KeyInv, HandInv, IdentityInv
  <1>4. QueueInv /\ TakenInv /\ InsertsNeverResurrect /\ MemorySurvivorsDoomed
    BY <1>0 DEF Init, Nothing, QueueInv, TakenInv, InsertsNeverResurrect,
       MemorySurvivorsDoomed
  <1> QED  BY <1>1, <1>2, <1>3, <1>4 DEF IInv

\* A step that changes nothing preserves it.
LEMMA StutterInv ==
    ASSUME IInv, UNCHANGED vars
    PROVE  IInv'
  BY DEF IInv, TypeOK, FlushXorClear, KeyInv, HandInv, QueueInv, TakenInv, ReturnInv,
         IdentityInv, InsertsNeverResurrect, MemorySurvivorsDoomed, Where, Queued, vars

\* So does every step.
LEMMA NextIInv == IInv /\ [Next]_vars => IInv'
  <1> SUFFICES ASSUME IInv, [Next]_vars PROVE IInv'
    OBVIOUS
  <1>1. ASSUME NEW t \in Thread,
               Call(t) \/ Insert(t) \/ Trim(t) \/ Lookup(t) \/ Remove(t) \/ Clear(t)
                   \/ Flush(t)
        PROVE  IInv'
    BY <1>1, CallInv, InsertInv, TrimInv, LookupInv, RemoveInv, ClearInv, FlushInv
  <1>2. CASE UNCHANGED vars
    BY <1>2, StutterInv
  <1> QED  BY <1>1, <1>2 DEF Next

\* Hence it always holds.
LEMMA Invariance == Spec => []IInv
  BY InitIInv, NextIInv, PTL DEF Spec

----------------------------------------------------------------------------
\* Every variable of the shard and of the threads' calls keeps its type.
THEOREM TypeCorrect == Spec => []TypeOK
  <1>1. IInv => TypeOK
    BY DEF IInv
  <1> QED  BY <1>1, Invariance, PTL

\* clear_lock serialises flush_pending_inserts against clear.
THEOREM FlushExcludesClear == Spec => []FlushXorClear
  <1>1. IInv => FlushXorClear
    BY DEF IInv
  <1> QED  BY <1>1, Invariance, PTL

\* The generation filter of flush_pending_inserts keeps every insert that raced a
\* clear off the disk.
THEOREM NoResurrectedInsert == Spec => []InsertsNeverResurrect
  <1>1. IInv => InsertsNeverResurrect
    BY DEF IInv
  <1> QED  BY <1>1, Invariance, PTL

\* The re-check of insert_into_memory_guarded, or the clear itself, removes every
\* memory entry of an older generation.
THEOREM NoStaleSurvivor == Spec => []MemorySurvivorsDoomed
  <1>1. IInv => MemorySurvivorsDoomed
    BY DEF IInv
  <1> QED  BY <1>1, Invariance, PTL

\* The rollback of insert_into_memory_guarded removes by identity, so it spares a
\* newer entry of the same key.
THEOREM RollbackIsOwn == Spec => RollbackSparesNewer
  <1> DEFINE Spares == \A t \in Thread :
                           Rollback(t) =>
                               \A k \in Key : memory[k] # Nil /\ memory[k].tag = gen
                                                  => memory'[k] = memory[k]
  <1>1. IInv /\ [Next]_vars => [Spares]_vars
    <2> SUFFICES ASSUME IInv, NEW t \in Thread, Rollback(t), NEW k \in Key,
                        memory[k] # Nil, memory[k].tag = gen
                 PROVE  memory'[k] = memory[k]
      BY DEF vars
    <2>1. key[t] \in Key /\ Where(t) = "recheck" /\ gen # cap[t]
      BY DEF IInv, KeyInv, Where, Rollback, Goto
    <2>2. memory[k].id # hand[t].id
      BY <2>1 DEF IInv, IdentityInv
    <2> QED  BY <2>1, <2>2 DEF IInv, TypeOK, Rollback, RemoveIfCurrent
  <1> QED  BY <1>1, Invariance, PTL DEF Spec, RollbackSparesNewer

HIDE NilAssumption DEF Place, Locking, Inserting

(***************************************************************************)
(* ShardRegistry.  The load lock of a shard orders what is done to its     *)
(* directory and registration; a pass opens databases without it.  First   *)
(* the locks, the caches and the generations, then the databases.          *)
(***************************************************************************)

\* A thread at work on one cache; one that has a shard in hand; one that holds
\* the load lock of an unregistered shard; one that retries a registered one's
\* disk.
Serving ==
    {"touch", "retry", "use", "reopen", "reopened", "describe", "register", "insert"}
OnShard == Serving \cup
    {"cold", "open", "create", "unlink", "condemned", "unlinked", "emptied"}
Filling == {"describe", "register"}
Loading == Filling \cup {"open", "unlink", "condemned", "unlinked", "emptied"}
Retrying == {"reopen", "reopened"}
Locked == Loading \cup Retrying

FrameOK(f) ==
    /\ f.pc \in Serving => \E c \in 1..made.caches : f.held = {c}
    /\ f.pc \in OnShard => f.s \in Shards
FramesInv == \A t \in Threads : FrameOK(th[t])

LocksInv ==
    \A t \in Threads :
        /\ th[t].pc \in Locked => lock[th[t].s] = t
        /\ th[t].pc \in Loading => loaded[th[t].s] = 0
        /\ th[t].pc \in Retrying => th[t].held = {loaded[th[t].s]}

OwnersInv ==
    /\ \A s \in Shards : loaded[s] # 0 => cache[loaded[s]].shard = s
    /\ \A t \in Threads : \A c \in th[t].held :
          th[t].pc \in Filling => cache[c].shard = th[t].s

\* What is marked with generation g was measured from v.
Current(g, v) ==
    /\ g <= generation
    /\ g = generation => v >= announced
MeasuredOK(e) ==
    e.gen <= generation /\ (e.ver # 0 => Current(e.gen, e.ver))
FrameCurrent(f) ==
    IF f.pc = "insert" THEN Current(f.gen, f.ver) ELSE f.gen <= pkg
GenerationInv ==
    /\ generation > 0 /\ announced <= pkg
    /\ \A c \in 1..MaxCaches : MeasuredOK(cache[c])
    /\ \A t \in Threads : FrameCurrent(th[t])

ShardsInv ==
    /\ ShardsTypeOK
    /\ FramesInv
    /\ LocksInv
    /\ OwnersInv
    /\ GenerationInv

USE ShardsAssumption
----------------------------------------------------------------------------
\* A thread at work on one cache holds that one.
LEMMA HeldLemma ==
    ASSUME FramesInv, NEW t \in Threads, th[t].pc \in Serving
    PROVE  Held(t) \in 1..made.caches /\ th[t].held = {Held(t)}
  <1> PICK c \in 1..made.caches : th[t].held = {c}
    BY DEF FramesInv, FrameOK
  <1>1. Held(t) \in th[t].held
    BY DEF Held
  <1> QED
    BY <1>1

\* A request names a shard of the registry.
LEMMA OpLemma ==
    ASSUME ShardsTypeOK, NEW t \in Threads, NEW ops, Doing(t, ops, th[t].pc),
           ops \subseteq {"serve", "remove"}
    PROVE  Op(t).s \in Shards
  <1>1. th[t].i \in 1..Len(plan[t])
    BY DEF Doing, ShardsTypeOK, ThreadFrame
  <1> QED
    BY <1>1 DEF Doing, Op, ShardsTypeOK, Shards

\* The caches that are registered or held have been made.
LEMMA BoundsLemma ==
    ASSUME ShardsTypeOK
    PROVE  /\ made.caches \in Nat /\ made.caches <= MaxCaches
           /\ \A s \in Shards : loaded[s] # 0 =>
                 loaded[s] \in 1..made.caches /\ loaded[s] \in 1..MaxCaches
           /\ \A t \in Threads : \A c \in th[t].held :
                 c \in 1..made.caches /\ c \in 1..MaxCaches
  <1>1. made.caches \in Nat /\ made.caches <= MaxCaches
    BY DEF ShardsTypeOK
  <1>2. \A s \in Shards : loaded[s] \in 0..made.caches
    BY DEF ShardsTypeOK
  <1>3. \A t \in Threads : th[t].held \in SUBSET (1..made.caches)
    BY DEF ShardsTypeOK, ThreadFrame
  <1> QED
    BY <1>1, <1>2, <1>3

\* One thread moves; the others stay where they are.
LEMMA MoveLemma ==
    ASSUME ShardsTypeOK, NEW t \in Threads, NEW f, th' = [th EXCEPT ![t] = f]
    PROVE  /\ th'[t] = f
           /\ \A u \in Threads \ {t} : th'[u] = th[u]
           /\ \A F : (f \in F /\ th \in [Threads -> F]) => th' \in [Threads -> F]
  BY DEF ShardsTypeOK

\* The frames of an open that has not begun, or has ended.
OpenFrame == [stage : Stages, existed : BOOLEAN, again : BOOLEAN, file : Nat]
LEMMA OpenFrames ==
    /\ NotOpening \in OpenFrame /\ Opening \in OpenFrame
    /\ \A n \in Nat : OpenedAs(n) \in OpenFrame
  BY DEF OpenFrame, NotOpening, Opening, OpenedAs, Stages

\* A later generation: what carries an earlier one is not trusted under it.
LaterGeneration ==
    \/ UNCHANGED <<generation, announced>>
    \/ generation' = generation + 1 /\ announced' \in Nat /\ announced' <= pkg

\* A step that leaves locks, registrations and files as they are, of a thread
\* that holds no lock.
LEMMA QuietStep ==
    ASSUME ShardsInv, NEW t \in Threads, NEW f \in ThreadFrame,
           th' = [th EXCEPT ![t] = f],
           FrameOK(f), FrameCurrent(f), f.pc \notin Locked, th[t].pc \notin Locked,
           UNCHANGED <<loaded, retry, lock, pkg, strays, form, past, plan, made>>,
           dir' \in [Shards -> [db : Nat, meta : BOOLEAN, there : BOOLEAN]],
           rows' \in [1..MaxFiles -> Nat],
           cache' \in [1..MaxCaches -> [shard : Nat, file : Nat, ver : Nat, gen : Nat]],
           \A c \in 1..MaxCaches : /\ cache'[c].shard = cache[c].shard
                                    /\ cache'[c].file = cache[c].file
                                    /\ MeasuredOK(cache'[c]),
           busy' \in BOOLEAN,
           LaterGeneration
    PROVE  ShardsInv'
  <1>0. /\ th'[t] = f
        /\ \A u \in Threads \ {t} : th'[u] = th[u]
        /\ th' \in [Threads -> ThreadFrame]
    BY MoveLemma DEF ShardsInv, ShardsTypeOK
  <1>a. ThreadFrame' = ThreadFrame
    BY DEF ThreadFrame
  <1>b. /\ \A s \in Shards : loaded[s] # 0 => loaded[s] \in 1..MaxCaches
        /\ \A u \in Threads : \A c \in th[u].held : c \in 1..MaxCaches
    BY BoundsLemma DEF ShardsInv
  <1>1. ShardsTypeOK'
    <2>1. generation' \in Nat /\ announced' \in Nat
      BY DEF ShardsInv, ShardsTypeOK, LaterGeneration
    <2>2. th' \in [Threads -> ThreadFrame']
      BY <1>0, <1>a
    <2> QED
      BY <2>1, <2>2 DEF ShardsInv, ShardsTypeOK
  <1>2. FramesInv'
    BY <1>0 DEF ShardsInv, FramesInv, FrameOK
  <1>3. LocksInv'
    BY <1>0 DEF ShardsInv, LocksInv, Locked
  <1>4. OwnersInv'
    BY <1>0, <1>b, ZenonT(60) DEF ShardsInv, OwnersInv, Locked, Loading
  <1>7. GenerationInv'
    <2>1. generation \in Nat /\ announced \in Nat /\ pkg \in Nat
      BY DEF ShardsInv, ShardsTypeOK
    <2>2. \A c \in 1..MaxCaches : cache'[c].gen \in Nat /\ cache'[c].ver \in Nat
      OBVIOUS
    <2>3. \A u \in Threads : th'[u].gen \in Nat /\ th'[u].ver \in Nat
      BY <1>0 DEF ThreadFrame
    <2>4. \A u \in Threads : FrameCurrent(th'[u])
      BY <1>0 DEF ShardsInv, GenerationInv
    <2>5. generation > 0 /\ announced <= pkg
      BY DEF ShardsInv, GenerationInv
    <2>6. CASE UNCHANGED <<generation, announced>>
      BY <2>4, <2>5, <2>6 DEF GenerationInv, MeasuredOK, FrameCurrent, Current
    <2>7. CASE generation' = generation + 1 /\ announced' \in Nat /\ announced' <= pkg
      <3>1. \A c \in 1..MaxCaches : MeasuredOK(cache[c])'
        BY <2>1, <2>2, <2>7 DEF MeasuredOK, Current
      <3>2. \A u \in Threads : FrameCurrent(th[u])'
        BY <2>1, <2>3, <2>4, <2>7 DEF FrameCurrent, Current
      <3> QED
        BY <2>1, <2>5, <2>7, <3>1, <3>2 DEF GenerationInv
    <2> QED
      BY <2>6, <2>7 DEF LaterGeneration
  <1> QED
    BY <1>1, <1>2, <1>3, <1>4, <1>7 DEF ShardsInv

\* A step that only moves a thread.
LEMMA FrameStep ==
    ASSUME ShardsInv, NEW t \in Threads, NEW f \in ThreadFrame,
           th' = [th EXCEPT ![t] = f],
           FrameOK(f), FrameCurrent(f), f.pc \notin Locked, th[t].pc \notin Locked,
           UNCHANGED <<shared, pkg, strays, form, past, plan, made>>,
           busy' \in BOOLEAN,
           LaterGeneration
    PROVE  ShardsInv'
  <1>1. /\ dir' \in [Shards -> [db : Nat, meta : BOOLEAN, there : BOOLEAN]]
        /\ rows' \in [1..MaxFiles -> Nat]
        /\ cache' \in [1..MaxCaches -> [shard : Nat, file : Nat, ver : Nat, gen : Nat]]
    BY DEF ShardsInv, ShardsTypeOK, shared
  <1>2. \A c \in 1..MaxCaches : /\ cache'[c].shard = cache[c].shard
                                 /\ cache'[c].file = cache[c].file
                                 /\ MeasuredOK(cache'[c])
    BY DEF ShardsInv, GenerationInv, shared
  <1>3. UNCHANGED <<loaded, retry, lock, pkg, strays, form, past, plan, made>>
    BY DEF shared
  <1> QED
    BY <1>1, <1>2, <1>3, QuietStep

\* The frame of a finished operation.
LEMMA FinishedLemma ==
    ASSUME ShardsInv, NEW t \in Threads
    PROVE  /\ Finished(t) \in ThreadFrame /\ FrameOK(Finished(t))
           /\ FrameCurrent(Finished(t)) /\ Finished(t).pc \notin Locked
  <1>1. th[t].i \in Nat /\ pkg \in Nat
    BY DEF ShardsInv, ShardsTypeOK, ThreadFrame
  <1>2. Finished(t) \in ThreadFrame
    <2>1. th[t].i + 1 \in Nat \ {0}
      BY <1>1
    <2> QED
      BY <2>1, OpenFrames DEF Finished, IdleAt, ThreadFrame, OpenFrame, Places
  <1> QED
    BY <1>1, <1>2 DEF Finished, IdleAt, FrameOK, FrameCurrent, Locked, Loading, Filling,
       Retrying, Serving, OnShard

\* What a thread's frame is worth.
LEMMA FrameLemma ==
    ASSUME ShardsInv, NEW t \in Threads
    PROVE  /\ th[t] \in ThreadFrame /\ FrameOK(th[t]) /\ FrameCurrent(th[t])
           /\ th[t].pc \in Places
           /\ busy \in BOOLEAN /\ generation \in Nat /\ announced \in Nat /\ pkg \in Nat
           /\ announced <= pkg
  BY DEF ShardsInv, ShardsTypeOK, FramesInv, GenerationInv, ThreadFrame

\* The steps of a request that only move its thread.
LEMMA RequestMoves ==
    ASSUME ShardsInv, NEW t \in Threads,
           warm_shard_hit(t) \/ Miss(t) \/ Trust(t) \/ Verify(t)
    PROVE  ShardsInv'
  <1>0. /\ th[t] \in ThreadFrame /\ FrameOK(th[t]) /\ FrameCurrent(th[t])
        /\ busy \in BOOLEAN /\ generation \in Nat /\ announced \in Nat /\ pkg \in Nat
        /\ announced <= pkg
    BY FrameLemma
  <1>1. CASE warm_shard_hit(t)
    <2> DEFINE s == Op(t).s
    <2>1. s \in Shards
      BY <1>1, OpLemma DEF warm_shard_hit, Doing, ShardsInv
    <2>2. loaded[s] \in 1..made.caches
      BY <1>1, <2>1, BoundsLemma DEF warm_shard_hit, ShardsInv
    <2>3. PICK next \in {"retry", "touch", "use"} :
              th' = [th EXCEPT ![t].pc = next, ![t].s = s, ![t].held = {loaded[s]}]
      BY <1>1 DEF warm_shard_hit
    <2> HIDE DEF s
    <2> DEFINE f == [th[t] EXCEPT !.pc = next, !.s = s, !.held = {loaded[s]}]
    <2>4. th' = [th EXCEPT ![t] = f]
      BY <2>3 DEF ShardsInv, ShardsTypeOK
    <2>5. f \in ThreadFrame
      BY <1>0, <2>1, <2>2 DEF ThreadFrame, Places
    <2>6. /\ FrameOK(f) /\ FrameCurrent(f) /\ f.pc \notin Locked /\ th[t].pc \notin Locked
      BY <1>0, <1>1, <2>1, <2>2 DEF warm_shard_hit, Doing, ThreadFrame, FrameOK, FrameCurrent,
         Locked, Loading, Filling, Retrying, Serving, OnShard
    <2> QED
      BY <1>0, <1>1, <2>4, <2>5, <2>6, FrameStep DEF warm_shard_hit, LaterGeneration
  <1>2. CASE Miss(t)
    <2> DEFINE s == Op(t).s
               f == [th[t] EXCEPT !.pc = "cold", !.s = s]
    <2>1. s \in Shards
      BY <1>2, OpLemma DEF Miss, Doing, ShardsInv
    <2>4. th' = [th EXCEPT ![t] = f]
      BY <1>2 DEF Miss, ShardsInv, ShardsTypeOK
    <2> HIDE DEF s
    <2>5. f \in ThreadFrame
      BY <1>0, <2>1 DEF ThreadFrame, Places
    <2>6. /\ FrameOK(f) /\ FrameCurrent(f) /\ f.pc \notin Locked /\ th[t].pc \notin Locked
      BY <1>0, <1>2, <2>1 DEF Miss, Doing, ThreadFrame, FrameOK, FrameCurrent,
         Locked, Loading, Filling, Retrying, Serving, OnShard
    <2> QED
      BY <1>0, <1>2, <2>4, <2>5, <2>6, FrameStep DEF Miss, LaterGeneration
  <1>3. CASE Trust(t)
    <2>1. th[t].pc \notin Locked
      BY <1>3 DEF Trust, At, Locked, Loading, Filling, Retrying
    <2> QED
      BY <1>0, <1>3, <2>1, FinishedLemma, FrameStep DEF Trust, LaterGeneration
  <1>4. CASE Verify(t)
    <2> DEFINE f == [th[t] EXCEPT !.pc = "insert", !.gen = generation, !.ver = pkg]
    <2>4. th' = [th EXCEPT ![t] = f]
      BY <1>4 DEF Verify, ShardsInv, ShardsTypeOK
    <2>5. f \in ThreadFrame
      BY <1>0 DEF ThreadFrame, Places
    <2>6. /\ FrameOK(f) /\ FrameCurrent(f) /\ f.pc \notin Locked /\ th[t].pc \notin Locked
      BY <1>0, <1>4 DEF Verify, At, ThreadFrame, FrameOK, FrameCurrent, Current,
         Locked, Loading, Filling, Retrying, Serving, OnShard
    <2> QED
      BY <1>0, <1>4, <2>4, <2>5, <2>6, FrameStep DEF Verify, LaterGeneration
  <1> QED
    BY <1>1, <1>2, <1>3, <1>4

\* A thread between the steps of a pass or a removal holds no lock and needs no
\* shard.
Resting == {"loaded", "scan", "visit", "opened", "sweep", "remove", "flush"}
LEMMA RestLemma ==
    ASSUME NEW f, f.pc \in Resting, f.gen <= pkg
    PROVE  FrameOK(f) /\ FrameCurrent(f) /\ f.pc \notin Locked
  BY DEF Resting, FrameOK, FrameCurrent, Locked, Loading, Filling, Retrying, Serving,
     OnShard

\* The snapshot of the registered shards.
LEMMA TargetsLemma ==
    ASSUME ShardsInv, NEW t \in Threads
    PROVE  /\ Loaded \in SUBSET Shards /\ Listed \in SUBSET Shards
           /\ {loaded[s] : s \in Loaded} \in SUBSET (1..made.caches)
           /\ collect_shard_targets(t) \in ThreadFrame
           /\ collect_shard_targets(t).gen = th[t].gen
  <1>1. Loaded \in SUBSET Shards /\ Listed \in SUBSET Shards
    BY DEF Loaded, Listed
  <1>2. \A s \in Loaded : loaded[s] \in 1..made.caches
    BY <1>1, BoundsLemma DEF Loaded, ShardsInv
  <1>3. {loaded[s] : s \in Loaded} \in SUBSET (1..made.caches)
    BY <1>2
  <1>4. th[t] \in ThreadFrame
    BY FrameLemma
  <1>5. collect_shard_targets(t) \in ThreadFrame
    BY <1>1, <1>3, <1>4 DEF collect_shard_targets, ThreadFrame
  <1>6. collect_shard_targets(t).gen = th[t].gen
    BY <1>4 DEF collect_shard_targets, ThreadFrame
  <1> QED
    BY <1>1, <1>3, <1>5, <1>6

\* The steps of a pass that only move its thread.
LEMMA PassMoves ==
    ASSUME ShardsInv, NEW t \in Threads,
           \/ BeginPass(t) \/ AlreadyMaintaining(t) \/ scan_disk_shard_paths(t)
           \/ LookForFile(t) \/ invalidate_package(t)
           \/ sweep_orphaned_shards_if_due(t) \/ list_shards(t)
    PROVE  ShardsInv'
  <1>0. /\ th[t] \in ThreadFrame /\ FrameOK(th[t]) /\ FrameCurrent(th[t])
        /\ busy \in BOOLEAN /\ generation \in Nat /\ announced \in Nat /\ pkg \in Nat
        /\ announced <= pkg
    BY FrameLemma
  <1>a. th[t].gen \in Nat /\ th[t].visit \in SUBSET Shards /\ th[t].ids \in SUBSET Shards
    BY <1>0 DEF ThreadFrame
  <1>b. th[t].pc \notin Locked /\ th[t].pc # "insert"
    BY DEF BeginPass, AlreadyMaintaining, scan_disk_shard_paths, LookForFile,
       invalidate_package, sweep_orphaned_shards_if_due, list_shards, Doing, At,
       Locked, Loading, Filling, Retrying
  <1>c. th[t].gen <= pkg
    BY <1>0, <1>b DEF FrameCurrent
  <1>1. CASE BeginPass(t)
    <2> DEFINE p == IF Op(t).do = "invalidate" THEN "loaded" ELSE "scan"
               q == IF Op(t).do = "invalidate" THEN "act" ELSE "list"
               f == [collect_shard_targets(t) EXCEPT !.pc = p, !.phase = q, !.gen = pkg]
    <2>1. th' = [th EXCEPT ![t] = f] /\ busy' \in BOOLEAN
      BY <1>0, <1>1 DEF BeginPass
    <2>2. p \in Resting \cap Places /\ q \in {"list", "act", "sweep"}
      BY DEF Resting, Places
    <2> HIDE DEF p, q
    <2>3. f \in ThreadFrame /\ f.pc = p /\ f.gen = pkg
      BY <1>0, <2>2, TargetsLemma DEF ThreadFrame
    <2> HIDE DEF f
    <2>4. FrameOK(f) /\ FrameCurrent(f) /\ f.pc \notin Locked
      BY <1>0, <2>2, <2>3, RestLemma
    <2> QED
      BY <1>1, <1>b, <2>1, <2>3, <2>4, FrameStep DEF BeginPass, LaterGeneration
  <1>2. CASE AlreadyMaintaining(t)
    BY <1>0, <1>2, <1>b, FinishedLemma, FrameStep DEF AlreadyMaintaining, LaterGeneration
  <1>3. CASE scan_disk_shard_paths(t)
    <2> DEFINE v == Listed \ th[t].ids
               f == [th[t] EXCEPT !.pc = "visit", !.visit = v]
    <2>1. th' = [th EXCEPT ![t] = f]
      BY <1>3 DEF scan_disk_shard_paths, ShardsInv, ShardsTypeOK
    <2>2. v \in SUBSET Shards
      BY TargetsLemma
    <2> HIDE DEF v
    <2>3. f \in ThreadFrame /\ f.pc = "visit" /\ f.gen = th[t].gen
      BY <1>0, <2>2 DEF ThreadFrame, Places
    <2> HIDE DEF f
    <2>4. FrameOK(f) /\ FrameCurrent(f) /\ f.pc \notin Locked
      BY <1>c, <2>3, RestLemma DEF Resting
    <2> QED
      BY <1>0, <1>3, <1>b, <2>1, <2>3, <2>4, FrameStep DEF scan_disk_shard_paths, LaterGeneration
  <1>4. CASE LookForFile(t)
    <2>0. PICK s \in th[t].visit :
              th' = [th EXCEPT ![t].visit = @ \ {s}, ![t].s = s,
                       ![t].pc = IF dir[s].db # 0 THEN "create" ELSE "visit",
                       ![t].open = IF dir[s].db # 0 THEN Opening ELSE NotOpening]
      BY <1>4 DEF LookForFile
    <2> DEFINE p == IF dir[s].db # 0 THEN "create" ELSE "visit"
               v == th[t].visit \ {s}
               o == IF dir[s].db # 0 THEN Opening ELSE NotOpening
               f == [th[t] EXCEPT !.visit = v, !.s = s, !.pc = p, !.open = o]
    <2>1. th' = [th EXCEPT ![t] = f]
      BY <2>0 DEF ShardsInv, ShardsTypeOK
    <2>2. /\ p \in {"create", "visit"} /\ v \in SUBSET Shards /\ s \in Shards
          /\ o \in OpenFrame
      BY <1>a, OpenFrames
    <2> HIDE DEF p, v, o
    <2>3. f \in ThreadFrame /\ f.pc = p /\ f.gen = th[t].gen /\ f.s = s
      BY <1>0, <2>2 DEF ThreadFrame, OpenFrame, Places
    <2> HIDE DEF f
    <2>4. FrameOK(f) /\ FrameCurrent(f) /\ f.pc \notin Locked
      BY <1>c, <2>2, <2>3 DEF FrameOK, FrameCurrent, Locked, Loading, Filling, Retrying,
         Serving, OnShard
    <2> QED
      BY <1>0, <1>4, <1>b, <2>1, <2>3, <2>4, FrameStep DEF LookForFile, LaterGeneration
  <1>5. CASE invalidate_package(t)
    <2>1. LaterGeneration
      BY <1>0, <1>5, <1>a, <1>c DEF invalidate_package, bump_cache_generation, LaterGeneration
    <2> QED
      BY <1>0, <1>5, <1>b, <2>1, FinishedLemma, FrameStep DEF invalidate_package
  <1>6. CASE sweep_orphaned_shards_if_due(t)
    <2> DEFINE f == [collect_shard_targets(t) EXCEPT !.pc = "scan", !.phase = "sweep"]
               g == [th[t] EXCEPT !.pc = "remove"]
    <2>1. th' = [th EXCEPT ![t] = f] \/ th' = [th EXCEPT ![t] = g]
      BY <1>6 DEF sweep_orphaned_shards_if_due, ShardsInv, ShardsTypeOK
    <2>a. collect_shard_targets(t) \in ThreadFrame /\ collect_shard_targets(t).gen = th[t].gen
      BY TargetsLemma
    <2>2. f \in ThreadFrame /\ f.pc = "scan" /\ f.gen = th[t].gen
      BY <2>a DEF ThreadFrame, Places
    <2>3. g \in ThreadFrame /\ g.pc = "remove" /\ g.gen = th[t].gen
      BY <1>0 DEF ThreadFrame, Places
    <2> HIDE DEF f, g
    <2>4. FrameOK(f) /\ FrameCurrent(f) /\ f.pc \notin Locked
      BY <1>c, <2>2, RestLemma DEF Resting
    <2>5. FrameOK(g) /\ FrameCurrent(g) /\ g.pc \notin Locked
      BY <1>c, <2>3, RestLemma DEF Resting
    <2> QED
      BY <1>0, <1>6, <1>b, <2>1, <2>2, <2>3, <2>4, <2>5, FrameStep
         DEF sweep_orphaned_shards_if_due, LaterGeneration
  <1>7. CASE list_shards(t)
    <2> DEFINE all == Listed \cup Loaded
               p == IF Op(t).do = "orphans" THEN "visit" ELSE "remove"
               v == IF Op(t).do = "orphans" THEN (Listed \ th[t].ids) \ Orphaned ELSE {}
               l == CASE Op(t).do = "clear" -> all
                      [] Op(t).do = "status" -> {}
                      [] OTHER -> all \cap Orphaned
               f == [th[t] EXCEPT !.held = {}, !.files = {}, !.phase = "act",
                        !.pc = p, !.visit = v, !.list = l]
    <2>1. th' = [th EXCEPT ![t] = f]
      BY <1>7 DEF list_shards
    <2>2. p \in Resting \cap Places /\ v \in SUBSET Shards /\ l \in SUBSET Shards
      BY TargetsLemma DEF Resting, Places
    <2> HIDE DEF p, v, l
    <2>3. f \in ThreadFrame /\ f.pc = p /\ f.gen = th[t].gen
      BY <1>0, <2>2 DEF ThreadFrame
    <2> HIDE DEF f
    <2>4. FrameOK(f) /\ FrameCurrent(f) /\ f.pc \notin Locked
      BY <1>c, <2>2, <2>3, RestLemma
    <2> QED
      BY <1>0, <1>7, <1>b, <2>1, <2>3, <2>4, FrameStep DEF list_shards, LaterGeneration
  <1> QED
    BY <1>1, <1>2, <1>3, <1>4, <1>5, <1>6, <1>7

\* The steps of a removal and a flush that only move their thread.
LEMMA RemovalMoves ==
    ASSUME ShardsInv, NEW t \in Threads,
           BeginRemoval(t) \/ EndRemovals(t) \/ flush_to_disk(t)
    PROVE  ShardsInv'
  <1>0. /\ th[t] \in ThreadFrame /\ FrameOK(th[t]) /\ FrameCurrent(th[t])
        /\ busy \in BOOLEAN /\ generation \in Nat /\ announced \in Nat /\ pkg \in Nat
        /\ announced <= pkg
    BY FrameLemma
  <1>b. th[t].pc \notin Locked /\ th[t].pc # "insert"
    BY DEF BeginRemoval, EndRemovals, flush_to_disk, Doing, At, Locked, Loading, Filling,
       Retrying
  <1>c. th[t].gen <= pkg
    BY <1>0, <1>b DEF FrameCurrent
  <1>1. CASE BeginRemoval(t)
    <2> DEFINE s == Op(t).s
               f == [th[t] EXCEPT !.pc = "remove", !.list = {s}]
    <2>1. th' = [th EXCEPT ![t] = f]
      BY <1>1 DEF BeginRemoval, ShardsInv, ShardsTypeOK
    <2>2. s \in Shards
      BY <1>1, OpLemma DEF BeginRemoval, Doing, ShardsInv
    <2> HIDE DEF s
    <2>3. f \in ThreadFrame /\ f.pc = "remove" /\ f.gen = th[t].gen
      BY <1>0, <2>2 DEF ThreadFrame, Places
    <2> HIDE DEF f
    <2>4. FrameOK(f) /\ FrameCurrent(f) /\ f.pc \notin Locked
      BY <1>c, <2>3, RestLemma DEF Resting
    <2> QED
      BY <1>0, <1>1, <1>b, <2>1, <2>3, <2>4, FrameStep DEF BeginRemoval, LaterGeneration
  <1>2. CASE EndRemovals(t)
    <2>1. LaterGeneration /\ busy' \in BOOLEAN
      BY <1>0, <1>2 DEF EndRemovals, bump_cache_generation, LaterGeneration
    <2> QED
      BY <1>2, <1>b, <2>1, FinishedLemma, FrameStep DEF EndRemovals
  <1>3. CASE flush_to_disk(t)
    <2> DEFINE h == {loaded[s] : s \in Loaded}
               f == [th[t] EXCEPT !.pc = "flush", !.held = h]
    <2>1. th' = [th EXCEPT ![t] = f]
      BY <1>3 DEF flush_to_disk, ShardsInv, ShardsTypeOK
    <2>2. h \in SUBSET (1..made.caches)
      BY TargetsLemma
    <2> HIDE DEF h
    <2>3. f \in ThreadFrame /\ f.pc = "flush" /\ f.gen = th[t].gen
      BY <1>0, <2>2 DEF ThreadFrame, Places
    <2> HIDE DEF f
    <2>4. FrameOK(f) /\ FrameCurrent(f) /\ f.pc \notin Locked
      BY <1>c, <2>3, RestLemma DEF Resting
    <2> QED
      BY <1>0, <1>3, <1>b, <2>1, <2>3, <2>4, FrameStep DEF flush_to_disk, LaterGeneration
  <1> QED
    BY <1>1, <1>2, <1>3

\* Dropping or measuring entries leaves a cache's shard and file alone.
CachesOK(d) ==
    /\ d \in [1..MaxCaches -> [shard : Nat, file : Nat, ver : Nat, gen : Nat]]
    /\ \A c \in 1..MaxCaches : /\ d[c].shard = cache[c].shard
                               /\ d[c].file = cache[c].file
                               /\ MeasuredOK(d[c])
LEMMA EmptiedLemma ==
    ASSUME ShardsInv
    PROVE  /\ CachesOK(cache)
           /\ \A c : CachesOK(Emptied(c))
           /\ \A cs : CachesOK([c \in DOMAIN cache |->
                IF c \in cs THEN [cache[c] EXCEPT !.ver = 0, !.gen = 0] ELSE cache[c]])
           /\ \A fs : EmptiedRows(fs) \in [1..MaxFiles -> Nat]
           /\ rows \in [1..MaxFiles -> Nat]
  <1>1. /\ cache \in [1..MaxCaches -> [shard : Nat, file : Nat, ver : Nat, gen : Nat]]
        /\ rows \in [1..MaxFiles -> Nat] /\ generation \in Nat
    BY DEF ShardsInv, ShardsTypeOK
  <1>2. CachesOK(cache)
    BY <1>1 DEF CachesOK, ShardsInv, GenerationInv
  <1>3. ASSUME NEW e \in [shard : Nat, file : Nat, ver : Nat, gen : Nat]
        PROVE  /\ [e EXCEPT !.ver = 0, !.gen = 0] \in
                      [shard : Nat, file : Nat, ver : Nat, gen : Nat]
               /\ [e EXCEPT !.ver = 0, !.gen = 0].shard = e.shard
               /\ [e EXCEPT !.ver = 0, !.gen = 0].file = e.file
               /\ MeasuredOK([e EXCEPT !.ver = 0, !.gen = 0])
    <2> DEFINE z == [e EXCEPT !.ver = 0, !.gen = 0]
    <2>1. /\ z \in [shard : Nat, file : Nat, ver : Nat, gen : Nat]
          /\ z.shard = e.shard /\ z.file = e.file /\ z.ver = 0 /\ z.gen = 0
      OBVIOUS
    <2> HIDE DEF z
    <2>2. MeasuredOK(z)
      BY <1>1, <2>1 DEF MeasuredOK
    <2> QED
      BY <2>1, <2>2 DEF z
  <1>4. ASSUME NEW cs
        PROVE  CachesOK([c \in DOMAIN cache |->
                IF c \in cs THEN [cache[c] EXCEPT !.ver = 0, !.gen = 0] ELSE cache[c]])
    <2> DEFINE z(c) == [cache[c] EXCEPT !.ver = 0, !.gen = 0]
    <2>1. \A c \in 1..MaxCaches :
            /\ z(c) \in [shard : Nat, file : Nat, ver : Nat, gen : Nat]
            /\ z(c).shard = cache[c].shard /\ z(c).file = cache[c].file /\ MeasuredOK(z(c))
      BY <1>1, <1>3
    <2>2. DOMAIN cache = 1..MaxCaches
      BY <1>1
    <2> HIDE DEF z
    <2>3. CachesOK([c \in DOMAIN cache |-> IF c \in cs THEN z(c) ELSE cache[c]])
      BY <1>1, <1>2, <2>1, <2>2 DEF CachesOK
    <2> QED
      BY <2>3 DEF z
  <1>5. ASSUME NEW c
        PROVE  CachesOK(Emptied(c))
    <2>1. Emptied(c) = [d \in DOMAIN cache |->
              IF d \in {c} THEN [cache[d] EXCEPT !.ver = 0, !.gen = 0] ELSE cache[d]]
      BY <1>1 DEF Emptied
    <2> QED
      BY <1>4, <2>1, ZenonT(60)
  <1>6. ASSUME NEW fs
        PROVE  EmptiedRows(fs) \in [1..MaxFiles -> Nat]
    BY <1>1 DEF EmptiedRows
  <1> QED
    BY <1>1, <1>2, <1>4, <1>5, <1>6

\* A step that moves its thread and drops or measures entries.
LEMMA EntriesStep ==
    ASSUME ShardsInv, NEW t \in Threads, NEW f \in ThreadFrame,
           th' = [th EXCEPT ![t] = f],
           FrameOK(f), FrameCurrent(f), f.pc \notin Locked, th[t].pc \notin Locked,
           CachesOK(cache'), rows' \in [1..MaxFiles -> Nat],
           UNCHANGED <<dir, loaded, retry, lock, pkg, generation, announced, busy, strays, form, past,
                       plan, made>>
    PROVE  ShardsInv'
  <1>1. /\ dir' \in [Shards -> [db : Nat, meta : BOOLEAN, there : BOOLEAN]]
        /\ busy' \in BOOLEAN
    BY DEF ShardsInv, ShardsTypeOK
  <1>2. LaterGeneration
    BY DEF LaterGeneration
  <1> QED
    BY <1>1, <1>2, QuietStep DEF CachesOK

\* The steps that drop or measure entries.
LEMMA EntrySteps ==
    ASSUME ShardsInv, NEW t \in Threads,
           \/ InsertMeasured(t) \/ InvalidateLoaded(t) \/ ActOnOpened(t)
           \/ run_maintenance(t) \/ purge_orphan_entries(t) \/ FlushOne(t)
    PROVE  ShardsInv'
  <1>0. /\ th[t] \in ThreadFrame /\ FrameOK(th[t]) /\ FrameCurrent(th[t])
        /\ busy \in BOOLEAN /\ generation \in Nat /\ announced \in Nat /\ pkg \in Nat
        /\ announced <= pkg
    BY FrameLemma
  <1>a. th[t].gen \in Nat /\ th[t].ver \in Nat /\ th[t].ids \in SUBSET Shards
        /\ th[t].held \in SUBSET (1..made.caches)
    BY <1>0 DEF ThreadFrame
  <1>b. th[t].pc \notin Locked
    BY DEF InsertMeasured, InvalidateLoaded, ActOnOpened, run_maintenance,
       purge_orphan_entries, FlushOne, Doing, At, Locked, Loading, Filling, Retrying
  <1>c. ~InsertMeasured(t) => th[t].gen <= pkg
    BY <1>0 DEF FrameCurrent, InvalidateLoaded, ActOnOpened, run_maintenance,
       purge_orphan_entries, FlushOne, Doing, At
  <1>d. /\ cache \in [1..MaxCaches -> [shard : Nat, file : Nat, ver : Nat, gen : Nat]]
        /\ rows \in [1..MaxFiles -> Nat]
    BY DEF ShardsInv, ShardsTypeOK
  <1>1. CASE InsertMeasured(t)
    <2> DEFINE c == Held(t)
               e == [cache[c] EXCEPT !.ver = th[t].ver, !.gen = th[t].gen]
    <2>1. c \in 1..MaxCaches
      BY <1>1, HeldLemma, BoundsLemma DEF InsertMeasured, At, Serving, ShardsInv
    <2>2. cache' = [cache EXCEPT ![c] = e]
      BY <1>1, <1>d DEF InsertMeasured
    <2> HIDE DEF c
    <2>3. /\ e \in [shard : Nat, file : Nat, ver : Nat, gen : Nat]
          /\ e.shard = cache[c].shard /\ e.file = cache[c].file
          /\ e.ver = th[t].ver /\ e.gen = th[t].gen
      BY <1>a, <1>d, <2>1
    <2> HIDE DEF e
    <2>4. MeasuredOK(e)
      BY <1>0, <1>1, <2>3 DEF MeasuredOK, FrameCurrent, Current, InsertMeasured, At
    <2>5. CachesOK(cache')
      <3>1. CachesOK(cache)
        BY EmptiedLemma
      <3>2. cache' \in [1..MaxCaches -> [shard : Nat, file : Nat, ver : Nat, gen : Nat]]
        BY <1>d, <2>2, <2>3
      <3>3. \A b \in 1..MaxCaches : cache'[b] = IF b = c THEN e ELSE cache[b]
        BY <1>d, <2>2
      <3> QED BY <2>3, <2>4, <3>1, <3>2, <3>3 DEF CachesOK
    <2>6. rows' \in [1..MaxFiles -> Nat]
      BY <1>1, <1>a, <1>d DEF InsertMeasured
    <2> QED
      BY <1>1, <1>b, <2>5, <2>6, FinishedLemma, EntriesStep DEF InsertMeasured
  <1>2. CASE InvalidateLoaded(t)
    <2>1. CASE th[t].held = {} /\ th' = [th EXCEPT ![t].pc = "scan"] /\ UNCHANGED <<cache, rows>>
      <3> DEFINE f == [th[t] EXCEPT !.pc = "scan"]
      <3>1. th' = [th EXCEPT ![t] = f]
        BY <2>1 DEF ShardsInv, ShardsTypeOK
      <3>2. f \in ThreadFrame /\ f.pc = "scan" /\ f.gen = th[t].gen
        BY <1>0 DEF ThreadFrame, Places
      <3> HIDE DEF f
      <3>3. FrameOK(f) /\ FrameCurrent(f) /\ f.pc \notin Locked
        BY <1>2, <1>c, <3>2, RestLemma DEF Resting, InvalidateLoaded, InsertMeasured, At
      <3>4. CachesOK(cache') /\ rows' \in [1..MaxFiles -> Nat]
        BY <2>1, EmptiedLemma
      <3> QED
        BY <1>2, <1>b, <3>1, <3>2, <3>3, <3>4, EntriesStep DEF InvalidateLoaded
    <2>2. CASE \E c \in th[t].held :
                  /\ cache' = Emptied(c)
                  /\ rows' = EmptiedRows({cache[c].file})
                  /\ th' = [th EXCEPT ![t].held = @ \ {c}]
      <3> PICK c \in th[t].held :
                  /\ cache' = Emptied(c)
                  /\ rows' = EmptiedRows({cache[c].file})
                  /\ th' = [th EXCEPT ![t].held = @ \ {c}]
        BY <2>2
      <3> DEFINE h == th[t].held \ {c}
                 f == [th[t] EXCEPT !.held = h]
      <3>1. th' = [th EXCEPT ![t] = f]
        BY DEF ShardsInv, ShardsTypeOK
      <3>2. h \in SUBSET (1..made.caches)
        BY <1>a
      <3> HIDE DEF h
      <3>3. f \in ThreadFrame /\ f.pc = "loaded" /\ f.gen = th[t].gen
        BY <1>0, <1>2, <3>2 DEF ThreadFrame, InvalidateLoaded, At
      <3> HIDE DEF f
      <3>4. FrameOK(f) /\ FrameCurrent(f) /\ f.pc \notin Locked
        BY <1>2, <1>c, <3>3, RestLemma DEF Resting, InvalidateLoaded, InsertMeasured, At
      <3>5. CachesOK(cache') /\ rows' \in [1..MaxFiles -> Nat]
        BY EmptiedLemma
      <3> QED
        BY <1>2, <1>b, <3>1, <3>3, <3>4, <3>5, EntriesStep DEF InvalidateLoaded
    <2> QED
      BY <1>2, <2>1, <2>2 DEF InvalidateLoaded
  <1>3. CASE ActOnOpened(t)
    <2> DEFINE f == [th[t] EXCEPT !.files = {}, !.pc = "visit"]
    <2>1. th' = [th EXCEPT ![t] = f]
      BY <1>3 DEF ActOnOpened, ShardsInv, ShardsTypeOK
    <2>2. f \in ThreadFrame /\ f.pc = "visit" /\ f.gen = th[t].gen
      BY <1>0 DEF ThreadFrame, Places
    <2> HIDE DEF f
    <2>3. FrameOK(f) /\ FrameCurrent(f) /\ f.pc \notin Locked
      BY <1>3, <1>c, <2>2, RestLemma DEF Resting, ActOnOpened, InsertMeasured, At
    <2>4. CachesOK(cache') /\ rows' \in [1..MaxFiles -> Nat]
      BY <1>3, EmptiedLemma DEF ActOnOpened
    <2> QED
      BY <1>3, <1>b, <2>1, <2>2, <2>3, <2>4, EntriesStep DEF ActOnOpened
  <1>4. CASE run_maintenance(t)
    <2> DEFINE f == [th[t] EXCEPT !.held = {}, !.files = {}, !.pc = "sweep"]
    <2>1. th' = [th EXCEPT ![t] = f]
      BY <1>4 DEF run_maintenance, ShardsInv, ShardsTypeOK
    <2>2. f \in ThreadFrame /\ f.pc = "sweep" /\ f.gen = th[t].gen
      BY <1>0 DEF ThreadFrame, Places
    <2> HIDE DEF f
    <2>a. th[t].gen <= pkg
      BY <1>4, <1>c DEF run_maintenance, InsertMeasured, At, Doing
    <2>3. FrameOK(f) /\ FrameCurrent(f) /\ f.pc \notin Locked
      BY <2>2, <2>a, RestLemma DEF Resting
    <2>4. CachesOK(cache') /\ rows' \in [1..MaxFiles -> Nat]
      <3> PICK cs \in SUBSET th[t].held, fs \in SUBSET th[t].files :
             /\ cache' = [c \in DOMAIN cache |->
                    IF c \in cs THEN [cache[c] EXCEPT !.ver = 0, !.gen = 0] ELSE cache[c]]
             /\ rows' = EmptiedRows({cache[c].file : c \in cs} \cup fs)
        BY <1>4 DEF run_maintenance
      <3> QED
        BY EmptiedLemma
    <2> QED
      BY <1>4, <1>b, <2>1, <2>2, <2>3, <2>4, EntriesStep DEF run_maintenance
  <1>5. CASE purge_orphan_entries(t)
    <2> DEFINE Purge(s) == /\ cache' = Emptied(loaded[s])
                           /\ rows' = EmptiedRows({cache[loaded[s]].file})
                           /\ th' = [th EXCEPT ![t].ids = @ \ {s}]
    <2>1. CASE th' = [th EXCEPT ![t].pc = "remove"] /\ UNCHANGED <<cache, rows>>
      <3> DEFINE f == [th[t] EXCEPT !.pc = "remove"]
      <3>1. th' = [th EXCEPT ![t] = f]
        BY <2>1 DEF ShardsInv, ShardsTypeOK
      <3>2. f \in ThreadFrame /\ f.pc = "remove" /\ f.gen = th[t].gen
        BY <1>0 DEF ThreadFrame, Places
      <3> HIDE DEF f
      <3>3. FrameOK(f) /\ FrameCurrent(f) /\ f.pc \notin Locked
        BY <1>5, <1>c, <3>2, RestLemma DEF Resting, purge_orphan_entries, InsertMeasured, At, Doing
      <3>4. CachesOK(cache') /\ rows' \in [1..MaxFiles -> Nat]
        BY <2>1, EmptiedLemma
      <3> QED
        BY <1>5, <1>b, <3>1, <3>2, <3>3, <3>4, EntriesStep DEF purge_orphan_entries
    <2>2. CASE \E s \in (th[t].ids \ Orphaned) \cap Loaded : Purge(s)
      <3> PICK s \in (th[t].ids \ Orphaned) \cap Loaded : Purge(s)
        BY <2>2
      <3> DEFINE h == th[t].ids \ {s}
                 f == [th[t] EXCEPT !.ids = h]
      <3>1. th' = [th EXCEPT ![t] = f]
        BY DEF ShardsInv, ShardsTypeOK
      <3>2. h \in SUBSET Shards
        BY <1>a
      <3> HIDE DEF h
      <3>3. f \in ThreadFrame /\ f.pc = "visit" /\ f.gen = th[t].gen
        BY <1>0, <1>5, <3>2 DEF ThreadFrame, purge_orphan_entries, Doing
      <3> HIDE DEF f
      <3>4. FrameOK(f) /\ FrameCurrent(f) /\ f.pc \notin Locked
        BY <1>5, <1>c, <3>3, RestLemma DEF Resting, purge_orphan_entries, InsertMeasured, At, Doing
      <3>5. CachesOK(cache') /\ rows' \in [1..MaxFiles -> Nat]
        BY EmptiedLemma
      <3> QED
        BY <1>5, <1>b, <3>1, <3>3, <3>4, <3>5, EntriesStep DEF purge_orphan_entries
    <2> QED
      BY <1>5, <2>1, <2>2 DEF purge_orphan_entries
  <1>6. CASE FlushOne(t)
    <2>1. CachesOK(cache')
      BY <1>6, EmptiedLemma DEF FlushOne
    <2>2. CASE th' = [th EXCEPT ![t] = Finished(t)] /\ UNCHANGED rows
      BY <1>6, <1>b, <1>d, <2>1, <2>2, FinishedLemma, EntriesStep DEF FlushOne
    <2>3. CASE \E c \in th[t].held :
            /\ rows' = IF cache[c].file # 0 /\ cache[c].ver # 0
                       THEN [rows EXCEPT ![cache[c].file] = cache[c].ver] ELSE rows
            /\ th' = [th EXCEPT ![t].held = @ \ {c}]
      <3> PICK c \in th[t].held :
            /\ rows' = IF cache[c].file # 0 /\ cache[c].ver # 0
                       THEN [rows EXCEPT ![cache[c].file] = cache[c].ver] ELSE rows
            /\ th' = [th EXCEPT ![t].held = @ \ {c}]
        BY <2>3
      <3> DEFINE h == th[t].held \ {c}
                 f == [th[t] EXCEPT !.held = h]
      <3>1. th' = [th EXCEPT ![t] = f]
        BY DEF ShardsInv, ShardsTypeOK
      <3>2. h \in SUBSET (1..made.caches) /\ c \in 1..MaxCaches
        BY <1>a, BoundsLemma DEF ShardsInv
      <3> HIDE DEF h
      <3>3. f \in ThreadFrame /\ f.pc = "flush" /\ f.gen = th[t].gen
        BY <1>0, <1>6, <3>2 DEF ThreadFrame, FlushOne, At
      <3> HIDE DEF f
      <3>4. FrameOK(f) /\ FrameCurrent(f) /\ f.pc \notin Locked
        BY <1>6, <1>c, <3>3, RestLemma DEF Resting, FlushOne, InsertMeasured, At
      <3>5. rows' \in [1..MaxFiles -> Nat]
        BY <1>d, <3>2
      <3> QED
        BY <1>6, <1>b, <2>1, <3>1, <3>3, <3>4, <3>5, EntriesStep DEF FlushOne
    <2> QED
      BY <1>6, <2>2, <2>3 DEF FlushOne
  <1> QED
    BY <1>1, <1>2, <1>3, <1>4, <1>5, <1>6

\* Only the holder of a shard's lock is between its steps.
LEMMA HolderLemma ==
    ASSUME ShardsInv, NEW t \in Threads, NEW s \in Shards, lock[s] \in {"free", t}
    PROVE  \A u \in Threads \ {t} : th[u].pc \in Locked => th[u].s # s
  BY DEF ShardsInv, LocksInv

\* The step touches no other shard, whose lock it may hold.
OnlyHere(t, s, f) ==
    /\ lock[s] \in {"free", t} /\ lock'[s] \in {"free", t}
    /\ th[t].pc \in Locked => th[t].s = s
    /\ f.pc \in Locked => f.s = s /\ lock'[s] = t
    /\ \A r \in Shards \ {s} :
           loaded'[r] = loaded[r] /\ lock'[r] = lock[r]

\* It leaves the shard with its own cache.
KeptAfter(t, s, f) ==
    /\ f.pc \in Loading => loaded'[s] = 0
    /\ f.pc \in Retrying => f.held = {loaded'[s]}
    /\ loaded'[s] # 0 => cache'[loaded'[s]].shard = s
    /\ f.pc \in Filling => \A c \in f.held : cache'[c].shard = s

\* A step on one shard of the thread that holds its lock, or finds it free.
LEMMA ShardStep ==
    ASSUME ShardsInv, NEW t \in Threads, NEW s \in Shards, NEW f,
           th' = [th EXCEPT ![t] = f],
           ShardsTypeOK', FrameOK(f)', FrameCurrent(f),
           made.caches <= made'.caches,
           UNCHANGED <<pkg, generation, announced, strays>>,
           \A c \in 1..MaxCaches : MeasuredOK(cache'[c]),
           OnlyHere(t, s, f), KeptAfter(t, s, f),
           \A c \in 1..made.caches : cache'[c].shard = cache[c].shard
    PROVE  ShardsInv'
  <1> USE DEF OnlyHere, KeptAfter
  <1>0. /\ th'[t] = f
        /\ \A u \in Threads \ {t} : th'[u] = th[u]
    BY MoveLemma DEF ShardsInv
  <1>a. \A u \in Threads \ {t} : th[u].pc \in Locked => th[u].s # s
    BY HolderLemma
  <1>b. /\ \A r \in Shards : loaded[r] # 0 => loaded[r] \in 1..made.caches
        /\ \A u \in Threads : \A c \in th[u].held : c \in 1..made.caches
        /\ made.caches \in Nat /\ made'.caches \in Nat
    <2>1. made'.caches \in Nat
      BY DEF ShardsTypeOK
    <2> QED
      BY <2>1, BoundsLemma DEF ShardsInv
  <1>c. \A u \in Threads : th[u].pc \in Locked => th[u].s \in Shards
    BY DEF ShardsInv, FramesInv, FrameOK, OnShard, Serving, Locked, Loading, Filling, Retrying
  <1>2. FramesInv'
    <2> SUFFICES ASSUME NEW u \in Threads PROVE FrameOK(th[u])'
      BY DEF FramesInv
    <2>1. CASE u = t
      BY <1>0, <2>1 DEF FrameOK
    <2>2. CASE u # t
      <3>1. FrameOK(th[u]) /\ th'[u] = th[u]
        BY <1>0, <2>2 DEF ShardsInv, FramesInv
      <3>2. \A c \in 1..made.caches : c \in 1..made'.caches
        BY <1>b
      <3> QED
        BY <3>1, <3>2 DEF FrameOK
    <2> QED
      BY <2>1, <2>2
  <1>3. LocksInv'
    <2> SUFFICES ASSUME NEW u \in Threads
                 PROVE  /\ th'[u].pc \in Locked => lock'[th'[u].s] = u
                        /\ th'[u].pc \in Loading => loaded'[th'[u].s] = 0
                        /\ th'[u].pc \in Retrying => th'[u].held = {loaded'[th'[u].s]}
      BY DEF LocksInv
    <2>1. CASE u = t
      BY <1>0, <2>1 DEF Locked
    <2>2. CASE u # t /\ th[u].pc \in Locked
      <3>1. th'[u] = th[u] /\ th[u].s \in Shards \ {s}
        BY <1>0, <1>a, <1>c, <2>2
      <3>2. loaded'[th[u].s] = loaded[th[u].s] /\ lock'[th[u].s] = lock[th[u].s]
        BY <3>1
      <3> QED
        BY <3>1, <3>2 DEF ShardsInv, LocksInv
    <2>3. CASE u # t /\ th[u].pc \notin Locked
      BY <1>0, <2>3 DEF Locked
    <2> QED
      BY <2>1, <2>2, <2>3
  <1>d. \A r \in Shards \ {s} : loaded[r] # 0 => cache'[loaded[r]].shard = r
    BY <1>b DEF ShardsInv, OwnersInv
  <1>e. \A u \in Threads \ {t} : \A c \in th[u].held : th[u].pc \in Filling =>
            /\ th[u].s \in Shards \ {s}
            /\ cache'[c].shard = th[u].s
    BY <1>a, <1>b, <1>c DEF ShardsInv, OwnersInv, Locked, Loading
  <1>4. OwnersInv'
    <2>1. \A r \in Shards : loaded'[r] # 0 => cache'[loaded'[r]].shard = r
      BY <1>d
    <2>2. \A u \in Threads : \A c \in th'[u].held :
              th'[u].pc \in Filling => cache'[c].shard = th'[u].s
      BY <1>0, <1>e DEF Locked, Loading
    <2> QED
      BY <2>1, <2>2 DEF OwnersInv
  <1>7. GenerationInv'
    <2>1. \A u \in Threads : FrameCurrent(th'[u])
      BY <1>0 DEF ShardsInv, GenerationInv
    <2>2. generation > 0 /\ announced <= pkg
      BY DEF ShardsInv, GenerationInv
    <2> QED
      BY <2>1, <2>2 DEF GenerationInv, MeasuredOK, FrameCurrent, Current
  <1> QED
    BY <1>2, <1>3, <1>4, <1>7 DEF ShardsInv

DirType == [Shards -> [db : Nat, meta : BOOLEAN, there : BOOLEAN]]
CacheType == [1..MaxCaches -> [shard : Nat, file : Nat, ver : Nat, gen : Nat]]

\* The types after a step on one shard.
LEMMA TypesStep ==
    ASSUME ShardsInv, NEW t \in Threads, NEW f, f \in ThreadFrame',
           th' = [th EXCEPT ![t] = f],
           made' \in [files : Nat, caches : 0..MaxCaches, faults : Nat],
           made.caches <= made'.caches,
           dir' \in DirType, rows' \in [1..MaxFiles -> Nat], cache' \in CacheType,
           loaded' \in [Shards -> 0..made'.caches],
           retry' \in [Shards -> BOOLEAN],
           lock' \in [Shards -> Threads \cup {"free"}],
           UNCHANGED <<pkg, generation, announced, busy, strays, form, past, plan>>
    PROVE  ShardsTypeOK'
  <1>1. made.caches \in Nat /\ made'.caches \in Nat
    BY DEF ShardsInv, ShardsTypeOK
  <1>2. ASSUME NEW g \in ThreadFrame PROVE g \in ThreadFrame'
    <2>1. g.held \in SUBSET (1..made.caches)
      BY <1>2 DEF ThreadFrame
    <2>2. g.held \in SUBSET (1..made'.caches)
      BY <1>1, <2>1
    <2> QED
      BY <1>2, <2>2 DEF ThreadFrame
  <1>3. th \in [Threads -> ThreadFrame']
    BY <1>2 DEF ShardsInv, ShardsTypeOK
  <1>4. th' \in [Threads -> ThreadFrame']
    BY <1>3, MoveLemma DEF ShardsInv
  <1> QED
    BY <1>4 DEF ShardsInv, ShardsTypeOK, DirType, CacheType

\* What writing a shard's metadata changes.
LEMMA DescribedLemma ==
    ASSUME ShardsInv, NEW s \in Shards
    PROVE  /\ Described(dir, s) \in DirType
           /\ Described(dir, s)[s].db = dir[s].db /\ Described(dir, s)[s].meta
           /\ \A r \in Shards \ {s} : Described(dir, s)[r] = dir[r]
  <1>1. dir \in DirType
    BY DEF ShardsInv, ShardsTypeOK, DirType
  <1> DEFINE e == [dir[s] EXCEPT !.meta = TRUE, !.there = TRUE]
  <1>2. Described(dir, s) = [dir EXCEPT ![s] = e]
    BY <1>1 DEF Described, DirType
  <1>3. e \in [db : Nat, meta : BOOLEAN, there : BOOLEAN] /\ e.db = dir[s].db /\ e.meta
    BY <1>1 DEF DirType
  <1> HIDE DEF e
  <1> QED
    BY <1>1, <1>2, <1>3 DEF DirType

\* A directory with one of its files put in, replaced or taken away.
LEMMA DirLemma ==
    ASSUME ShardsInv, NEW s \in Shards
    PROVE  /\ \A b \in Nat : [dir EXCEPT ![s].db = b] \in DirType
           /\ [dir EXCEPT ![s].db = 0] \in DirType
           /\ \A h \in BOOLEAN : [dir EXCEPT ![s].there = h] \in DirType
           /\ [dir EXCEPT ![s].db = 0, ![s].meta = FALSE] \in DirType
  <1>1. dir \in DirType
    BY DEF ShardsInv, ShardsTypeOK, DirType
  <1>2. \A b \in Nat : [dir EXCEPT ![s].db = b] \in DirType
    BY <1>1 DEF DirType
  <1>3. \A h \in BOOLEAN : [dir EXCEPT ![s].there = h] \in DirType
    BY <1>1 DEF DirType
  <1>4. [dir EXCEPT ![s].db = 0, ![s].meta = FALSE] \in DirType
    BY <1>1 DEF DirType
  <1> QED
    BY <1>2, <1>3, <1>4

\* Where a typed state keeps what a locked step needs.
LEMMA StateLemma ==
    ASSUME ShardsInv
    PROVE  /\ dir \in DirType /\ cache \in CacheType /\ rows \in [1..MaxFiles -> Nat]
           /\ made \in [files : Nat, caches : 0..MaxCaches, faults : Nat]
           /\ made.caches \in Nat
           /\ loaded \in [Shards -> 0..made.caches]
           /\ retry \in [Shards -> BOOLEAN]
           /\ lock \in [Shards -> Threads \cup {"free"}]
           /\ th \in [Threads -> ThreadFrame]
           /\ \A c \in 1..MaxCaches : MeasuredOK(cache[c])
           /\ \A c \in 1..made.caches : c \in 1..MaxCaches
  <1>1. made \in [files : Nat, caches : 0..MaxCaches, faults : Nat]
    BY DEF ShardsInv, ShardsTypeOK
  <1>2. made.caches \in Nat /\ made.caches <= MaxCaches
    BY <1>1
  <1>3. \A c \in 1..made.caches : c \in 1..MaxCaches
    BY <1>2
  <1>4. \A c \in 1..MaxCaches : MeasuredOK(cache[c])
    BY DEF ShardsInv, GenerationInv
  <1>5. /\ dir \in DirType /\ cache \in CacheType /\ rows \in [1..MaxFiles -> Nat]
        /\ loaded \in [Shards -> 0..made.caches] /\ retry \in [Shards -> BOOLEAN]
        /\ lock \in [Shards -> Threads \cup {"free"}] /\ th \in [Threads -> ThreadFrame]
    BY DEF ShardsInv, ShardsTypeOK, DirType, CacheType
  <1> QED
    BY <1>1, <1>2, <1>3, <1>4, <1>5

\* The metadata of a registered shard is written outside the lock.
LEMMA MetadataStep ==
    ASSUME ShardsInv, NEW t \in Threads, write_metadata(t)
    PROVE  ShardsInv'
  <1>0. /\ th[t] \in ThreadFrame /\ FrameOK(th[t]) /\ FrameCurrent(th[t])
    BY FrameLemma
  <1> DEFINE f == [th[t] EXCEPT !.pc = "use"]
             s == th[t].s
  <1>1. th' = [th EXCEPT ![t] = f]
    BY StateLemma DEF write_metadata
  <1>2. f \in ThreadFrame
    BY <1>0 DEF ThreadFrame, Places
  <1>3. /\ FrameOK(f) /\ FrameCurrent(f) /\ f.pc \notin Locked /\ th[t].pc \notin Locked
        /\ s \in Shards
    BY <1>0 DEF write_metadata, At, ThreadFrame, FrameOK, FrameCurrent,
       Locked, Loading, Filling, Retrying, Serving, OnShard
  <1> HIDE DEF f
  <1>4. dir' = Described(dir, s) /\ CachesOK(cache') /\ rows' \in [1..MaxFiles -> Nat]
    BY EmptiedLemma DEF write_metadata
  <1>5. dir' \in [Shards -> [db : Nat, meta : BOOLEAN, there : BOOLEAN]]
    BY <1>3, <1>4, DescribedLemma DEF DirType
  <1>6. UNCHANGED <<loaded, retry, lock, pkg, strays, form, past, plan, made>> /\ LaterGeneration
    BY DEF write_metadata, LaterGeneration
  <1>7. busy' \in BOOLEAN
    BY FrameLemma DEF write_metadata
  <1> QED
    BY <1>1, <1>2, <1>3, <1>4, <1>5, <1>6, <1>7, QuietStep DEF CachesOK

\* The same of a step that opens no file.
KeptHere(t, s, f) ==
    /\ f.pc \in Loading => loaded'[s] = 0
    /\ f.pc \in Retrying => f.held = {loaded'[s]}
    /\ loaded'[s] # 0 => cache[loaded'[s]].shard = s
    /\ f.pc \in Filling => \A c \in f.held : cache[c].shard = s

\* A step on one shard that opens no file.
LEMMA LockedMove ==
    ASSUME ShardsInv, NEW t \in Threads, NEW s \in Shards, NEW f \in ThreadFrame,
           th' = [th EXCEPT ![t] = f], FrameOK(f), FrameCurrent(f),
           made' \in [files : Nat, caches : 0..MaxCaches, faults : Nat],
           made'.caches = made.caches,
           UNCHANGED <<pkg, generation, announced, busy, strays, form, past, plan>>,
           CachesOK(cache'), rows' \in [1..MaxFiles -> Nat], dir' \in DirType,
           loaded' \in [Shards -> 0..made.caches], retry' \in [Shards -> BOOLEAN],
           lock' \in [Shards -> Threads \cup {"free"}],
           OnlyHere(t, s, f), KeptHere(t, s, f)
    PROVE  ShardsInv'
  <1>0. \A c \in 1..made.caches : c \in 1..MaxCaches
    BY StateLemma
  <1>1. f \in ThreadFrame' /\ FrameOK(f)'
    BY DEF ThreadFrame, FrameOK
  <1>2. /\ made' \in [files : Nat, caches : 0..MaxCaches, faults : Nat]
        /\ made.caches \in Nat /\ made.caches <= made'.caches
    BY StateLemma
  <1>3. ShardsTypeOK'
    BY <1>1, <1>2, TypesStep DEF CachesOK, CacheType
  <1>4. /\ \A c \in 1..MaxCaches : MeasuredOK(cache'[c])
        /\ \A c \in 1..made.caches : cache'[c].shard = cache[c].shard
    BY <1>0 DEF CachesOK
  <1>5. loaded'[s] # 0 => loaded'[s] \in 1..made.caches
    <2>1. loaded'[s] \in 0..made.caches
      OBVIOUS
    <2> QED
      BY <1>2, <2>1
  <1>6. \A c \in f.held : c \in 1..made.caches
    BY DEF ThreadFrame
  <1>7. loaded'[s] # 0 => cache'[loaded'[s]].shard = s
    BY <1>4, <1>5 DEF KeptHere
  <1>8. f.pc \in Filling => \A c \in f.held : cache'[c].shard = s
    BY <1>4, <1>6 DEF KeptHere
  <1>9. UNCHANGED <<pkg, generation, announced, strays>>
    OBVIOUS
  <1> QED
    BY <1>1, <1>2, <1>3, <1>4, <1>7, <1>8, <1>9, ShardStep DEF KeptHere, KeptAfter

LEMMA LockedStep ==
    ASSUME ShardsInv, NEW t \in Threads, NEW s \in Shards, NEW f \in ThreadFrame,
           th' = [th EXCEPT ![t] = f], FrameOK(f), FrameCurrent(f),
           UNCHANGED <<made, pkg, generation, announced, busy, strays, form, past, plan>>,
           CachesOK(cache'), rows' \in [1..MaxFiles -> Nat], dir' \in DirType,
           loaded' \in [Shards -> 0..made.caches], retry' \in [Shards -> BOOLEAN],
           lock' \in [Shards -> Threads \cup {"free"}],
           OnlyHere(t, s, f), KeptHere(t, s, f)
    PROVE  ShardsInv'
  BY StateLemma, LockedMove

\* A registered cache is its shard's own.
LEMMA RegisteredLemma ==
    ASSUME ShardsInv, NEW s \in Shards, loaded[s] # 0
    PROVE  /\ loaded[s] \in 1..made.caches
           /\ cache[loaded[s]].shard = s
  BY BoundsLemma DEF ShardsInv, OwnersInv

\* The second look at the registry, under the load lock.
LEMMA ColdStep ==
    ASSUME ShardsInv, NEW t \in Threads, ColdLock(t)
    PROVE  ShardsInv'
  <1>0. /\ th[t] \in ThreadFrame /\ FrameOK(th[t]) /\ FrameCurrent(th[t])
    BY FrameLemma
  <1> PICK s : s = th[t].s
    OBVIOUS
  <1>1. /\ s \in Shards /\ lock[s] = "free" /\ th[t].pc = "cold"
        /\ th[t].pc \notin Locked
    BY <1>0 DEF ColdLock, At, FrameOK, OnShard, Locked, Loading, Filling, Retrying
  <1>4. /\ CachesOK(cache') /\ rows' \in [1..MaxFiles -> Nat]
        /\ loaded' \in [Shards -> 0..made.caches] /\ retry' \in [Shards -> BOOLEAN]
        /\ UNCHANGED <<loaded, made, pkg, generation, announced, busy, strays, form, past, plan>>
    BY EmptiedLemma, StateLemma DEF ColdLock
  <1>5. CASE LoadedMeanwhile(s)
    <2> DEFINE f == [th[t] EXCEPT !.pc = "use", !.held = {loaded[s]}]
    <2>1. th' = [th EXCEPT ![t] = f] /\ UNCHANGED lock
      BY <1>5, StateLemma DEF ColdLock
    <2>2. dir' = dir \/ dir' = Described(dir, s)
      BY <1>5 DEF ColdLock
    <2>3. dir' \in DirType
      BY <1>1, <2>2, DescribedLemma, StateLemma
    <2>4. loaded[s] \in 1..made.caches /\ loaded[s] # 0
      BY <1>1, <1>5, BoundsLemma DEF LoadedMeanwhile, ShardsInv
    <2>5. /\ f \in ThreadFrame /\ f.pc = "use" /\ f.s = s /\ f.held = {loaded[s]}
          /\ f.gen = th[t].gen
      BY <1>0, <2>4 DEF ThreadFrame, Places
    <2>6. lock' \in [Shards -> Threads \cup {"free"}]
      BY <2>1, StateLemma
    <2> HIDE DEF f
    <2>7. /\ FrameOK(f) /\ FrameCurrent(f)
          /\ f.pc \notin Locked /\ f.pc \notin Loading /\ f.pc \notin Filling
          /\ f.pc \notin Retrying
      BY <1>0, <1>1, <2>4, <2>5 DEF FrameOK, FrameCurrent, Locked, Loading, Filling, Retrying
    <2>8. cache[loaded[s]].shard = s
      BY <1>1, <2>4, RegisteredLemma
    <2>9. OnlyHere(t, s, f)
      BY <1>1, <1>4, <2>1, <2>7 DEF OnlyHere
    <2>10. KeptHere(t, s, f)
      BY <1>4, <2>7, <2>8 DEF KeptHere
    <2> QED
      BY <1>1, <1>4, <2>1, <2>3, <2>5, <2>6, <2>7, <2>9, <2>10, LockedStep
  <1>6. CASE ~LoadedMeanwhile(s)
    <2> DEFINE f == [th[t] EXCEPT !.pc = "open", !.open = Opening]
    <2>1. th' = [th EXCEPT ![t] = f] /\ lock' = [lock EXCEPT ![s] = t] /\ dir' = dir
      BY <1>6, StateLemma DEF ColdLock
    <2>2. loaded[s] = 0
      BY <1>6 DEF LoadedMeanwhile
    <2>3. f \in ThreadFrame /\ f.pc = "open" /\ f.s = s /\ f.gen = th[t].gen
      BY <1>0, OpenFrames DEF ThreadFrame, OpenFrame, Places
    <2>4. /\ lock' \in [Shards -> Threads \cup {"free"}] /\ lock'[s] = t
          /\ \A r \in Shards \ {s} : lock'[r] = lock[r]
      BY <1>1, <2>1, StateLemma
    <2>5. dir' \in DirType
      BY <2>1, StateLemma
    <2> HIDE DEF f
    <2>6. FrameOK(f) /\ FrameCurrent(f) /\ f.pc \notin Filling \cup Retrying
      BY <1>0, <1>1, <2>3 DEF FrameOK, FrameCurrent, Serving, Filling, Retrying
    <2>7. OnlyHere(t, s, f)
      BY <1>1, <1>4, <2>1, <2>3, <2>4 DEF OnlyHere
    <2>8. KeptHere(t, s, f)
      BY <1>4, <2>2, <2>6 DEF KeptHere
    <2> QED
      BY <1>1, <1>4, <2>1, <2>3, <2>4, <2>5, <2>6, <2>7, <2>8, LockedStep
  <1> QED
    BY <1>5, <1>6

\* What the holder of a lock knows.
LEMMA LockLemma ==
    ASSUME ShardsInv, NEW t \in Threads, th[t].pc \in Locked
    PROVE  /\ th[t].s \in Shards /\ lock[th[t].s] = t
           /\ th[t].pc \in Loading => loaded[th[t].s] = 0
           /\ th[t].pc \in Retrying => th[t].held = {loaded[th[t].s]}
  BY DEF ShardsInv, FramesInv, FrameOK, LocksInv, OnShard, Serving, Locked, Loading,
     Filling, Retrying

\* Letting go of a lock.
LEMMA FreeLemma ==
    ASSUME ShardsInv, NEW s \in Shards, NEW h \in Threads \cup {"free"}
    PROVE  /\ [lock EXCEPT ![s] = h] \in [Shards -> Threads \cup {"free"}]
           /\ [lock EXCEPT ![s] = h][s] = h
           /\ \A r \in Shards \ {s} : [lock EXCEPT ![s] = h][r] = lock[r]
  BY StateLemma

\* A shard whose disk has opened is described before it is registered.
LEMMA DescribeStep ==
    ASSUME ShardsInv, NEW t \in Threads, Describe(t)
    PROVE  ShardsInv'
  <1>0. /\ th[t] \in ThreadFrame /\ FrameOK(th[t]) /\ FrameCurrent(th[t])
    BY FrameLemma
  <1> PICK s : s = th[t].s
    OBVIOUS
  <1> PICK c : c = Held(t)
    OBVIOUS
  <1>1. /\ th[t].pc = "describe" /\ th[t].pc \in Loading /\ th[t].pc \in Locked
        /\ th[t].pc \in Filling /\ th[t].pc \in Serving
    BY DEF Describe, At, Locked, Loading, Filling, Serving
  <1>2. s \in Shards /\ lock[s] = t /\ loaded[s] = 0
    BY <1>1, LockLemma
  <1>3. th[t].held = {c}
    BY <1>1, HeldLemma DEF ShardsInv
  <1> DEFINE f == [th[t] EXCEPT !.pc = "register"]
  <1>4. th' = [th EXCEPT ![t] = f]
    BY StateLemma DEF Describe
  <1>5. f \in ThreadFrame /\ f.pc = "register" /\ f.s = s /\ f.gen = th[t].gen /\ f.held = {c}
    BY <1>0, <1>3 DEF ThreadFrame, Places
  <1> HIDE DEF f
  <1>6. FrameOK(f) /\ FrameCurrent(f) /\ f.pc \notin Retrying
    BY <1>0, <1>1, <1>2, <1>3, <1>5 DEF FrameOK, FrameCurrent, Retrying
  <1>7. dir' = IF cache[c].file = 0 THEN dir ELSE Described(dir, s)
    BY DEF Describe
  <1>8. dir' \in DirType
    BY <1>2, <1>7, DescribedLemma, StateLemma
  <1>10. cache[c].shard = s
    BY <1>1, <1>3 DEF ShardsInv, OwnersInv
  <1>11. /\ CachesOK(cache') /\ rows' \in [1..MaxFiles -> Nat]
         /\ loaded' \in [Shards -> 0..made.caches] /\ retry' \in [Shards -> BOOLEAN]
         /\ lock' \in [Shards -> Threads \cup {"free"}]
         /\ UNCHANGED <<made, pkg, generation, announced, busy, strays, form, past, plan>>
         /\ UNCHANGED <<loaded, lock>>
    BY EmptiedLemma, StateLemma DEF Describe
  <1>20. OnlyHere(t, s, f)
    BY <1>2, <1>5, <1>8, <1>11 DEF OnlyHere
  <1>21. KeptHere(t, s, f)
    BY <1>2, <1>5, <1>6, <1>10, <1>11 DEF KeptHere
  <1> QED
    BY <1>2, <1>4, <1>5, <1>6, <1>8, <1>11, <1>20, <1>21, LockedStep

\* A shard is registered with the file its directory holds.
LEMMA RegisterStep ==
    ASSUME ShardsInv, NEW t \in Threads, Register(t)
    PROVE  ShardsInv'
  <1>0. /\ th[t] \in ThreadFrame /\ FrameOK(th[t]) /\ FrameCurrent(th[t])
    BY FrameLemma
  <1> PICK s : s = th[t].s
    OBVIOUS
  <1> PICK c : c = Held(t)
    OBVIOUS
  <1>1. /\ th[t].pc = "register" /\ th[t].pc \in Loading /\ th[t].pc \in Locked
        /\ th[t].pc \in Filling /\ th[t].pc \in Serving
    BY DEF Register, At, Locked, Loading, Filling, Serving
  <1>2. s \in Shards /\ lock[s] = t /\ loaded[s] = 0
    BY <1>1, LockLemma
  <1>3. th[t].held = {c} /\ c \in 1..made.caches
    BY <1>1, HeldLemma DEF ShardsInv
  <1> DEFINE f == [th[t] EXCEPT !.pc = "use"]
  <1>4. th' = [th EXCEPT ![t] = f]
    BY StateLemma DEF Register
  <1>5. f \in ThreadFrame /\ f.pc = "use" /\ f.s = s /\ f.gen = th[t].gen /\ f.held = {c}
    BY <1>0, <1>3 DEF ThreadFrame, Places
  <1> HIDE DEF f
  <1>6. /\ FrameOK(f) /\ FrameCurrent(f)
        /\ f.pc \notin Locked /\ f.pc \notin Loading /\ f.pc \notin Filling
        /\ f.pc \notin Retrying
    BY <1>0, <1>1, <1>2, <1>3, <1>5 DEF FrameOK, FrameCurrent, Locked, Loading, Filling, Retrying
  <1>7. loaded' = [loaded EXCEPT ![s] = c] /\ lock' = [lock EXCEPT ![s] = "free"] /\ dir' = dir
    BY DEF Register
  <1>8. /\ loaded' \in [Shards -> 0..made.caches] /\ loaded'[s] = c
        /\ \A r \in Shards \ {s} : loaded'[r] = loaded[r]
    BY <1>2, <1>3, <1>7, StateLemma
  <1>10. cache[c].shard = s
    BY <1>1, <1>3 DEF ShardsInv, OwnersInv
  <1>11. /\ CachesOK(cache') /\ rows' \in [1..MaxFiles -> Nat] /\ dir' \in DirType
         /\ retry' \in [Shards -> BOOLEAN]
         /\ UNCHANGED <<made, pkg, generation, announced, busy, strays, form, past, plan>>
    BY <1>7, EmptiedLemma, StateLemma DEF Register
  <1>12. /\ lock' \in [Shards -> Threads \cup {"free"}] /\ lock'[s] = "free"
         /\ \A r \in Shards \ {s} : lock'[r] = lock[r]
    BY <1>2, <1>7, FreeLemma
  <1>20. OnlyHere(t, s, f)
    BY <1>2, <1>6, <1>7, <1>8, <1>12 DEF OnlyHere
  <1>21. KeptHere(t, s, f)
    BY <1>6, <1>8, <1>10 DEF KeptHere
  <1> QED
    BY <1>2, <1>4, <1>5, <1>6, <1>8, <1>11, <1>12, <1>20, <1>21, LockedStep

\* The retry takes the lock only for the cache that is still registered.
LEMMA RetryStep ==
    ASSUME ShardsInv, NEW t \in Threads, RetryLock(t)
    PROVE  ShardsInv'
  <1>0. /\ th[t] \in ThreadFrame /\ FrameOK(th[t]) /\ FrameCurrent(th[t])
    BY FrameLemma
  <1> PICK s : s = th[t].s
    OBVIOUS
  <1> PICK c : c = Held(t)
    OBVIOUS
  <1>1. /\ th[t].pc = "retry" /\ th[t].pc \notin Locked
        /\ th[t].pc \in OnShard /\ th[t].pc \in Serving
    BY DEF RetryLock, At, Locked, Loading, Filling, Retrying, OnShard, Serving
  <1>2. s \in Shards /\ lock[s] = "free"
    BY <1>0, <1>1 DEF RetryLock, FrameOK
  <1>3. th[t].held = {c} /\ c \in 1..made.caches
    BY <1>1, HeldLemma DEF ShardsInv
  <1> PICK p \in {"reopen", "use"} : p = IF still_registered(s, c) THEN "reopen" ELSE "use"
    OBVIOUS
  <1> PICK o \in OpenFrame :
          o = IF still_registered(s, c) THEN reopen_if_unavailable(c) ELSE th[t].open
    <2>1. cache[c].file \in Nat
      BY <1>3, StateLemma DEF CacheType
    <2>2. reopen_if_unavailable(c) \in OpenFrame
      BY <2>1, OpenFrames DEF reopen_if_unavailable
    <2>3. th[t].open \in OpenFrame
      BY <1>0 DEF ThreadFrame, OpenFrame
    <2> QED
      BY <2>2, <2>3
  <1> DEFINE f == [th[t] EXCEPT !.pc = p, !.open = o]
  <1>4. th' = [th EXCEPT ![t] = f]
    BY StateLemma DEF RetryLock
  <1>5. f \in ThreadFrame /\ f.pc = p /\ f.s = s /\ f.gen = th[t].gen /\ f.held = {c}
    <2>1. f \in ThreadFrame
      BY <1>0 DEF ThreadFrame, OpenFrame, Places
    <2>2. f.pc = p /\ f.s = th[t].s /\ f.gen = th[t].gen /\ f.held = th[t].held
      BY <1>0 DEF ThreadFrame
    <2> QED
      BY <1>3, <2>1, <2>2
  <1> HIDE DEF f
  <1>6. /\ FrameOK(f) /\ FrameCurrent(f)
        /\ f.pc \notin Loading /\ f.pc \notin Filling
        /\ f.pc \in Locked => loaded[s] = c /\ lock' = [lock EXCEPT ![s] = t]
    BY <1>0, <1>1, <1>2, <1>3, <1>5 DEF FrameOK, FrameCurrent, Locked, Loading, Filling,
       Retrying, still_registered, RetryLock
  <1>7. lock' = lock \/ lock' = [lock EXCEPT ![s] = t]
    BY DEF RetryLock
  <1>8. /\ lock' \in [Shards -> Threads \cup {"free"}] /\ lock'[s] \in {"free", t}
        /\ f.pc \in Locked => lock'[s] = t
        /\ \A r \in Shards \ {s} : lock'[r] = lock[r]
    <2>1. CASE lock' = lock
      <3>1. f.pc \notin Locked
        BY <1>2, <1>6, <2>1, FreeLemma, StateLemma
      <3> QED
        BY <1>2, <2>1, <3>1, StateLemma
    <2>2. CASE lock' = [lock EXCEPT ![s] = t]
      BY <1>2, <2>2, FreeLemma
    <2> QED
      BY <1>7, <2>1, <2>2
  <1>10. loaded[s] # 0 => cache[loaded[s]].shard = s
    BY <1>2, RegisteredLemma
  <1>11. /\ CachesOK(cache') /\ rows' \in [1..MaxFiles -> Nat] /\ dir' \in DirType
         /\ loaded' \in [Shards -> 0..made.caches] /\ retry' \in [Shards -> BOOLEAN]
         /\ UNCHANGED <<made, pkg, generation, announced, busy, strays, form, past, plan>>
         /\ dir' = dir /\ loaded' = loaded
    BY EmptiedLemma, StateLemma DEF RetryLock
  <1>12. f.pc \in Retrying => f.held = {loaded'[s]}
    BY <1>5, <1>6, <1>11 DEF Locked
  <1>20. OnlyHere(t, s, f)
    BY <1>1, <1>2, <1>5, <1>8, <1>11 DEF OnlyHere
  <1>21. KeptHere(t, s, f)
    BY <1>6, <1>10, <1>11, <1>12 DEF KeptHere
  <1> QED
    BY <1>2, <1>4, <1>5, <1>6, <1>8, <1>11, <1>20, <1>21, LockedStep

\* A shard whose disk has come back is described before the lock is let go.
LEMMA ReopenedStep ==
    ASSUME ShardsInv, NEW t \in Threads, Reopened(t)
    PROVE  ShardsInv'
  <1>0. /\ th[t] \in ThreadFrame /\ FrameOK(th[t]) /\ FrameCurrent(th[t])
    BY FrameLemma
  <1> PICK s : s = th[t].s
    OBVIOUS
  <1>1. /\ th[t].pc = "reopened" /\ th[t].pc \in Retrying /\ th[t].pc \in Locked
        /\ th[t].pc \in Serving
    BY DEF Reopened, At, Locked, Retrying, Serving
  <1>2. s \in Shards /\ lock[s] = t /\ th[t].held = {loaded[s]}
    BY <1>1, LockLemma
  <1>3. loaded[s] \in 1..made.caches /\ loaded[s] # 0
    BY <1>1, <1>2, BoundsLemma DEF ShardsInv
  <1> DEFINE f == [th[t] EXCEPT !.pc = "use"]
  <1>4. th' = [th EXCEPT ![t] = f]
    BY StateLemma DEF Reopened
  <1>5. /\ f \in ThreadFrame /\ f.pc = "use" /\ f.s = s /\ f.gen = th[t].gen
        /\ f.held = {loaded[s]}
    BY <1>0, <1>2 DEF ThreadFrame, Places
  <1> HIDE DEF f
  <1>6. /\ FrameOK(f) /\ FrameCurrent(f)
        /\ f.pc \notin Locked /\ f.pc \notin Loading /\ f.pc \notin Filling
        /\ f.pc \notin Retrying
    BY <1>0, <1>1, <1>2, <1>3, <1>5 DEF FrameOK, FrameCurrent, Locked, Loading, Filling, Retrying
  <1>7. dir' = Described(dir, s) /\ lock' = [lock EXCEPT ![s] = "free"]
    BY <1>3 DEF Reopened
  <1>8. dir' \in DirType
    BY <1>2, <1>7, DescribedLemma
  <1>10. cache[loaded[s]].shard = s
    BY <1>2, <1>3, RegisteredLemma
  <1>11. /\ CachesOK(cache') /\ rows' \in [1..MaxFiles -> Nat]
         /\ retry' \in [Shards -> BOOLEAN] /\ loaded' \in [Shards -> 0..made.caches]
         /\ UNCHANGED <<made, pkg, generation, announced, busy, strays, form, past, plan>>
         /\ loaded' = loaded
    BY EmptiedLemma, StateLemma DEF Reopened
  <1>12. /\ lock' \in [Shards -> Threads \cup {"free"}] /\ lock'[s] = "free"
         /\ \A r \in Shards \ {s} : lock'[r] = lock[r]
    BY <1>2, <1>7, FreeLemma
  <1>20. OnlyHere(t, s, f)
    BY <1>2, <1>6, <1>8, <1>11, <1>12 DEF OnlyHere
  <1>21. KeptHere(t, s, f)
    BY <1>6, <1>8, <1>10, <1>11 DEF KeptHere
  <1> QED
    BY <1>2, <1>4, <1>5, <1>6, <1>8, <1>11, <1>12, <1>20, <1>21, LockedStep

\* Taking a shard out of the registry, under its load lock.
LEMMA UnregisterStep ==
    ASSUME ShardsInv, NEW t \in Threads, remove_shard_by_id(t)
    PROVE  ShardsInv'
  <1>0. /\ th[t] \in ThreadFrame /\ FrameOK(th[t]) /\ FrameCurrent(th[t])
    BY FrameLemma
  <1>1. th[t].pc = "remove" /\ th[t].pc \notin Locked
    BY DEF remove_shard_by_id, At, Locked, Loading, Filling, Retrying
  <1>2. th[t].list \in SUBSET Shards /\ th[t].removed \in BOOLEAN
    BY <1>0 DEF ThreadFrame
  <1>3. PICK s \in th[t].list :
         /\ lock[s] = "free"
         /\ loaded' = [loaded EXCEPT ![s] = 0]
         /\ retry' = [retry EXCEPT ![s] = FALSE]
         /\ IF loaded[s] = 0 THEN UNCHANGED <<cache, rows>>
            ELSE /\ cache' = Emptied(loaded[s])
                 /\ rows' = EmptiedRows({cache[loaded[s]].file})
         /\ IF dir[s].there
            THEN /\ th' = [th EXCEPT ![t].pc = "unlink", ![t].s = s,
                              ![t].list = @ \ {s}]
                 /\ lock' = [lock EXCEPT ![s] = t]
            ELSE /\ th' = [th EXCEPT ![t].list = @ \ {s},
                              ![t].removed = @ \/ loaded[s] # 0]
                 /\ UNCHANGED lock
    BY DEF remove_shard_by_id
  <1>4. s \in Shards
    BY <1>2
  <1>5. /\ CachesOK(cache') /\ rows' \in [1..MaxFiles -> Nat] /\ dir' \in DirType
        /\ dir' = dir
        /\ UNCHANGED <<made, pkg, generation, announced, busy, strays, form, past, plan>>
    <2>1. CachesOK(cache') /\ rows' \in [1..MaxFiles -> Nat]
      <3>1. CASE loaded[s] = 0
        BY <1>3, <3>1, EmptiedLemma
      <3>2. CASE loaded[s] # 0
        BY <1>3, <3>2, EmptiedLemma
      <3> QED
        BY <3>1, <3>2
    <2>2. /\ dir' = dir
          /\ UNCHANGED <<made, pkg, generation, announced, busy, strays, form, past, plan>>
      BY DEF remove_shard_by_id
    <2> QED
      BY <2>1, <2>2, StateLemma
  <1>6. /\ loaded' \in [Shards -> 0..made.caches] /\ loaded'[s] = 0
        /\ \A r \in Shards \ {s} : loaded'[r] = loaded[r]
        /\ retry' \in [Shards -> BOOLEAN]
    BY <1>3, <1>4, StateLemma
  <1>8. th[t].list \ {s} \in SUBSET Shards
    BY <1>2
  <1>9. CASE dir[s].there
    <2> DEFINE l == th[t].list \ {s}
               f == [th[t] EXCEPT !.pc = "unlink", !.s = s, !.list = l]
    <2>1. th' = [th EXCEPT ![t] = f] /\ lock' = [lock EXCEPT ![s] = t]
      BY <1>3, <1>9, StateLemma
    <2>2. l \in SUBSET Shards
      BY <1>8
    <2> HIDE DEF l
    <2>3. f \in ThreadFrame /\ f.pc = "unlink" /\ f.s = s /\ f.gen = th[t].gen
      BY <1>0, <1>4, <2>2 DEF ThreadFrame, Places
    <2> HIDE DEF f
    <2>4. FrameOK(f) /\ FrameCurrent(f) /\ f.pc \notin Filling /\ f.pc \notin Retrying
      BY <1>0, <1>1, <1>4, <2>3 DEF FrameOK, FrameCurrent, Serving, Filling, Retrying
    <2>5. /\ lock' \in [Shards -> Threads \cup {"free"}] /\ lock'[s] = t
          /\ \A r \in Shards \ {s} : lock'[r] = lock[r]
      BY <1>4, <2>1, FreeLemma
    <2>6. OnlyHere(t, s, f)
      BY <1>1, <1>3, <1>5, <1>6, <2>3, <2>5 DEF OnlyHere
    <2>7. KeptHere(t, s, f)
      BY <1>6, <2>4 DEF KeptHere
    <2> QED
      BY <1>4, <1>5, <1>6, <2>1, <2>3, <2>4, <2>5, <2>6, <2>7, LockedStep
  <1>10. CASE ~dir[s].there
    <2> DEFINE l == th[t].list \ {s}
               q == th[t].removed \/ loaded[s] # 0
               f == [th[t] EXCEPT !.list = l, !.removed = q]
    <2>1. th' = [th EXCEPT ![t] = f] /\ lock' = lock
      BY <1>3, <1>10, StateLemma
    <2>2. l \in SUBSET Shards /\ q \in BOOLEAN
      BY <1>8
    <2> HIDE DEF l, q
    <2>3. f \in ThreadFrame /\ f.pc = "remove" /\ f.s = th[t].s /\ f.gen = th[t].gen
      BY <1>0, <1>1, <2>2 DEF ThreadFrame
    <2> HIDE DEF f
    <2>4. /\ FrameOK(f) /\ FrameCurrent(f) /\ f.pc \notin Filling /\ f.pc \notin Retrying
          /\ f.pc \notin Loading /\ f.pc \notin Locked
      BY <1>0, <1>1, <2>3 DEF FrameOK, FrameCurrent, Serving, OnShard, Filling, Retrying,
         Loading, Locked
    <2>5. lock' \in [Shards -> Threads \cup {"free"}]
      BY <2>1, StateLemma
    <2>6. OnlyHere(t, s, f)
      BY <1>1, <1>3, <1>5, <1>6, <2>1, <2>4 DEF OnlyHere
    <2>7. KeptHere(t, s, f)
      BY <1>6, <2>4 DEF KeptHere
    <2> QED
      BY <1>4, <1>5, <1>6, <2>1, <2>3, <2>4, <2>5, <2>6, <2>7, LockedStep
  <1> QED
    BY <1>9, <1>10

\* Deleting an unregistered shard's files, under its load lock.
LEMMA DeleteSteps ==
    ASSUME ShardsInv, NEW t \in Threads,
           \/ remove_shard_database(t) \/ Condemn(t) \/ RemoveUnreadable(t)
           \/ RemoveEntries(t) \/ RemoveDirectory(t)
    PROVE  ShardsInv'
  <1>0. /\ th[t] \in ThreadFrame /\ FrameOK(th[t]) /\ FrameCurrent(th[t])
    BY FrameLemma
  <1> PICK s : s = th[t].s
    OBVIOUS
  <1>1. /\ th[t].pc \in {"unlink", "condemned", "unlinked", "emptied"}
        /\ th[t].pc \in Loading /\ th[t].pc \in Locked
    BY DEF remove_shard_database, Condemn, RemoveUnreadable, RemoveEntries,
       RemoveDirectory, At, Locked, Loading
  <1>2. s \in Shards /\ lock[s] = t /\ loaded[s] = 0
    BY <1>1, LockLemma
  <1>3. /\ UNCHANGED <<rows, cache, loaded, retry, pkg, generation, announced, busy,
                       strays, form, past, plan>>
    BY DEF remove_shard_database, Condemn, RemoveUnreadable, RemoveEntries,
       RemoveDirectory, shared
  <1>m. /\ made' \in [files : Nat, caches : 0..MaxCaches, faults : Nat]
        /\ made'.caches = made.caches
    <2>1. made' = made \/ made' = [made EXCEPT !.faults = @ + 1]
      BY DEF remove_shard_database, Condemn, RemoveUnreadable, RemoveEntries, RemoveDirectory
    <2> QED
      BY <2>1, StateLemma
  <1>4. /\ CachesOK(cache') /\ rows' \in [1..MaxFiles -> Nat]
        /\ loaded' \in [Shards -> 0..made.caches] /\ retry' \in [Shards -> BOOLEAN]
    BY <1>3, EmptiedLemma, StateLemma
  <1>5. th[t].gen <= pkg /\ th[t].removed \in BOOLEAN
    BY <1>0, <1>1 DEF FrameCurrent, ThreadFrame
  <1>6. dir' \in DirType
    <2>1. CASE remove_shard_database(t) \/ Condemn(t) \/ RemoveUnreadable(t)
      <3>1. dir' = dir \/ dir' = [dir EXCEPT ![s].db = 0]
        BY <2>1 DEF remove_shard_database, Condemn, RemoveUnreadable, shared
      <3> QED
        BY <1>2, <3>1, DirLemma, StateLemma
    <2>2. CASE RemoveEntries(t)
      BY <1>2, <2>2, DirLemma DEF RemoveEntries
    <2>3. CASE RemoveDirectory(t)
      <3> DEFINE h == ~(dir[s].db = 0 /\ ~dir[s].meta)
      <3>1. dir' = [dir EXCEPT ![s].there = h]
        BY <2>3 DEF RemoveDirectory
      <3>2. h \in BOOLEAN
        OBVIOUS
      <3> HIDE DEF h
      <3> QED
        BY <1>2, <3>1, <3>2, DirLemma
    <2> QED
      BY <2>1, <2>2, <2>3
  <1>7. PICK p \in {"condemned", "unlinked", "emptied", "remove"}, q \in BOOLEAN :
            /\ th' = [th EXCEPT ![t] = [th[t] EXCEPT !.pc = p, !.removed = q]]
            /\ IF p = "remove" THEN lock' = [lock EXCEPT ![s] = "free"] ELSE lock' = lock
    <2>1. CASE RemoveDirectory(t)
      <3> DEFINE q == th[t].removed \/ (dir[s].db = 0 /\ ~dir[s].meta)
      <3>1. /\ th' = [th EXCEPT ![t] = [th[t] EXCEPT !.pc = "remove", !.removed = q]]
            /\ lock' = [lock EXCEPT ![s] = "free"] /\ q \in BOOLEAN
        BY <2>1, StateLemma DEF RemoveDirectory
      <3> QED
        BY <3>1
    <2>2. CASE ~RemoveDirectory(t)
      <3>1. \A p : [th EXCEPT ![t].pc = p] =
                   [th EXCEPT ![t] = [th[t] EXCEPT !.pc = p, !.removed = th[t].removed]]
        BY <1>0, StateLemma DEF ThreadFrame
      <3>2. \E p \in {"condemned", "unlinked", "emptied", "remove"} :
               /\ th' = [th EXCEPT ![t].pc = p]
               /\ IF p = "remove" THEN lock' = [lock EXCEPT ![s] = "free"] ELSE lock' = lock
        BY <2>2 DEF remove_shard_database, Condemn, RemoveUnreadable, RemoveEntries, shared
      <3> QED
        BY <1>5, <3>1, <3>2
    <2> QED
      BY <2>1, <2>2
  <1> DEFINE f == [th[t] EXCEPT !.pc = p, !.removed = q]
  <1>8. f \in ThreadFrame /\ f.pc = p /\ f.s = s /\ f.gen = th[t].gen
    BY <1>0 DEF ThreadFrame, Places
  <1>9. th' = [th EXCEPT ![t] = f]
    BY <1>7
  <1> HIDE DEF f
  <1>10. /\ FrameOK(f) /\ FrameCurrent(f) /\ f.pc \notin Filling /\ f.pc \notin Retrying
         /\ f.pc \in Locked => f.pc # "remove"
    BY <1>2, <1>5, <1>8 DEF FrameOK, FrameCurrent, Serving, OnShard, Filling, Retrying,
       Loading, Locked
  <1>11. /\ lock' \in [Shards -> Threads \cup {"free"}] /\ lock'[s] \in {"free", t}
         /\ f.pc \in Locked => lock'[s] = t
         /\ \A r \in Shards \ {s} : lock'[r] = lock[r]
    <2>1. CASE p = "remove"
      <3>1. lock' = [lock EXCEPT ![s] = "free"]
        BY <1>7, <2>1
      <3>2. f.pc \notin Locked
        BY <1>8, <1>10, <2>1
      <3> QED
        BY <1>2, <3>1, <3>2, FreeLemma
    <2>2. CASE p # "remove"
      BY <1>2, <1>7, <2>2, StateLemma
    <2> QED
      BY <2>1, <2>2
  <1>12. OnlyHere(t, s, f)
    BY <1>2, <1>3, <1>8, <1>11 DEF OnlyHere
  <1>13. KeptHere(t, s, f)
    BY <1>2, <1>3, <1>10 DEF KeptHere
  <1> QED
    BY <1>2, <1>3, <1>4, <1>6, <1>8, <1>9, <1>10, <1>11, <1>12, <1>13, <1>m, LockedMove

\* A preloaded entry is of the installed version.
LEMMA PreloadLemma ==
    ASSUME ShardsInv, NEW n
    PROVE  Preload(n) \in {0, pkg} /\ Preload(n) \in Nat
  BY FrameLemma DEF Preload, ShardsInv, ShardsTypeOK

\* A shard that is not registered is opened under its load lock.
LEMMA OpenStep ==
    ASSUME ShardsInv, NEW t \in Threads, OpenShard(t)
    PROVE  ShardsInv'
  <1>0. /\ th[t] \in ThreadFrame /\ FrameOK(th[t]) /\ FrameCurrent(th[t])
    BY FrameLemma
  <1>a. generation \in Nat /\ generation > 0
    BY DEF ShardsInv, ShardsTypeOK, GenerationInv
  <1> PICK s : s = th[t].s
    OBVIOUS
  <1> PICK c : c = made.caches + 1
    OBVIOUS
  <1>1. th[t].pc = "open" /\ th[t].pc \in Loading /\ th[t].pc \in Locked
    BY DEF OpenShard, At, Locked, Loading
  <1>2. s \in Shards /\ lock[s] = t /\ loaded[s] = 0
    BY <1>1, LockLemma
  <1>3. /\ c \in 1..MaxCaches /\ c \in Nat
        /\ \A d \in 1..made.caches : d # c /\ d \in 1..MaxCaches
    BY StateLemma DEF OpenShard
  <1>o. PICK o : o = th[t].open.file
    OBVIOUS
  <1>4. /\ made' = [made EXCEPT !.caches = c]
        /\ cache' = [cache EXCEPT ![c] =
              [shard |-> s, file |-> o, ver |-> Preload(o), gen |-> 0]]
        /\ rows' = IF o = 0 THEN rows ELSE [rows EXCEPT ![o] = Preload(o)]
        /\ th' = [th EXCEPT ![t].pc = "describe", ![t].held = {c}, ![t].open = NotOpening]
    BY <1>o DEF OpenShard
  <1>5. o \in Nat
    BY <1>0, <1>o DEF ThreadFrame
  <1>6. /\ made' \in [files : Nat, caches : 0..MaxCaches, faults : Nat]
        /\ made'.caches = c /\ made.caches <= made'.caches
    <2>1. made \in [files : Nat, caches : 0..MaxCaches, faults : Nat] /\ made.caches \in Nat
      BY StateLemma
    <2>2. c \in 0..MaxCaches
      BY <1>3
    <2>3. /\ made' \in [files : Nat, caches : 0..MaxCaches, faults : Nat]
          /\ made'.caches = c
      BY <1>4, <2>1, <2>2
    <2> QED
      BY <2>1, <2>3
  <1> DEFINE e == [shard |-> s, file |-> o, ver |-> Preload(o), gen |-> 0]
  <1>8. /\ e \in [shard : Nat, file : Nat, ver : Nat, gen : Nat]
        /\ e.shard = s /\ e.file = o /\ e.gen = 0
    BY <1>2, <1>5, PreloadLemma DEF Shards
  <1>9. cache' = [cache EXCEPT ![c] = e]
    BY <1>4
  <1> HIDE DEF e
  <1>10. MeasuredOK(e)
    BY <1>8, <1>a DEF MeasuredOK, Current
  <1>11. /\ cache' \in CacheType /\ cache'[c] = e
         /\ \A d \in 1..MaxCaches : d # c => cache'[d] = cache[d]
         /\ \A d \in 1..MaxCaches : MeasuredOK(cache'[d])
    BY <1>3, <1>8, <1>9, <1>10, StateLemma DEF CacheType
  <1>12. rows' \in [1..MaxFiles -> Nat]
    BY <1>4, PreloadLemma, StateLemma
  <1>f. PICK f : f = [th[t] EXCEPT !.pc = "describe", !.held = {c}, !.open = NotOpening]
    OBVIOUS
  <1>13. th' = [th EXCEPT ![t] = f]
    BY <1>4, <1>f, StateLemma
  <1>14. {c} \in SUBSET (1..made'.caches)
    BY <1>3, <1>6
  <1>15. f \in ThreadFrame' /\ f.pc = "describe" /\ f.s = s /\ f.held = {c} /\ f.gen = th[t].gen
    BY <1>0, <1>14, <1>f, OpenFrames DEF ThreadFrame, OpenFrame, Places
  <1>16. FrameOK(f)'
    BY <1>2, <1>14, <1>15 DEF FrameOK
  <1>17. FrameCurrent(f) /\ f.pc \in Locked /\ f.pc \in Loading /\ f.pc \notin Retrying
    BY <1>0, <1>1, <1>15 DEF FrameCurrent, Locked, Loading, Filling, Retrying
  <1>18. UNCHANGED <<dir, loaded, retry, lock, pkg, generation, announced, busy, strays,
                     form, past, plan>>
    BY DEF OpenShard
  <1>19. loaded' \in [Shards -> 0..made'.caches]
    <2>1. \A r \in Shards : loaded[r] \in 0..made'.caches
      BY <1>6, <1>3, StateLemma
    <2> QED
      BY <1>18, <2>1, StateLemma
  <1>20. ShardsTypeOK'
    BY <1>6, <1>11, <1>12, <1>13, <1>15, <1>18, <1>19, TypesStep, StateLemma
  <1>21. \A d \in 1..made.caches : cache'[d].shard = cache[d].shard
    BY <1>3, <1>11
  <1>22. \A d \in f.held : cache'[d].shard = s
    BY <1>8, <1>11, <1>15
  <1>24. /\ lock[s] \in {"free", t} /\ lock'[s] \in {"free", t} /\ lock'[s] = t
         /\ loaded'[s] = 0
         /\ \A r \in Shards \ {s} :
                loaded'[r] = loaded[r] /\ lock'[r] = lock[r]
    BY <1>2, <1>18
  <1>25. UNCHANGED <<pkg, generation, announced, strays>>
    BY <1>18
  <1>26. OnlyHere(t, s, f)
    BY <1>15, <1>24 DEF OnlyHere
  <1>27. KeptAfter(t, s, f)
    BY <1>17, <1>22, <1>24 DEF KeptAfter
  <1> QED
    BY <1>2, <1>6, <1>11, <1>13, <1>16, <1>17, <1>20, <1>21, <1>25, <1>26, <1>27, ShardStep

\* The disk of a registered shard is opened again, under its load lock.
LEMMA ReopenStep ==
    ASSUME ShardsInv, NEW t \in Threads, reopen_disk(t)
    PROVE  ShardsInv'
  <1>0. /\ th[t] \in ThreadFrame /\ FrameOK(th[t]) /\ FrameCurrent(th[t])
        /\ generation \in Nat /\ announced \in Nat /\ pkg \in Nat /\ announced <= pkg
    BY FrameLemma
  <1>s. PICK s : s = th[t].s
    OBVIOUS
  <1>c. PICK c : c = Held(t)
    OBVIOUS
  <1>1. th[t].pc = "reopen" /\ th[t].pc \in Retrying /\ th[t].pc \in Locked /\ th[t].pc \in Serving
    BY DEF reopen_disk, At, Locked, Retrying, Serving
  <1>2. s \in Shards /\ lock[s] = t /\ th[t].held = {loaded[s]}
    BY <1>1, <1>s, LockLemma
  <1>3. c \in 1..made.caches /\ th[t].held = {c} /\ loaded[s] = c /\ c \in 1..MaxCaches /\ c # 0
    <2>1. c \in 1..made.caches /\ th[t].held = {c}
      BY <1>1, <1>c, HeldLemma DEF ShardsInv
    <2>2. loaded[s] = c
      BY <1>2, <2>1
    <2>3. c \in 1..MaxCaches /\ made.caches \in Nat
      BY <2>1, StateLemma
    <2> QED
      BY <2>1, <2>2, <2>3
  <1>4. cache \in CacheType /\ cache[c] \in [shard : Nat, file : Nat, ver : Nat, gen : Nat]
    BY <1>3, StateLemma DEF CacheType
  <1>5. cache[c].shard = s
    BY <1>2, <1>3, RegisteredLemma
  <1>o. PICK o : o = th[t].open.file
    OBVIOUS
  <1> DEFINE kept == IF cache[c].ver # 0 THEN cache[c].ver ELSE Preload(o)
  <1>6. /\ IF o = 0
           THEN /\ th' = [th EXCEPT ![t].pc = "use", ![t].open = NotOpening]
                /\ lock' = [lock EXCEPT ![s] = "free"]
                /\ UNCHANGED <<cache, rows>>
           ELSE /\ th' = [th EXCEPT ![t].pc = "reopened", ![t].open = NotOpening]
                /\ cache' = [cache EXCEPT ![c].file = o, ![c].ver = kept]
                /\ rows' = [rows EXCEPT ![o] = kept]
                /\ UNCHANGED lock
    BY <1>s, <1>c, <1>o DEF reopen_disk
  <1>7. o \in Nat
    BY <1>0, <1>o DEF ThreadFrame
  <1>10. UNCHANGED <<dir, loaded, retry, pkg, generation, announced, busy, strays, form,
                     past, plan, made>>
    BY DEF reopen_disk
  <1>8. /\ made' \in [files : Nat, caches : 0..MaxCaches, faults : Nat] /\ dir' \in DirType
        /\ made'.caches = made.caches /\ made.caches \in Nat /\ made.caches <= made'.caches
    BY <1>10, StateLemma
  <1>9. ThreadFrame' = ThreadFrame
    BY <1>10 DEF ThreadFrame
  <1>11. loaded' \in [Shards -> 0..made'.caches] /\ retry' \in [Shards -> BOOLEAN]
    BY <1>8, <1>10, StateLemma
  <1>12. UNCHANGED <<pkg, generation, announced, strays>>
    BY <1>10
  <1>f. PICK f : f = [th[t] EXCEPT !.pc = IF o = 0 THEN "use" ELSE "reopened",
                                 !.open = NotOpening]
    OBVIOUS
  <1>13. th' = [th EXCEPT ![t] = f]
    BY <1>6, <1>f, StateLemma
  <1>14. /\ f \in ThreadFrame /\ f.pc = (IF o = 0 THEN "use" ELSE "reopened")
         /\ f.s = s /\ f.held = {c} /\ f.gen = th[t].gen
    BY <1>0, <1>3, <1>f, <1>s, OpenFrames DEF ThreadFrame, OpenFrame, Places
  <1>15. /\ FrameOK(f)' /\ FrameCurrent(f) /\ f \in ThreadFrame'
         /\ f.pc \notin Loading /\ f.pc \notin Filling
         /\ f.pc \in Locked => o # 0
    BY <1>0, <1>1, <1>2, <1>3, <1>8, <1>9, <1>14 DEF FrameOK, FrameCurrent, Locked, Loading,
       Filling, Retrying
  <1>16. /\ lock' \in [Shards -> Threads \cup {"free"}] /\ lock'[s] \in {"free", t}
         /\ o # 0 => lock'[s] = t
         /\ \A r \in Shards \ {s} : lock'[r] = lock[r]
    <2>1. CASE o = 0
      <3>1. lock' = [lock EXCEPT ![s] = "free"]
        BY <1>6, <2>1
      <3> QED
        BY <1>2, <2>1, <3>1, FreeLemma
    <2>2. CASE o # 0
      <3>1. lock' = lock
        BY <1>6, <2>2
      <3> QED
        BY <1>2, <3>1, StateLemma
    <2> QED
      BY <2>1, <2>2
  <1>17. kept \in Nat /\ (cache[c].ver = 0 => kept \in {0, pkg})
         /\ (cache[c].ver # 0 => kept = cache[c].ver)
    BY <1>4, PreloadLemma
  <1> DEFINE e == [cache[c] EXCEPT !.file = o, !.ver = kept]
  <1> HIDE DEF kept
  <1>18. /\ e \in [shard : Nat, file : Nat, ver : Nat, gen : Nat]
         /\ e.shard = s /\ e.file = o /\ e.gen = cache[c].gen /\ e.ver = kept
    BY <1>4, <1>5, <1>7, <1>17
  <1>19. o # 0 => cache' = [cache EXCEPT ![c] = e]
    BY <1>4, <1>6 DEF CacheType
  <1> HIDE DEF e
  <1>20. MeasuredOK(e)
    <2>1. MeasuredOK(cache[c])
      BY <1>3, StateLemma
    <2>2. CASE cache[c].ver # 0
      BY <1>17, <1>18, <2>1, <2>2 DEF MeasuredOK
    <2>3. CASE cache[c].ver = 0
      BY <1>0, <1>17, <1>18, <2>1, <2>3 DEF MeasuredOK, Current
    <2> QED
      BY <2>2, <2>3
  <1>21. /\ cache' \in CacheType
         /\ \A d \in 1..MaxCaches : MeasuredOK(cache'[d])
         /\ cache'[c].shard = s
         /\ \A d \in 1..MaxCaches : d # c => cache'[d] = cache[d]
    <2>1. CASE o = 0
      BY <1>5, <1>6, <1>7, <2>1, StateLemma
    <2>2. CASE o # 0
      <3>1. cache' = [cache EXCEPT ![c] = e]
        BY <1>19, <2>2
      <3>2. /\ cache' \in CacheType /\ cache'[c] = e
            /\ \A d \in 1..MaxCaches : d # c => cache'[d] = cache[d]
        BY <1>3, <1>4, <1>18, <3>1 DEF CacheType
      <3>3. \A d \in 1..MaxCaches : MeasuredOK(cache[d])
        BY StateLemma
      <3>4. \A d \in 1..MaxCaches : MeasuredOK(cache'[d])
        BY <1>20, <3>2, <3>3
      <3> QED
        BY <1>18, <3>2, <3>4
    <2> QED
      BY <2>1, <2>2
  <1>22. rows' \in [1..MaxFiles -> Nat]
    BY <1>6, <1>17, StateLemma
  <1>23. ShardsTypeOK'
    BY <1>8, <1>10, <1>11, <1>13, <1>15, <1>16, <1>21, <1>22, TypesStep
  <1>24. \A d \in 1..made.caches : cache'[d].shard = cache[d].shard
    BY <1>5, <1>21, StateLemma
  <1>25. OnlyHere(t, s, f)
    BY <1>2, <1>10, <1>14, <1>15, <1>16, <1>s DEF OnlyHere
  <1>27. KeptAfter(t, s, f)
    BY <1>3, <1>10, <1>14, <1>15, <1>21 DEF KeptAfter
  <1> QED
    BY <1>2, <1>8, <1>12, <1>13, <1>15, <1>21, <1>23, <1>24, <1>25, <1>27, ShardStep

\* A pass takes what it has opened, or goes on.
LEMMA PassOpenStep ==
    ASSUME ShardsInv, NEW t \in Threads, open_existing(t)
    PROVE  ShardsInv'
  <1>0. /\ th[t] \in ThreadFrame /\ FrameOK(th[t]) /\ FrameCurrent(th[t])
        /\ busy \in BOOLEAN
    BY FrameLemma
  <1>1. th[t].pc = "create" /\ th[t].pc \notin Locked
    BY DEF open_existing, At, Locked, Loading, Filling, Retrying
  <1>2. th[t].open.file \in Nat /\ th[t].gen <= pkg
    BY <1>0, <1>1 DEF ThreadFrame, FrameCurrent
  <1> DEFINE o == th[t].open.file
             h == th[t].files \cup ({o} \ {0})
             p == IF th[t].phase = "act" /\ o # 0 THEN "opened" ELSE "visit"
             f == [th[t] EXCEPT !.files = h, !.open = NotOpening, !.pc = p]
  <1>3. th' = [th EXCEPT ![t] = f]
    BY StateLemma DEF open_existing
  <1>4. h \in SUBSET Nat /\ p \in {"opened", "visit"}
    BY <1>0, <1>2 DEF ThreadFrame
  <1> HIDE DEF h, p
  <1>5. f \in ThreadFrame /\ f.pc = p /\ f.gen = th[t].gen
    BY <1>0, <1>4, OpenFrames DEF ThreadFrame, OpenFrame, Places
  <1> HIDE DEF f
  <1>6. FrameOK(f) /\ FrameCurrent(f) /\ f.pc \notin Locked
    BY <1>2, <1>4, <1>5, RestLemma DEF Resting
  <1> QED
    BY <1>0, <1>1, <1>3, <1>5, <1>6, FrameStep DEF open_existing, LaterGeneration

\* An open moves its thread's `open' and nothing else of it.
LEMMA OpenLemma ==
    ASSUME ShardsInv, NEW t \in Threads, open_database(t)
    PROVE  \E o \in OpenFrame : th' = [th EXCEPT ![t].open = o]
  <1>0. /\ th[t] \in ThreadFrame /\ FrameOK(th[t]) /\ FrameCurrent(th[t])
        /\ dir \in DirType /\ th[t].s \in Shards
        /\ dir[th[t].s] \in [db : Nat, meta : BOOLEAN, there : BOOLEAN]
    <2>1. th[t].s \in Shards
      BY FrameLemma DEF open_database, LookAtPath, create_database, CreateFails, ensure_schema,
         recreate_database, OpenFaults, Stage, FrameOK, OnShard, Serving
    <2> QED
      BY <2>1, FrameLemma, StateLemma DEF DirType
  <1>a. th[t].open \in OpenFrame /\ th[t].open.file \in Nat
    BY <1>0 DEF ThreadFrame, OpenFrame
  <1>b. made \in [files : Nat, caches : 0..MaxCaches, faults : Nat]
    BY StateLemma
  <1>f. (IF dir[th[t].s].db = 0 THEN made.files + 1 ELSE dir[th[t].s].db) \in Nat
    BY <1>0, <1>b
  <1> DEFINE q == th[t].open
  <1>1. CASE LookAtPath(t)
    <2> DEFINE x == dir[th[t].s].db # 0
               o == [q EXCEPT !.stage = "open", !.existed = x]
    <2>1. th' = [th EXCEPT ![t].open = o]
      BY <1>1 DEF LookAtPath
    <2>2. x \in BOOLEAN
      OBVIOUS
    <2> HIDE DEF x
    <2>3. o \in OpenFrame
      BY <1>a, <2>2 DEF OpenFrame, Stages
    <2> QED
      BY <2>1, <2>3
  <1>2. CASE create_database(t)
    <2> PICK f \in Nat : th' = [th EXCEPT ![t].open = [@ EXCEPT !.stage = "schema", !.file = f]]
      BY <1>f, <1>2 DEF create_database
    <2>1. th' = [th EXCEPT ![t].open = [q EXCEPT !.stage = "schema", !.file = f]]
      BY <1>0, StateLemma DEF ThreadFrame
    <2>2. [q EXCEPT !.stage = "schema", !.file = f] \in OpenFrame
      BY <1>a DEF OpenFrame, Stages
    <2> QED
      BY <2>1, <2>2
  <1>3. CASE CreateFails(t)
    <2>1. CASE th' = [th EXCEPT ![t].open = OpenedAs(0)]
      BY <2>1, OpenFrames
    <2>2. CASE th' = [th EXCEPT ![t].open = [@ EXCEPT !.stage = "unlink", !.file = dir[th[t].s].db]]
      <3> PICK f \in Nat : f = dir[th[t].s].db
        BY <1>0
      <3>1. th' = [th EXCEPT ![t].open = [q EXCEPT !.stage = "unlink", !.file = f]]
        BY <1>0, <2>2, StateLemma DEF ThreadFrame
      <3>2. [q EXCEPT !.stage = "unlink", !.file = f] \in OpenFrame
        BY <1>a DEF OpenFrame, Stages
      <3> QED
        BY <3>1, <3>2
    <2> QED
      BY <1>3, <2>1, <2>2 DEF CreateFails
  <1>4. CASE ensure_schema(t)
    <2>1. CASE th' = [th EXCEPT ![t].open = [@ EXCEPT !.stage = "done"]]
      <3>1. th' = [th EXCEPT ![t].open = [q EXCEPT !.stage = "done"]]
        BY <1>0, <2>1, StateLemma DEF ThreadFrame
      <3>2. [q EXCEPT !.stage = "done"] \in OpenFrame
        BY <1>a DEF OpenFrame, Stages
      <3> QED
        BY <3>1, <3>2
    <2>2. CASE th' = [th EXCEPT ![t].open = IF q.again THEN OpenedAs(0)
                                            ELSE [q EXCEPT !.stage = "unlink"]]
      <3>1. [q EXCEPT !.stage = "unlink"] \in OpenFrame
        BY <1>a DEF OpenFrame, Stages
      <3> QED
        BY <2>2, <3>1, OpenFrames
    <2> QED
      BY <1>4, <2>1, <2>2 DEF ensure_schema
  <1>5. CASE recreate_database(t)
    <2>1. [Opening EXCEPT !.stage = "open", !.again = TRUE] \in OpenFrame
      BY DEF Opening, NotOpening, OpenFrame, Stages
    <2> QED
      BY <1>5, <2>1, OpenFrames DEF recreate_database
  <1>6. CASE OpenFaults(t)
    BY <1>6, OpenFrames DEF OpenFaults
  <1> QED
    BY <1>1, <1>2, <1>3, <1>4, <1>5, <1>6 DEF open_database

\* The steps of an open leave the locks and registrations alone.
LEMMA OpenMoves ==
    ASSUME ShardsInv, NEW t \in Threads, open_database(t)
    PROVE  ShardsInv'
  <1>0. /\ th[t] \in ThreadFrame /\ FrameOK(th[t]) /\ FrameCurrent(th[t])
        /\ dir \in DirType /\ th[t].s \in Shards
        /\ dir[th[t].s] \in [db : Nat, meta : BOOLEAN, there : BOOLEAN]
    <2>1. th[t].s \in Shards
      BY FrameLemma DEF open_database, LookAtPath, create_database, CreateFails, ensure_schema,
         recreate_database, OpenFaults, Stage, FrameOK, OnShard, Serving
    <2> QED
      BY <2>1, FrameLemma, StateLemma DEF DirType
  <1>1. UNCHANGED <<rows, cache, loaded, retry, lock, pkg, generation, announced, busy, plan>>
    BY DEF open_database, LookAtPath, create_database, CreateFails, ensure_schema,
       recreate_database, OpenFaults, shared
  <1>a. th[t].open \in OpenFrame /\ th[t].open.file \in Nat
    BY <1>0 DEF ThreadFrame, OpenFrame
  <1>b. made \in [files : Nat, caches : 0..MaxCaches, faults : Nat]
    BY StateLemma
  <1>f. (IF dir[th[t].s].db = 0 THEN made.files + 1 ELSE dir[th[t].s].db) \in Nat
    BY <1>0, <1>b
  <1>2. PICK o \in OpenFrame : th' = [th EXCEPT ![t].open = o]
    BY OpenLemma
  <1> DEFINE f == [th[t] EXCEPT !.open = o]
  <1>3. th' = [th EXCEPT ![t] = f]
    BY <1>2, StateLemma
  <1>4. /\ f \in ThreadFrame /\ f.pc = th[t].pc /\ f.s = th[t].s /\ f.held = th[t].held
        /\ f.gen = th[t].gen /\ f.ver = th[t].ver
    BY <1>0 DEF ThreadFrame, OpenFrame
  <1> HIDE DEF f
  <1>5. th'[t] = f /\ \A u \in Threads \ {t} : th'[u] = th[u]
    BY <1>3, StateLemma
  <1>6. /\ \A u \in Threads : /\ th'[u].pc = th[u].pc /\ th'[u].s = th[u].s
                              /\ th'[u].held = th[u].held
                              /\ th'[u].gen = th[u].gen /\ th'[u].ver = th[u].ver
    BY <1>4, <1>5
  <1>7. made' \in [files : Nat, caches : 0..MaxCaches, faults : Nat] /\ made'.caches = made.caches
    <2>1. made' = made \/ (\E n \in Nat : made' = [made EXCEPT !.files = n])
                       \/ made' = [made EXCEPT !.faults = @ + 1]
      <3>1. CASE create_database(t)
        <4> DEFINE g == IF dir[th[t].s].db = 0 THEN made.files + 1 ELSE dir[th[t].s].db
        <4>1. made' = [made EXCEPT !.files = IF g > @ THEN g ELSE @]
          BY <3>1 DEF create_database
        <4> QED
          BY <1>b, <1>f, <4>1
      <3>2. CASE ~create_database(t)
        BY <3>2 DEF open_database, LookAtPath, CreateFails, ensure_schema, recreate_database,
           OpenFaults
      <3> QED
        BY <3>1, <3>2
    <2> QED
      BY <1>b, <2>1
  <1>8. ThreadFrame' = ThreadFrame
    BY <1>7 DEF ThreadFrame
  <1>9. dir' \in DirType
    <2>1. /\ \A b \in Nat : [dir EXCEPT ![th[t].s].db = b] \in DirType
          /\ [dir EXCEPT ![th[t].s].there = TRUE] \in DirType
      BY <1>0, DirLemma
    <2>2. CASE LookAtPath(t)
      BY <1>0, <2>1, <2>2 DEF LookAtPath
    <2>3. CASE create_database(t)
      BY <1>f, <2>1, <2>3 DEF create_database
    <2>4. CASE recreate_database(t)
      BY <1>0, <2>1, <2>4 DEF recreate_database
    <2> QED
      BY <1>0, <2>2, <2>3, <2>4 DEF open_database, CreateFails, ensure_schema, OpenFaults, shared
  <1>10. strays' \in SUBSET Shards /\ form' \in [1..MaxFiles -> Forms]
    <2>1. strays' \in SUBSET Shards
      BY <1>0 DEF open_database, LookAtPath, create_database, CreateFails, ensure_schema,
         recreate_database, OpenFaults, Stray, ShardsInv, ShardsTypeOK
    <2>2. form \in [1..MaxFiles -> Forms] /\ "good" \in Forms
      BY DEF ShardsInv, ShardsTypeOK, Forms
    <2>3. form' = form \/ form' = [form EXCEPT ![th[t].open.file] = "good"]
      BY DEF open_database, LookAtPath, create_database, CreateFails, ensure_schema,
         recreate_database, OpenFaults
    <2> QED
      BY <2>1, <2>2, <2>3
  <1>11. past' \in [opener : [Shards -> Threads \cup {"free"}], torn : SUBSET Nat]
    <2>1. past \in [opener : [Shards -> Threads \cup {"free"}], torn : SUBSET Nat]
      BY DEF ShardsInv, ShardsTypeOK
    <2>2. \/ past' = past
          \/ past' = [past EXCEPT !.opener[th[t].s] = t]
          \/ past' = [past EXCEPT !.torn = @ \cup {dir[th[t].s].db}]
      BY DEF open_database, LookAtPath, create_database, CreateFails, ensure_schema,
         recreate_database, OpenFaults
    <2> QED
      BY <1>0, <2>1, <2>2
  <1>12. ShardsTypeOK'
    <2>1. th' \in [Threads -> ThreadFrame']
      BY <1>3, <1>4, <1>8, StateLemma
    <2> QED
      BY <1>1, <1>7, <1>9, <1>10, <1>11, <2>1 DEF ShardsInv, ShardsTypeOK, DirType
  <1>13. FramesInv' /\ LocksInv' /\ OwnersInv'
    BY <1>1, <1>6, <1>7 DEF ShardsInv, FramesInv, FrameOK, LocksInv, OwnersInv
  <1>14. GenerationInv'
    BY <1>1, <1>6 DEF ShardsInv, GenerationInv, MeasuredOK, FrameCurrent, Current
  <1> QED
    BY <1>12, <1>13, <1>14 DEF ShardsInv

\* The package changes under the daemon.
LEMMA InstallStep ==
    ASSUME ShardsInv, Install
    PROVE  ShardsInv'
  <1>1. /\ UNCHANGED <<dir, rows, cache, loaded, retry, lock, generation, announced, busy,
                       strays, form, past, plan, th, made>>
        /\ pkg' = pkg + 1 /\ pkg \in Nat
    BY DEF Install, shared, ShardsInv, ShardsTypeOK
  <1>2. ShardsTypeOK'
    <2>1. ThreadFrame' = ThreadFrame
      BY <1>1 DEF ThreadFrame
    <2>2. th' \in [Threads -> ThreadFrame'] /\ pkg' \in Nat
      BY <1>1, <2>1 DEF ShardsInv, ShardsTypeOK
    <2> QED
      BY <1>1, <2>2 DEF ShardsInv, ShardsTypeOK
  <1>3. FramesInv' /\ LocksInv' /\ OwnersInv'
    BY <1>1 DEF ShardsInv, FramesInv, FrameOK, LocksInv, OwnersInv
  <1>4. GenerationInv'
    <2>1. \A t \in Threads : th[t].gen \in Nat
      BY DEF ShardsInv, ShardsTypeOK, ThreadFrame
    <2>2. announced \in Nat
      BY DEF ShardsInv, ShardsTypeOK
    <2>3. \A t \in Threads : FrameCurrent(th[t])'
      BY <1>1, <2>1 DEF ShardsInv, GenerationInv, FrameCurrent, Current
    <2> QED
      BY <1>1, <2>2, <2>3 DEF ShardsInv, GenerationInv, MeasuredOK, Current
  <1> QED
    BY <1>2, <1>3, <1>4 DEF ShardsInv

\* What earlier sessions left is consistent.
LEMMA ShardsStart ==
    ASSUME ShardsInit
    PROVE  ShardsInv
  <1> PICK present \in SUBSET Shards :
         /\ dir = [s \in Shards |->
               [db |-> IF s \in present THEN s ELSE 0,
                meta |-> s \in present, there |-> s \in present]]
         /\ rows = [n \in 1..MaxFiles |-> IF n \in present THEN 1 ELSE 0]
         /\ \E left \in [present -> Forms] :
              form = [n \in 1..MaxFiles |-> IF n \in present THEN left[n] ELSE "blank"]
    BY DEF ShardsInit
  <1> PICK left \in [present -> Forms] :
         form = [n \in 1..MaxFiles |-> IF n \in present THEN left[n] ELSE "blank"]
    OBVIOUS
  <1>0. /\ cache = [c \in 1..MaxCaches |-> [shard |-> 0, file |-> 0, ver |-> 0, gen |-> 0]]
        /\ loaded = [s \in Shards |-> 0]
        /\ retry = [s \in Shards |-> FALSE]
        /\ lock = [s \in Shards |-> "free"]
        /\ pkg = 1 /\ generation = 1 /\ announced = 1
        /\ past = [opener |-> [s \in Shards |-> "free"], torn |-> {}]
        /\ made = [files |-> NShards, caches |-> 0, faults |-> 0]
        /\ busy = FALSE /\ strays = {}
        /\ plan \in Plans
        /\ th = [t \in Threads |-> IdleAt(1)]
    BY DEF ShardsInit
  <1>1. NShards \in Nat
    OBVIOUS
  <1>2. /\ form \in [1..MaxFiles -> Forms]
        /\ past \in [opener : [Shards -> Threads \cup {"free"}], torn : SUBSET Nat]
    BY <1>0 DEF Forms
  <1>3. dir \in DirType
    BY <1>1 DEF DirType, Shards
  <1>4. /\ made \in [files : Nat, caches : 0..MaxCaches, faults : Nat] /\ made.caches = 0
    BY <1>0, <1>1
  <1>5. IdleAt(1) \in ThreadFrame
    BY <1>4, OpenFrames DEF IdleAt, ThreadFrame, OpenFrame, Places
  <1>6. /\ \A t \in Threads : th[t].pc = "idle" /\ th[t].gen = 0 /\ th[t].held = {}
    BY <1>0 DEF IdleAt
  <1>7. ShardsTypeOK
    <2>1. rows \in [1..MaxFiles -> Nat]
      OBVIOUS
    <2>2. loaded \in [Shards -> 0..made.caches]
      BY <1>0, <1>4
    <2>3. th \in [Threads -> ThreadFrame]
      BY <1>0, <1>5
    <2> QED
      BY <1>0, <1>2, <1>3, <1>4, <2>1, <2>2, <2>3 DEF ShardsTypeOK, DirType
  <1>8. FramesInv /\ LocksInv
    BY <1>6 DEF FramesInv, FrameOK, LocksInv, Serving, OnShard, Locked, Loading, Filling, Retrying
  <1>9. OwnersInv
    BY <1>0, <1>6 DEF OwnersInv
  <1>11. GenerationInv
    BY <1>0, <1>6 DEF GenerationInv, MeasuredOK, FrameCurrent, Current
  <1> QED
    BY <1>7, <1>8, <1>9, <1>11 DEF ShardsInv

\* Every step keeps the registry consistent.
LEMMA ShardsPreserved ==
    ASSUME ShardsInv, [ShardsNext]_shardVars
    PROVE  ShardsInv'
  <1>1. CASE Install
    BY <1>1, InstallStep
  <1>2. ASSUME NEW t \in Threads, Serve(t) PROVE ShardsInv'
    BY <1>2, RequestMoves, MetadataStep, ColdStep, OpenStep, DescribeStep, RegisterStep,
       RetryStep, ReopenStep, ReopenedStep, EntrySteps DEF Serve
  <1>3. ASSUME NEW t \in Threads, Pass(t) PROVE ShardsInv'
    BY <1>3, PassMoves, EntrySteps, PassOpenStep DEF Pass
  <1>4. ASSUME NEW t \in Threads, Removal(t) PROVE ShardsInv'
    BY <1>4, RemovalMoves, UnregisterStep, DeleteSteps, EntrySteps DEF Removal
  <1>5. CASE UNCHANGED shardVars
    <2>1. ThreadFrame' = ThreadFrame
      BY <1>5 DEF ThreadFrame, shardVars
    <2>2. ShardsTypeOK'
      BY <1>5, <2>1 DEF ShardsInv, ShardsTypeOK, shardVars
    <2>3. FramesInv' /\ LocksInv' /\ OwnersInv'
      BY <1>5 DEF ShardsInv, FramesInv, FrameOK, LocksInv, OwnersInv, shardVars
    <2>4. GenerationInv'
      BY <1>5 DEF ShardsInv, GenerationInv, MeasuredOK, FrameCurrent, Current, shardVars
    <2> QED
      BY <2>2, <2>3, <2>4 DEF ShardsInv
  <1>6. ASSUME NEW t \in Threads, open_database(t) PROVE ShardsInv'
    BY <1>6, OpenMoves
  <1> QED
    BY <1>1, <1>2, <1>3, <1>4, <1>5, <1>6 DEF ShardsNext, OneThread, Done

----------------------------------------------------------------------------
(***************************************************************************)
(* The databases.  A loader's file stays in its directory under the load   *)
(* lock; a pass works without it, and what it may unlink is what it has    *)
(* found itself, or is torn.                                               *)
(***************************************************************************)

\* The file a shard's registered cache uses, the one a loader has opened for it,
\* and the ones a pass holds.
Openers == {"open", "reopen", "create"}
ShardFile(s) == IF loaded[s] = 0 THEN 0 ELSE cache[loaded[s]].file
LoaderFile(t) ==
    IF th[t].pc \in Filling THEN cache[Held(t)].file
    ELSE IF th[t].pc \in {"open", "reopen"} /\ HoldsOpen(t) THEN th[t].open.file ELSE 0
PassFiles(t) ==
    th[t].files \cup
        IF th[t].pc = "create" /\ HoldsOpen(t) THEN {th[t].open.file} \ {0} ELSE {}

OpensInv ==
    \A t \in Threads : th[t].pc \notin Openers => th[t].open.stage = "none"

\* Files are numbered as they are made, and each is in one directory at most.
NumbersInv ==
    /\ \A s \in Shards : /\ dir[s].db <= made.files
                         /\ dir[s].db # 0 => dir[s].there
                         /\ dir[s].db \notin past.torn
    /\ \A s, r \in Shards : dir[s].db = dir[r].db /\ dir[s].db # 0 => s = r
    /\ \A c \in 1..MaxCaches : cache[c].file <= made.files
    /\ \A t \in Threads : /\ \A f \in th[t].files : f <= made.files /\ f # 0
                          /\ th[t].open.file <= made.files
    /\ \A f \in past.torn : f <= made.files /\ f # 0

\* A file in use is the one in its directory, or is torn.
FilesInv ==
    /\ \A s \in Shards :
           ShardFile(s) # 0 /\ ShardFile(s) \notin past.torn => dir[s].db = ShardFile(s)
    /\ \A t \in Threads :
           LoaderFile(t) # 0 /\ LoaderFile(t) \notin past.torn =>
               dir[th[t].s].db = LoaderFile(t)

\* A thread's verdict stands while it is the last to have opened the file: then
\* nobody else uses it.
Stands(t) ==
    /\ th[t].pc \in Openers /\ th[t].open.stage \in {"schema", "unlink"}
    /\ th[t].open.file # 0 /\ dir[th[t].s].db = th[t].open.file
    /\ past.opener[th[t].s] = t
Alone(t) ==
    /\ \A s \in Shards : ShardFile(s) # th[t].open.file
    /\ \A u \in Threads \ {t} : LoaderFile(u) # th[t].open.file
StandingInv == \A t \in Threads : Stands(t) => Alone(t)

\* A database without metadata that no pass has opened so: its shard is
\* registered or someone with its lock will see to it, no pass holds it, and a
\* cache that has it is about to be described.
Bare(s) == dir[s].db # 0 /\ ~dir[s].meta /\ s \notin strays
Tending == {"open", "describe", "register", "unlink", "condemned"}
Tended(s) ==
    loaded[s] # 0 \/ \E u \in Threads : th[u].s = s /\ th[u].pc \in Tending
Tells(u, s, c) ==
    th[u].s = s /\ th[u].pc \in {"describe", "reopened"} /\ c \in th[u].held
DescribedInv ==
    \A s \in Shards : Bare(s) =>
        /\ Tended(s)
        /\ \A u \in Threads : dir[s].db \notin PassFiles(u)
        /\ \A c \in 1..MaxCaches :
               cache[c].file = dir[s].db => \E u \in Threads : Tells(u, s, c)

DatabasesInv ==
    /\ OpensInv
    /\ NumbersInv
    /\ FilesInv
    /\ StandingInv
    /\ DescribedInv

\* A step that leaves the files, their directories and their users alone.
QuietFor(t) ==
    /\ UNCHANGED <<loaded, strays, past>> /\ made'.files = made.files
    /\ \A c \in 1..MaxCaches : cache'[c].file = cache[c].file
    /\ \A r \in Shards : /\ dir'[r].db = dir[r].db
                         /\ dir[r].meta => dir'[r].meta
                         /\ dir[r].there => dir'[r].there
    /\ \A u \in Threads \ {t} : th'[u] = th[u]
    /\ th[t].pc \notin Locked \cup {"create"} /\ th'[t].pc \notin Locked
    /\ th'[t].files \subseteq th[t].files
    /\ th'[t].open.stage = IF th'[t].pc = "create" THEN "look" ELSE "none"
    /\ th'[t].open.file \in {0, th[t].open.file}

\* Who opens a database, or has one open, does so for a shard; a loader has its
\* lock.
LEMMA UsersLemma ==
    ASSUME ShardsInv, NEW u \in Threads
    PROVE  /\ th[u].pc \in Openers => th[u].s \in Shards
           /\ LoaderFile(u) # 0 => th[u].s \in Shards /\ lock[th[u].s] = u
  <1>1. th[u].pc \in Openers \cup Filling => th[u].s \in Shards
    BY DEF ShardsInv, FramesInv, FrameOK, OnShard, Serving, Openers, Filling
  <1>2. LoaderFile(u) # 0 => th[u].pc \in {"open", "reopen"} \cup Filling
    BY DEF LoaderFile
  <1>3. th[u].pc \in {"open", "reopen"} \cup Filling => lock[th[u].s] = u
    BY DEF ShardsInv, LocksInv, Locked, Loading, Retrying
  <1> QED
    BY <1>1, <1>2, <1>3 DEF Openers

\* What a shard's cache and an unmoved loader use when no cache changes its file.
LEMMA SameFiles ==
    ASSUME ShardsInv, \A c \in 1..MaxCaches : cache'[c].file = cache[c].file
    PROVE  /\ \A r \in Shards : loaded'[r] = loaded[r] => ShardFile(r)' = ShardFile(r)
           /\ \A u \in Threads : th'[u] = th[u] => LoaderFile(u)' = LoaderFile(u)
  <1>1. \A r \in Shards : loaded[r] # 0 => loaded[r] \in 1..MaxCaches
    BY BoundsLemma DEF ShardsInv
  <1>2. \A u \in Threads : th[u].pc \in Filling => Held(u) \in 1..MaxCaches
    BY HeldLemma, StateLemma DEF ShardsInv, Filling, Serving
  <1>3. ASSUME NEW u \in Threads, th'[u] = th[u] PROVE LoaderFile(u)' = LoaderFile(u)
    <2>1. Held(u)' = Held(u) /\ HoldsOpen(u)' = HoldsOpen(u)
      BY <1>3 DEF Held, HoldsOpen
    <2> QED
      BY <1>2, <1>3, <2>1 DEF LoaderFile
  <1>4. \A r \in Shards : loaded'[r] = loaded[r] => ShardFile(r)' = ShardFile(r)
    BY <1>1 DEF ShardFile
  <1> QED
    BY <1>3, <1>4

LEMMA QuietDatabases ==
    ASSUME ShardsInv, DatabasesInv, NEW t \in Threads, QuietFor(t)
    PROVE  DatabasesInv'
  <1>1. /\ \A r \in Shards : ShardFile(r)' = ShardFile(r)
        /\ \A u \in Threads \ {t} : LoaderFile(u)' = LoaderFile(u)
    BY SameFiles DEF QuietFor
  <1>2. LoaderFile(t) = 0 /\ LoaderFile(t)' = 0
    BY DEF QuietFor, LoaderFile, Locked, Loading, Filling, Retrying
  <1>3. \A u \in Threads : PassFiles(u)' \subseteq PassFiles(u)
    BY DEF QuietFor, PassFiles, HoldsOpen
  <1>4. OpensInv'
    BY DEF DatabasesInv, OpensInv, QuietFor, Openers
  <1>5. NumbersInv'
    <2>1. made.files \in Nat
      BY StateLemma
    <2>2. \A u \in Threads : \A f \in th'[u].files : f \in th[u].files
      BY DEF QuietFor
    <2>3. \A u \in Threads : th'[u].open.file \in {0, th[u].open.file}
      BY DEF QuietFor
    <2> QED
      BY <2>1, <2>2, <2>3 DEF DatabasesInv, NumbersInv, QuietFor
  <1>6. FilesInv'
    <2>1. \A u \in Threads : LoaderFile(u)' # 0 =>
              /\ th[u].s \in Shards /\ th'[u] = th[u] /\ LoaderFile(u)' = LoaderFile(u)
      BY <1>1, <1>2, UsersLemma DEF QuietFor
    <2> QED
      BY <1>1, <2>1 DEF DatabasesInv, FilesInv, QuietFor
  <1>7. StandingInv'
    <2>1. \A u \in Threads : Stands(u)' => Stands(u) /\ th'[u] = th[u]
      <3>1. ~Stands(t)'
        BY DEF QuietFor, Stands
      <3>2. ASSUME NEW u \in Threads \ {t}, Stands(u)' PROVE Stands(u) /\ th'[u] = th[u]
        <4>1. th'[u] = th[u] /\ th[u].s \in Shards
          BY <3>2, UsersLemma DEF QuietFor, Stands
        <4> QED
          BY <3>2, <4>1 DEF QuietFor, Stands
      <3> QED
        BY <3>1, <3>2
    <2>2. \A u \in Threads : LoaderFile(u)' = LoaderFile(u)
      BY <1>1, <1>2
    <2> QED
      BY <1>1, <2>1, <2>2 DEF DatabasesInv, StandingInv, Alone
  <1>8. DescribedInv'
    <2>1. \A r \in Shards : Bare(r)' => Bare(r) /\ dir'[r].db = dir[r].db
      BY DEF QuietFor, Bare
    <2>2. \A r \in Shards : Tended(r) => Tended(r)'
      BY DEF QuietFor, Tended, Tending, Locked, Loading, Filling
    <2>3. \A r \in Shards : \A c \in 1..MaxCaches : \A u \in Threads :
              Tells(u, r, c) => Tells(u, r, c)'
      BY DEF QuietFor, Tells, Locked, Loading, Filling, Retrying
    <2>4. \A c \in 1..MaxCaches : cache'[c].file = cache[c].file
      BY DEF QuietFor
    <2> QED
      BY <1>3, <2>1, <2>2, <2>3, <2>4 DEF DatabasesInv, DescribedInv
  <1> QED
    BY <1>4, <1>5, <1>6, <1>7, <1>8 DEF DatabasesInv

\* The steps of a request, a pass or a removal that are quiet.
LEMMA QuietRequests ==
    ASSUME ShardsInv, DatabasesInv, NEW t \in Threads,
           \/ warm_shard_hit(t) \/ Miss(t) \/ Trust(t) \/ Verify(t)
           \/ write_metadata(t) \/ InsertMeasured(t)
    PROVE  DatabasesInv'
  <1>0. /\ th \in [Threads -> ThreadFrame] /\ th[t] \in ThreadFrame
        /\ th[t].pc \notin Openers => th[t].open.stage = "none"
    BY StateLemma, FrameLemma DEF DatabasesInv, OpensInv
  <1>1. CASE warm_shard_hit(t) \/ Miss(t) \/ Trust(t) \/ Verify(t)
    <2>1. /\ UNCHANGED <<dir, cache, loaded, strays, past, made>>
          /\ \A u \in Threads \ {t} : th'[u] = th[u]
      BY <1>0, <1>1 DEF warm_shard_hit, Miss, Trust, Verify, shared
    <2>2. /\ th[t].pc \in {"idle", "use"}
          /\ th'[t].pc \in {"retry", "touch", "use", "cold", "idle", "insert"}
          /\ th'[t].files \subseteq th[t].files
          /\ th'[t].open = th[t].open \/ th'[t].open = NotOpening
      <3>1. th[t].pc \in {"idle", "use"}
        BY <1>1 DEF warm_shard_hit, Miss, Trust, Verify, Doing, At
      <3>2. ASSUME NEW p \in {"retry", "touch", "use"}, NEW s, NEW c,
                   th' = [th EXCEPT ![t].pc = p, ![t].s = s, ![t].held = c]
            PROVE  th'[t].pc = p /\ th'[t].files = th[t].files /\ th'[t].open = th[t].open
        BY <1>0, <3>2 DEF ThreadFrame
      <3>3. ASSUME NEW s, th' = [th EXCEPT ![t].pc = "cold", ![t].s = s]
            PROVE  th'[t].pc = "cold" /\ th'[t].files = th[t].files /\ th'[t].open = th[t].open
        BY <1>0, <3>3 DEF ThreadFrame
      <3>4. ASSUME NEW i, th' = [th EXCEPT ![t] = IdleAt(i)]
            PROVE  th'[t].pc = "idle" /\ th'[t].files = {} /\ th'[t].open = NotOpening
        BY <1>0, <3>4 DEF IdleAt
      <3>5. ASSUME NEW g, NEW v, th' = [th EXCEPT ![t].pc = "insert", ![t].gen = g, ![t].ver = v]
            PROVE  th'[t].pc = "insert" /\ th'[t].files = th[t].files /\ th'[t].open = th[t].open
        BY <1>0, <3>5 DEF ThreadFrame
      <3>6. \/ \E p \in {"retry", "touch", "use"} : \E s, c :
                   th' = [th EXCEPT ![t].pc = p, ![t].s = s, ![t].held = c]
            \/ \E s : th' = [th EXCEPT ![t].pc = "cold", ![t].s = s]
            \/ \E i : th' = [th EXCEPT ![t] = IdleAt(i)]
            \/ \E g, v : th' = [th EXCEPT ![t].pc = "insert", ![t].gen = g, ![t].ver = v]
        <4>1. CASE warm_shard_hit(t)
          BY <4>1 DEF warm_shard_hit
        <4>2. CASE Miss(t) \/ Trust(t) \/ Verify(t)
          BY <4>2 DEF Miss, Trust, Verify, Finished
        <4> QED
          BY <1>1, <4>1, <4>2
      <3> QED
        BY <3>1, <3>2, <3>3, <3>4, <3>5, <3>6
    <2>3. QuietFor(t)
      BY <1>0, <2>1, <2>2 DEF QuietFor, Openers, NotOpening, Locked, Loading, Filling, Retrying
    <2> QED
      BY <2>3, QuietDatabases
  <1>2. CASE write_metadata(t)
    <2>1. /\ UNCHANGED <<cache, loaded, strays, past, made>>
          /\ \A u \in Threads \ {t} : th'[u] = th[u]
          /\ th[t].pc = "touch" /\ th'[t].pc = "use" /\ th'[t].files = th[t].files
          /\ th'[t].open = th[t].open
      BY <1>0, <1>2 DEF write_metadata, At, ThreadFrame
    <2>2. \A r \in Shards : /\ dir'[r].db = dir[r].db
                            /\ dir[r].meta => dir'[r].meta
                            /\ dir[r].there => dir'[r].there
      BY <1>2, StateLemma DEF write_metadata, Described, DirType
    <2>3. QuietFor(t)
      BY <1>0, <2>1, <2>2 DEF QuietFor, Openers, Locked, Loading, Filling, Retrying
    <2> QED
      BY <2>3, QuietDatabases
  <1>3. CASE InsertMeasured(t)
    <2>1. /\ UNCHANGED <<dir, loaded, strays, past, made>>
          /\ \A u \in Threads \ {t} : th'[u] = th[u]
          /\ th[t].pc = "insert" /\ th'[t] = IdleAt(th[t].i + 1)
      BY <1>0, <1>3 DEF InsertMeasured, At, Finished
    <2>2. \A c \in 1..MaxCaches : cache'[c].file = cache[c].file
      BY <1>3, StateLemma DEF InsertMeasured, CacheType
    <2>3. QuietFor(t)
      BY <2>1, <2>2 DEF QuietFor, IdleAt, NotOpening, Locked, Loading, Filling, Retrying
    <2> QED
      BY <2>3, QuietDatabases
  <1> QED
    BY <1>1, <1>2, <1>3

LEMMA QuietPasses ==
    ASSUME ShardsInv, DatabasesInv, NEW t \in Threads,
           \/ BeginPass(t) \/ AlreadyMaintaining(t) \/ scan_disk_shard_paths(t)
           \/ LookForFile(t) \/ invalidate_package(t)
           \/ sweep_orphaned_shards_if_due(t) \/ list_shards(t)
           \/ BeginRemoval(t) \/ EndRemovals(t) \/ flush_to_disk(t)
    PROVE  DatabasesInv'
  <1>0. /\ th \in [Threads -> ThreadFrame] /\ th[t] \in ThreadFrame
        /\ th[t].pc \notin Openers => th[t].open.stage = "none"
    BY StateLemma, FrameLemma DEF DatabasesInv, OpensInv
  <1>1. /\ UNCHANGED <<dir, cache, loaded, strays, past, made>>
        /\ \A u \in Threads \ {t} : th'[u] = th[u]
    BY <1>0 DEF BeginPass, AlreadyMaintaining, scan_disk_shard_paths, LookForFile,
       invalidate_package, sweep_orphaned_shards_if_due, list_shards, BeginRemoval,
       EndRemovals, flush_to_disk, shared
  <1>2. th[t].pc \in {"idle", "scan", "visit", "sweep", "remove"}
    BY DEF BeginPass, AlreadyMaintaining, scan_disk_shard_paths, LookForFile,
       invalidate_package, sweep_orphaned_shards_if_due, list_shards, BeginRemoval,
       EndRemovals, flush_to_disk, Doing, At
  <1>3. CASE LookForFile(t)
    <2>1. /\ th'[t].files = th[t].files
          /\ \/ th'[t].pc = "visit" /\ th'[t].open = NotOpening
             \/ th'[t].pc = "create" /\ th'[t].open = Opening
      <3> PICK s, v : th' = [th EXCEPT ![t].visit = v, ![t].s = s,
                    ![t].pc = IF dir[s].db # 0 THEN "create" ELSE "visit",
                    ![t].open = IF dir[s].db # 0 THEN Opening ELSE NotOpening]
        BY <1>3 DEF LookForFile
      <3> QED
        BY <1>0 DEF ThreadFrame
    <2>2. QuietFor(t)
      BY <1>1, <1>2, <2>1 DEF QuietFor, NotOpening, Opening, Locked, Loading, Filling, Retrying
    <2> QED
      BY <2>2, QuietDatabases
  <1>4. CASE ~LookForFile(t)
    <2>1. /\ th'[t].files \subseteq th[t].files
          /\ th'[t].open = th[t].open \/ th'[t].open = NotOpening
          /\ th'[t].pc \in {"loaded", "scan", "idle", "visit", "remove", "flush"}
      <3>1. CASE BeginPass(t) \/ scan_disk_shard_paths(t)
        <4>1. \/ \E v : th' = [th EXCEPT ![t].pc = "visit", ![t].visit = v]
              \/ \E p \in {"loaded", "scan"} : \E q, g : th' = [th EXCEPT ![t] =
                     [collect_shard_targets(t) EXCEPT !.pc = p, !.phase = q, !.gen = g]]
          BY <3>1 DEF BeginPass, scan_disk_shard_paths
        <4>2. ASSUME NEW v, th' = [th EXCEPT ![t].pc = "visit", ![t].visit = v]
              PROVE  th'[t].pc = "visit" /\ th'[t].files = th[t].files /\ th'[t].open = th[t].open
          BY <1>0, <4>2 DEF ThreadFrame
        <4>3. CASE \E p \in {"loaded", "scan"} : \E q, g : th' = [th EXCEPT ![t] =
                     [collect_shard_targets(t) EXCEPT !.pc = p, !.phase = q, !.gen = g]]
          <5> PICK p \in {"loaded", "scan"} : \E q, g : th' = [th EXCEPT ![t] =
                     [collect_shard_targets(t) EXCEPT !.pc = p, !.phase = q, !.gen = g]]
            BY <4>3
          <5> PICK q, g : th' = [th EXCEPT ![t] =
                     [collect_shard_targets(t) EXCEPT !.pc = p, !.phase = q, !.gen = g]]
            OBVIOUS
          <5>1. th'[t] = [collect_shard_targets(t) EXCEPT !.pc = p, !.phase = q, !.gen = g]
            BY <1>0
          <5>2. /\ collect_shard_targets(t) \in ThreadFrame
                /\ collect_shard_targets(t).files = th[t].files
                /\ collect_shard_targets(t).open = th[t].open
            BY <1>0, TargetsLemma DEF collect_shard_targets, ThreadFrame
          <5>3. \A f \in ThreadFrame : LET e == [f EXCEPT !.pc = p, !.phase = q, !.gen = g] IN
                    e.pc = p /\ e.files = f.files /\ e.open = f.open
            BY DEF ThreadFrame
          <5> QED
            BY <5>1, <5>2, <5>3
        <4> QED
          BY <4>1, <4>2, <4>3
      <3>2. CASE AlreadyMaintaining(t) \/ invalidate_package(t) \/ EndRemovals(t)
        BY <1>0, <3>2 DEF AlreadyMaintaining, invalidate_package, EndRemovals, Finished, IdleAt
      <3>3. CASE sweep_orphaned_shards_if_due(t)
        <4>1. \/ th' = [th EXCEPT ![t] = [collect_shard_targets(t) EXCEPT
                             !.pc = "scan", !.phase = "sweep"]]
              \/ th' = [th EXCEPT ![t].pc = "remove"]
          BY <3>3 DEF sweep_orphaned_shards_if_due
        <4>2. CASE th' = [th EXCEPT ![t] = [collect_shard_targets(t) EXCEPT
                             !.pc = "scan", !.phase = "sweep"]]
          BY <1>0, <4>2 DEF collect_shard_targets, ThreadFrame
        <4>3. CASE th' = [th EXCEPT ![t].pc = "remove"]
          BY <1>0, <4>3 DEF ThreadFrame
        <4> QED
          BY <4>1, <4>2, <4>3
      <3>4. CASE list_shards(t)
        <4> PICK p \in {"visit", "remove"} : \E v, l : th' = [th EXCEPT ![t] = [@ EXCEPT
                !.held = {}, !.files = {}, !.phase = "act", !.pc = p, !.visit = v, !.list = l]]
          BY <3>4 DEF list_shards
        <4> PICK v, l : th' = [th EXCEPT ![t] = [@ EXCEPT
                !.held = {}, !.files = {}, !.phase = "act", !.pc = p, !.visit = v, !.list = l]]
          OBVIOUS
        <4>1. th'[t] = [th[t] EXCEPT !.held = {}, !.files = {}, !.phase = "act", !.pc = p,
                                     !.visit = v, !.list = l]
          BY <1>0
        <4>2. \A f \in ThreadFrame :
                  LET e == [f EXCEPT !.held = {}, !.files = {}, !.phase = "act", !.pc = p,
                                     !.visit = v, !.list = l] IN
                  e.files = {} /\ e.pc = p /\ e.open = f.open
          BY DEF ThreadFrame
        <4>3. th'[t].files = {} /\ th'[t].pc = p /\ th'[t].open = th[t].open
          BY <1>0, <4>1, <4>2
        <4> QED
          BY <4>3
      <3>5. CASE BeginRemoval(t) \/ flush_to_disk(t)
        <4>1. CASE BeginRemoval(t)
          BY <1>0, <4>1 DEF BeginRemoval, ThreadFrame
        <4>2. CASE flush_to_disk(t)
          BY <1>0, <4>2 DEF flush_to_disk, ThreadFrame
        <4> QED
          BY <3>5, <4>1, <4>2
      <3> QED
        BY <1>4, <3>1, <3>2, <3>3, <3>4, <3>5
    <2>2. QuietFor(t)
      BY <1>0, <1>1, <1>2, <2>1 DEF QuietFor, Openers, NotOpening, Locked, Loading, Filling,
         Retrying
    <2> QED
      BY <2>2, QuietDatabases
  <1> QED
    BY <1>3, <1>4

LEMMA QuietEntries ==
    ASSUME ShardsInv, DatabasesInv, NEW t \in Threads,
           \/ InvalidateLoaded(t) \/ ActOnOpened(t) \/ run_maintenance(t)
           \/ purge_orphan_entries(t) \/ FlushOne(t)
    PROVE  DatabasesInv'
  <1>0. /\ th \in [Threads -> ThreadFrame] /\ th[t] \in ThreadFrame
        /\ th[t].pc \notin Openers => th[t].open.stage = "none"
    BY StateLemma, FrameLemma DEF DatabasesInv, OpensInv
  <1>1. /\ UNCHANGED <<dir, loaded, strays, past, made>>
        /\ \A u \in Threads \ {t} : th'[u] = th[u]
    BY <1>0 DEF InvalidateLoaded, ActOnOpened, run_maintenance, purge_orphan_entries, FlushOne
  <1>2. CachesOK(cache')
    <2>1. \/ cache' = cache \/ (\E c : cache' = Emptied(c))
          \/ \E cs : cache' = [c \in DOMAIN cache |->
                IF c \in cs THEN [cache[c] EXCEPT !.ver = 0, !.gen = 0] ELSE cache[c]]
      BY DEF InvalidateLoaded, ActOnOpened, run_maintenance, purge_orphan_entries, FlushOne
    <2> QED
      BY <2>1, EmptiedLemma, ZenonT(30)
  <1>3. th[t].pc \in {"loaded", "opened", "visit", "flush"}
    BY DEF InvalidateLoaded, ActOnOpened, run_maintenance, purge_orphan_entries, FlushOne,
       Doing, At
  <1>4. /\ th'[t].files \subseteq th[t].files
        /\ th'[t].open = th[t].open \/ th'[t].open = NotOpening
        /\ th'[t].pc \in {"loaded", "scan", "visit", "opened", "sweep", "remove", "flush",
                           "idle"}
    <2>1. CASE InvalidateLoaded(t) \/ FlushOne(t)
      <3>1. \/ \E c : th' = [th EXCEPT ![t].held = @ \ {c}]
            \/ th' = [th EXCEPT ![t].pc = "scan"] \/ th' = [th EXCEPT ![t] = Finished(t)]
        BY <2>1 DEF InvalidateLoaded, FlushOne
      <3>2. CASE \E c : th' = [th EXCEPT ![t].held = @ \ {c}]
        <4> PICK c : th' = [th EXCEPT ![t].held = @ \ {c}]
          BY <3>2
        <4>1. th'[t].pc = th[t].pc /\ th'[t].files = th[t].files /\ th'[t].open = th[t].open
          BY <1>0 DEF ThreadFrame
        <4> QED
          BY <1>3, <4>1
      <3>3. CASE th' = [th EXCEPT ![t].pc = "scan"]
        BY <1>0, <3>3 DEF ThreadFrame
      <3>4. CASE th' = [th EXCEPT ![t] = Finished(t)]
        BY <1>0, <3>4 DEF Finished, IdleAt
      <3> QED
        BY <3>1, <3>2, <3>3, <3>4
    <2>2. CASE ActOnOpened(t) \/ run_maintenance(t)
      <3>1. \/ th' = [th EXCEPT ![t].files = {}, ![t].pc = "visit"]
            \/ th' = [th EXCEPT ![t].held = {}, ![t].files = {}, ![t].pc = "sweep"]
        BY <2>2 DEF ActOnOpened, run_maintenance
      <3> QED
        BY <1>0, <3>1 DEF ThreadFrame
    <2>3. CASE purge_orphan_entries(t)
      <3>1. \/ \E s : th' = [th EXCEPT ![t].ids = @ \ {s}]
            \/ th' = [th EXCEPT ![t].pc = "remove"]
        BY <2>3 DEF purge_orphan_entries
      <3>2. CASE \E s : th' = [th EXCEPT ![t].ids = @ \ {s}]
        <4> PICK s : th' = [th EXCEPT ![t].ids = @ \ {s}]
          BY <3>2
        <4>1. th'[t].pc = th[t].pc /\ th'[t].files = th[t].files /\ th'[t].open = th[t].open
          BY <1>0 DEF ThreadFrame
        <4> QED
          BY <1>3, <4>1
      <3>3. CASE th' = [th EXCEPT ![t].pc = "remove"]
        BY <1>0, <3>3 DEF ThreadFrame
      <3> QED
        BY <3>1, <3>2, <3>3
    <2> QED
      BY <2>1, <2>2, <2>3
  <1>5. QuietFor(t)
    BY <1>0, <1>1, <1>2, <1>3, <1>4 DEF QuietFor, CachesOK, Openers, NotOpening, Locked,
       Loading, Filling, Retrying
  <1> QED
    BY <1>5, QuietDatabases

(***************************************************************************)
(* A step of thread t on shard s: what it leaves apart, what becomes of    *)
(* the directory, who uses which file after it, and who will describe it.  *)
(***************************************************************************)
Apart(t, s) ==
    /\ \A u \in Threads \ {t} : th'[u] = th[u] /\ LoaderFile(u)' = LoaderFile(u)
    /\ \A r \in Shards \ {s} : /\ dir'[r] = dir[r] /\ loaded'[r] = loaded[r]
                               /\ past'.opener[r] = past.opener[r]
                               /\ ShardFile(r)' = ShardFile(r)
    /\ past'.opener[s] \in {past.opener[s], t}
    /\ strays \subseteq strays'
    /\ made'.files \in Nat /\ made.files <= made'.files
Placed(t, s) ==
    /\ \/ dir'[s].db = dir[s].db
       \/ dir'[s].db = 0
       \/ dir[s].db = 0 /\ dir'[s].db = made.files + 1 /\ made'.files = made.files + 1
    /\ dir'[s].db # 0 => dir'[s].there /\ (dir[s].meta => dir'[s].meta)
    /\ \/ past'.torn = past.torn
       \/ dir[s].db # 0 /\ dir'[s].db = 0 /\ past'.torn = past.torn \cup {dir[s].db}
    /\ dir[s].db # 0 /\ dir'[s].db = 0 /\ dir[s].db \notin past'.torn =>
           /\ ShardFile(s) # dir[s].db
           /\ \A u \in Threads : LoaderFile(u) # dir[s].db
Uses(t, s) ==
    /\ LoaderFile(t) # 0 => th[t].s = s
    /\ LoaderFile(t)' # 0 => th'[t].s = s
    /\ ShardFile(s)' \in {0, ShardFile(s), LoaderFile(t)}
    /\ \/ LoaderFile(t)' \in {0, LoaderFile(t), ShardFile(s)}
       \/ LoaderFile(t)' = dir'[s].db /\ past'.opener[s] = t
    /\ Stands(t)' => Alone(t)'
    /\ th'[t].pc \notin Openers => th'[t].open.stage = "none"
    /\ th'[t].open.file <= made'.files
    /\ \A f \in th'[t].files : f <= made'.files /\ f # 0
    /\ \A c \in 1..MaxCaches : cache'[c].file <= made'.files
Describes(t, s) ==
    /\ Bare(s)' => Tended(s)'
    /\ th[t].pc \in Tending \cup {"reopened"} => th[t].s = s
    /\ PassFiles(t)' \subseteq PassFiles(t) \cup IF Bare(s)' THEN {} ELSE {dir'[s].db}
    /\ \A c \in 1..MaxCaches :
           \/ cache'[c].file = cache[c].file
           \/ Tells(t, s, c)' /\ \A r \in Shards \ {s} : Bare(r) => cache'[c].file # dir[r].db
    /\ \A c \in 1..MaxCaches :
           Tells(t, s, c) /\ Bare(s)' => cache'[c].file # dir'[s].db \/ Tells(t, s, c)'

\* Where the databases are numbered.
LEMMA NumbersLemma ==
    ASSUME ShardsInv
    PROVE  /\ made.files \in Nat
           /\ \A s \in Shards : dir[s].db \in Nat
           /\ \A c \in 1..MaxCaches : cache[c].file \in Nat
           /\ \A u \in Threads : th[u].open.file \in Nat /\ th[u].files \subseteq Nat
           /\ past.torn \subseteq Nat
  BY StateLemma, FrameLemma DEF DirType, CacheType, ThreadFrame, ShardsInv, ShardsTypeOK

\* The files in use have been made.
LEMMA UsedLemma ==
    ASSUME ShardsInv, NumbersInv
    PROVE  /\ \A s \in Shards : ShardFile(s) \in Nat /\ ShardFile(s) <= made.files
           /\ \A u \in Threads : LoaderFile(u) \in Nat /\ LoaderFile(u) <= made.files
           /\ \A u \in Threads : \A f \in th[u].files : f \in Nat /\ f <= made.files
  <1>1. \A r \in Shards : loaded[r] # 0 => loaded[r] \in 1..MaxCaches
    BY BoundsLemma DEF ShardsInv
  <1>2. \A u \in Threads : th[u].pc \in Filling => Held(u) \in 1..MaxCaches
    BY HeldLemma, StateLemma DEF ShardsInv, Filling, Serving
  <1>3. \A s \in Shards : ShardFile(s) \in Nat /\ ShardFile(s) <= made.files
    BY <1>1, NumbersLemma DEF ShardFile, NumbersInv
  <1>4. \A u \in Threads : LoaderFile(u) \in Nat /\ LoaderFile(u) <= made.files
    BY <1>2, NumbersLemma DEF LoaderFile, NumbersInv
  <1>5. \A u \in Threads : \A f \in th[u].files : f \in Nat /\ f <= made.files
    BY NumbersLemma DEF NumbersInv
  <1> QED
    BY <1>3, <1>4, <1>5

LEMMA DatabaseStep ==
    ASSUME ShardsInv, DatabasesInv, NEW t \in Threads, NEW s \in Shards,
           Apart(t, s), Placed(t, s), Uses(t, s), Describes(t, s)
    PROVE  DatabasesInv'
  <1>0. /\ made.files \in Nat /\ made'.files \in Nat /\ made.files <= made'.files
        /\ \A r \in Shards : dir[r].db \in Nat /\ dir[r].db <= made.files
    BY NumbersLemma DEF Apart, DatabasesInv, NumbersInv
  <1>1. OpensInv'
    BY DEF DatabasesInv, OpensInv, Apart, Uses
  <1>2. NumbersInv'
    <2>1. \A r \in Shards : dir'[r].db \in Nat /\ dir'[r].db <= made'.files
      BY <1>0 DEF Apart, Placed
    <2>2. \A r \in Shards : dir'[r].db # 0 => dir'[r].there
      BY DEF Apart, Placed, DatabasesInv, NumbersInv
    <2>3. \A q, r \in Shards : dir'[q].db = dir'[r].db /\ dir'[q].db # 0 => q = r
      BY <1>0 DEF Apart, Placed, DatabasesInv, NumbersInv
    <2>4. \A f \in past'.torn : f <= made'.files /\ f # 0
      <3>1. \A f \in past.torn : f \in Nat /\ f <= made.files /\ f # 0
        BY NumbersLemma DEF DatabasesInv, NumbersInv
      <3>2. \A f \in past'.torn : f \in Nat /\ f <= made.files /\ f # 0
        BY <1>0, <3>1 DEF Placed
      <3> QED
        BY <1>0, <3>2
    <2>5. \A r \in Shards : dir'[r].db \notin past'.torn
      <3>1. \A r \in Shards : dir[r].db \notin past.torn
        BY DEF DatabasesInv, NumbersInv
      <3>2. \A f \in past.torn : f <= made.files /\ f # 0
        BY DEF DatabasesInv, NumbersInv
      <3>3. \A r \in Shards \ {s} : dir'[r].db = dir[r].db /\ (dir[r].db # 0 => dir[r].db # dir[s].db)
        BY DEF Apart, DatabasesInv, NumbersInv
      <3>4. dir'[s].db \notin past.torn
        BY <1>0, <3>1, <3>2 DEF Placed
      <3>5. \A f \in past'.torn : f \in past.torn \/ (f = dir[s].db /\ f # 0 /\ dir'[s].db = 0)
        BY DEF Placed
      <3> QED
        BY <3>1, <3>3, <3>4, <3>5
    <2>6. \A u \in Threads : /\ \A f \in th'[u].files : f <= made'.files /\ f # 0
                             /\ th'[u].open.file <= made'.files
      <3>1. \A u \in Threads : /\ \A f \in th[u].files : f \in Nat /\ f <= made.files /\ f # 0
                               /\ th[u].open.file \in Nat /\ th[u].open.file <= made.files
        BY NumbersLemma DEF DatabasesInv, NumbersInv
      <3> QED
        BY <1>0, <3>1 DEF Apart, Uses
    <2> QED
      BY <2>1, <2>2, <2>3, <2>4, <2>5, <2>6 DEF NumbersInv, Uses
  <1>3. FilesInv'
    <2>1. ASSUME NEW f \in Nat, f # 0, f \notin past'.torn, dir[s].db = f,
                 f = ShardFile(s) \/ \E u \in Threads : f = LoaderFile(u)
          PROVE  dir'[s].db = f
      BY <2>1 DEF Placed
    <2>2. past.torn \subseteq past'.torn
      BY DEF Placed
    <2>3. ASSUME NEW r \in Shards, ShardFile(r)' # 0, ShardFile(r)' \notin past'.torn
          PROVE  dir'[r].db = ShardFile(r)'
      <3>1. CASE r # s
        BY <2>2, <2>3, <3>1 DEF Apart, DatabasesInv, FilesInv
      <3>2. CASE r = s
        <4>1. \/ ShardFile(s)' = ShardFile(s)
              \/ ShardFile(s)' = LoaderFile(t) /\ th[t].s = s
          BY <2>3, <3>2 DEF Uses
        <4>2. dir[s].db = ShardFile(s)'
          BY <2>2, <2>3, <3>2, <4>1 DEF DatabasesInv, FilesInv
        <4> QED
          BY <1>0, <2>1, <2>3, <3>2, <4>1, <4>2
      <3> QED
        BY <3>1, <3>2
    <2>4. ASSUME NEW u \in Threads, LoaderFile(u)' # 0, LoaderFile(u)' \notin past'.torn
          PROVE  dir'[th'[u].s].db = LoaderFile(u)'
      <3>1. CASE u # t
        <4>1. th'[u] = th[u] /\ LoaderFile(u)' = LoaderFile(u) /\ th[u].s \in Shards
          BY <2>4, <3>1, UsersLemma DEF Apart
        <4>2. dir[th[u].s].db = LoaderFile(u)
          BY <2>2, <2>4, <4>1 DEF DatabasesInv, FilesInv
        <4>3. CASE th[u].s = s
          BY <1>0, <2>1, <2>4, <4>1, <4>2, <4>3
        <4>4. CASE th[u].s # s
          BY <4>1, <4>2, <4>4 DEF Apart
        <4> QED
          BY <4>3, <4>4
      <3>2. CASE u = t
        <4>1. th'[t].s = s
          BY <2>4, <3>2 DEF Uses
        <4>2. CASE LoaderFile(t)' = dir'[s].db
          BY <3>2, <4>1, <4>2
        <4>3. CASE LoaderFile(t)' \in {0, LoaderFile(t), ShardFile(s)}
          <5>1. \/ LoaderFile(t)' = ShardFile(s)
                \/ LoaderFile(t)' = LoaderFile(t) /\ th[t].s = s
            BY <2>4, <3>2, <4>3 DEF Uses
          <5>2. dir[s].db = LoaderFile(t)'
            BY <2>2, <2>4, <3>2, <5>1 DEF DatabasesInv, FilesInv
          <5> QED
            BY <1>0, <2>1, <2>4, <3>2, <4>1, <5>1, <5>2
        <4> QED
          BY <4>2, <4>3 DEF Uses
      <3> QED
        BY <3>1, <3>2
    <2> QED
      BY <2>3, <2>4 DEF FilesInv
  <1>4. StandingInv'
    <2>1. ASSUME NEW u \in Threads \ {t}, Stands(u)'
          PROVE  Alone(u)'
      <3> DEFINE f == th[u].open.file
                 q == th[u].s
      <3>1. th'[u] = th[u] /\ q \in Shards
        BY <2>1, UsersLemma DEF Apart, Stands
      <3>2. f # 0 /\ dir'[q].db = f /\ f \in Nat /\ f <= made.files
        BY <2>1, <3>1, NumbersLemma DEF Stands, DatabasesInv, NumbersInv
      <3>3. dir[q].db = f /\ past.opener[q] = u /\ past'.opener[q] = u
        BY <1>0, <2>1, <3>1, <3>2 DEF Stands, Apart, Placed
      <3>4. Alone(u)
        BY <2>1, <3>1, <3>2, <3>3 DEF DatabasesInv, StandingInv, Stands
      <3>5. \A r \in Shards : ShardFile(r)' # f
        BY <3>2, <3>4 DEF Alone, Apart, Uses
      <3>6. LoaderFile(t)' # f
        <4>1. CASE LoaderFile(t)' \in {0, LoaderFile(t), ShardFile(s)}
          BY <3>2, <3>4, <4>1 DEF Alone
        <4>2. CASE LoaderFile(t)' = dir'[s].db /\ past'.opener[s] = t
          <5>1. q # s
            BY <2>1, <3>3, <4>2
          <5> QED
            BY <1>2, <3>1, <3>2, <4>2, <5>1 DEF NumbersInv
        <4> QED
          BY <4>1, <4>2 DEF Uses
      <3>7. \A v \in Threads \ {u} : LoaderFile(v)' # f
        BY <3>4, <3>6 DEF Alone, Apart
      <3> QED
        BY <3>1, <3>5, <3>7 DEF Alone
    <2> QED
      BY <2>1 DEF StandingInv, Uses
  <1>5. DescribedInv'
    <2>1. ASSUME NEW r \in Shards \ {s}, Bare(r)'
          PROVE  /\ Tended(r)'
                 /\ \A u \in Threads : dir'[r].db \notin PassFiles(u)'
                 /\ \A c \in 1..MaxCaches : cache'[c].file = dir'[r].db =>
                        \E u \in Threads : Tells(u, r, c)'
      <3>1. Bare(r) /\ dir'[r] = dir[r] /\ loaded'[r] = loaded[r] /\ dir[r].db # 0
        BY <2>1 DEF Bare, Apart
      <3>2. /\ Tended(r)
            /\ \A u \in Threads : dir[r].db \notin PassFiles(u)
            /\ \A c \in 1..MaxCaches : cache[c].file = dir[r].db =>
                   \E u \in Threads : Tells(u, r, c)
        BY <3>1 DEF DatabasesInv, DescribedInv
      <3>3. Tended(r)'
        BY <3>1, <3>2 DEF Tended, Apart, Describes
      <3>4. \A u \in Threads : dir'[r].db \notin PassFiles(u)'
        <4>1. \A u \in Threads \ {t} : PassFiles(u)' = PassFiles(u)
          BY DEF Apart, PassFiles, HoldsOpen
        <4>2. dir'[r].db # dir'[s].db
          BY <1>2, <3>1 DEF NumbersInv
        <4>3. dir[r].db \notin PassFiles(t)'
          BY <3>1, <3>2, <4>2 DEF Describes
        <4> QED
          BY <3>1, <3>2, <4>1, <4>3
      <3>5. ASSUME NEW c \in 1..MaxCaches, cache'[c].file = dir'[r].db
            PROVE  \E u \in Threads : Tells(u, r, c)'
        <4>1. cache[c].file = dir[r].db
          BY <3>1, <3>5 DEF Describes
        <4>2. PICK u \in Threads : Tells(u, r, c)
          BY <3>2, <4>1
        <4>3. u # t
          BY <4>2 DEF Tells, Describes, Tending
        <4> QED
          BY <4>2, <4>3 DEF Tells, Apart
      <3> QED
        BY <3>3, <3>4, <3>5
    <2>2. ASSUME Bare(s)'
          PROVE  /\ Tended(s)'
                 /\ \A u \in Threads : dir'[s].db \notin PassFiles(u)'
                 /\ \A c \in 1..MaxCaches : cache'[c].file = dir'[s].db =>
                        \E u \in Threads : Tells(u, s, c)'
      <3>1. \A u \in Threads : PassFiles(u)' \subseteq PassFiles(u)
        <4>1. \A u \in Threads \ {t} : PassFiles(u)' = PassFiles(u)
          BY DEF Apart, PassFiles, HoldsOpen
        <4> QED
          BY <2>2, <4>1 DEF Describes
      <3>2. CASE dir'[s].db = dir[s].db
        <4>1. Bare(s)
          BY <2>2, <3>2 DEF Bare, Apart, Placed
        <4>2. /\ \A u \in Threads : dir[s].db \notin PassFiles(u)
              /\ \A c \in 1..MaxCaches : cache[c].file = dir[s].db =>
                     \E u \in Threads : Tells(u, s, c)
          BY <4>1 DEF DatabasesInv, DescribedInv
        <4>3. ASSUME NEW c \in 1..MaxCaches, cache'[c].file = dir'[s].db,
                     ~Tells(t, s, c)'
              PROVE  \E u \in Threads : Tells(u, s, c)'
          <5>1. cache[c].file = dir[s].db
            BY <3>2, <4>3 DEF Describes
          <5>2. PICK u \in Threads : Tells(u, s, c)
            BY <4>2, <5>1
          <5>3. u # t
            BY <2>2, <4>3, <5>2 DEF Describes
          <5> QED
            BY <5>2, <5>3 DEF Tells, Apart
        <4> QED
          BY <2>2, <3>1, <3>2, <4>2, <4>3 DEF Describes
      <3>3. CASE dir'[s].db # dir[s].db
        <4>1. dir'[s].db = made.files + 1
          BY <2>2, <3>3 DEF Bare, Placed
        <4>2. \A u \in Threads : \A f \in PassFiles(u) : f \in Nat /\ f <= made.files
          BY NumbersLemma DEF PassFiles, DatabasesInv, NumbersInv
        <4>3. \A c \in 1..MaxCaches : cache[c].file \in Nat /\ cache[c].file <= made.files
          BY NumbersLemma DEF DatabasesInv, NumbersInv
        <4>4. \A u \in Threads : dir'[s].db \notin PassFiles(u)'
          BY <1>0, <3>1, <4>1, <4>2
        <4>5. \A c \in 1..MaxCaches : cache'[c].file = dir'[s].db => Tells(t, s, c)'
          BY <1>0, <4>1, <4>3 DEF Describes
        <4> QED
          BY <2>2, <4>4, <4>5 DEF Describes
      <3> QED
        BY <3>2, <3>3
    <2> QED
      BY <2>1, <2>2 DEF DescribedInv
  <1> QED
    BY <1>1, <1>2, <1>3, <1>4, <1>5 DEF DatabasesInv

\* The fields of an open that has not begun, has begun again or has ended.
LEMMA OpenFields ==
    /\ NotOpening.stage = "none" /\ NotOpening.file = 0
    /\ Opening.stage = "look" /\ Opening.file = 0
    /\ \A f : OpenedAs(f).stage = "done" /\ OpenedAs(f).file = f
    /\ LET o == [Opening EXCEPT !.stage = "open", !.again = TRUE] IN
          o.stage = "open" /\ o.file = 0
  BY DEF NotOpening, Opening, OpenedAs

\* What a step of t about s that leaves every database where it is keeps of the
\* files, and how t uses the shard's file before and after it.
KeptPlace(t, s) ==
    /\ \A u \in Threads \ {t} : th'[u] = th[u]
    /\ \A c \in 1..MaxCaches : cache'[c].file = cache[c].file
    /\ \A r \in Shards \ {s} : dir'[r] = dir[r] /\ loaded'[r] = loaded[r]
    /\ dir'[s].db = dir[s].db
    /\ dir[s].meta => dir'[s].meta
    /\ dir[s].db # 0 /\ dir[s].there => dir'[s].there
    /\ UNCHANGED strays
    /\ made'.files = made.files
    /\ past'.torn = past.torn
    /\ \A r \in Shards \ {s} : past'.opener[r] = past.opener[r]
    /\ past'.opener[s] \in {past.opener[s], t}
KeptUse(t, s) ==
    /\ LoaderFile(t) # 0 => th[t].s = s
    /\ LoaderFile(t)' # 0 => th'[t].s = s
    /\ ShardFile(s)' \in {0, ShardFile(s), LoaderFile(t)}
    /\ LoaderFile(t)' \in {0, LoaderFile(t), ShardFile(s)}
    /\ Stands(t)' => Alone(t)'
    /\ th'[t].pc \notin Openers => th'[t].open.stage = "none"
    /\ th'[t].open.file \in {0, th[t].open.file, dir[s].db, ShardFile(s)}
    /\ PassFiles(t)' \subseteq PassFiles(t)
    /\ th'[t].files \subseteq PassFiles(t)
    /\ Bare(s)' => Tended(s)'
    /\ th[t].pc \in Tending \cup {"reopened"} => th[t].s = s
    /\ \A c \in 1..MaxCaches : Tells(t, s, c) /\ Bare(s)' =>
           cache'[c].file # dir'[s].db \/ Tells(t, s, c)'

\* Such a step keeps the invariant.
LEMMA KeptStep ==
    ASSUME ShardsInv, DatabasesInv, NEW t \in Threads, NEW s \in Shards,
           KeptPlace(t, s), KeptUse(t, s)
    PROVE  DatabasesInv'
  <1> USE DEF KeptPlace, KeptUse
  <1>1. Apart(t, s)
    <2>1. /\ \A u \in Threads \ {t} : LoaderFile(u)' = LoaderFile(u)
          /\ \A r \in Shards \ {s} : ShardFile(r)' = ShardFile(r)
      BY SameFiles
    <2> QED
      BY <2>1, NumbersLemma DEF Apart
  <1>2. Placed(t, s)
    BY DEF Placed, DatabasesInv, NumbersInv
  <1>3. Uses(t, s)
    <2>1. \A f \in PassFiles(t) : f <= made.files /\ f # 0
      BY NumbersLemma DEF PassFiles, DatabasesInv, NumbersInv
    <2>2. th'[t].open.file <= made'.files
      BY NumbersLemma, UsedLemma DEF DatabasesInv, NumbersInv
    <2>3. \A c \in 1..MaxCaches : cache'[c].file <= made'.files
      BY DEF DatabasesInv, NumbersInv
    <2> QED
      BY <2>1, <2>2, <2>3 DEF Uses
  <1>4. Describes(t, s)
    BY DEF Describes
  <1> QED
    BY <1>1, <1>2, <1>3, <1>4, DatabaseStep

\* A file that nobody holds open is nobody's.
LEMMA NotHeld ==
    ASSUME ShardsInv, NEW f, f # 0, f \notin OpenFiles
    PROVE  /\ \A r \in Shards : ShardFile(r) # f
           /\ \A u \in Threads : LoaderFile(u) # f
  <1>1. ASSUME NEW r \in Shards, ShardFile(r) = f PROVE FALSE
    <2>1. loaded[r] # 0 /\ cache[loaded[r]].file = f
      BY <1>1 DEF ShardFile
    <2>2. loaded[r] \in DOMAIN cache /\ Live(loaded[r])
      BY <2>1, BoundsLemma, StateLemma DEF ShardsInv, CacheType, Live
    <2> QED
      BY <2>1, <2>2 DEF OpenFiles
  <1>2. ASSUME NEW v \in Threads, LoaderFile(v) = f PROVE FALSE
    <2>1. CASE th[v].pc \in Filling
      <3>1. cache[Held(v)].file = f
        BY <1>2, <2>1 DEF LoaderFile
      <3>2. Held(v) \in DOMAIN cache /\ Live(Held(v))
        BY <2>1, HeldLemma, StateLemma DEF ShardsInv, CacheType, Live, Filling, Serving
      <3> QED
        BY <3>1, <3>2 DEF OpenFiles
    <2>2. CASE th[v].pc \notin Filling
      <3>1. HoldsOpen(v) /\ th[v].open.file = f
        BY <1>2, <2>2 DEF LoaderFile
      <3> QED
        BY <3>1 DEF OpenFiles
    <2> QED
      BY <2>1, <2>2
  <1> QED
    BY <1>1, <1>2

\* What an open leaves alone.
LEMMA OpenFacts ==
    ASSUME ShardsInv, DatabasesInv, NEW t \in Threads, open_database(t)
    PROVE  /\ th[t].pc \in Openers /\ th[t].s \in Shards
           /\ \A u \in Threads \ {t} : th'[u] = th[u]
           /\ /\ th'[t].pc = th[t].pc /\ th'[t].s = th[t].s
              /\ th'[t].held = th[t].held /\ th'[t].files = th[t].files
           /\ UNCHANGED <<cache, loaded>>
           /\ \A r \in Shards : ShardFile(r)' = ShardFile(r) /\ Tended(r)' = Tended(r)
           /\ \A u \in Threads \ {t} : LoaderFile(u)' = LoaderFile(u)
           /\ \A r, c : Tells(t, r, c)' = Tells(t, r, c)
  <1>1. th[t].pc \in Openers
    BY DEF open_database, LookAtPath, create_database, CreateFails, ensure_schema,
       recreate_database, OpenFaults, Stage, Openers
  <1>2. PICK o : th' = [th EXCEPT ![t].open = o]
    BY OpenLemma
  <1>3. UNCHANGED <<cache, loaded>>
    BY DEF open_database, LookAtPath, create_database, CreateFails, ensure_schema,
       recreate_database, OpenFaults, shared
  <1>4. /\ \A u \in Threads \ {t} : th'[u] = th[u]
        /\ th'[t].pc = th[t].pc /\ th'[t].s = th[t].s
        /\ th'[t].held = th[t].held /\ th'[t].files = th[t].files
    <2>1. th \in [Threads -> ThreadFrame] /\ th[t] \in ThreadFrame
      BY StateLemma, FrameLemma
    <2> QED
      BY <1>2, <2>1 DEF ThreadFrame
  <1>5. /\ \A r \in Shards : ShardFile(r)' = ShardFile(r)
        /\ \A u \in Threads \ {t} : LoaderFile(u)' = LoaderFile(u)
    BY <1>3, <1>4, SameFiles
  <1>6. \A r \in Shards : Tended(r)' = Tended(r)
    BY <1>3, <1>4 DEF Tended
  <1>7. \A r, c : Tells(t, r, c)' = Tells(t, r, c)
    BY <1>4 DEF Tells
  <1> QED
    BY <1>1, <1>3, <1>4, <1>5, <1>6, <1>7, UsersLemma

\* The steps of an open that leave the database where it is.
LEMMA OpenKeeps ==
    ASSUME ShardsInv, DatabasesInv, NEW t \in Threads,
           LookAtPath(t) \/ CreateFails(t) \/ ensure_schema(t) \/ OpenFaults(t)
    PROVE  DatabasesInv'
  <1>0. th \in [Threads -> ThreadFrame] /\ th[t] \in ThreadFrame /\ th[t].open \in OpenFrame
    BY StateLemma, FrameLemma DEF ThreadFrame, OpenFrame
  <1> PICK s \in Shards : s = th[t].s
    BY OpenFacts DEF open_database
  <1>1. /\ th[t].pc \in Openers
        /\ \A u \in Threads \ {t} : th'[u] = th[u]
        /\ /\ th'[t].pc = th[t].pc /\ th'[t].s = s
           /\ th'[t].held = th[t].held /\ th'[t].files = th[t].files
        /\ UNCHANGED <<cache, loaded>>
        /\ \A r \in Shards : ShardFile(r)' = ShardFile(r) /\ Tended(r)' = Tended(r)
        /\ \A u \in Threads \ {t} : LoaderFile(u)' = LoaderFile(u)
        /\ \A c : Tells(t, s, c)' = Tells(t, s, c)
    BY OpenFacts DEF open_database
  <1>2. /\ dir'[s].db = dir[s].db /\ dir'[s].meta = dir[s].meta
        /\ dir[s].there => dir'[s].there
        /\ \A r \in Shards \ {s} : dir'[r] = dir[r]
    <2>1. dir' = dir \/ dir' = [dir EXCEPT ![s].there = TRUE]
      BY DEF LookAtPath, CreateFails, ensure_schema, OpenFaults, shared
    <2>2. dir \in [Shards -> [db : Nat, meta : BOOLEAN, there : BOOLEAN]]
      BY StateLemma DEF DirType
    <2>3. CASE dir' = [dir EXCEPT ![s].there = TRUE]
      <3>1. dir'[s] = [dir[s] EXCEPT !.there = TRUE] /\ \A r \in Shards \ {s} : dir'[r] = dir[r]
        BY <2>2, <2>3
      <3> QED
        BY <2>2, <3>1
    <2> QED
      BY <2>1, <2>3
  <1>3. /\ UNCHANGED strays /\ past'.torn = past.torn
        /\ \A r \in Shards \ {s} : past'.opener[r] = past.opener[r]
        /\ past'.opener[s] \in {past.opener[s], t}
    <2>1. past \in [opener : [Shards -> Threads \cup {"free"}], torn : SUBSET Nat]
      BY DEF ShardsInv, ShardsTypeOK
    <2>2. UNCHANGED strays /\ (past' = past \/ past' = [past EXCEPT !.opener[s] = t])
      BY DEF LookAtPath, CreateFails, ensure_schema, OpenFaults
    <2> QED
      BY <2>1, <2>2
  <1>4. made'.files = made.files
    BY StateLemma DEF LookAtPath, CreateFails, ensure_schema, OpenFaults
  <1>5. \/ th'[t].open.stage = "open" /\ th'[t].open.file = th[t].open.file
        \/ th'[t].open.file = 0
        \/ /\ th[t].open.stage = "schema" /\ th'[t].open.file = th[t].open.file
           /\ th'[t].open.stage = "done" \/ (th'[t].open.stage = "unlink" /\ past' = past)
        \/ /\ th'[t].open.stage = "unlink" /\ th'[t].open.file = dir[s].db
           /\ dir[s].db # 0 /\ dir[s].db \notin OpenFiles
    <2>1. CASE LookAtPath(t)
      BY <1>0, <2>1 DEF LookAtPath, ThreadFrame
    <2>2. CASE OpenFaults(t)
      BY <1>0, <2>2 DEF OpenFaults, OpenedAs, NotOpening, ThreadFrame
    <2>3. CASE ensure_schema(t)
      <3>1. th[t].open.stage = "schema" /\ past' = past
        BY <2>3 DEF ensure_schema, Stage
      <3>2. \/ th' = [th EXCEPT ![t].open = [@ EXCEPT !.stage = "done"]]
            \/ th' = [th EXCEPT ![t].open = OpenedAs(0)]
            \/ th' = [th EXCEPT ![t].open = [th[t].open EXCEPT !.stage = "unlink"]]
        BY <2>3 DEF ensure_schema
      <3>3. CASE th' = [th EXCEPT ![t].open = [@ EXCEPT !.stage = "done"]]
        BY <1>0, <3>1, <3>3 DEF ThreadFrame, OpenFrame
      <3>4. CASE th' = [th EXCEPT ![t].open = OpenedAs(0)]
        BY <1>0, <3>4 DEF OpenedAs, NotOpening, ThreadFrame
      <3>5. CASE th' = [th EXCEPT ![t].open = [th[t].open EXCEPT !.stage = "unlink"]]
        BY <1>0, <3>1, <3>5 DEF ThreadFrame, OpenFrame
      <3> QED
        BY <3>2, <3>3, <3>4, <3>5
    <2>4. CASE CreateFails(t)
      <3>1. CASE th' = [th EXCEPT ![t].open = OpenedAs(0)]
        BY <1>0, <3>1 DEF OpenedAs, NotOpening, ThreadFrame
      <3>2. CASE /\ create_error(s) = "Corrupted"
                 /\ th' = [th EXCEPT ![t].open = [@ EXCEPT !.stage = "unlink", !.file = dir[s].db]]
        <4>1. th'[t].open.stage = "unlink" /\ th'[t].open.file = dir[s].db
          BY <1>0, <3>2 DEF ThreadFrame, OpenFrame
        <4>2. dir[s].db # 0 /\ dir[s].db \notin OpenFiles
          BY <3>2 DEF create_error, HeldElsewhere
        <4> QED
          BY <4>1, <4>2
      <3> QED
        BY <2>4, <3>1, <3>2 DEF CreateFails, is_corruption_error
    <2> QED
      BY <2>1, <2>2, <2>3, <2>4
  <1>6. LoaderFile(t)' \in {0, LoaderFile(t)}
    BY <1>1, <1>5 DEF LoaderFile, HoldsOpen, Filling, Openers
  <1>7. PassFiles(t)' \subseteq PassFiles(t)
    BY <1>1, <1>5 DEF PassFiles, HoldsOpen
  <1>8. Stands(t)' => Alone(t)'
    <2>1. SUFFICES ASSUME Stands(t)' PROVE Alone(t)'
      OBVIOUS
    <2>2. /\ th'[t].open.file # 0 /\ th'[t].open.stage \in {"schema", "unlink"}
          /\ dir[s].db = th'[t].open.file /\ past'.opener[s] = t
      BY <1>1, <1>2, <2>1 DEF Stands
    <2>3. CASE th[t].open.stage = "schema" /\ th'[t].open.file = th[t].open.file /\ past' = past
      <3>1. Stands(t)
        BY <1>1, <2>2, <2>3 DEF Stands
      <3> QED
        BY <1>1, <2>3, <3>1 DEF DatabasesInv, StandingInv, Alone
    <2>4. CASE th'[t].open.file = dir[s].db /\ dir[s].db # 0 /\ dir[s].db \notin OpenFiles
      <3>1. /\ \A r \in Shards : ShardFile(r) # dir[s].db
            /\ \A u \in Threads : LoaderFile(u) # dir[s].db
        BY <2>4, NotHeld
      <3> QED
        BY <1>1, <2>4, <3>1 DEF Alone
    <2> QED
      BY <1>5, <2>2, <2>3, <2>4
  <1>9. Bare(s)' => Tended(s)'
    <2>1. Bare(s)' => Bare(s)
      BY <1>2, <1>3 DEF Bare
    <2> QED
      BY <1>1, <2>1 DEF DatabasesInv, DescribedInv
  <1>10. th'[t].open.file \in {0, th[t].open.file, dir[s].db, ShardFile(s)}
    BY <1>5
  <1>11. th'[t].files \subseteq PassFiles(t)
    BY <1>1 DEF PassFiles
  <1>k. KeptPlace(t, s)
    BY <1>1, <1>2, <1>3, <1>4, <1>6, <1>7, <1>8, <1>9, <1>10, <1>11 DEF KeptPlace
  <1>u. KeptUse(t, s)
    BY <1>1, <1>2, <1>3, <1>4, <1>6, <1>7, <1>8, <1>9, <1>10, <1>11 DEF KeptUse
  <1> QED
    BY <1>k, <1>u, KeptStep

\* An open that creates the database, or opens the one that nobody holds.
LEMMA CreateStep ==
    ASSUME ShardsInv, DatabasesInv, NEW t \in Threads, create_database(t)
    PROVE  DatabasesInv'
  <1>0. th \in [Threads -> ThreadFrame] /\ th[t] \in ThreadFrame /\ th[t].open \in OpenFrame
    BY StateLemma, FrameLemma DEF ThreadFrame, OpenFrame
  <1> PICK s \in Shards : s = th[t].s
    BY OpenFacts DEF open_database
  <1> PICK f : f = IF dir[s].db = 0 THEN made.files + 1 ELSE dir[s].db
    OBVIOUS
  <1>1. /\ th[t].pc \in Openers
        /\ \A u \in Threads \ {t} : th'[u] = th[u]
        /\ /\ th'[t].pc = th[t].pc /\ th'[t].s = s
           /\ th'[t].held = th[t].held /\ th'[t].files = th[t].files
        /\ UNCHANGED <<cache, loaded>>
        /\ \A r \in Shards : ShardFile(r)' = ShardFile(r) /\ Tended(r)' = Tended(r)
        /\ \A u \in Threads \ {t} : LoaderFile(u)' = LoaderFile(u)
        /\ \A c : Tells(t, s, c)' = Tells(t, s, c)
    BY OpenFacts DEF open_database
  <1>2. /\ create_error(s) = "none"
        /\ dir' = [dir EXCEPT ![s].db = f]
        /\ made' = [made EXCEPT !.files = IF f > @ THEN f ELSE @]
        /\ past' = [past EXCEPT !.opener[s] = t]
        /\ th' = [th EXCEPT ![t].open = [@ EXCEPT !.stage = "schema", !.file = f]]
        /\ strays' = IF At(t, "create") /\ ~dir[s].meta THEN strays \cup {s} ELSE strays
    BY DEF create_database, Stray
  <1>3. /\ made.files \in Nat /\ dir[s].db \in Nat /\ dir[s].db <= made.files
        /\ \A u \in Threads : th[u].open.file \in Nat /\ th[u].open.file <= made.files
    BY NumbersLemma DEF DatabasesInv, NumbersInv
  <1>4. /\ f \in Nat /\ f # 0 /\ f <= made'.files /\ made'.files \in Nat
        /\ made.files <= made'.files
        /\ dir[s].db = 0 => made'.files = made.files + 1
    <2>1. made'.files = IF f > made.files THEN f ELSE made.files
      BY <1>2, StateLemma
    <2> QED
      BY <1>3, <2>1
  <1>5. /\ dir'[s].db = f /\ dir'[s].meta = dir[s].meta /\ dir'[s].there = dir[s].there
        /\ \A r \in Shards \ {s} : dir'[r] = dir[r]
    BY <1>2, StateLemma DEF DirType
  <1>6. /\ past'.torn = past.torn /\ past'.opener[s] = t
        /\ \A r \in Shards \ {s} : past'.opener[r] = past.opener[r]
    <2>1. past \in [opener : [Shards -> Threads \cup {"free"}], torn : SUBSET Nat]
      BY DEF ShardsInv, ShardsTypeOK
    <2> QED
      BY <1>2, <2>1
  <1>7. th'[t].open.stage = "schema" /\ th'[t].open.file = f
    BY <1>0, <1>2 DEF ThreadFrame, OpenFrame
  <1>8. /\ \A r \in Shards : ShardFile(r) # f
        /\ \A u \in Threads : LoaderFile(u) # f
    <2>1. CASE dir[s].db = 0
      <3>1. f = made.files + 1
        BY <2>1
      <3> QED
        BY <1>3, <3>1, UsedLemma DEF DatabasesInv
    <2>2. CASE dir[s].db # 0
      <3>1. f \notin OpenFiles
        BY <1>2, <2>2 DEF create_error, HeldElsewhere
      <3> QED
        BY <1>4, <3>1, NotHeld
    <2> QED
      BY <2>1, <2>2
  <1>9. LoaderFile(t)' \in {0, f}
    BY <1>1, <1>7 DEF LoaderFile, Openers, Filling
  <1>10. Apart(t, s)
    BY <1>1, <1>2, <1>4, <1>5, <1>6 DEF Apart
  <1>11. Placed(t, s)
    <2>1. dir'[s].there
      BY <1>2, <1>5 DEF create_error, DatabasesInv, NumbersInv
    <2> QED
      BY <1>4, <1>5, <1>6, <2>1 DEF Placed
  <1>12. Uses(t, s)
    <2>1. Alone(t)'
      BY <1>1, <1>7, <1>8 DEF Alone
    <2>2. LoaderFile(t) = 0
      <3>1. th[t].open.stage = "open" /\ th[t].pc \notin Filling
        BY <1>1 DEF create_database, Stage, Openers, Filling
      <3> QED
        BY <3>1 DEF LoaderFile, HoldsOpen
    <2>3. \A g \in th'[t].files : g <= made'.files /\ g # 0
      <3>1. \A g \in th[t].files : g \in Nat /\ g <= made.files /\ g # 0
        BY NumbersLemma DEF DatabasesInv, NumbersInv
      <3> QED
        BY <1>1, <1>3, <1>4, <3>1
    <2>4. \A c \in 1..MaxCaches : cache'[c].file <= made'.files
      <3>1. \A c \in 1..MaxCaches : cache[c].file \in Nat /\ cache[c].file <= made.files
        BY NumbersLemma DEF DatabasesInv, NumbersInv
      <3> QED
        BY <1>1, <1>3, <1>4, <3>1
    <2> QED
      BY <1>1, <1>4, <1>5, <1>6, <1>7, <1>9, <2>1, <2>2, <2>3, <2>4 DEF Uses
  <1>13. Describes(t, s)
    <2>1. At(t, "create") => ~Bare(s)'
      BY <1>2, <1>5 DEF Bare
    <2>2. Bare(s)' => Tended(s)'
      <3>1. CASE th[t].pc = "create"
        BY <2>1, <3>1 DEF At
      <3>2. CASE th[t].pc = "open"
        BY <1>1, <3>2 DEF Tended, Tending
      <3>3. CASE th[t].pc = "reopen"
        <4>1. loaded[s] # 0
          <5>1. th[t].held = {loaded[s]}
            BY <3>3 DEF ShardsInv, LocksInv, Retrying
          <5>2. PICK c \in 1..made.caches : th[t].held = {c}
            BY <3>3 DEF ShardsInv, FramesInv, FrameOK, Serving
          <5>3. c = loaded[s]
            BY <5>1, <5>2
          <5> QED
            BY <5>3
        <4> QED
          BY <1>1, <4>1 DEF Tended
      <3> QED
        BY <1>1, <3>1, <3>2, <3>3 DEF Openers
    <2>3. PassFiles(t)' \subseteq PassFiles(t) \cup IF Bare(s)' THEN {} ELSE {dir'[s].db}
      BY <1>1, <1>5, <1>7, <2>1 DEF PassFiles, At
    <2> QED
      BY <1>1, <2>2, <2>3 DEF Describes
  <1> QED
    BY <1>10, <1>11, <1>12, <1>13, DatabaseStep

\* An unfit database is unlinked, or whatever has taken its place.
LEMMA RecreateStep ==
    ASSUME ShardsInv, DatabasesInv, NEW t \in Threads, recreate_database(t)
    PROVE  DatabasesInv'
  <1>0. th \in [Threads -> ThreadFrame] /\ th[t] \in ThreadFrame /\ th[t].open \in OpenFrame
    BY StateLemma, FrameLemma DEF ThreadFrame, OpenFrame
  <1> PICK s \in Shards : s = th[t].s
    BY OpenFacts DEF open_database
  <1>1. /\ th[t].pc \in Openers
        /\ \A u \in Threads \ {t} : th'[u] = th[u]
        /\ /\ th'[t].pc = th[t].pc /\ th'[t].s = s
           /\ th'[t].held = th[t].held /\ th'[t].files = th[t].files
        /\ UNCHANGED <<cache, loaded>>
        /\ \A r \in Shards : ShardFile(r)' = ShardFile(r) /\ Tended(r)' = Tended(r)
        /\ \A u \in Threads \ {t} : LoaderFile(u)' = LoaderFile(u)
        /\ \A c : Tells(t, s, c)' = Tells(t, s, c)
    BY OpenFacts DEF open_database
  <1>2. /\ dir' = [dir EXCEPT ![s].db = 0] /\ UNCHANGED <<strays, made>>
        /\ th[t].open.stage = "unlink"
    BY DEF recreate_database, Stage
  <1>3. dir'[s].db = 0 /\ \A r \in Shards \ {s} : dir'[r] = dir[r]
    BY <1>2, StateLemma DEF DirType
  <1>4. th'[t].open.file = 0 /\ th'[t].open.stage \in {"open", "done"}
    <2>1. \/ th' = [th EXCEPT ![t].open = OpenedAs(0)]
          \/ th' = [th EXCEPT ![t].open = [Opening EXCEPT !.stage = "open", !.again = TRUE]]
      BY DEF recreate_database
    <2>2. \/ th'[t].open = OpenedAs(0)
          \/ th'[t].open = [Opening EXCEPT !.stage = "open", !.again = TRUE]
      BY <1>0, <2>1 DEF ThreadFrame
    <2> QED
      BY <2>2, OpenFields
  <1>5. LoaderFile(t) = 0 /\ LoaderFile(t)' = 0
    BY <1>1, <1>2, <1>4 DEF LoaderFile, HoldsOpen, Openers, Filling
  <1>6. past'.opener = past.opener
    <2>1. past \in [opener : [Shards -> Threads \cup {"free"}], torn : SUBSET Nat]
      BY DEF ShardsInv, ShardsTypeOK
    <2> QED
      BY <2>1 DEF recreate_database
  <1>7. /\ past'.torn = past.torn \/ (dir[s].db # 0 /\ past'.torn = past.torn \cup {dir[s].db})
        /\ dir[s].db # 0 /\ dir[s].db \notin past'.torn => Stands(t)
    <2>1. past \in [opener : [Shards -> Threads \cup {"free"}], torn : SUBSET Nat]
      BY DEF ShardsInv, ShardsTypeOK
    <2>2. CASE dir[s].db = 0
      BY <2>2 DEF recreate_database
    <2>3. CASE dir[s].db # 0 /\ dir[s].db = th[t].open.file /\ past.opener[s] = t
      <3>1. past' = past
        BY <2>3 DEF recreate_database
      <3> QED
        BY <1>1, <1>2, <2>3, <3>1 DEF Stands
    <2>4. CASE dir[s].db # 0 /\ ~(dir[s].db = th[t].open.file /\ past.opener[s] = t)
      <3>1. past' = [past EXCEPT !.torn = @ \cup {dir[s].db}]
        BY <2>4 DEF recreate_database
      <3> QED
        BY <2>1, <2>4, <3>1
    <2> QED
      BY <2>2, <2>3, <2>4
  <1>8. Apart(t, s)
    BY <1>1, <1>2, <1>3, <1>6, NumbersLemma DEF Apart
  <1>9. Placed(t, s)
    <2>1. Stands(t) => Alone(t) /\ dir[s].db = th[t].open.file
      BY DEF DatabasesInv, StandingInv, Stands
    <2>2. ASSUME dir[s].db # 0, dir[s].db \notin past'.torn
          PROVE  ShardFile(s) # dir[s].db /\ \A u \in Threads : LoaderFile(u) # dir[s].db
      BY <1>5, <1>7, <2>1, <2>2 DEF Alone
    <2> QED
      BY <1>3, <1>7, <2>2 DEF Placed
  <1>10. Uses(t, s)
    <2>1. ~Stands(t)'
      BY <1>4 DEF Stands
    <2>2. th'[t].open.file <= made'.files
      BY <1>2, <1>4, NumbersLemma
    <2> QED
      BY <1>1, <1>2, <1>5, <2>1, <2>2 DEF Uses, DatabasesInv, NumbersInv
  <1>11. Describes(t, s)
    <2>1. ~Bare(s)'
      BY <1>3 DEF Bare
    <2>2. PassFiles(t)' \subseteq PassFiles(t)
      BY <1>1, <1>4 DEF PassFiles
    <2> QED
      BY <1>1, <2>1, <2>2 DEF Describes
  <1> QED
    BY <1>8, <1>9, <1>10, <1>11, DatabaseStep

\* A pass keeps what it has opened.
LEMMA ExistingStep ==
    ASSUME ShardsInv, DatabasesInv, NEW t \in Threads, open_existing(t)
    PROVE  DatabasesInv'
  <1>0. th \in [Threads -> ThreadFrame] /\ th[t] \in ThreadFrame
    BY StateLemma, FrameLemma
  <1>1. th[t].pc = "create" /\ th[t].open.stage = "done" /\ th[t].s \in Shards
    BY UsersLemma DEF open_existing, At, Stage, Openers
  <1> PICK s \in Shards : s = th[t].s
    BY <1>1
  <1> PICK p \in {"opened", "visit"} :
          th' = [th EXCEPT ![t].files = @ \cup ({th[t].open.file} \ {0}),
                           ![t].open = NotOpening, ![t].pc = p]
    BY DEF open_existing
  <1>2. /\ UNCHANGED <<dir, cache, loaded, strays, past, made>>
        /\ \A u \in Threads \ {t} : th'[u] = th[u]
    BY <1>0 DEF open_existing, shared
  <1>3. /\ th'[t].files = th[t].files \cup ({th[t].open.file} \ {0})
        /\ th'[t].open = NotOpening /\ th'[t].pc = p /\ th'[t].s = s
    BY <1>0 DEF ThreadFrame
  <1>4. th'[t].open.stage = "none" /\ th'[t].open.file = 0
    BY <1>3, OpenFields
  <1>5. LoaderFile(t) = 0 /\ LoaderFile(t)' = 0
    BY <1>1, <1>3 DEF LoaderFile, Filling
  <1>6. PassFiles(t)' = th'[t].files /\ PassFiles(t) = th'[t].files
    BY <1>1, <1>3 DEF PassFiles, HoldsOpen
  <1>7. ~Stands(t)'
    BY <1>4 DEF Stands
  <1>8. Bare(s)' => Tended(s)'
    <2>1. Bare(s)' => Tended(s)
      BY <1>2 DEF Bare, DatabasesInv, DescribedInv
    <2>2. Tended(s) => Tended(s)'
      BY <1>1, <1>2 DEF Tended, Tending
    <2> QED
      BY <2>1, <2>2
  <1>9. ShardFile(s)' = ShardFile(s)
    BY <1>2 DEF ShardFile
  <1>10. \A c : ~Tells(t, s, c)
    BY <1>1 DEF Tells
  <1>k. KeptPlace(t, s)
    BY <1>1, <1>2, <1>3, <1>4, <1>5, <1>6, <1>7, <1>8, <1>9, <1>10 DEF KeptPlace
  <1>u. KeptUse(t, s)
    BY <1>1, <1>2, <1>3, <1>4, <1>5, <1>6, <1>7, <1>8, <1>9, <1>10 DEF KeptUse
  <1> QED
    BY <1>k, <1>u, KeptStep

\* The locks of a shard are taken and released, its metadata written, and the
\* cache that has been filled registered.
LEMMA LockSteps ==
    ASSUME ShardsInv, DatabasesInv, NEW t \in Threads,
           ColdLock(t) \/ RetryLock(t) \/ Describe(t) \/ Register(t) \/ Reopened(t)
    PROVE  DatabasesInv'
  <1>0. /\ th \in [Threads -> ThreadFrame] /\ th[t] \in ThreadFrame
        /\ th[t].pc \notin Openers => th[t].open.stage = "none"
    BY StateLemma, FrameLemma DEF DatabasesInv, OpensInv
  <1>1. /\ th[t].pc \in {"cold", "retry", "describe", "register", "reopened"}
        /\ th[t].pc \in OnShard
    BY DEF ColdLock, RetryLock, Describe, Register, Reopened, At, OnShard, Serving
  <1> PICK s \in Shards : s = th[t].s
    BY <1>1, FrameLemma DEF FrameOK
  <1>2. /\ UNCHANGED <<cache, strays, past, made>>
        /\ \A u \in Threads \ {t} : th'[u] = th[u]
    BY <1>0 DEF ColdLock, RetryLock, Describe, Register, Reopened
  <1>3. /\ dir'[s].db = dir[s].db /\ (dir[s].meta => dir'[s].meta)
        /\ dir[s].there => dir'[s].there
        /\ \A r \in Shards \ {s} : dir'[r] = dir[r]
    <2>1. dir' = dir \/ dir' = Described(dir, s)
      BY DEF ColdLock, RetryLock, Describe, Register, Reopened
    <2>2. dir \in [Shards -> [db : Nat, meta : BOOLEAN, there : BOOLEAN]]
      BY StateLemma DEF DirType
    <2>3. CASE dir' = Described(dir, s)
      <3>1. /\ dir'[s] = [dir[s] EXCEPT !.meta = TRUE, !.there = TRUE]
            /\ \A r \in Shards \ {s} : dir'[r] = dir[r]
        BY <2>2, <2>3 DEF Described
      <3> QED
        BY <2>2, <3>1
    <2> QED
      BY <2>1, <2>3
  <1>4. th[t].open.stage = "none" /\ th[t].pc # "create"
    BY <1>0, <1>1 DEF Openers
  <1>5. PassFiles(t) = th[t].files
    BY <1>4 DEF PassFiles, HoldsOpen
  <1>6. Bare(s)' => Tended(s)
    BY <1>2, <1>3 DEF Bare, DatabasesInv, DescribedInv
  <1>7. CASE ColdLock(t)
    <2>1. CASE loaded[s] # 0
      <3>1. th[t].pc = "cold" /\ loaded' = loaded /\ \E c : th' = [th EXCEPT ![t].pc = "use", ![t].held = c]
        BY <1>7, <2>1 DEF ColdLock, LoadedMeanwhile, At
      <3>2. /\ th'[t].pc = "use" /\ th'[t].files = th[t].files /\ th'[t].open = th[t].open
        BY <1>0, <3>1 DEF ThreadFrame
      <3>3. \A r \in Shards : /\ dir'[r].db = dir[r].db /\ (dir[r].meta => dir'[r].meta)
                              /\ dir[r].there => dir'[r].there
        BY <1>3
      <3>4. QuietFor(t)
        BY <1>2, <1>4, <3>1, <3>2, <3>3 DEF QuietFor, Locked, Loading, Filling, Retrying
      <3> QED
        BY <3>4, QuietDatabases
    <2>2. CASE loaded[s] = 0
      <3>1. /\ th[t].pc = "cold" /\ loaded' = loaded
            /\ th' = [th EXCEPT ![t].pc = "open", ![t].open = Opening]
        BY <1>7, <2>2 DEF ColdLock, LoadedMeanwhile, At
      <3>2. /\ th'[t].pc = "open" /\ th'[t].s = s /\ th'[t].files = th[t].files
            /\ th'[t].open.stage = "look" /\ th'[t].open.file = 0
        BY <1>0, <3>1, OpenFields DEF ThreadFrame
      <3>3. LoaderFile(t) = 0 /\ LoaderFile(t)' = 0 /\ ~Stands(t)'
        BY <3>1, <3>2 DEF LoaderFile, HoldsOpen, Filling, Stands
      <3>4. PassFiles(t)' = th[t].files
        BY <3>2 DEF PassFiles
      <3>5. Tended(s)' /\ \A c : ~Tells(t, s, c)
        BY <3>1, <3>2 DEF Tended, Tending, Tells
      <3>6. ShardFile(s)' = ShardFile(s)
        BY <1>2, <3>1 DEF ShardFile
      <3>k. KeptPlace(t, s)
        BY <1>2, <1>3, <1>5, <3>1, <3>2, <3>3, <3>4, <3>5, <3>6 DEF Openers, KeptPlace
      <3>u. KeptUse(t, s)
        BY <1>2, <1>3, <1>5, <3>1, <3>2, <3>3, <3>4, <3>5, <3>6 DEF Openers, KeptUse
      <3> QED
        BY <3>k, <3>u, KeptStep
    <2> QED
      BY <2>1, <2>2
  <1>8. CASE RetryLock(t)
    <2>1. th[t].pc = "retry" /\ loaded' = loaded
      BY <1>8 DEF RetryLock, At
    <2>2. ShardFile(s)' = ShardFile(s) /\ LoaderFile(t) = 0 /\ \A c : ~Tells(t, s, c)
      BY <1>2, <2>1 DEF ShardFile, LoaderFile, Filling, Tells
    <2>3. CASE th' = [th EXCEPT ![t].pc = "use"]
      <3>1. th'[t].pc = "use" /\ th'[t].files = th[t].files /\ th'[t].open = th[t].open
        BY <1>0, <2>3 DEF ThreadFrame
      <3>2. \A r \in Shards : /\ dir'[r].db = dir[r].db /\ (dir[r].meta => dir'[r].meta)
                              /\ dir[r].there => dir'[r].there
        BY <1>3
      <3>3. QuietFor(t)
        BY <1>2, <1>4, <2>1, <3>1, <3>2 DEF QuietFor, Locked, Loading, Filling, Retrying
      <3> QED
        BY <3>3, QuietDatabases
    <2>4. CASE still_registered(s, Held(t))
      <3>1. th' = [th EXCEPT ![t].pc = "reopen", ![t].open = reopen_if_unavailable(Held(t))]
        BY <1>8, <2>4 DEF RetryLock
      <3>2. /\ th'[t].pc = "reopen" /\ th'[t].s = s /\ th'[t].files = th[t].files
            /\ th'[t].open = reopen_if_unavailable(Held(t))
        BY <1>0, <3>1 DEF ThreadFrame
      <3>3. loaded[s] = Held(t) /\ Held(t) # 0
        BY <2>1, <2>4, HeldLemma DEF still_registered, ShardsInv, Serving
      <3>4. ShardFile(s) = cache[Held(t)].file
        BY <3>3 DEF ShardFile
      <3>5. /\ th'[t].open.stage \in {"look", "done"}
            /\ th'[t].open.file \in {0, ShardFile(s)}
        BY <3>2, <3>4, OpenFields DEF reopen_if_unavailable
      <3>6. LoaderFile(t)' \in {0, ShardFile(s)} /\ ~Stands(t)'
        BY <3>2, <3>5 DEF LoaderFile, Filling, Stands
      <3>7. PassFiles(t)' = th[t].files
        BY <3>2 DEF PassFiles
      <3>8. Tended(s)'
        BY <2>1, <3>3 DEF Tended
      <3>k. KeptPlace(t, s)
        BY <1>2, <1>3, <1>5, <2>1, <2>2, <3>2, <3>5, <3>6, <3>7, <3>8 DEF KeptPlace
      <3>u. KeptUse(t, s)
        BY <1>2, <1>3, <1>5, <2>1, <2>2, <3>2, <3>5, <3>6, <3>7, <3>8
           DEF KeptUse, Openers, Tending
      <3> QED
        BY <3>k, <3>u, KeptStep
    <2> QED
      BY <1>8, <2>3, <2>4 DEF RetryLock
  <1>9. CASE Describe(t)
    <2>1. /\ th[t].pc = "describe" /\ loaded' = loaded /\ th' = [th EXCEPT ![t].pc = "register"]
          /\ dir' = IF cache[Held(t)].file = 0 THEN dir ELSE Described(dir, s)
      BY <1>9 DEF Describe, At
    <2>2. /\ th'[t].pc = "register" /\ th'[t].s = s /\ th'[t].files = th[t].files
          /\ th'[t].open = th[t].open /\ th'[t].held = th[t].held
      BY <1>0, <2>1 DEF ThreadFrame
    <2>3. LoaderFile(t)' = LoaderFile(t)
      <3>1. Held(t)' = Held(t)
        BY <2>2 DEF Held
      <3> QED
        BY <1>2, <2>1, <2>2, <3>1 DEF LoaderFile, Filling
    <2>4. ShardFile(s)' = ShardFile(s) /\ Tended(s)'
      BY <1>2, <2>1, <2>2 DEF ShardFile, Tended, Tending
    <2>5. PassFiles(t)' = th[t].files /\ ~Stands(t)'
      BY <2>2 DEF PassFiles, Stands, Openers
    <2>6. \A c \in 1..MaxCaches : Tells(t, s, c) /\ Bare(s)' => cache'[c].file # dir'[s].db
      <3>1. ASSUME NEW c \in 1..MaxCaches, Tells(t, s, c), Bare(s)'
            PROVE  cache'[c].file # dir'[s].db
        <4>1. c = Held(t)
          BY <2>1, <3>1, HeldLemma DEF Tells, Serving, ShardsInv
        <4>2. cache[Held(t)].file = 0
          BY <2>1, <3>1, DescribedLemma DEF Bare
        <4> QED
          BY <1>2, <3>1, <4>1, <4>2 DEF Bare
      <3> QED
        BY <3>1
    <2>k. KeptPlace(t, s)
      BY <1>2, <1>3, <1>4, <1>5, <2>1, <2>2, <2>3, <2>4, <2>5, <2>6 DEF KeptPlace
    <2>u. KeptUse(t, s)
      BY <1>2, <1>3, <1>4, <1>5, <2>1, <2>2, <2>3, <2>4, <2>5, <2>6 DEF KeptUse
    <2> QED
      BY <2>k, <2>u, KeptStep
  <1>10. CASE Register(t)
    <2>1. /\ th[t].pc = "register" /\ loaded' = [loaded EXCEPT ![s] = Held(t)]
          /\ th' = [th EXCEPT ![t].pc = "use"]
      BY <1>10 DEF Register, At
    <2>2. /\ th'[t].pc = "use" /\ th'[t].s = s /\ th'[t].files = th[t].files
          /\ th'[t].open = th[t].open
      BY <1>0, <2>1 DEF ThreadFrame
    <2>3. loaded'[s] = Held(t) /\ Held(t) # 0 /\ \A r \in Shards \ {s} : loaded'[r] = loaded[r]
      BY <2>1, HeldLemma, StateLemma DEF ShardsInv, Serving
    <2>4. ShardFile(s)' = LoaderFile(t) /\ LoaderFile(t)' = 0 /\ Tended(s)'
      BY <1>2, <2>1, <2>2, <2>3 DEF ShardFile, LoaderFile, Filling, Tended
    <2>5. PassFiles(t)' = th[t].files /\ ~Stands(t)' /\ \A c : ~Tells(t, s, c)
      BY <2>1, <2>2 DEF PassFiles, Stands, Openers, Tells
    <2>k. KeptPlace(t, s)
      BY <1>2, <1>3, <1>4, <1>5, <2>2, <2>3, <2>4, <2>5 DEF KeptPlace
    <2>u. KeptUse(t, s)
      BY <1>2, <1>3, <1>4, <1>5, <2>2, <2>3, <2>4, <2>5 DEF KeptUse
    <2> QED
      BY <2>k, <2>u, KeptStep
  <1>11. CASE Reopened(t)
    <2>1. /\ th[t].pc = "reopened" /\ loaded' = loaded /\ th' = [th EXCEPT ![t].pc = "use"]
          /\ dir' = IF loaded[s] = 0 THEN dir ELSE Described(dir, s)
      BY <1>11 DEF Reopened, At
    <2>2. /\ th'[t].pc = "use" /\ th'[t].s = s /\ th'[t].files = th[t].files
          /\ th'[t].open = th[t].open
      BY <1>0, <2>1 DEF ThreadFrame
    <2>3. loaded[s] # 0
      <3>1. PICK c \in 1..made.caches : th[t].held = {c}
        BY <2>1 DEF ShardsInv, FramesInv, FrameOK, Serving
      <3>2. th[t].held = {loaded[s]}
        BY <2>1 DEF ShardsInv, LocksInv, Retrying
      <3>3. c = loaded[s]
        BY <3>1, <3>2
      <3> QED
        BY <3>3
    <2>4. ~Bare(s)'
      BY <2>1, <2>3, DescribedLemma DEF Bare
    <2>5. ShardFile(s)' = ShardFile(s) /\ LoaderFile(t) = 0 /\ LoaderFile(t)' = 0
      BY <1>2, <2>1, <2>2 DEF ShardFile, LoaderFile, Filling
    <2>6. PassFiles(t)' = th[t].files /\ ~Stands(t)'
      BY <2>2 DEF PassFiles, Stands, Openers
    <2>k. KeptPlace(t, s)
      BY <1>2, <1>3, <1>4, <1>5, <2>1, <2>2, <2>4, <2>5, <2>6 DEF KeptPlace
    <2>u. KeptUse(t, s)
      BY <1>2, <1>3, <1>4, <1>5, <2>1, <2>2, <2>4, <2>5, <2>6 DEF KeptUse
    <2> QED
      BY <2>k, <2>u, KeptStep
  <1> QED
    BY <1>7, <1>8, <1>9, <1>10, <1>11

\* A loader fills a cache with the database it has opened.
LEMMA FillSteps ==
    ASSUME ShardsInv, DatabasesInv, NEW t \in Threads, OpenShard(t) \/ reopen_disk(t)
    PROVE  DatabasesInv'
  <1>0. /\ th \in [Threads -> ThreadFrame] /\ th[t] \in ThreadFrame
        /\ th[t].open.file \in Nat /\ th[t].open.file <= made.files
        /\ made.files \in Nat
    BY StateLemma, FrameLemma, NumbersLemma DEF DatabasesInv, NumbersInv
  <1>1. /\ th[t].pc \in {"open", "reopen"} /\ th[t].open.stage = "done" /\ th[t].pc \in OnShard
        /\ th[t].pc \in Locked
    BY DEF OpenShard, reopen_disk, At, Stage, OnShard, Serving, Locked, Loading, Retrying
  <1> PICK s \in Shards : s = th[t].s
    BY <1>1, FrameLemma DEF FrameOK
  <1> PICK f : f = th[t].open.file
    OBVIOUS
  <1>2. LoaderFile(t) = f /\ PassFiles(t) = th[t].files
    BY <1>1 DEF LoaderFile, HoldsOpen, PassFiles, Filling
  <1>3. \A r \in Shards \ {s} : Bare(r) => f # dir[r].db
    BY <1>2 DEF Bare, DatabasesInv, FilesInv, NumbersInv
  <1>4. /\ \A c \in 1..MaxCaches : cache[c].file \in Nat /\ cache[c].file <= made.files
        /\ \A g \in th[t].files : g <= made.files /\ g # 0
    BY NumbersLemma DEF DatabasesInv, NumbersInv
  <1>5. /\ UNCHANGED <<dir, loaded, strays, past>> /\ made'.files = made.files
    BY StateLemma DEF OpenShard, reopen_disk
  <1>6. \A r \in Shards : loaded[r] # 0 => loaded[r] \in 1..made.caches
    BY BoundsLemma DEF ShardsInv
  <1>7. \A u \in Threads : th[u].pc \in Filling =>
            /\ Held(u) \in 1..made.caches /\ Held(u) \in th[u].held
            /\ lock[th[u].s] = u /\ cache[Held(u)].shard = th[u].s
    <2> SUFFICES ASSUME NEW u \in Threads, th[u].pc \in Filling
                 PROVE  /\ Held(u) \in 1..made.caches /\ Held(u) \in th[u].held
                        /\ lock[th[u].s] = u /\ cache[Held(u)].shard = th[u].s
      OBVIOUS
    <2>1. Held(u) \in 1..made.caches /\ Held(u) \in th[u].held
      BY HeldLemma DEF ShardsInv, Filling, Serving
    <2>2. lock[th[u].s] = u
      BY DEF ShardsInv, LocksInv, Locked, Loading
    <2> QED
      BY <2>1, <2>2 DEF ShardsInv, OwnersInv
  <1>8. Placed(t, s)
    BY <1>5 DEF Placed, DatabasesInv, NumbersInv
  <1>9. CASE OpenShard(t)
    <2> PICK c : c = made.caches + 1
      OBVIOUS
    <2>1. /\ th[t].pc = "open"
          /\ cache' = [cache EXCEPT ![c] =
                 [shard |-> s, file |-> f, ver |-> Preload(f), gen |-> 0]]
          /\ th' = [th EXCEPT ![t].pc = "describe", ![t].held = {c}, ![t].open = NotOpening]
      BY <1>9 DEF OpenShard, At
    <2>2. c \in 1..MaxCaches /\ c \notin 1..made.caches /\ c # 0
      <3>1. made.caches < MaxCaches
        BY <1>9 DEF OpenShard
      <3>2. made.caches \in Nat /\ MaxCaches \in Nat
        BY ShardsAssumption DEF ShardsInv, ShardsTypeOK
      <3> QED
        BY <3>1, <3>2
    <2>3. /\ cache'[c].file = f /\ \A d \in 1..MaxCaches \ {c} : cache'[d] = cache[d]
      BY <2>1, <2>2, StateLemma DEF CacheType
    <2>4. /\ th'[t].pc = "describe" /\ th'[t].s = s /\ th'[t].held = {c}
          /\ th'[t].files = th[t].files /\ th'[t].open = NotOpening
          /\ \A u \in Threads \ {t} : th'[u] = th[u]
      BY <1>0, <2>1 DEF ThreadFrame
    <2>5. \A r \in Shards : ShardFile(r)' = ShardFile(r)
      BY <1>5, <1>6, <2>2, <2>3, StateLemma DEF ShardFile
    <2>6. \A u \in Threads \ {t} : LoaderFile(u)' = LoaderFile(u)
      <3> SUFFICES ASSUME NEW u \in Threads \ {t} PROVE LoaderFile(u)' = LoaderFile(u)
        OBVIOUS
      <3>1. Held(u)' = Held(u) /\ HoldsOpen(u)' = HoldsOpen(u) /\ th'[u] = th[u]
        BY <2>4 DEF Held, HoldsOpen
      <3>2. th[u].pc \in Filling => cache'[Held(u)] = cache[Held(u)]
        BY <1>7, <2>2, <2>3, StateLemma
      <3> QED
        BY <3>1, <3>2 DEF LoaderFile
    <2>7. LoaderFile(t)' = f
      <3>1. Held(t)' \in th'[t].held
        BY <2>4 DEF Held
      <3>2. Held(t)' = c
        BY <2>4, <3>1
      <3> QED
        BY <2>3, <2>4, <3>2 DEF LoaderFile, Filling
    <2>8. /\ th'[t].open.stage = "none" /\ th'[t].open.file = 0 /\ ~Stands(t)'
          /\ PassFiles(t)' = th[t].files
      BY <2>4, OpenFields DEF Stands, PassFiles, Openers
    <2>9. Apart(t, s)
      BY <1>0, <1>5, <2>4, <2>5, <2>6 DEF Apart
    <2>10. Uses(t, s)
      <3>1. \A d \in 1..MaxCaches : cache'[d].file <= made'.files
        BY <1>0, <1>4, <1>5, <2>2, <2>3
      <3> QED
        BY <1>0, <1>2, <1>4, <1>5, <2>4, <2>5, <2>7, <2>8, <3>1 DEF Uses
    <2>11. Describes(t, s)
      <3>1. Tended(s)' /\ Tells(t, s, c)' /\ \A d : ~Tells(t, s, d)
        BY <2>1, <2>4 DEF Tended, Tending, Tells
      <3>2. \A d \in 1..MaxCaches : \/ cache'[d].file = cache[d].file
                                    \/ d = c /\ cache'[d].file = f
        BY <2>2, <2>3
      <3> QED
        BY <1>2, <1>3, <2>8, <3>1, <3>2 DEF Describes
    <2> QED
      BY <1>8, <2>9, <2>10, <2>11, DatabaseStep
  <1>10. CASE reopen_disk(t)
    <2> PICK c : c = Held(t)
      OBVIOUS
    <2>1. th[t].pc = "reopen" /\ th[t].pc \in Serving /\ th[t].pc \in Retrying
      BY <1>10 DEF reopen_disk, At, Serving, Retrying
    <2>2. c \in 1..made.caches /\ c \in 1..MaxCaches /\ th[t].held = {c}
      BY <2>1, HeldLemma, StateLemma DEF ShardsInv
    <2>3. loaded[s] = c /\ lock[s] = t /\ c # 0 /\ cache[c].shard = s
      <3>1. lock[s] = t /\ th[t].held = {loaded[s]}
        BY <1>1, <2>1, LockLemma
      <3>2. loaded[s] = c
        BY <2>2, <3>1
      <3>3. c # 0
        BY <2>2
      <3> QED
        BY <3>1, <3>2, <3>3, RegisteredLemma
    <2>4. CASE f = 0
      <3>1. /\ th' = [th EXCEPT ![t].pc = "use", ![t].open = NotOpening] /\ UNCHANGED cache
        BY <1>10, <2>4 DEF reopen_disk
      <3>2. /\ th'[t].pc = "use" /\ th'[t].s = s /\ th'[t].files = th[t].files
            /\ th'[t].open = NotOpening
            /\ \A u \in Threads \ {t} : th'[u] = th[u]
        BY <1>0, <3>1 DEF ThreadFrame
      <3>3. /\ ShardFile(s)' = ShardFile(s) /\ LoaderFile(t)' = 0 /\ Tended(s)'
        BY <1>5, <2>3, <3>1, <3>2 DEF ShardFile, LoaderFile, Filling, Tended
      <3>4. /\ th'[t].open.stage = "none" /\ th'[t].open.file = 0 /\ ~Stands(t)'
            /\ PassFiles(t)' = th[t].files /\ \A d : ~Tells(t, s, d)
        BY <2>1, <3>2, OpenFields DEF Stands, PassFiles, Openers, Tells
      <3>k. KeptPlace(t, s)
        BY <1>2, <1>5, <2>1, <3>1, <3>2, <3>3, <3>4 DEF KeptPlace
      <3>u. KeptUse(t, s)
        BY <1>2, <1>5, <2>1, <3>1, <3>2, <3>3, <3>4 DEF KeptUse
      <3> QED
        BY <3>k, <3>u, KeptStep
    <2>5. CASE f # 0
      <3>1. /\ th' = [th EXCEPT ![t].pc = "reopened", ![t].open = NotOpening]
            /\ \E v : cache' = [cache EXCEPT ![c].file = f, ![c].ver = v]
        BY <1>10, <2>5 DEF reopen_disk
      <3>2. cache'[c].file = f /\ \A d \in 1..MaxCaches \ {c} : cache'[d] = cache[d]
        <4> PICK v : cache' = [cache EXCEPT ![c].file = f, ![c].ver = v]
          BY <3>1
        <4> QED
          BY <2>2, StateLemma DEF CacheType
      <3>3. /\ th'[t].pc = "reopened" /\ th'[t].s = s /\ th'[t].held = {c}
            /\ th'[t].files = th[t].files /\ th'[t].open = NotOpening
            /\ \A u \in Threads \ {t} : th'[u] = th[u]
        BY <1>0, <2>2, <3>1 DEF ThreadFrame
      <3>4. \A r \in Shards \ {s} : ShardFile(r)' = ShardFile(r)
        <4>1. \A r \in Shards \ {s} : loaded[r] # c
          BY <2>3 DEF ShardsInv, OwnersInv
        <4>2. \A r \in Shards \ {s} : loaded[r] # 0 => cache'[loaded[r]] = cache[loaded[r]]
          <5>1. \A r \in Shards : loaded[r] # 0 => loaded[r] \in 1..MaxCaches
            BY StateLemma
          <5> QED
            BY <3>2, <4>1, <5>1
        <4> QED
          BY <1>5, <4>2 DEF ShardFile
      <3>5. \A u \in Threads \ {t} : LoaderFile(u)' = LoaderFile(u)
        <4> SUFFICES ASSUME NEW u \in Threads \ {t} PROVE LoaderFile(u)' = LoaderFile(u)
          OBVIOUS
        <4>1. Held(u)' = Held(u) /\ HoldsOpen(u)' = HoldsOpen(u) /\ th'[u] = th[u]
          BY <3>3 DEF Held, HoldsOpen
        <4>2. ASSUME th[u].pc \in Filling PROVE cache'[Held(u)] = cache[Held(u)]
          <5>1. Held(u) \in 1..MaxCaches
            BY <1>7, <4>2, StateLemma
          <5>2. lock[th[u].s] = u /\ cache[Held(u)].shard = th[u].s
            BY <1>7, <4>2
          <5>3. Held(u) # c
            BY <2>3, <5>2
          <5> QED
            BY <3>2, <5>1, <5>3
        <4> QED
          BY <4>1, <4>2 DEF LoaderFile
      <3>6. ShardFile(s)' = f /\ LoaderFile(t)' = 0 /\ Tended(s)'
        BY <1>5, <2>3, <3>2, <3>3 DEF ShardFile, LoaderFile, Filling, Tended
      <3>7. /\ th'[t].open.stage = "none" /\ th'[t].open.file = 0 /\ ~Stands(t)'
            /\ PassFiles(t)' = th[t].files
        BY <3>3, OpenFields DEF Stands, PassFiles, Openers
      <3>8. Apart(t, s)
        BY <1>0, <1>5, <3>3, <3>4, <3>5 DEF Apart
      <3>9. Uses(t, s)
        <4>1. \A d \in 1..MaxCaches : cache'[d].file <= made'.files
          BY <1>0, <1>4, <1>5, <2>2, <3>2
        <4> QED
          BY <1>0, <1>2, <1>4, <1>5, <3>3, <3>6, <3>7, <4>1 DEF Uses
      <3>10. Describes(t, s)
        <4>1. Tells(t, s, c)' /\ \A d : ~Tells(t, s, d)
          BY <2>1, <3>3 DEF Tells
        <4>2. \A d \in 1..MaxCaches : \/ cache'[d].file = cache[d].file
                                      \/ d = c /\ cache'[d].file = f
          BY <2>2, <3>2
        <4> QED
          BY <1>2, <1>3, <3>6, <3>7, <4>1, <4>2 DEF Describes
      <3> QED
        BY <1>8, <3>8, <3>9, <3>10, DatabaseStep
    <2> QED
      BY <2>4, <2>5
  <1> QED
    BY <1>9, <1>10

\* What a removal finds: nobody with the lock of its shard uses a database, and
\* one that somebody holds is not bare.
LEMMA RemovalFacts ==
    ASSUME ShardsInv, DatabasesInv, NEW t \in Threads,
           th[t].pc \in {"unlink", "condemned", "unlinked", "emptied"}
    PROVE  LET s == th[t].s IN
           /\ s \in Shards /\ ShardFile(s) = 0 /\ LoaderFile(t) = 0
           /\ PassFiles(t) = th[t].files /\ \A c : ~Tells(t, s, c)
           /\ th[t].open.stage = "none"
           /\ \A u \in Threads : dir[s].db # 0 => LoaderFile(u) # dir[s].db
           /\ Bare(s) => dir[s].db \notin OpenFiles
  <1> PICK s : s = th[t].s
    OBVIOUS
  <1>1. s \in Shards /\ lock[s] = t /\ loaded[s] = 0
    BY LockLemma DEF Locked, Loading
  <1>2. ShardFile(s) = 0 /\ LoaderFile(t) = 0
    BY <1>1 DEF ShardFile, LoaderFile, Filling
  <1>3. th[t].open.stage = "none" /\ PassFiles(t) = th[t].files
    BY DEF DatabasesInv, OpensInv, Openers, PassFiles
  <1>4. \A c : ~Tells(t, s, c)
    BY DEF Tells
  <1>5. ASSUME NEW u \in Threads, dir[s].db # 0, LoaderFile(u) = dir[s].db PROVE FALSE
    <2>1. th[u].s \in Shards /\ lock[th[u].s] = u
      BY <1>5, UsersLemma
    <2>2. dir[th[u].s].db = dir[s].db
      BY <1>1, <1>5 DEF DatabasesInv, FilesInv, NumbersInv
    <2>3. th[u].s = s
      BY <1>1, <1>5, <2>1, <2>2 DEF DatabasesInv, NumbersInv
    <2> QED
      BY <1>1, <1>2, <1>5, <2>1, <2>3
  <1>6. ASSUME Bare(s), dir[s].db \in OpenFiles PROVE FALSE
    <2>1. dir[s].db # 0 /\ \A u \in Threads : dir[s].db \notin PassFiles(u)
      BY <1>1, <1>6 DEF Bare, DatabasesInv, DescribedInv
    <2>2. \/ \E c \in DOMAIN cache : cache[c].file = dir[s].db
          \/ \E u \in Threads : dir[s].db \in th[u].files
          \/ \E u \in Threads : HoldsOpen(u) /\ th[u].open.file = dir[s].db
      BY <1>6 DEF OpenFiles
    <2>3. ASSUME NEW c \in DOMAIN cache, cache[c].file = dir[s].db PROVE FALSE
      <3>1. c \in 1..MaxCaches
        BY StateLemma DEF CacheType
      <3>2. PICK u \in Threads : Tells(u, s, c)
        BY <1>1, <1>6, <2>3, <3>1 DEF DatabasesInv, DescribedInv
      <3>3. lock[s] = u
        BY <3>2, LockLemma DEF Tells, Locked, Loading, Filling, Retrying
      <3> QED
        BY <1>1, <1>4, <3>2, <3>3
    <2>4. ASSUME NEW u \in Threads, dir[s].db \in th[u].files PROVE FALSE
      BY <2>1, <2>4 DEF PassFiles
    <2>5. ASSUME NEW u \in Threads, HoldsOpen(u), th[u].open.file = dir[s].db PROVE FALSE
      <3>1. th[u].pc \in Openers
        BY <2>5 DEF HoldsOpen, DatabasesInv, OpensInv
      <3>2. th[u].pc = "create" => dir[s].db \in PassFiles(u)
        BY <2>1, <2>5 DEF PassFiles
      <3>3. th[u].pc \in {"open", "reopen"} => LoaderFile(u) = dir[s].db
        BY <2>5 DEF LoaderFile, Filling
      <3> QED
        BY <1>5, <2>1, <3>1, <3>2, <3>3 DEF Openers
    <2> QED
      BY <2>2, <2>3, <2>4, <2>5
  <1> QED
    BY <1>1, <1>2, <1>3, <1>4, <1>5, <1>6

\* A removal unlinks a database, whole or with the rest of its directory.
LEMMA UnlinkStep ==
    ASSUME ShardsInv, DatabasesInv, NEW t \in Threads, NEW s \in Shards, s = th[t].s,
           th[t].pc \in {"unlink", "condemned", "unlinked"},
           UNCHANGED <<cache, loaded, strays, past, made>>,
           dir'[s].db = 0, \A r \in Shards \ {s} : dir'[r] = dir[r],
           \E p \in {"unlinked", "emptied"} : th' = [th EXCEPT ![t].pc = p]
    PROVE  DatabasesInv'
  <1>0. th \in [Threads -> ThreadFrame] /\ th[t] \in ThreadFrame
    BY StateLemma, FrameLemma
  <1>1. /\ th'[t].pc \in {"unlinked", "emptied"} /\ th'[t].files = th[t].files
        /\ th'[t].open = th[t].open /\ \A u \in Threads \ {t} : th'[u] = th[u]
    BY <1>0 DEF ThreadFrame
  <1>2. /\ ShardFile(s) = 0 /\ LoaderFile(t) = 0
        /\ PassFiles(t) = th[t].files /\ \A c : ~Tells(t, s, c)
        /\ th[t].open.stage = "none"
        /\ \A u \in Threads : dir[s].db # 0 => LoaderFile(u) # dir[s].db
    BY RemovalFacts
  <1>3. /\ \A r \in Shards : ShardFile(r)' = ShardFile(r)
        /\ \A u \in Threads \ {t} : LoaderFile(u)' = LoaderFile(u)
    BY <1>1, SameFiles
  <1>4. LoaderFile(t)' = 0 /\ ~Stands(t)' /\ PassFiles(t)' = th[t].files
    BY <1>1 DEF LoaderFile, Filling, Stands, Openers, PassFiles
  <1>5. Apart(t, s)
    BY <1>1, <1>3, NumbersLemma DEF Apart
  <1>6. Placed(t, s)
    BY <1>2 DEF Placed
  <1>7. Uses(t, s)
    BY <1>1, <1>2, <1>3, <1>4 DEF Uses, DatabasesInv, NumbersInv
  <1>8. Describes(t, s)
    BY <1>2, <1>4 DEF Describes, Bare
  <1> QED
    BY <1>5, <1>6, <1>7, <1>8, DatabaseStep

\* The removal of a shard.
LEMMA RemovalSteps ==
    ASSUME ShardsInv, DatabasesInv, NEW t \in Threads,
           \/ remove_shard_database(t) \/ Condemn(t) \/ RemoveUnreadable(t)
           \/ RemoveEntries(t) \/ RemoveDirectory(t)
    PROVE  DatabasesInv'
  <1>0. /\ th \in [Threads -> ThreadFrame] /\ th[t] \in ThreadFrame /\ dir \in DirType
    BY StateLemma, FrameLemma
  <1> PICK s : s = th[t].s
    OBVIOUS
  <1>1. th[t].pc \in {"unlink", "condemned", "unlinked", "emptied"}
    BY DEF remove_shard_database, Condemn, RemoveUnreadable, RemoveEntries, RemoveDirectory, At
  <1>2. /\ s \in Shards /\ ShardFile(s) = 0 /\ LoaderFile(t) = 0
        /\ PassFiles(t) = th[t].files /\ (\A c : ~Tells(t, s, c))
        /\ th[t].open.stage = "none"
        /\ Bare(s) => dir[s].db \notin OpenFiles
    BY <1>1, RemovalFacts
  <1>3. UNCHANGED <<cache, loaded, strays, past>> /\ made'.files = made.files
    BY StateLemma DEF remove_shard_database, Condemn, RemoveUnreadable, RemoveEntries,
       RemoveDirectory, shared
  <1>4. ASSUME NEW p \in {"remove", "condemned"}, NEW b,
               \/ th' = [th EXCEPT ![t].pc = p]
               \/ th' = [th EXCEPT ![t].pc = p, ![t].removed = b],
               \A r \in Shards \ {s} : dir'[r] = dir[r],
               dir'[s].db = dir[s].db, dir'[s].meta = dir[s].meta,
               dir[s].db # 0 /\ dir[s].there => dir'[s].there,
               Bare(s) => p = "condemned" \/ th[t].pc = "emptied"
        PROVE  DatabasesInv'
    <2>1. /\ th'[t].pc = p /\ th'[t].files = th[t].files /\ th'[t].open = th[t].open
          /\ th'[t].s = s /\ \A u \in Threads \ {t} : th'[u] = th[u]
      BY <1>0, <1>4 DEF ThreadFrame
    <2>2. ShardFile(s)' = ShardFile(s)
      BY <1>2, <1>3 DEF ShardFile
    <2>3. LoaderFile(t)' = 0 /\ ~Stands(t)' /\ PassFiles(t)' = th[t].files
      BY <2>1 DEF LoaderFile, Filling, Stands, Openers, PassFiles
    <2>4. Bare(s)' => Tended(s)'
      <3>1. SUFFICES ASSUME Bare(s) PROVE Tended(s)'
        BY <1>3, <1>4 DEF Bare
      <3>2. CASE p = "condemned"
        BY <2>1, <3>2 DEF Tended, Tending
      <3>3. CASE th[t].pc = "emptied"
        <4>1. loaded[s] = 0
          BY <1>1, LockLemma DEF Locked, Loading
        <4>2. PICK u \in Threads : th[u].s = s /\ th[u].pc \in Tending
          BY <1>2, <3>1, <4>1 DEF DatabasesInv, DescribedInv, Tended
        <4>3. u # t
          BY <3>3, <4>2 DEF Tending
        <4> QED
          BY <2>1, <4>2, <4>3 DEF Tended
      <3> QED
        BY <1>4, <3>1, <3>2, <3>3
    <2>k. KeptPlace(t, s)
      BY <1>2, <1>3, <1>4, <2>1, <2>2, <2>3, <2>4 DEF KeptPlace
    <2>u. KeptUse(t, s)
      BY <1>2, <1>3, <1>4, <2>1, <2>2, <2>3, <2>4 DEF KeptUse
    <2> QED
      BY <1>2, <2>k, <2>u, KeptStep
  <1>5. CASE Condemn(t)
    BY <1>4, <1>5 DEF Condemn, shared
  <1>6. CASE RemoveDirectory(t)
    <2>1. /\ \A r \in Shards \ {s} : dir'[r] = dir[r]
          /\ dir'[s].db = dir[s].db /\ dir'[s].meta = dir[s].meta
          /\ dir[s].db # 0 /\ dir[s].there => dir'[s].there
      BY <1>0, <1>2, <1>6 DEF RemoveDirectory, DirType
    <2>2. th[t].pc = "emptied" /\ \E b : th' = [th EXCEPT ![t].pc = "remove", ![t].removed = b]
      BY <1>6 DEF RemoveDirectory, At
    <2> QED
      BY <1>4, <2>1, <2>2
  <1>7. CASE remove_shard_database(t) /\ HeldElsewhere(s)
    <2>1. th' = [th EXCEPT ![t].pc = "remove"] /\ dir' = dir
      BY <1>7 DEF remove_shard_database
    <2>2. ~Bare(s)
      BY <1>2, <1>7 DEF HeldElsewhere
    <2> QED
      BY <1>4, <2>1, <2>2
  <1>8. CASE (remove_shard_database(t) /\ ~HeldElsewhere(s)) \/ RemoveUnreadable(t) \/ RemoveEntries(t)
    <2>1. th[t].pc \in {"unlink", "condemned", "unlinked"}
      BY <1>8 DEF remove_shard_database, RemoveUnreadable, RemoveEntries, At
    <2>2. \/ dir' = [dir EXCEPT ![s].db = 0]
          \/ dir' = [dir EXCEPT ![s].db = 0, ![s].meta = FALSE]
      BY <1>8 DEF remove_shard_database, RemoveUnreadable, RemoveEntries
    <2>3. dir'[s].db = 0 /\ \A r \in Shards \ {s} : dir'[r] = dir[r]
      BY <1>0, <1>2, <2>2 DEF DirType
    <2>4. \E p \in {"unlinked", "emptied"} : th' = [th EXCEPT ![t].pc = p]
      BY <1>8 DEF remove_shard_database, RemoveUnreadable, RemoveEntries
    <2>5. UNCHANGED made
      BY <1>8 DEF remove_shard_database, RemoveUnreadable, RemoveEntries
    <2> QED
      BY <1>2, <1>3, <2>1, <2>3, <2>4, <2>5, UnlinkStep
  <1> QED
    BY <1>5, <1>6, <1>7, <1>8

\* A shard is unregistered.
LEMMA UnregisterDatabases ==
    ASSUME ShardsInv, DatabasesInv, NEW t \in Threads, remove_shard_by_id(t)
    PROVE  DatabasesInv'
  <1>0. /\ th \in [Threads -> ThreadFrame] /\ th[t] \in ThreadFrame
        /\ loaded \in [Shards -> 0..made.caches]
        /\ th[t].list \subseteq Shards
    BY StateLemma, FrameLemma DEF ThreadFrame
  <1>1. th[t].pc = "remove" /\ UNCHANGED <<dir, strays, past, made>>
    BY DEF remove_shard_by_id, At
  <1>2. PICK s \in th[t].list :
            /\ loaded' = [loaded EXCEPT ![s] = 0]
            /\ cache' = cache \/ cache' = Emptied(loaded[s])
            /\ IF dir[s].there
               THEN th' = [th EXCEPT ![t].pc = "unlink", ![t].s = s, ![t].list = @ \ {s}]
               ELSE th' = [th EXCEPT ![t].list = @ \ {s}, ![t].removed = @ \/ loaded[s] # 0]
    BY DEF remove_shard_by_id
  <1>3. s \in Shards
    BY <1>0
  <1>4. \A c \in 1..MaxCaches : cache'[c].file = cache[c].file
    <2>1. CachesOK(cache')
      <3>1. CASE cache' = cache
        BY <3>1, EmptiedLemma
      <3>2. CASE cache' = Emptied(loaded[s])
        BY <3>2, EmptiedLemma, Zenon
      <3> QED
        BY <1>2, <3>1, <3>2
    <2> QED
      BY <2>1 DEF CachesOK
  <1>5. loaded'[s] = 0 /\ \A r \in Shards \ {s} : loaded'[r] = loaded[r]
    BY <1>0, <1>2, <1>3
  <1>6. /\ th'[t].pc \in {"unlink", "remove"}
        /\ dir[s].there => th'[t].pc = "unlink" /\ th'[t].s = s
        /\ th'[t].files = th[t].files /\ th'[t].open = th[t].open
        /\ \A u \in Threads \ {t} : th'[u] = th[u]
    BY <1>0, <1>1, <1>2 DEF ThreadFrame
  <1>7. ShardFile(s)' = 0 /\ LoaderFile(t) = 0 /\ LoaderFile(t)' = 0
    BY <1>1, <1>5, <1>6 DEF ShardFile, LoaderFile, Filling
  <1>8. /\ PassFiles(t) = th[t].files /\ PassFiles(t)' = th[t].files /\ ~Stands(t)'
        /\ th[t].open.stage = "none" /\ \A c : ~Tells(t, s, c)
    BY <1>1, <1>6 DEF PassFiles, Stands, Openers, Tells, DatabasesInv, OpensInv
  <1>9. Bare(s)' => Tended(s)'
    <2>1. Bare(s)' => dir[s].there
      BY <1>1, <1>3 DEF Bare, DatabasesInv, NumbersInv
    <2> QED
      BY <1>6, <2>1 DEF Tended, Tending
  <1>k. KeptPlace(t, s)
    BY <1>1, <1>3, <1>4, <1>5, <1>6, <1>7, <1>8, <1>9 DEF Tending, KeptPlace
  <1>u. KeptUse(t, s)
    BY <1>1, <1>3, <1>4, <1>5, <1>6, <1>7, <1>8, <1>9 DEF Tending, KeptUse
  <1> QED
    BY <1>0, <1>k, <1>u, KeptStep

\* What earlier sessions left is in place.
LEMMA DatabasesStart ==
    ASSUME ShardsInit
    PROVE  DatabasesInv
  <1> PICK present \in SUBSET Shards :
         dir = [s \in Shards |->
               [db |-> IF s \in present THEN s ELSE 0,
                meta |-> s \in present, there |-> s \in present]]
    BY DEF ShardsInit
  <1>1. /\ \A c \in 1..MaxCaches : cache[c].file = 0
        /\ \A s \in Shards : loaded[s] = 0
        /\ past.torn = {} /\ made.files = NShards /\ NShards \in Nat
    BY ShardsAssumption DEF ShardsInit
  <1>2. \A t \in Threads : /\ th[t].pc = "idle" /\ th[t].files = {}
                           /\ th[t].open.stage = "none" /\ th[t].open.file = 0
    BY OpenFields DEF ShardsInit, IdleAt
  <1>3. \A s \in Shards : /\ dir[s].db \in {0, s} /\ s \in Nat \ {0} /\ s <= NShards
                          /\ dir[s].db # 0 => dir[s].meta /\ dir[s].there
    <2>1. \A s \in Shards : s \in Nat \ {0} /\ s <= NShards
      BY <1>1 DEF Shards
    <2>2. \A s \in Shards : /\ dir[s].db = IF s \in present THEN s ELSE 0
                            /\ dir[s].meta = (s \in present) /\ dir[s].there = (s \in present)
      OBVIOUS
    <2> QED
      BY <2>1, <2>2
  <1>4. OpensInv
    BY <1>2 DEF OpensInv
  <1>5. NumbersInv
    BY <1>1, <1>2, <1>3 DEF NumbersInv
  <1>6. FilesInv
    BY <1>1, <1>2 DEF FilesInv, ShardFile, LoaderFile, Filling
  <1>7. StandingInv
    BY <1>2 DEF StandingInv, Stands, Openers
  <1>8. DescribedInv
    BY <1>3 DEF DescribedInv, Bare
  <1> QED
    BY <1>4, <1>5, <1>6, <1>7, <1>8 DEF DatabasesInv

\* Every step keeps the databases in place.
LEMMA DatabasesPreserved ==
    ASSUME ShardsInv, DatabasesInv, [ShardsNext]_shardVars
    PROVE  DatabasesInv'
  <1>1. CASE Install \/ UNCHANGED shardVars
    <2>1. UNCHANGED <<dir, cache, loaded, strays, past, th, made>>
      BY <1>1 DEF Install, shared, shardVars
    <2>2. /\ \A s \in Shards : ShardFile(s)' = ShardFile(s)
          /\ \A t \in Threads : LoaderFile(t)' = LoaderFile(t) /\ PassFiles(t)' = PassFiles(t)
      BY <2>1 DEF ShardFile, LoaderFile, PassFiles, Held, HoldsOpen
    <2>3. OpensInv' /\ NumbersInv'
      BY <2>1 DEF DatabasesInv, OpensInv, NumbersInv
    <2>4. FilesInv'
      BY <2>1, <2>2 DEF DatabasesInv, FilesInv
    <2>5. StandingInv'
      BY <2>1, <2>2 DEF DatabasesInv, StandingInv, Stands, Alone
    <2>6. DescribedInv'
      BY <2>1, <2>2 DEF DatabasesInv, DescribedInv, Bare, Tended, Tells
    <2> QED
      BY <2>3, <2>4, <2>5, <2>6 DEF DatabasesInv
  <1>2. ASSUME NEW t \in Threads, Serve(t) PROVE DatabasesInv'
    BY <1>2, QuietRequests, LockSteps, FillSteps DEF Serve
  <1>3. ASSUME NEW t \in Threads, Pass(t) PROVE DatabasesInv'
    BY <1>3, QuietPasses, QuietEntries, ExistingStep DEF Pass
  <1>4. ASSUME NEW t \in Threads, Removal(t) PROVE DatabasesInv'
    BY <1>4, QuietPasses, QuietEntries, UnregisterDatabases, RemovalSteps DEF Removal
  <1>5. ASSUME NEW t \in Threads, open_database(t) PROVE DatabasesInv'
    BY <1>5, OpenKeeps, CreateStep, RecreateStep DEF open_database
  <1> QED
    BY <1>1, <1>2, <1>3, <1>4, <1>5 DEF ShardsNext, OneThread, Done

\* The registry's inductive invariant: who holds which lock and which cache,
\* and where every database is.
THEOREM RegistryInvariant == ShardsSpec => [](ShardsInv /\ DatabasesInv)
  <1>1. ShardsInit => ShardsInv /\ DatabasesInv
    BY ShardsStart, DatabasesStart
  <1>2. ShardsInv /\ DatabasesInv /\ [ShardsNext]_shardVars => (ShardsInv /\ DatabasesInv)'
    BY ShardsPreserved, DatabasesPreserved
  <1> QED
    BY <1>1, <1>2, PTL DEF ShardsSpec

\* No removal, no recreation and no pass unlinks the database a registered
\* shard writes to, whatever opens fail and whatever databases turn out unfit,
\* except one that is torn: unlinked by a thread whose verdict (recreate_database)
\* was of an earlier state of the path.
THEOREM LiveFilesAreKept == ShardsSpec => []LiveFileKept
  <1>1. DatabasesInv => LiveFileKept
    BY DEF DatabasesInv, FilesInv, ShardFile, LiveFileKept
  <1> QED
    BY <1>1, RegistryInvariant, PTL

\* While no loader, retry or removal has a shard's lock, a database without
\* metadata belongs to a registered cache, or a pass has created or opened it so
\* (retry_disk_open, open_existing).
THEOREM DatabasesAreFindable == ShardsSpec => []Findable
  <1>1. ASSUME ShardsInv, DatabasesInv, NEW s \in Shards \ strays,
               lock[s] = "free", dir[s].db # 0, ~dir[s].meta
        PROVE  loaded[s] # 0
    <2>1. Tended(s)
      BY <1>1 DEF DatabasesInv, DescribedInv, Bare
    <2>2. ASSUME NEW u \in Threads, th[u].s = s, th[u].pc \in Tending PROVE FALSE
      <3>1. lock[s] = u
        BY <1>1, <2>2, LockLemma DEF Tending, Locked, Loading, Filling
      <3> QED
        BY <1>1, <3>1, ShardsAssumption
    <2> QED
      BY <2>1, <2>2 DEF Tended
  <1>2. ShardsInv /\ DatabasesInv => Findable
    BY <1>1 DEF Findable
  <1> QED
    BY <1>2, RegistryInvariant, PTL

\* What is served without a look at its files was measured no earlier than the
\* last finished invalidation, whichever shards it reached.
THEOREM InvalidationsReachAll == ShardsSpec => InvalidationReachesAll
  <1>1. ASSUME ShardsInv, NEW t \in Threads, Trust(t)
        PROVE  cache[Held(t)].ver >= announced
    <2>1. Held(t) \in 1..MaxCaches
      BY <1>1, HeldLemma, StateLemma DEF Trust, At, Serving, ShardsInv
    <2>2. MeasuredOK(cache[Held(t)])
      BY <1>1, <2>1, StateLemma
    <2> QED
      BY <1>1, <2>2 DEF Trust, Trusted, MeasuredOK, Current
  <1>2. ShardsInv =>
            [\A t \in Threads : Trust(t) => cache[Held(t)].ver >= announced]_shardVars
    BY <1>1
  <1> QED
    BY <1>2, RegistryInvariant, PTL DEF InvalidationReachesAll
=============================================================================
