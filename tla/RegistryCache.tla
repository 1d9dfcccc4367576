---------------------------- MODULE RegistryCache ----------------------------
(***************************************************************************)
(* The store of npm registry metadata (src/daemon/src/registry/cache.rs):  *)
(* a map in each daemon's memory and one JSON file that the daemons of all *)
(* workspaces share.  A write only counts itself; a flush, by the write    *)
(* that fills a batch or by whoever ends a request, takes the count and    *)
(* saves memory merged with the file.  clear and compaction write the file *)
(* verbatim.  Within a daemon one mutex serialises the saves; nothing      *)
(* serialises the daemons, each replaces the file by an atomic rename.     *)
(*                                                                         *)
(* An entry is the number of the write it came from and its updated_at.    *)
(* That is the time its request began, or, for a failure, the time of the  *)
(* entry it replaces, so it may lie in the past.  Which entries expire or  *)
(* exceed the budget is left open: a compaction may drop any of them.      *)
(***************************************************************************)
EXTENDS Integers, FiniteSets

CONSTANTS
    Daemons,    \* the processes that share the file
    Threads,    \* threads of all of them
    DaemonOf,   \* thread -> daemon
    Keys,       \* package names
    Batch,      \* REGISTRY_PERSIST_BATCH
    MaxWrites,  \* bound on the writes of a behaviour
    MaxTime,    \* bound on the clock
    None        \* no entry, no thread

ASSUME RegistryCacheAssumption ==
    /\ DaemonOf \in [Threads -> Daemons]
    /\ Batch \in Nat \ {0}
    /\ MaxWrites \in Nat
    /\ MaxTime \in Nat
    /\ None \notin Threads
    /\ None \notin [id : 1..MaxWrites, at : 0..MaxTime]

Ids == 1..MaxWrites
Times == 0..MaxTime
Entry == [id : Ids, at : Times]
Map == [Keys -> Entry \cup {None}]
Empty == [k \in Keys |-> None]
Snapshot == [entries : Map, clearedAt : Times]
NoFile == [entries |-> Empty, clearedAt |-> 0]   \* RegistrySnapshot::default

VARIABLES
    mem,        \* per daemon: entries
    clearedAt,  \* per daemon: cleared_at
    dirty,      \* per daemon: unpersisted_writes
    lock,       \* per daemon: the thread that holds persist_lock
    file,       \* the shared file
    pc,         \* per thread: the step it is at
    had,        \* per thread: the count its flush took
    disk,       \* per thread: what its persist loaded
    base,       \* per thread: the memory that save is based on
    snap,       \* per thread: the map it is about to write
    now,        \* the wall clock
    writes,     \* writes so far
    saved,      \* ids that a completed save has taken account of
    forgotten,  \* ids whose count a compaction reset and whose write then failed
    doomed,     \* per thread: ids that existed when its clear began
    gone,       \* ids that a clear has removed
    outdated,   \* threads that loaded a file another daemon has replaced since
    blind,      \* threads whose load could not read the file
    raced       \* two daemons have met in a window the code leaves open

state == <<mem, clearedAt, dirty, lock, file>>
local == <<pc, had, disk, base, snap>>
history == <<saved, forgotten, doomed, gone, outdated, blind, raced>>
vars == <<state, local, now, writes, history>>

IdsOf(map) == {map[k].id : k \in {j \in Keys : map[j] # None}}

Init ==
    /\ mem = [d \in Daemons |-> Empty]
    /\ clearedAt = [d \in Daemons |-> 0]
    /\ dirty = [d \in Daemons |-> 0]
    /\ lock = [d \in Daemons |-> None]
    /\ file = NoFile
    /\ pc = [t \in Threads |-> "idle"]
    /\ had = [t \in Threads |-> 0]
    /\ disk = [t \in Threads |-> NoFile]
    /\ base = [t \in Threads |-> Empty]
    /\ snap = [t \in Threads |-> Empty]
    /\ now = 0 /\ writes = 0
    /\ saved = {} /\ forgotten = {} /\ gone = {}
    /\ doomed = [t \in Threads |-> {}]
    /\ outdated = {} /\ blind = {} /\ raced = FALSE

-----------------------------------------------------------------------------
(* Helpers. *)

Goto(t, label) == pc' = [pc EXCEPT ![t] = label]

\* load_snapshot: the file, or an empty snapshot if it cannot be read.
Loaded(readable) == IF readable THEN file ELSE NoFile

\* Mutant. A sibling's clear is noted, its entries are kept.
AdoptNothing(d, map, time) == map

\* adopt_clear on the entries.
AdoptClear(d, map, time) ==
    IF time > clearedAt[d]
    THEN [k \in Keys |-> IF map[k] # None /\ map[k].at > time THEN map[k] ELSE None]
    ELSE map

\* adopt_clear on cleared_at.
AdoptedAt(d, time) == IF time > clearedAt[d] THEN time ELSE clearedAt[d]

\* merge_newest.
MergeNewest(ours, theirs) ==
    [k \in Keys |->
        IF theirs[k] # None /\ ~(ours[k] # None /\ ours[k].at >= theirs[k].at)
        THEN theirs[k] ELSE ours[k]]

\* write_atomic: the rename.
Replace(t, map) ==
    LET d == DaemonOf[t]
    IN  /\ file' = [entries |-> map, clearedAt |-> clearedAt[d]]
        /\ saved' = saved \cup IdsOf(base[t])
        /\ outdated' = (outdated \ {t}) \cup
                          {u \in Threads : DaemonOf[u] # d /\ pc[u] \in {"merge", "save", "compact"}}
        /\ raced' = (raced \/ t \in outdated \cup blind)

\* The write fails: the file stays as it is.
KeepFile(t) ==
    /\ outdated' = outdated \ {t}
    /\ UNCHANGED <<file, saved, raced>>

\* Release persist_lock; the thread's locals are dead.
Return(t) ==
    /\ lock' = [lock EXCEPT ![DaemonOf[t]] = None]
    /\ Goto(t, "idle")
    /\ had' = [had EXCEPT ![t] = 0]
    /\ disk' = [disk EXCEPT ![t] = NoFile]
    /\ base' = [base EXCEPT ![t] = Empty]
    /\ snap' = [snap EXCEPT ![t] = Empty]
    /\ doomed' = [doomed EXCEPT ![t] = {}]
    /\ blind' = blind \ {t}

-----------------------------------------------------------------------------
(* write_entry and flush. *)

Insert(t, k, at) ==
    /\ pc[t] = "idle"
    /\ writes < MaxWrites
    /\ at <= now
    /\ writes' = writes + 1
    /\ mem' = [mem EXCEPT ![DaemonOf[t]][k] = [id |-> writes + 1, at |-> at]]
    /\ Goto(t, "count")
    /\ UNCHANGED <<clearedAt, dirty, lock, file, had, disk, base, snap, now, history>>

\* The fetch_add; the write that fills the batch flushes.
Count(t) ==
    LET d == DaemonOf[t]
    IN  /\ pc[t] = "count"
        /\ dirty' = [dirty EXCEPT ![d] = @ + 1]
        /\ Goto(t, IF dirty[d] + 1 >= Batch THEN "flush" ELSE "idle")
        /\ UNCHANGED <<mem, clearedAt, lock, file, had, disk, base, snap, now, writes, history>>

\* flush: the swap.
TakeCount(t) ==
    LET d == DaemonOf[t]
    IN  /\ pc[t] \in {"idle", "flush"}
        /\ had' = [had EXCEPT ![t] = dirty[d]]
        /\ dirty' = [dirty EXCEPT ![d] = 0]
        /\ Goto(t, IF dirty[d] = 0 THEN "idle" ELSE "lock")
        /\ UNCHANGED <<mem, clearedAt, lock, file, disk, base, snap, now, writes, history>>

\* persist_snapshot: the mutex, and the file as it is now.
Load(t, readable) ==
    LET d == DaemonOf[t]
    IN  /\ pc[t] = "lock"
        /\ lock[d] = None
        /\ lock' = [lock EXCEPT ![d] = t]
        /\ disk' = [disk EXCEPT ![t] = Loaded(readable)]
        /\ blind' = IF readable THEN blind ELSE blind \cup {t}
        /\ Goto(t, "merge")
        /\ UNCHANGED <<mem, clearedAt, dirty, file, had, base, snap, now, writes,
                       saved, forgotten, doomed, gone, outdated, raced>>

\* Under the entries lock the clear is adopted and memory cloned; the clone
\* is merged with the file.
Clone(t) ==
    LET d == DaemonOf[t]
        kept == AdoptClear(d, mem[d], disk[t].clearedAt)
    IN  /\ pc[t] = "merge"
        /\ mem' = [mem EXCEPT ![d] = kept]
        /\ clearedAt' = [clearedAt EXCEPT ![d] = AdoptedAt(d, disk[t].clearedAt)]
        /\ base' = [base EXCEPT ![t] = kept]
        /\ snap' = [snap EXCEPT ![t] = MergeNewest(kept, disk[t].entries)]
        /\ Goto(t, "save")
        /\ UNCHANGED <<dirty, lock, file, had, disk, now, writes, history>>

Save(t) ==
    /\ pc[t] = "save"
    /\ Replace(t, snap[t])
    /\ Return(t)
    /\ UNCHANGED <<mem, clearedAt, dirty, now, writes, forgotten, gone>>

\* Mutant. The count is not given back.
SaveFailsForGood(t) ==
    /\ pc[t] = "save"
    /\ KeepFile(t)
    /\ Return(t)
    /\ UNCHANGED <<mem, clearedAt, dirty, now, writes, forgotten, gone>>

\* The write fails; the count is given back for a later flush.
SaveFails(t) ==
    /\ pc[t] = "save"
    /\ KeepFile(t)
    /\ dirty' = [dirty EXCEPT ![DaemonOf[t]] = @ + had[t]]
    /\ Return(t)
    /\ UNCHANGED <<mem, clearedAt, now, writes, forgotten, gone>>

-----------------------------------------------------------------------------
(* clear. *)

AllIds == IdsOf(file.entries) \cup UNION {IdsOf(mem[d]) : d \in Daemons}

\* Under both locks memory, count and cleared_at change together.
Clear(t) ==
    LET d == DaemonOf[t]
    IN  /\ pc[t] = "idle"
        /\ lock[d] = None
        /\ lock' = [lock EXCEPT ![d] = t]
        /\ mem' = [mem EXCEPT ![d] = Empty]
        /\ clearedAt' = [clearedAt EXCEPT ![d] = IF now > @ THEN now ELSE @]
        /\ dirty' = [dirty EXCEPT ![d] = 0]
        /\ doomed' = [doomed EXCEPT ![t] = AllIds]
        \* Clears of one millisecond, or of two daemons at once, are not told apart.
        /\ raced' = \/ raced
                    \/ file.clearedAt = now \/ \E e \in Daemons : clearedAt[e] = now
                    \/ \E u \in Threads \ {t} : pc[u] = "wipe"
        /\ Goto(t, "wipe")
        /\ UNCHANGED <<file, had, disk, base, snap, now, writes, saved, forgotten, gone, outdated, blind>>

\* The empty snapshot replaces the file.
Wipe(t) ==
    /\ pc[t] = "wipe"
    /\ Replace(t, Empty)
    /\ gone' = gone \cup doomed[t]
    /\ Return(t)
    /\ UNCHANGED <<mem, clearedAt, dirty, now, writes, forgotten>>

WipeFails(t) ==
    /\ pc[t] = "wipe"
    /\ KeepFile(t)
    /\ Return(t)
    /\ UNCHANGED <<mem, clearedAt, dirty, now, writes, forgotten, gone>>

-----------------------------------------------------------------------------
(* compact_authoritatively, for purge_expired and run_maintenance. *)

\* Under both locks: merge the file into memory, drop what has expired or is
\* over the budget, and reset the count.
Compact(t, readable, dropped) ==
    LET d == DaemonOf[t]
        old == Loaded(readable)
        merged == MergeNewest(AdoptClear(d, mem[d], old.clearedAt), old.entries)
        kept == [k \in Keys |-> IF k \in dropped THEN None ELSE merged[k]]
    IN  /\ pc[t] = "idle"
        /\ lock[d] = None
        /\ lock' = [lock EXCEPT ![d] = t]
        /\ mem' = [mem EXCEPT ![d] = kept]
        /\ clearedAt' = [clearedAt EXCEPT ![d] = AdoptedAt(d, old.clearedAt)]
        /\ dirty' = [dirty EXCEPT ![d] = 0]
        /\ base' = [base EXCEPT ![t] = kept]
        /\ snap' = [snap EXCEPT ![t] = kept]
        /\ blind' = IF readable THEN blind ELSE blind \cup {t}
        /\ Goto(t, "compact")
        /\ UNCHANGED <<file, had, disk, now, writes, saved, forgotten, doomed, gone, outdated, raced>>

SaveCompacted(t) ==
    /\ pc[t] = "compact"
    /\ Replace(t, snap[t])
    /\ Return(t)
    /\ UNCHANGED <<mem, clearedAt, dirty, now, writes, forgotten, gone>>

\* The write fails and nobody is told: the count stays reset.
SaveCompactedFails(t) ==
    /\ pc[t] = "compact"
    /\ KeepFile(t)
    /\ forgotten' = forgotten \cup (IdsOf(base[t]) \ saved)
    /\ Return(t)
    /\ UNCHANGED <<mem, clearedAt, dirty, now, writes, gone>>

-----------------------------------------------------------------------------
\* A daemon dies, wherever its threads are, and starts again.
Restart(d, readable) ==
    LET mine == {t \in Threads : DaemonOf[t] = d}
    IN  /\ mem' = [mem EXCEPT ![d] = Loaded(readable).entries]
        /\ clearedAt' = [clearedAt EXCEPT ![d] = Loaded(readable).clearedAt]
        /\ dirty' = [dirty EXCEPT ![d] = 0]
        /\ lock' = [lock EXCEPT ![d] = None]
        /\ pc' = [t \in Threads |-> IF t \in mine THEN "idle" ELSE pc[t]]
        /\ had' = [t \in Threads |-> IF t \in mine THEN 0 ELSE had[t]]
        /\ disk' = [t \in Threads |-> IF t \in mine THEN NoFile ELSE disk[t]]
        /\ base' = [t \in Threads |-> IF t \in mine THEN Empty ELSE base[t]]
        /\ snap' = [t \in Threads |-> IF t \in mine THEN Empty ELSE snap[t]]
        /\ doomed' = [t \in Threads |-> IF t \in mine THEN {} ELSE doomed[t]]
        /\ outdated' = outdated \ mine
        /\ blind' = blind \ mine
        /\ UNCHANGED <<file, now, writes, saved, forgotten, gone, raced>>

Tick ==
    /\ now < MaxTime
    /\ now' = now + 1
    /\ UNCHANGED <<state, local, writes, history>>

Next ==
    \/ \E t \in Threads :
          \/ \E k \in Keys, at \in Times : Insert(t, k, at)
          \/ Count(t) \/ TakeCount(t)
          \/ \E readable \in BOOLEAN : Load(t, readable)
          \/ Clone(t) \/ Save(t) \/ SaveFails(t)
          \/ Clear(t) \/ Wipe(t) \/ WipeFails(t)
          \/ \E readable \in BOOLEAN, dropped \in SUBSET Keys : Compact(t, readable, dropped)
          \/ SaveCompacted(t) \/ SaveCompactedFails(t)
    \/ \E d \in Daemons, readable \in BOOLEAN : Restart(d, readable)
    \/ Tick

Spec == Init /\ [][Next]_vars

-----------------------------------------------------------------------------
TypeOK ==
    /\ mem \in [Daemons -> Map]
    /\ clearedAt \in [Daemons -> Times]
    /\ dirty \in [Daemons -> Nat]
    /\ lock \in [Daemons -> Threads \cup {None}]
    /\ file \in Snapshot
    /\ pc \in [Threads -> {"idle", "count", "flush", "lock", "merge", "save", "wipe", "compact"}]
    /\ had \in [Threads -> Nat]
    /\ disk \in [Threads -> Snapshot]
    /\ base \in [Threads -> Map]
    /\ snap \in [Threads -> Map]
    /\ now \in Times /\ writes \in 0..MaxWrites
    /\ saved \subseteq Ids /\ forgotten \subseteq Ids /\ gone \subseteq Ids
    /\ doomed \in [Threads -> SUBSET Ids]
    /\ outdated \subseteq Threads /\ blind \subseteq Threads
    /\ raced \in BOOLEAN

\* A thread that will count the entry of key k of daemon d, or write it.
Covers(t, d, k) ==
    /\ DaemonOf[t] = d
    /\ \/ pc[t] \in {"count", "lock", "merge"}
       \/ pc[t] \in {"save", "compact"} /\ base[t][k] = mem[d][k]

\* "A trailing flush (per request / on Drop) persists the remainder"
\* (cache.rs:16-17): an entry in memory that has never reached the file is
\* counted, so that the next flush saves it, or some thread is about to save
\* it, whatever flush, failure, clear and compaction did to the count
\* meanwhile.  Not so after a compaction whose own write failed.
NoWriteForgotten ==
    \A d \in Daemons, k \in Keys :
        mem[d][k] # None /\ mem[d][k].id \notin saved \cup forgotten =>
            dirty[d] > 0 \/ \E t \in Threads : Covers(t, d, k)

\* "so the cleared entries do not come back off disk on the next save;
\* `cleared_at` makes a sibling daemon drop its copies too" (cache.rs:187-188):
\* what existed when a clear began is not in the file again once the clear has
\* been written, although every sibling still held it, unless daemons met in
\* the window between a read and a rename (cache.rs:279) or the file could
\* not be read.
ClearSticks == ~raced => gone \cap IdsOf(file.entries) = {}

\* "the newest `updated_at` per package wins instead of this write clobbering
\* theirs" (cache.rs:277): a save that read the file as it still is loses no
\* package from it and makes none older.
SavesMergeNewest ==
    [][\A t \in Threads :
          pc[t] = "save" /\ t \notin outdated \cup blind /\ file' # file /\ pc'[t] = "idle" =>
              \A k \in Keys :
                  file.entries[k] # None =>
                      /\ file'.entries[k] # None
                      /\ file'.entries[k].at >= file.entries[k].at]_vars
=============================================================================
