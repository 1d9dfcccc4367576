----------------------------- MODULE CacheBudget -----------------------------
(***************************************************************************)
(* The disk-byte budget of the import cache: the maintenance pass of       *)
(* cache/project.rs with the evictor of cache/budget.rs, the accounts a    *)
(* shard's database keeps in step with its rows (cache/disk.rs), the       *)
(* recency clock (cache/recency.rs) over restarts, and the lock the        *)
(* compactor shares with every reader.                                     *)
(*                                                                         *)
(* One thread runs the pass, another serves a request at a time: it reads, *)
(* measures, invalidates.  A transaction is a step: redb commits it whole  *)
(* or not at all.  The queue of inserts is ImportCache's subject; here an  *)
(* insert has reached its table, or failed on a full disk.                 *)
(***************************************************************************)
EXTENDS Integers, FiniteSets, Sequences, Sums

CONSTANTS
    Shards, Keys,
    Late,       \* shards whose database may not open at start-up
    Disks,      \* what earlier sessions left: shard -> key -> [seq, len]
    Plans,      \* the requests: sequences of [do, s, k, len]
    Budget,     \* budget_bytes
    Low,        \* budget * LOW_WATER
    Floor,      \* EVICTION_FLOOR
    Batch,      \* EVICTION_BATCH
    Scan,       \* MAX_EVICTION_SCAN
    Passes,     \* MAX_PHYSICAL_BUDGET_PASSES
    Overhead,   \* file bytes a row takes beyond its value
    Preloaded,  \* RECENT_PRELOAD_LIMIT
    MaxRestarts

ASSUME BudgetAssumption ==
    /\ {Budget, Low, Floor, Batch, Scan, Passes, Overhead, MaxRestarts} \subseteq Nat
    /\ 0 < Low /\ Low <= Budget /\ 0 < Batch /\ Batch <= Scan
    /\ Preloaded \in Nat /\ 0 < Preloaded
    /\ Late \subseteq Shards
    /\ IsFiniteSet(Shards) /\ IsFiniteSet(Keys) /\ Keys \subseteq Nat
    /\ \A d \in Disks : d \in [Shards -> [Keys -> [seq : Nat, len : Nat]]]
    /\ \A p \in Plans : p \in Seq([do : STRING, s : Shards, k : Keys, len : Nat \ {0}])

VARIABLES
    disk,    \* shard -> [rows, index, bytes, count, max]
    waste,   \* shard -> file bytes that hold nothing, until a compaction
    mem,     \* shard -> key -> [last, pers]: the memory layer's recency
    clock,   \* RECENCY_CLOCK
    open,    \* shard -> whether this process has its database open, and how far
             \* it has read it (see Attaching)
    listed,  \* shard -> the index entries load_recent is about to read
    full,    \* shard -> writes to it fail
    db,      \* shard -> [readers, queued, writer]: the lock on the database
    ev,      \* the maintenance pass
    us,      \* the request being served
    plan, restarts

vars == <<disk, waste, mem, clock, open, listed, full, db, ev, us, plan, restarts>>

None == [seq |-> 0, len |-> 0]
Cold == [last |-> 0, pers |-> 0]
Held(s) == {k \in Keys : disk[s].rows[k].len # 0}
Bytes(rows) == SumOver([k \in Keys |-> rows[k].len], Keys)

\* rebuild_summary_in_txn: the accounts as a scan of the rows gives them.
Rebuilt(rows) ==
    LET ks == {k \in Keys : rows[k].len # 0} IN
    [rows |-> rows,
     index |-> {<<rows[k].seq, k>> : k \in ks},
     bytes |-> Bytes(rows),
     count |-> Cardinality(ks),
     max |-> IF ks = {} THEN 0 ELSE CHOOSE m \in {rows[k].seq : k \in ks} :
                                       \A k \in ks : rows[k].seq <= m]
Empty == Rebuilt([k \in Keys |-> None])

(***************************************************************************)
(* The transactions on a shard d, with its accounts kept by differences.   *)
(***************************************************************************)
Monus(a, b) == IF a > b THEN a - b ELSE 0

\* Totals that would go negative had drifted: they are counted again.
write_summary(d) == IF d.bytes < 0 \/ d.count < 0 THEN Rebuilt(d.rows) ELSE d

\* write_pending_inserts, for one entry: a replaced row leaves the index under
\* its old sequence and gives its bytes back.
Replaces(d, k) == d.rows[k].len # 0
LeavesStale(d, k) == d.index
DropsIndexed(d, k) == d.index \ {<<d.rows[k].seq, k>>}
write_pending_inserts(d, k, seq, len) ==
    write_summary(
        [rows |-> [d.rows EXCEPT ![k] = [seq |-> seq, len |-> len]],
         index |-> DropsIndexed(d, k) \cup {<<seq, k>>},
         bytes |-> (d.bytes + len) - d.rows[k].len,
         count |-> IF Replaces(d, k) THEN d.count ELSE d.count + 1,
         max |-> IF seq > d.max THEN seq ELSE d.max])

\* maintain_removals: max is a high-water mark, and stays.
maintain_removals(d, ks) ==
    LET gone == {k \in ks : d.rows[k].len # 0} IN
    write_summary(
        [d EXCEPT
            !.rows = [k \in Keys |-> IF k \in gone THEN None ELSE @[k]],
            !.index = {e \in @ : e[2] \notin gone},
            !.bytes = @ - SumOver([k \in Keys |-> d.rows[k].len], gone),
            !.count = @ - Cardinality(gone)])

Open(s) == open[s] # "no"

\* shard_rollup and summary_max_seq: a database that is not open is empty.
NoRows == [bytes |-> 0, oldest |-> 0, count |-> 0]
shard_rollup(s) ==
    IF ~Open(s) \/ disk[s].count = 0
    THEN NoRows
    ELSE [bytes |-> disk[s].bytes, count |-> disk[s].count,
          oldest |-> CHOOSE q \in {e[1] : e \in disk[s].index} :
                        \A e \in disk[s].index : q <= e[1]]
MaxSeq(s) == IF Open(s) THEN disk[s].max ELSE 0

observe(c, q) == IF q >= c THEN q + 1 ELSE c
DecodesOnly(c, q) == c
decode_cached_result(c, q) == observe(c, q)
ObserveAll(c, qs) == Max({c} \cup {observe(c, q) : q \in qs})

(***************************************************************************)
(* Which keys to evict from a shard.                                       *)
(***************************************************************************)
Older(d, e) == d[1] < e[1] \/ (d[1] = e[1] /\ d[2] < e[2])
Oldest(es, n) == {e \in es : Cardinality({d \in es : Older(d, e)}) < n}

lowest_seq_keys(s, n) ==
    IF Open(s) THEN Oldest(disk[s].index, Min({n, Monus(disk[s].count, Floor)})) ELSE {}

IgnoresMemory(s, e) == FALSE
memory_hot(s, e) == mem[s][e[2]].last > e[1]
filter_evictable(s, es, n) == Oldest({e \in es : ~memory_hot(s, e)}, n)

lowest_seq_disk_keys(s) ==
    LET first == lowest_seq_keys(s, Batch)
        cold == filter_evictable(s, first, Batch)
        keys(es) == {e[2] : e \in es} IN
    IF Cardinality(cold) = Batch \/ Cardinality(first) < Batch THEN keys(cold)
    ELSE keys(filter_evictable(s, lowest_seq_keys(s, Scan), Batch))

total_shard_file_bytes ==
    SumOver([s \in Shards |-> disk[s].bytes + Overhead * disk[s].count + waste[s]], Shards)

(***************************************************************************)
(* Start-up, and what a restart loses.                                     *)
(***************************************************************************)
Asleep ==
    [pc |-> "rest", roll |-> [s \in Shards |-> NoRows], total |-> 0, low |-> 0,
     exhausted |-> {}, s |-> 0, keys |-> {}, todo |-> {}, stage |-> "half",
     freed |-> 0, got |-> 0, pass |-> 0, still |-> FALSE,
     calm |-> TRUE,    \* no request has changed anything since the pass began
     sel |-> TRUE]     \* ... since the keys to evict were selected
Quiet == [pc |-> "ready", i |-> 1]
Free == [readers |-> {}, queued |-> FALSE, writer |-> FALSE]

\* seed_recency_clock_from_disk: a shard another process holds is not read.
Seeded(readable) == ObserveAll(1, {disk[s].max : s \in readable})

Init ==
    /\ \E d \in Disks : disk = [s \in Shards |-> Rebuilt(d[s])]
    /\ plan \in Plans
    /\ \E readable \in {Shards \ shut : shut \in SUBSET Late} :
         /\ open = [s \in Shards |-> IF s \in readable THEN "seen" ELSE "no"]
         /\ clock = Seeded(readable)
    /\ listed = [s \in Shards |-> {}]
    /\ waste = [s \in Shards |-> 0]
    /\ mem = [s \in Shards |-> [k \in Keys |-> Cold]]
    /\ full \in [Shards -> BOOLEAN]
    /\ db = [s \in Shards |-> Free]
    /\ ev = Asleep
    /\ us = Quiet
    /\ restarts = 0

Restart ==
    /\ restarts < MaxRestarts
    /\ restarts' = restarts + 1
    /\ mem' = [s \in Shards |-> [k \in Keys |-> Cold]]
    /\ open' = [s \in Shards |-> "seen"]
    /\ listed' = [s \in Shards |-> {}]
    /\ clock' = Seeded(Shards)
    /\ db' = [s \in Shards |-> Free]
    /\ ev' = Asleep
    /\ us' = [us EXCEPT !.pc = "ready"]
    /\ UNCHANGED <<disk, waste, full, plan>>

(***************************************************************************)
(* Requests.  db_read: a reader waits while a writer holds the lock or is  *)
(* queued for it.                                                          *)
(***************************************************************************)
ReadFree(s) == ~db[s].writer /\ ~db[s].queued
Op == plan[us.i]
Serving(do) == us.pc = "ready" /\ us.i <= Len(plan) /\ Op.do = do
Served == us' = [pc |-> "ready", i |-> us.i + 1]
Stirs == ev' = [ev EXCEPT !.calm = FALSE, !.sel = FALSE]
Writable(s) == Open(s) /\ ~full[s]
Freed(s, d) == waste' = [waste EXCEPT ![s] = @ + Monus(disk[s].bytes, d.bytes)]

\* insert: born with the next sequence; persisted when the disk takes it.
Insert ==
    LET s == Op.s IN
    /\ Serving("insert") /\ ReadFree(s)
    /\ clock' = clock + 1
    /\ mem' = [mem EXCEPT ![s][Op.k] =
          [last |-> clock, pers |-> IF Writable(s) THEN clock ELSE 0]]
    /\ IF Writable(s)
       THEN LET d == write_pending_inserts(disk[s], Op.k, clock, Op.len) IN
            disk' = [disk EXCEPT ![s] = d] /\ Freed(s, d)
       ELSE UNCHANGED <<disk, waste>>
    /\ Served /\ Stirs
    /\ UNCHANGED <<open, listed, full, db, plan, restarts>>

\* A hit promotes the entry in memory only; one read from disk is mirrored.
Hit ==
    LET s == Op.s
        row == disk[s].rows[Op.k].seq
        read == IF mem[s][Op.k] = Cold THEN decode_cached_result(clock, row) ELSE clock IN
    /\ Serving("hit") /\ ReadFree(s)
    /\ IF mem[s][Op.k] # Cold \/ (Open(s) /\ row # 0)
       THEN /\ mem' = [mem EXCEPT ![s][Op.k] =
                  [last |-> read, pers |-> IF @ = Cold THEN row ELSE @.pers]]
            /\ clock' = read + 1
       ELSE UNCHANGED <<mem, clock>>
    /\ Served /\ Stirs
    /\ UNCHANGED <<disk, waste, open, listed, full, db, plan, restarts>>

\* flush_to_disk's recency sweep, one promoted entry a step.
Persist ==
    LET s == Op.s IN
    /\ Serving("flush") /\ ReadFree(s)
    /\ \/ \E k \in Keys :
            /\ mem[s][k].last > mem[s][k].pers /\ Writable(s)
            /\ LET len == IF disk[s].rows[k].len = 0 THEN Op.len ELSE disk[s].rows[k].len
                   d == write_pending_inserts(disk[s], k, mem[s][k].last, len) IN
               disk' = [disk EXCEPT ![s] = d] /\ Freed(s, d)
            /\ mem' = [mem EXCEPT ![s][k].pers = mem[s][k].last]
            /\ UNCHANGED us
       \/ /\ ~Writable(s) \/ \A k \in Keys : mem[s][k].last <= mem[s][k].pers
          /\ Served
          /\ UNCHANGED <<disk, waste, mem>>
    /\ Stirs
    /\ UNCHANGED <<clock, open, listed, full, db, plan, restarts>>

\* read_committed finds a row it must refuse: it decides under the read lock,
\* lets go of it, and only then removes the row, which takes the lock again.
BeginRead ==
    LET s == Op.s IN
    /\ Serving("refuse") /\ ReadFree(s)
    /\ db' = [db EXCEPT ![s].readers = @ \cup {"user"}]
    /\ us' = [us EXCEPT !.pc = "decide"]
    /\ UNCHANGED <<disk, waste, mem, clock, open, listed, full, ev, plan, restarts>>
KeepsGuard(readers) == readers
ScopedGuard(readers) == readers \ {"user"}
DecideRefusal ==
    LET s == Op.s IN
    /\ us.pc = "decide"
    /\ db' = [db EXCEPT ![s].readers = ScopedGuard(@)]
    /\ us' = [us EXCEPT !.pc = "remove"]
    /\ UNCHANGED <<disk, waste, mem, clock, open, listed, full, ev, plan, restarts>>
RemoveRefused ==
    LET s == Op.s
        d == maintain_removals(disk[s], {Op.k}) IN
    /\ us.pc = "remove" /\ ReadFree(s)
    /\ IF Writable(s) THEN disk' = [disk EXCEPT ![s] = d] /\ Freed(s, d)
       ELSE UNCHANGED <<disk, waste>>
    /\ db' = [db EXCEPT ![s].readers = @ \ {"user"}]
    /\ Served /\ Stirs
    /\ UNCHANGED <<mem, clock, open, listed, full, plan, restarts>>

\* invalidate_packages (one key) and clear (every key).
Forget ==
    LET s == Op.s
        ks == IF Op.do = "clear" THEN Keys ELSE {Op.k}
        d == IF Op.do = "clear" THEN Empty ELSE maintain_removals(disk[s], ks) IN
    /\ Serving("clear") \/ Serving("invalidate")
    /\ ReadFree(s)
    /\ IF Writable(s) THEN disk' = [disk EXCEPT ![s] = d] /\ Freed(s, d)
       ELSE UNCHANGED <<disk, waste>>
    /\ mem' = [mem EXCEPT ![s] = [k \in Keys |-> IF k \in ks THEN Cold ELSE @[k]]]
    /\ Served /\ Stirs
    /\ UNCHANGED <<clock, open, listed, full, db, plan, restarts>>

(***************************************************************************)
(* A database that could not be opened at start-up is attached by a        *)
(* request that retries it, while others are served (reopen_disk).         *)
(***************************************************************************)
Attaching(s, stage) == open[s] = stage /\ Stirs

\* reopen_if_unavailable stores the database: from here on every request uses
\* it, and none of its rows has been observed.
Publish(s) ==
    /\ Attaching(s, "no") /\ db[s] = Free
    /\ open' = [open EXCEPT ![s] = "published"]
    /\ UNCHANGED <<disk, waste, mem, clock, listed, full, db, us, plan, restarts>>

\* What was measured while there was no database is written, under the
\* sequence it was born with: a newer row of an earlier session goes.  A full
\* disk leaves it in the queue.
Waiting(s) == {k \in Keys : mem[s][k] # Cold /\ mem[s][k].pers = 0}
WriteBack(s) ==
    /\ Attaching(s, "published") /\ ReadFree(s) /\ Writable(s)
    /\ \E k \in Waiting(s), i \in DOMAIN plan :
         /\ plan[i].s = s /\ plan[i].k = k /\ plan[i].do = "insert"
         /\ LET d == write_pending_inserts(disk[s], k, mem[s][k].last, plan[i].len) IN
            disk' = [disk EXCEPT ![s] = d] /\ Freed(s, d)
         /\ mem' = [mem EXCEPT ![s][k].pers = mem[s][k].last]
    /\ UNCHANGED <<clock, open, listed, full, db, us, plan, restarts>>

\* load_recent lists the most recent rows (recent_keys), and then reads them:
\* what it decodes is observed.  It is blind when a row it listed has been
\* replaced or removed in between, or has an entry in the queue, which it
\* reads instead.
Recent(s) ==
    {k \in Held(s) :
        Cardinality({j \in Held(s) : disk[s].rows[j].seq > disk[s].rows[k].seq}) < Preloaded}
recent_keys(s) ==
    /\ Attaching(s, "published") /\ ReadFree(s)
    /\ Writable(s) => Waiting(s) = {}
    /\ listed' = [listed EXCEPT ![s] = {<<disk[s].rows[k].seq, k>> : k \in Recent(s)}]
    /\ open' = [open EXCEPT ![s] = "listed"]
    /\ UNCHANGED <<disk, waste, mem, clock, full, db, us, plan, restarts>>
load_recent(s) ==
    LET unchanged == {e \in listed[s] : e[2] \in Held(s) /\ disk[s].rows[e[2]].seq = e[1]}
        keys == {e[2] : e \in listed[s]} \cap Held(s)
        decoded == keys \ Waiting(s) IN
    /\ Attaching(s, "listed") /\ ReadFree(s)
    /\ open' = [open EXCEPT ![s] =
          IF unchanged = listed[s] /\ decoded = keys THEN "seen" ELSE "blind"]
    /\ listed' = [listed EXCEPT ![s] = {}]
    /\ clock' = Max({clock} \cup {decode_cached_result(clock, disk[s].rows[k].seq) :
                                     k \in decoded})
    /\ mem' = [mem EXCEPT ![s] = [k \in Keys |->
          IF k \in decoded /\ mem[s][k] = Cold
          THEN [last |-> disk[s].rows[k].seq, pers |-> disk[s].rows[k].seq]
          ELSE mem[s][k]]]
    /\ UNCHANGED <<disk, waste, full, db, us, plan, restarts>>
reopen_disk == \E s \in Shards : Publish(s) \/ WriteBack(s) \/ recent_keys(s) \/ load_recent(s)

(***************************************************************************)
(* The maintenance pass.                                                   *)
(***************************************************************************)
Pass(pc) == ev.pc = pc
Skips == UNCHANGED <<disk, waste, mem, open, listed, full, db, us, plan, restarts>>
AllReadable == \A s \in Shards : ReadFree(s)

\* evict: the rollups are taken once, then kept for every shard but the one
\* evicted from.  The first eviction stops at once within the budget, and
\* otherwise goes down to the low-water mark.
Rollups == [s \in Shards |-> shard_rollup(s)]
Total(roll) == SumOver([s \in Shards |-> roll[s].bytes], Shards)
BeginEvict(e, low) ==
    [e EXCEPT !.roll = Rollups, !.total = Total(Rollups), !.low = low,
        !.exhausted = {}, !.got = 0, !.pc = "pick"]

run_maintenance ==
    /\ Pass("rest")
    /\ IF total_shard_file_bytes <= Budget
       THEN ev' = [ev EXCEPT !.pc = "over"] /\ UNCHANGED clock
       ELSE /\ AllReadable
            /\ ev' = BeginEvict([ev EXCEPT !.calm = TRUE],
                         IF Total(Rollups) <= Budget THEN Budget ELSE Low)
            /\ clock' = ObserveAll(clock, {MaxSeq(s) : s \in Shards})
    /\ Skips

Victims ==
    {s \in Shards \ ev.exhausted : ev.roll[s].count > Floor}
Pick ==
    /\ Pass("pick")
    /\ IF ev.total <= ev.low \/ Victims = {}
       THEN ev' = [ev EXCEPT !.todo = Shards,
                     !.pc = IF ev.pass > 0 /\ ev.got = 0 THEN "over" ELSE "compact",
                     !.stage = IF ev.pass = 0 THEN "half" ELSE "zero",
                     !.still = IF ev.pass = 0 THEN ev.total > Budget ELSE @]
       ELSE \E s \in Victims :
              /\ \A v \in Victims : ev.roll[s].oldest <= ev.roll[v].oldest
              /\ ReadFree(s)
              /\ LET keys == lowest_seq_disk_keys(s) IN
                 ev' = IF keys = {} THEN [ev EXCEPT !.exhausted = @ \cup {s}]
                       ELSE [ev EXCEPT !.pc = "evict", !.s = s, !.keys = keys,
                                            !.sel = TRUE]
    /\ UNCHANGED clock /\ Skips

\* Mutant: a victim that freed nothing is picked again.
NeverGivesUp(freed) == FALSE

\* A victim that freed nothing is left alone for the rest of the pass.
exhausted(freed) == freed = 0

\* evict_keys, then the victim's rollup again.
evict_keys ==
    LET s == ev.s
        d == maintain_removals(disk[s], ev.keys)
        freed == IF Writable(s) THEN disk[s].bytes - d.bytes ELSE 0 IN
    /\ Pass("evict") /\ ReadFree(s)
    /\ disk' = IF Writable(s) THEN [disk EXCEPT ![s] = d] ELSE disk
    /\ waste' = [waste EXCEPT ![s] = @ + freed]
    /\ mem' = [mem EXCEPT ![s] = [k \in Keys |-> IF k \in ev.keys THEN Cold ELSE @[k]]]
    /\ ev' = [ev EXCEPT !.pc = "after", !.freed = freed, !.keys = {},
                 !.got = @ + freed, !.total = Monus(@, freed)]
    /\ UNCHANGED <<clock, open, listed, full, db, us, plan, restarts>>
AfterEvict ==
    LET s == ev.s IN
    /\ Pass("after") /\ ReadFree(s)
    /\ ev' = [ev EXCEPT !.pc = "pick", !.roll[s] = shard_rollup(s),
                 !.exhausted = IF exhausted(ev.freed) THEN @ \cup {s} ELSE @]
    /\ clock' = observe(clock, MaxSeq(s))
    /\ Skips

\* compact_if_fragmented, over each shard in turn: skipped when the shard was
\* touched lately or its share of waste is under the threshold (one half,
\* then none), probed with the read lock and let go of before the write lock
\* is asked for.
Fragmented(s) == Open(s) /\ waste[s] > 0
SkipCompaction ==
    /\ Pass("compact")
    /\ \E s \in ev.todo :
         /\ ReadFree(s)
         /\ ev.stage = "half" \/ ~ev.calm \/ ~Fragmented(s)
         /\ ev' = [ev EXCEPT !.todo = @ \ {s}]
    /\ UNCHANGED clock /\ Skips
QueueCompaction ==
    /\ Pass("compact")
    /\ \E s \in ev.todo :
         /\ ReadFree(s) /\ Fragmented(s)
         /\ db' = [db EXCEPT ![s].queued = TRUE]
         /\ ev' = [ev EXCEPT !.pc = "queued", !.s = s, !.todo = @ \ {s}]
    /\ UNCHANGED <<disk, waste, mem, clock, open, listed, full, us, plan, restarts>>
LockCompaction ==
    LET s == ev.s IN
    /\ Pass("queued") /\ db[s].readers = {}
    /\ db' = [db EXCEPT ![s].queued = FALSE, ![s].writer = TRUE]
    /\ ev' = [ev EXCEPT !.pc = "compacting"]
    /\ UNCHANGED <<disk, waste, mem, clock, open, listed, full, us, plan, restarts>>
Compact ==
    LET s == ev.s IN
    /\ Pass("compacting")
    /\ waste' = IF full[s] THEN waste ELSE [waste EXCEPT ![s] = 0]
    /\ db' = [db EXCEPT ![s].writer = FALSE]
    /\ ev' = [ev EXCEPT !.pc = "compact"]
    /\ UNCHANGED <<disk, mem, clock, open, listed, full, us, plan, restarts>>

\* aggressive_compact_targets_if_physical_over_budget: a second round that
\* compacts whatever holds any waste.
CompactAgain ==
    /\ Pass("compact") /\ ev.todo = {} /\ ev.stage = "half"
    /\ ev' = [ev EXCEPT !.stage = "zero",
                 !.todo = IF total_shard_file_bytes > Budget THEN Shards ELSE {}]
    /\ UNCHANGED clock /\ Skips

\* The files are still over the budget: evict again toward the low-water mark
\* scaled by the bytes of values a byte of file holds.
Scaled(logical, physical) == (Low * logical) \div physical
PhysicalPass ==
    LET physical == total_shard_file_bytes IN
    /\ Pass("compact") /\ ev.todo = {} /\ ev.stage = "zero" /\ AllReadable
    /\ IF physical <= Budget \/ ev.still \/ ev.pass = Passes
       THEN ev' = [ev EXCEPT !.pc = "over"] /\ UNCHANGED clock
       ELSE /\ ev' = BeginEvict([ev EXCEPT !.pass = @ + 1],
                                Scaled(Total(Rollups), physical))
            /\ clock' = ObserveAll(clock, {MaxSeq(s) : s \in Shards})
    /\ Skips

Done == ev.pc = "over" /\ us.i > Len(plan) /\ UNCHANGED vars

Maintain ==
    \/ run_maintenance \/ Pick \/ evict_keys \/ AfterEvict \/ SkipCompaction
    \/ QueueCompaction \/ LockCompaction \/ Compact \/ CompactAgain
    \/ PhysicalPass
Request ==
    \/ Insert \/ Hit \/ Persist \/ BeginRead \/ DecideRefusal \/ RemoveRefused
    \/ Forget
Next == Maintain \/ Request \/ Restart \/ reopen_disk \/ Done
Spec == Init /\ [][Next]_vars /\ WF_vars(Maintain) /\ WF_vars(Request)

(***************************************************************************)
(* Properties.                                                             *)
(***************************************************************************)

\* The accounts kept by differences are the ones a scan of the rows would
\* give, whatever inserts, replacements, removals and evictions have run: the
\* evictor and the preload read nothing else (write_pending_inserts,
\* maintain_removals).
AccountsExact ==
    \A s \in Shards :
        /\ [disk[s] EXCEPT !.max = 0] = [Rebuilt(disk[s].rows) EXCEPT !.max = 0]
        /\ disk[s].max >= Rebuilt(disk[s].rows).max

\* The next access of an entry sorts newer than every row of every database
\* whose rows this process has observed, over restarts that set the clock back
\* to 1 and databases attached later (seed_recency_clock_from_disk,
\* decode_cached_result).  A database attached later is not covered from the
\* moment reopen_disk publishes it until load_recent has read it: meanwhile an
\* insert or a hit of another request draws a number below rows of an open
\* database.  Nor is one of which load_recent did not get to read the rows it
\* had listed ("blind").
ClockAhead ==
    \A s \in Shards : open[s] = "seen" => \A k \in Held(s) : disk[s].rows[k].seq < clock

\* The keys about to be evicted have not been used since they were last
\* written, and Floor rows that stay in their shard are no older, unless a
\* request came in after they were selected; a hit counts although only memory
\* knows of it (lowest_seq_disk_keys).
SparesWarm ==
    Pass("evict") /\ ev.sel =>
        \A k \in ev.keys :
            /\ mem[ev.s][k].last <= disk[ev.s].rows[k].seq
            /\ Cardinality({j \in Held(ev.s) \ ev.keys :
                   disk[ev.s].rows[j].seq >= disk[ev.s].rows[k].seq}) >= Floor

\* A thread that waits for the lock on a database does not hold it: with the
\* compactor queued in between, it would wait for itself (read_committed).
NeverWaitsForItself ==
    us.pc = "remove" /\ ~ReadFree(Op.s) => "user" \notin db[Op.s].readers

\* Every maintenance pass ends, on full disks and under requests that refill
\* what it evicts (evict's progress guard).
PassEnds == ev.pc = "pick" ~> ev.pc \in {"over", "rest"}
=============================================================================
