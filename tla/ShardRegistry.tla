---------------------------- MODULE ShardRegistry ----------------------------
(***************************************************************************)
(* The registry of project cache shards: daemon/src/cache/project.rs, with *)
(* the opening and removing of a shard's database (cache/disk.rs) and the  *)
(* requests of service.rs that go through it.                              *)
(*                                                                         *)
(* Each project root has a shard: a directory with a database and a        *)
(* metadata file.  A request for a root finds the shard loaded, or loads   *)
(* it under a lock of its own; invalidations, listings, maintenance passes *)
(* and removals go over the loaded shards and open the others for a        *)
(* moment.  redb lets one holder open a file, so they meet each other as   *)
(* failed opens.                                                           *)
(*                                                                         *)
(* A shard holds one entry, of one package: the version of the package it  *)
(* was measured from (0: no entry).  What a shard's database answers, from *)
(* its queue or its table, is `rows'; the queue is ImportCache's subject,  *)
(* and which rows a maintenance pass evicts is CacheBudget's.              *)
(***************************************************************************)
EXTENDS Naturals, Sequences

CONSTANTS
    NShards,       \* the number of project roots
    Threads,       \* the threads that serve requests
    Plans,         \* the workloads: each gives every thread its operations
    Roots,         \* shard -> [root, above]: do its root and an ancestor exist?
    Leftovers,     \* shard -> the forms an earlier session may leave its database in
    MaxInstalls,   \* bound: how often the package changes
    MaxFaults,     \* bound: file operations that fail transiently during an open
    MaxFiles,      \* bound: database files ever created
    MaxCaches      \* bound: caches ever loaded

ASSUME ShardsAssumption ==
    /\ "free" \notin Threads
    /\ MaxFiles \in Nat /\ MaxCaches \in Nat /\ NShards \in 0..MaxFiles
    /\ Leftovers \in [1..NShards -> SUBSET {"good", "blank", "old", "corrupt"}]
    /\ \A p \in Plans : \A t \in Threads : \A i \in 1..Len(p[t]) :
           p[t][i].do \in {"serve", "remove"} => p[t][i].s \in 1..NShards

Shards == 1..NShards

VARIABLES
    dir,       \* shard -> [db: its database's file or 0, meta, there]
    rows,      \* file -> the entry the database answers with
    cache,     \* cache -> [shard, file, ver, gen]: an ImportCache and its memory
    loaded,    \* shard -> the registered cache, or 0
    retry,     \* shard -> a registered shard's disk open is to be retried
    lock,      \* shard -> the holder of the load lock, or "free"
    pkg,       \* the installed version of the package
    generation,\* the verification generation
    announced, \* the version whose invalidation has run to its end
    busy,      \* CACHE_MAINTENANCE_IN_PROGRESS
    strays,    \* shards whose database a pass has opened without its metadata
    form,      \* file -> "good", "blank" (no schema yet), "old" or "corrupt"
    past,      \* [opener: shard -> the last thread to open its database or find it
               \*  corrupt, torn: files another thread's verdict has unlinked]
    plan,      \* thread -> its operations, taken from Plans
    th,        \* thread -> where it is
    made       \* [files, caches, faults]: what has been used of the bounds

shared == <<dir, rows, cache, loaded, retry, lock>>
shardVars == <<dir, rows, cache, loaded, retry, lock, pkg, generation, announced,
               busy, strays, form, past, plan, th, made>>

\* open_database on its way: `file' is the file it holds, or has found unfit.
NotOpening == [stage |-> "none", existed |-> FALSE, again |-> FALSE, file |-> 0]
Opening == [NotOpening EXCEPT !.stage = "look"]
OpenedAs(f) == [NotOpening EXCEPT !.stage = "done", !.file = f]

IdleAt(n) == [pc |-> "idle", i |-> n, s |-> 0, held |-> {}, files |-> {},
              ids |-> {}, visit |-> {}, list |-> {}, gen |-> 0, ver |-> 0,
              phase |-> "list", removed |-> FALSE, open |-> NotOpening]
Op(t) == plan[t][th[t].i]
Doing(t, op, pc) ==
    th[t].pc = pc /\ th[t].i <= Len(plan[t]) /\ Op(t).do \in op
At(t, pc) == th[t].pc = pc
Held(t) == CHOOSE c \in th[t].held : TRUE
Finished(t) == IdleAt(th[t].i + 1)

Live(c) ==
    \/ \E s \in Shards : loaded[s] = c
    \/ \E t \in Threads : c \in th[t].held
HoldsOpen(t) == th[t].open.stage \in {"schema", "done"}
OpenFiles ==
    ({cache[c].file : c \in {d \in DOMAIN cache : Live(d)}}
        \cup (UNION {th[t].files : t \in Threads})
        \cup {th[t].open.file : t \in {u \in Threads : HoldsOpen(u)}}) \ {0}

Places ==
    {"idle", "touch", "retry", "cold", "open", "describe", "register", "reopen",
     "reopened", "use", "insert", "loaded", "scan", "visit", "create", "opened",
     "sweep", "remove", "unlink", "condemned", "unlinked", "emptied", "flush"}
Stages == {"none", "look", "open", "schema", "unlink", "done"}
Forms == {"good", "blank", "old", "corrupt"}
ThreadFrame ==
    [pc : Places, i : Nat \ {0}, s : Shards \cup {0}, held : SUBSET (1..made.caches),
     files : SUBSET Nat, ids : SUBSET Shards, visit : SUBSET Shards,
     list : SUBSET Shards, gen : Nat, ver : Nat, phase : {"list", "act", "sweep"}, removed : BOOLEAN,
     open : [stage : Stages, existed : BOOLEAN, again : BOOLEAN, file : Nat]]
ShardsTypeOK ==
    /\ dir \in [Shards -> [db : Nat, meta : BOOLEAN, there : BOOLEAN]]
    /\ rows \in [1..MaxFiles -> Nat]
    /\ cache \in [1..MaxCaches -> [shard : Nat, file : Nat, ver : Nat, gen : Nat]]
    /\ made \in [files : Nat, caches : 0..MaxCaches, faults : Nat]
    /\ loaded \in [Shards -> 0..made.caches]
    /\ retry \in [Shards -> BOOLEAN]
    /\ lock \in [Shards -> Threads \cup {"free"}]
    /\ pkg \in Nat /\ generation \in Nat /\ announced \in Nat
    /\ busy \in BOOLEAN /\ strays \in SUBSET Shards
    /\ form \in [1..MaxFiles -> Forms]
    /\ past \in [opener : [Shards -> Threads \cup {"free"}], torn : SUBSET Nat]
    /\ plan \in Plans
    /\ th \in [Threads -> ThreadFrame]

(***************************************************************************)
(* open_database, one file operation at a time, for a thread that loads    *)
(* its shard or retries its disk ("open", "reopen", under the load lock)   *)
(* and for a pass ("create", under no lock).  An unfit file is let go of   *)
(* before it is unlinked, and unlinked before it is created again, so      *)
(* another opener may come in between.                                     *)
(***************************************************************************)
HeldElsewhere(s) == dir[s].db \in OpenFiles
Stage(t, stage) == th[t].pc \in {"open", "reopen", "create"} /\ th[t].open.stage = stage
Stray(t) ==
    strays' = IF At(t, "create") /\ ~dir[th[t].s].meta
              THEN strays \cup {th[t].s} ELSE strays

create_error(s) ==
    IF dir[s].db = 0 THEN IF dir[s].there THEN "none" ELSE "NotFound"
    ELSE IF HeldElsewhere(s) THEN "DatabaseAlreadyOpen"
    ELSE IF form[dir[s].db] = "corrupt" THEN "Corrupted" ELSE "none"
RecreatesOnAnyError(e) == e # "none"
is_corruption_error(e) == e = "Corrupted"

\* create_dir_all, which open_existing leaves out, and db_path.exists().
LookAtPath(t) ==
    LET s == th[t].s IN
    /\ Stage(t, "look")
    /\ dir' = IF At(t, "create") THEN dir ELSE [dir EXCEPT ![s].there = TRUE]
    /\ th' = [th EXCEPT ![t].open = [@ EXCEPT !.stage = "open", !.existed = dir[s].db # 0]]
    /\ UNCHANGED <<rows, cache, loaded, retry, lock, pkg, generation, announced,
                   busy, strays, form, past, plan, made>>

\* create_database: an empty database where there was none, or the one there.
create_database(t) ==
    LET s == th[t].s
        f == IF dir[s].db = 0 THEN made.files + 1 ELSE dir[s].db IN
    /\ Stage(t, "open") /\ create_error(s) = "none"
    /\ f <= MaxFiles
    /\ dir' = [dir EXCEPT ![s].db = f]
    /\ made' = [made EXCEPT !.files = IF f > @ THEN f ELSE @]
    /\ past' = [past EXCEPT !.opener[s] = t]
    /\ th' = [th EXCEPT ![t].open = [@ EXCEPT !.stage = "schema", !.file = f]]
    /\ Stray(t)
    /\ UNCHANGED <<rows, cache, loaded, retry, lock, pkg, generation, announced,
                   busy, form, plan>>

\* Its errors: only a corrupt file is condemned, and only once in an open.
CreateFails(t) ==
    LET s == th[t].s
        e == create_error(s) IN
    /\ Stage(t, "open") /\ e # "none"
    /\ IF is_corruption_error(e) /\ ~th[t].open.again
       THEN /\ th' = [th EXCEPT ![t].open = [@ EXCEPT !.stage = "unlink", !.file = dir[s].db]]
            /\ past' = [past EXCEPT !.opener[s] = t]
       ELSE /\ th' = [th EXCEPT ![t].open = OpenedAs(0)]
            /\ UNCHANGED past
    /\ UNCHANGED <<shared, pkg, generation, announced, busy, strays, form, plan, made>>

\* A database without a version is given one if it is new, and is as
\* incompatible as one of another version if it was there before.
ensure_schema(t) ==
    LET o == th[t].open IN
    /\ Stage(t, "schema")
    /\ IF form[o.file] \in {"good"} \cup IF o.again \/ ~o.existed THEN {"blank"} ELSE {}
       THEN /\ form' = [form EXCEPT ![o.file] = "good"]
            /\ th' = [th EXCEPT ![t].open = [@ EXCEPT !.stage = "done"]]
       ELSE /\ th' = [th EXCEPT ![t].open =
                 IF o.again THEN OpenedAs(0) ELSE [o EXCEPT !.stage = "unlink"]]
            /\ UNCHANGED form
    /\ UNCHANGED <<shared, pkg, generation, announced, busy, strays, past, plan, made>>

\* remove_file takes whatever database the path names by now: it tears one
\* that another thread has put there, or opened, since this one's verdict.
recreate_database(t) ==
    LET s == th[t].s
        f == dir[s].db IN
    /\ Stage(t, "unlink")
    /\ dir' = [dir EXCEPT ![s].db = 0]
    /\ IF f = 0
       THEN /\ th' = [th EXCEPT ![t].open = OpenedAs(0)]
            /\ UNCHANGED past
       ELSE /\ th' = [th EXCEPT ![t].open = [Opening EXCEPT !.stage = "open", !.again = TRUE]]
            /\ past' = IF f = th[t].open.file /\ past.opener[s] = t THEN past
                       ELSE [past EXCEPT !.torn = @ \cup {f}]
    /\ UNCHANGED <<rows, cache, loaded, retry, lock, pkg, generation, announced,
                   busy, strays, form, plan, made>>

\* Each of the file operations may fail transiently; the file is kept.
OpenFaults(t) ==
    /\ \/ Stage(t, "look") /\ ~At(t, "create")
       \/ Stage(t, "open") \/ Stage(t, "schema") \/ Stage(t, "unlink")
    /\ made.faults < MaxFaults
    /\ made' = [made EXCEPT !.faults = @ + 1]
    /\ th' = [th EXCEPT ![t].open = OpenedAs(0)]
    /\ UNCHANGED <<shared, pkg, generation, announced, busy, strays, form, past, plan>>

open_database(t) ==
    \/ LookAtPath(t) \/ create_database(t) \/ CreateFails(t) \/ ensure_schema(t)
    \/ recreate_database(t) \/ OpenFaults(t)

\* load_recent checks each row's files as it preloads it: a row of another
\* version is evicted, and what is kept has yet to be verified.
Preload(f) == IF f # 0 /\ rows[f] = pkg THEN rows[f] ELSE 0

(***************************************************************************)
(* ShardsInit: what earlier sessions left on disk.                         *)
(***************************************************************************)
ShardsInit ==
    /\ \E present \in SUBSET Shards :
         /\ dir = [s \in Shards |->
               [db |-> IF s \in present THEN s ELSE 0,
                meta |-> s \in present, there |-> s \in present]]
         /\ rows = [f \in 1..MaxFiles |-> IF f \in present THEN 1 ELSE 0]
         /\ \E left \in [present -> Forms] :
              /\ \A s \in present : left[s] \in Leftovers[s]
              /\ form = [f \in 1..MaxFiles |-> IF f \in present THEN left[f] ELSE "blank"]
    /\ past = [opener |-> [s \in Shards |-> "free"], torn |-> {}]
    /\ made = [files |-> NShards, caches |-> 0, faults |-> 0]
    /\ cache = [c \in 1..MaxCaches |-> [shard |-> 0, file |-> 0, ver |-> 0, gen |-> 0]]
    /\ loaded = [s \in Shards |-> 0]
    /\ retry = [s \in Shards |-> FALSE]
    /\ lock = [s \in Shards |-> "free"]
    /\ pkg = 1 /\ generation = 1 /\ announced = 1
    /\ busy = FALSE /\ strays = {}
    /\ plan \in Plans
    /\ th = [t \in Threads |-> IdleAt(1)]

Install ==
    /\ pkg <= MaxInstalls
    /\ pkg' = pkg + 1
    /\ UNCHANGED <<shared, generation, announced, busy, strays, form, past, plan, th, made>>

(***************************************************************************)
(* cache_for_root, and the analysis that asked for it.                     *)
(***************************************************************************)
Described(d, s) == [d EXCEPT ![s].meta = TRUE, ![s].there = TRUE]

\* The warm path: the metadata's minute and the retry's interval may or may
\* not be over.  The write of the metadata comes after `loaded' is released.
warm_shard_hit(t) ==
    LET s == Op(t).s IN
    /\ Doing(t, {"serve"}, "idle") /\ loaded[s] # 0
    /\ \E next \in IF retry[s] THEN {"retry", "use"} ELSE {"touch", "use"} :
          th' = [th EXCEPT ![t].pc = next, ![t].s = s, ![t].held = {loaded[s]}]
    /\ UNCHANGED <<shared, pkg, generation, announced, busy, strays, form, past, plan, made>>

write_metadata(t) ==
    /\ At(t, "touch")
    /\ dir' = Described(dir, th[t].s)
    /\ th' = [th EXCEPT ![t].pc = "use"]
    /\ UNCHANGED <<rows, cache, loaded, retry, lock, pkg, generation, announced,
                   busy, strays, form, past, plan, made>>

Miss(t) ==
    /\ Doing(t, {"serve"}, "idle") /\ loaded[Op(t).s] = 0
    /\ th' = [th EXCEPT ![t].pc = "cold", ![t].s = Op(t).s]
    /\ UNCHANGED <<shared, pkg, generation, announced, busy, strays, form, past, plan, made>>

\* cache_for_root, second look: the lock's holder before us may have loaded it.
LoadedMeanwhile(s) == loaded[s] # 0
ColdLock(t) ==
    LET s == th[t].s IN
    /\ At(t, "cold") /\ lock[s] = "free"
    /\ IF LoadedMeanwhile(s)
       THEN /\ th' = [th EXCEPT ![t].pc = "use", ![t].held = {loaded[s]}]
            /\ \E old \in BOOLEAN :
                  dir' = IF old /\ ~retry[s] THEN Described(dir, s) ELSE dir
            /\ UNCHANGED lock
       ELSE /\ th' = [th EXCEPT ![t].pc = "open", ![t].open = Opening]
            /\ lock' = [lock EXCEPT ![s] = t]
            /\ UNCHANGED dir
    /\ UNCHANGED <<rows, cache, loaded, retry, pkg, generation, announced, busy,
                   strays, form, past, plan, made>>

OpenShard(t) ==
    LET s == th[t].s
        c == made.caches + 1
        f == th[t].open.file IN
    /\ At(t, "open") /\ Stage(t, "done") /\ made.caches < MaxCaches
    /\ made' = [made EXCEPT !.caches = c]
    /\ cache' = [cache EXCEPT ![c] =
          [shard |-> s, file |-> f, ver |-> Preload(f), gen |-> 0]]
    /\ rows' = IF f = 0 THEN rows ELSE [rows EXCEPT ![f] = Preload(f)]
    /\ th' = [th EXCEPT ![t].pc = "describe", ![t].held = {c}, ![t].open = NotOpening]
    /\ UNCHANGED <<dir, loaded, retry, lock, pkg, generation, announced, busy, strays,
                   form, past, plan>>

\* Metadata is written only for a shard whose disk has opened.
Describe(t) ==
    /\ At(t, "describe")
    /\ dir' = IF cache[Held(t)].file = 0 THEN dir ELSE Described(dir, th[t].s)
    /\ th' = [th EXCEPT ![t].pc = "register"]
    /\ UNCHANGED <<rows, cache, loaded, retry, lock, pkg, generation, announced,
                   busy, strays, form, past, plan, made>>

Register(t) ==
    LET s == th[t].s IN
    /\ At(t, "register")
    /\ loaded' = [loaded EXCEPT ![s] = Held(t)]
    /\ retry' = [retry EXCEPT ![s] = cache[Held(t)].file = 0]
    /\ lock' = [lock EXCEPT ![s] = "free"]
    /\ th' = [th EXCEPT ![t].pc = "use"]
    /\ UNCHANGED <<dir, rows, cache, pkg, generation, announced, busy, strays, form, past, plan, made>>

\* The retry: under the load lock, and only for the cache still registered.
RetriesAnyway(s, c) == TRUE
still_registered(s, c) == loaded[s] = c
\* Somebody else's retry may have opened it meanwhile.
reopen_if_unavailable(c) == IF cache[c].file # 0 THEN OpenedAs(cache[c].file) ELSE Opening
RetryLock(t) ==
    LET s == th[t].s IN
    /\ At(t, "retry") /\ lock[s] = "free"
    /\ IF still_registered(s, Held(t))
       THEN /\ th' = [th EXCEPT ![t].pc = "reopen",
                         ![t].open = reopen_if_unavailable(Held(t))]
            /\ lock' = [lock EXCEPT ![s] = t]
       ELSE /\ th' = [th EXCEPT ![t].pc = "use"]
            /\ UNCHANGED lock
    /\ UNCHANGED <<dir, rows, cache, loaded, retry, pkg, generation, announced, busy,
                   strays, form, past, plan, made>>

\* The entries computed without a disk are written to it, and the rows that
\* memory has no entry for are preloaded.
reopen_disk(t) ==
    LET s == th[t].s
        c == Held(t)
        f == th[t].open.file
        kept == IF cache[c].ver # 0 THEN cache[c].ver ELSE Preload(f) IN
    /\ At(t, "reopen") /\ Stage(t, "done")
    /\ IF f = 0
       THEN /\ th' = [th EXCEPT ![t].pc = "use", ![t].open = NotOpening]
            /\ lock' = [lock EXCEPT ![s] = "free"]
            /\ UNCHANGED <<cache, rows>>
       ELSE /\ th' = [th EXCEPT ![t].pc = "reopened", ![t].open = NotOpening]
            /\ cache' = [cache EXCEPT ![c].file = f, ![c].ver = kept]
            /\ rows' = [rows EXCEPT ![f] = kept]
            /\ UNCHANGED lock
    /\ UNCHANGED <<dir, loaded, retry, pkg, generation, announced, busy, strays, form,
                   past, plan, made>>

Reopened(t) ==
    LET s == th[t].s IN
    /\ At(t, "reopened")
    /\ retry' = [retry EXCEPT ![s] = FALSE]
    /\ dir' = IF loaded[s] = 0 THEN dir ELSE Described(dir, s)
    /\ lock' = [lock EXCEPT ![s] = "free"]
    /\ th' = [th EXCEPT ![t].pc = "use"]
    /\ UNCHANGED <<rows, cache, loaded, pkg, generation, announced, busy, strays, form, past, plan, made>>

\* The analysis: an entry verified under the current generation is served
\* without a look at its files; any other is compared with what is
\* installed, and measured anew when it differs.
Trusted(t) == LET e == cache[Held(t)] IN e.ver # 0 /\ e.gen = generation
Trust(t) ==
    /\ At(t, "use") /\ Trusted(t)
    /\ th' = [th EXCEPT ![t] = Finished(t)]
    /\ UNCHANGED <<shared, pkg, generation, announced, busy, strays, form, past, plan, made>>
Verify(t) ==
    /\ At(t, "use") /\ ~Trusted(t)
    /\ th' = [th EXCEPT ![t].pc = "insert", ![t].gen = generation, ![t].ver = pkg]
    /\ UNCHANGED <<shared, pkg, generation, announced, busy, strays, form, past, plan, made>>
InsertMeasured(t) ==
    LET c == Held(t) IN
    /\ At(t, "insert")
    /\ cache' = [cache EXCEPT ![c].ver = th[t].ver, ![c].gen = th[t].gen]
    /\ rows' = IF cache[c].file = 0 THEN rows
               ELSE [rows EXCEPT ![cache[c].file] = th[t].ver]
    /\ th' = [th EXCEPT ![t] = Finished(t)]
    /\ UNCHANGED <<dir, loaded, retry, lock, pkg, generation, announced, busy, strays, form, past,
                   plan, made>>

\* Only a root that is gone from a volume that is there makes an orphan.
classify_project_root(r) ==
    CASE r.root = "yes" -> "Present"
      [] r.root = "no" /\ r.above = "yes" -> "Orphaned"
      [] OTHER -> "VolumeUnreachable"
Orphaned == {s \in Shards : classify_project_root(Roots[s]) = "Orphaned"}

(***************************************************************************)
(* A pass over the shards: the loaded ones as a snapshot under `loaded',   *)
(* then every other shard the directory lists, opened if its database is   *)
(* there.  The look for the file and the open are two steps; a listing and *)
(* a maintenance pass keep what they open, an invalidation lets go of each *)
(* before the next.                                                        *)
(***************************************************************************)
Loaded == {s \in Shards : loaded[s] # 0}
Listed == {s \in Shards : dir[s].meta}
Passes == {"invalidate", "clear", "orphans", "maintain", "status"}
collect_shard_targets(t) ==
    [th[t] EXCEPT !.ids = Loaded, !.held = {loaded[s] : s \in Loaded}]

BeginPass(t) ==
    /\ Doing(t, Passes, "idle")
    /\ Op(t).do = "maintain" => ~busy
    /\ busy' = (busy \/ Op(t).do = "maintain")
    /\ th' = [th EXCEPT ![t] = [collect_shard_targets(t) EXCEPT
                 !.pc = IF Op(t).do = "invalidate" THEN "loaded" ELSE "scan",
                 !.phase = IF Op(t).do = "invalidate" THEN "act" ELSE "list",
                 !.gen = pkg]]
    /\ UNCHANGED <<shared, pkg, generation, announced, strays, form, past, plan, made>>

\* A pass that is already running makes this one a no-op.
AlreadyMaintaining(t) ==
    /\ Doing(t, {"maintain"}, "idle") /\ busy
    /\ th' = [th EXCEPT ![t] = Finished(t)]
    /\ UNCHANGED <<shared, pkg, generation, announced, busy, strays, form, past, plan, made>>

\* One loaded shard's entries go, from its database and then its memory.
Emptied(c) == [cache EXCEPT ![c].ver = 0, ![c].gen = 0]
EmptiedRows(fs) == [f \in DOMAIN rows |-> IF f \in fs THEN 0 ELSE rows[f]]
InvalidateLoaded(t) ==
    /\ At(t, "loaded")
    /\ \/ \E c \in th[t].held :
            /\ cache' = Emptied(c)
            /\ rows' = EmptiedRows({cache[c].file})
            /\ th' = [th EXCEPT ![t].held = @ \ {c}]
       \/ /\ th[t].held = {}
          /\ th' = [th EXCEPT ![t].pc = "scan"]
          /\ UNCHANGED <<cache, rows>>
    /\ UNCHANGED <<dir, loaded, retry, lock, pkg, generation, announced, busy, strays, form, past,
                   plan, made>>

scan_disk_shard_paths(t) ==
    /\ At(t, "scan")
    /\ th' = [th EXCEPT ![t].pc = "visit", ![t].visit = Listed \ th[t].ids]
    /\ UNCHANGED <<shared, pkg, generation, announced, busy, strays, form, past, plan, made>>

LookForFile(t) ==
    /\ At(t, "visit")
    /\ \E s \in th[t].visit :
          th' = [th EXCEPT ![t].visit = @ \ {s}, ![t].s = s,
                    ![t].pc = IF dir[s].db # 0 THEN "create" ELSE "visit",
                    ![t].open = IF dir[s].db # 0 THEN Opening ELSE NotOpening]
    /\ UNCHANGED <<shared, pkg, generation, announced, busy, strays, form, past, plan, made>>

open_existing(t) ==
    LET f == th[t].open.file IN
    /\ At(t, "create") /\ Stage(t, "done")
    /\ th' = [th EXCEPT ![t].files = @ \cup ({f} \ {0}), ![t].open = NotOpening,
                 ![t].pc = IF th[t].phase = "act" /\ f # 0 THEN "opened" ELSE "visit"]
    /\ UNCHANGED <<shared, pkg, generation, announced, busy, strays, form, past, plan, made>>

\* An invalidation removes the opened shard's entry, a purge the rows that
\* belong to nothing any more, which the model leaves to chance.
ActOnOpened(t) ==
    /\ At(t, "opened")
    /\ \/ rows' = EmptiedRows(th[t].files)
       \/ Op(t).do = "orphans" /\ rows' = rows
    /\ th' = [th EXCEPT ![t].files = {}, ![t].pc = "visit"]
    /\ UNCHANGED <<dir, cache, loaded, retry, lock, pkg, generation, announced, busy,
                   strays, form, past, plan, made>>

\* service.invalidate_package ends by raising the generation: what the pass
\* could not reach is verified again before it is served.
NoRaise(g) == g
bump_cache_generation(g) == g + 1
invalidate_package(t) ==
    /\ Doing(t, {"invalidate"}, "visit") /\ th[t].visit = {}
    /\ generation' = bump_cache_generation(generation)
    /\ announced' = IF th[t].gen > announced THEN th[t].gen ELSE announced
    /\ th' = [th EXCEPT ![t] = Finished(t)]
    /\ UNCHANGED <<shared, pkg, busy, strays, form, past, plan, made>>

\* A maintenance pass evicts from some of the shards it holds, then lets go
\* of them all and goes on to the orphan sweep; a listing only lets go.
run_maintenance(t) ==
    /\ Doing(t, {"maintain"}, "visit") /\ th[t].visit = {} /\ th[t].phase = "list"
    /\ \E cs \in SUBSET th[t].held, fs \in SUBSET th[t].files :
         /\ cache' = [c \in DOMAIN cache |->
                IF c \in cs THEN [cache[c] EXCEPT !.ver = 0, !.gen = 0] ELSE cache[c]]
         /\ rows' = EmptiedRows({cache[c].file : c \in cs} \cup fs)
    /\ th' = [th EXCEPT ![t].held = {}, ![t].files = {}, ![t].pc = "sweep"]
    /\ UNCHANGED <<dir, loaded, retry, lock, pkg, generation, announced, busy, strays, form, past,
                   plan, made>>

\* ORPHAN_SWEEP_INTERVAL: the sweep lists the shards again when it is due.
sweep_orphaned_shards_if_due(t) ==
    /\ At(t, "sweep")
    /\ \/ th' = [th EXCEPT ![t] = [collect_shard_targets(t) EXCEPT
                    !.pc = "scan", !.phase = "sweep"]]
       \/ th' = [th EXCEPT ![t].pc = "remove"]
    /\ UNCHANGED <<shared, pkg, generation, announced, busy, strays, form, past, plan, made>>

\* The end of a listing, and what it is for.  A purge goes on to scrub the
\* shards that keep their root, opening the ones that were not loaded.
list_shards(t) ==
    LET all == Listed \cup Loaded IN
    /\ Doing(t, Passes, "visit") /\ th[t].visit = {}
    /\ \/ th[t].phase = "sweep"
       \/ th[t].phase = "list" /\ Op(t).do # "maintain"
    /\ th' = [th EXCEPT ![t] = [@ EXCEPT !.held = {}, !.files = {}, !.phase = "act",
                 !.pc = IF Op(t).do = "orphans" THEN "visit" ELSE "remove",
                 !.visit = IF Op(t).do = "orphans" THEN (Listed \ th[t].ids) \ Orphaned ELSE {},
                 !.list = CASE Op(t).do = "clear" -> all
                            [] Op(t).do = "status" -> {}
                            [] OTHER -> all \cap Orphaned]]
    /\ UNCHANGED <<shared, pkg, generation, announced, busy, strays, form, past, plan, made>>
purge_orphan_entries(t) ==
    /\ Doing(t, {"orphans"}, "visit") /\ th[t].phase = "act"
    /\ \/ \E s \in (th[t].ids \ Orphaned) \cap Loaded :
            /\ cache' = Emptied(loaded[s])
            /\ rows' = EmptiedRows({cache[loaded[s]].file})
            /\ th' = [th EXCEPT ![t].ids = @ \ {s}]
       \/ /\ th[t].visit = {}
          /\ th' = [th EXCEPT ![t].pc = "remove"]
          /\ UNCHANGED <<cache, rows>>
    /\ UNCHANGED <<dir, loaded, retry, lock, pkg, generation, announced, busy, strays, form, past,
                   plan, made>>

(***************************************************************************)
(* Removing a shard, under its load lock: unregister and clear it, delete  *)
(* the database if nobody holds it, then the rest of the directory.        *)
(***************************************************************************)
BeginRemoval(t) ==
    /\ Doing(t, {"remove"}, "idle")
    /\ th' = [th EXCEPT ![t].pc = "remove", ![t].list = {Op(t).s}]
    /\ UNCHANGED <<shared, pkg, generation, announced, busy, strays, form, past, plan, made>>

remove_shard_by_id(t) ==
    /\ At(t, "remove")
    /\ \E s \in th[t].list :
         /\ lock[s] = "free"
         /\ loaded' = [loaded EXCEPT ![s] = 0]
         /\ retry' = [retry EXCEPT ![s] = FALSE]
         /\ IF loaded[s] = 0 THEN UNCHANGED <<cache, rows>>
            ELSE /\ cache' = Emptied(loaded[s])
                 /\ rows' = EmptiedRows({cache[loaded[s]].file})
         /\ IF dir[s].there
            THEN /\ th' = [th EXCEPT ![t].pc = "unlink", ![t].s = s,
                              ![t].list = @ \ {s}]
                 /\ lock' = [lock EXCEPT ![s] = t]
            ELSE /\ th' = [th EXCEPT ![t].list = @ \ {s},
                              ![t].removed = @ \/ loaded[s] # 0]
                 /\ UNCHANGED lock
    /\ UNCHANGED <<dir, pkg, generation, announced, busy, strays, form, past, plan, made>>

\* The database is unlinked while it is held; one that cannot be opened, being
\* corrupt or for a passing reason, is condemned, and whatever the path names by
\* then is unlinked a step later.
remove_shard_database(t) ==
    LET s == th[t].s IN
    /\ At(t, "unlink") /\ create_error(s) # "Corrupted"
    /\ IF HeldElsewhere(s)
       THEN /\ th' = [th EXCEPT ![t].pc = "remove"]
            /\ lock' = [lock EXCEPT ![s] = "free"]
            /\ UNCHANGED dir
       ELSE /\ dir' = [dir EXCEPT ![s].db = 0]
            /\ th' = [th EXCEPT ![t].pc = "unlinked"]
            /\ UNCHANGED lock
    /\ UNCHANGED <<rows, cache, loaded, retry, pkg, generation, announced, busy,
                   strays, form, past, plan, made>>

Condemn(t) ==
    /\ At(t, "unlink") /\ dir[th[t].s].db # 0
    /\ \/ create_error(th[t].s) = "Corrupted" /\ UNCHANGED made
       \/ made.faults < MaxFaults /\ made' = [made EXCEPT !.faults = @ + 1]
    /\ th' = [th EXCEPT ![t].pc = "condemned"]
    /\ UNCHANGED <<shared, pkg, generation, announced, busy, strays, form, past, plan>>
RemoveUnreadable(t) ==
    /\ At(t, "condemned")
    /\ dir' = [dir EXCEPT ![th[t].s].db = 0]
    /\ th' = [th EXCEPT ![t].pc = "unlinked"]
    /\ UNCHANGED <<rows, cache, loaded, retry, lock, pkg, generation, announced,
                   busy, strays, form, past, plan, made>>

\* remove_dir_all: the entries it lists, then the directory, which stays if
\* something has been put in it meanwhile.
RemoveEntries(t) ==
    /\ At(t, "unlinked")
    /\ dir' = [dir EXCEPT ![th[t].s].db = 0, ![th[t].s].meta = FALSE]
    /\ th' = [th EXCEPT ![t].pc = "emptied"]
    /\ UNCHANGED <<rows, cache, loaded, retry, lock, pkg, generation, announced,
                   busy, strays, form, past, plan, made>>
RemoveDirectory(t) ==
    LET s == th[t].s
        empty == dir[s].db = 0 /\ ~dir[s].meta IN
    /\ At(t, "emptied")
    /\ dir' = [dir EXCEPT ![s].there = ~empty]
    /\ lock' = [lock EXCEPT ![s] = "free"]
    /\ th' = [th EXCEPT ![t].pc = "remove", ![t].removed = @ \/ empty]
    /\ UNCHANGED <<rows, cache, loaded, retry, pkg, generation, announced, busy,
                   strays, form, past, plan, made>>

\* remove_cache raises the generation whatever it removed, a maintenance pass
\* only when its sweep removed something.
EndRemovals(t) ==
    /\ At(t, "remove") /\ th[t].list = {}
    /\ generation' = IF Op(t).do = "status" \/ (Op(t).do = "maintain" /\ ~th[t].removed)
              THEN generation ELSE bump_cache_generation(generation)
    /\ busy' = (busy /\ Op(t).do # "maintain")
    /\ th' = [th EXCEPT ![t] = Finished(t)]
    /\ UNCHANGED <<shared, pkg, announced, strays, form, past, plan, made>>

\* flush_to_disk: every registered shard's memory reaches its database.
flush_to_disk(t) ==
    /\ Doing(t, {"flush"}, "idle")
    /\ th' = [th EXCEPT ![t].pc = "flush", ![t].held = {loaded[s] : s \in Loaded}]
    /\ UNCHANGED <<shared, pkg, generation, announced, busy, strays, form, past, plan, made>>
FlushOne(t) ==
    /\ At(t, "flush")
    /\ \/ \E c \in th[t].held :
            /\ rows' = IF cache[c].file # 0 /\ cache[c].ver # 0
                       THEN [rows EXCEPT ![cache[c].file] = cache[c].ver] ELSE rows
            /\ th' = [th EXCEPT ![t].held = @ \ {c}]
       \/ /\ th[t].held = {}
          /\ th' = [th EXCEPT ![t] = Finished(t)]
          /\ UNCHANGED rows
    /\ UNCHANGED <<dir, cache, loaded, retry, lock, pkg, generation, announced, busy,
                   strays, form, past, plan, made>>

Serve(t) ==
    \/ warm_shard_hit(t) \/ write_metadata(t) \/ Miss(t) \/ ColdLock(t)
    \/ OpenShard(t) \/ Describe(t) \/ Register(t) \/ RetryLock(t)
    \/ reopen_disk(t) \/ Reopened(t) \/ Trust(t) \/ Verify(t) \/ InsertMeasured(t)
Pass(t) ==
    \/ BeginPass(t) \/ AlreadyMaintaining(t) \/ InvalidateLoaded(t)
    \/ scan_disk_shard_paths(t) \/ LookForFile(t) \/ open_existing(t)
    \/ ActOnOpened(t) \/ invalidate_package(t) \/ run_maintenance(t)
    \/ sweep_orphaned_shards_if_due(t) \/ list_shards(t)
    \/ purge_orphan_entries(t)
Removal(t) ==
    \/ BeginRemoval(t) \/ remove_shard_by_id(t) \/ remove_shard_database(t)
    \/ Condemn(t) \/ RemoveUnreadable(t) \/ RemoveEntries(t) \/ RemoveDirectory(t) \/ EndRemovals(t)
    \/ flush_to_disk(t) \/ FlushOne(t)

AllDone == \A t \in Threads : At(t, "idle") /\ th[t].i > Len(plan[t])
Done == AllDone /\ UNCHANGED shardVars

OneThread == \E t \in Threads : Serve(t) \/ Pass(t) \/ Removal(t) \/ open_database(t)
ShardsNext == Install \/ OneThread \/ Done
ShardsSpec == ShardsInit /\ [][ShardsNext]_shardVars

(***************************************************************************)
(* Properties.                                                             *)
(***************************************************************************)

\* The file a registered shard writes to is the one its directory holds, the
\* one the next start will read: no removal, recreation or pass unlinks a
\* database under the cache that is using it (open_database,
\* remove_shard_database).  The exception is a torn file: a pass that has found
\* the database unfit holds no lock, and its remove_file takes what the path
\* names by then, which may be the database a loader has recreated and
\* registered since.
LiveFileKept ==
    \A s \in Shards :
        LET f == cache[loaded[s]].file IN
        loaded[s] # 0 /\ f # 0 /\ f \notin past.torn => dir[s].db = f

\* Outside a shard's load lock, a database is described by its metadata file
\* or by a registered cache: one with neither is listed, evicted and removed
\* by nothing (retry_disk_open, open_existing).  The exception is a shard whose
\* database a pass has created or opened when its metadata was gone: it is
\* recreated after its removal, or held against the next one.
Findable ==
    \A s \in Shards \ strays :
        lock[s] = "free" /\ dir[s].db # 0 => dir[s].meta \/ loaded[s] # 0

\* An entry served without a look at its files was measured no earlier than
\* the last invalidation that has run to its end, though the invalidation
\* goes over a snapshot of the loaded shards and cannot open a shard that is
\* being loaded meanwhile (invalidate_packages).
InvalidationReachesAll ==
    [][\A t \in Threads : Trust(t) => cache[Held(t)].ver >= announced]_shardVars

=============================================================================
