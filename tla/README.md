# ImportLens: a TLA+ verification of its daemon

ImportLens shows the size of every import in the editor. An editor extension
(TypeScript, `extension/`) starts one daemon per window (Rust, `daemon/`) and talks to
it over a pipe. The daemon measures imports by bundling them, keeps the results in
caches on disk and in memory, and streams corrections while the user types. What is
hard in it is less the arithmetic of sizes than that a connection, a pool of build
threads, several caches and several daemons work on shared state while documents are
edited, packages installed, caches cleared, processes killed and writes refused; and
that a number shown as a size must say so when bytes are missing from it. That is what
these modules are about.

Paths below are relative to `daemon/src/` unless they start with `extension/`.

## 1. The system

| Part | State it keeps | Operations | Interacts with | What must hold |
|---|---|---|---|---|
| Connection (`ipc/server.rs`) | frames queued, tasks in flight, lifecycles per document, pending invalidation, idle clock | read and dispatch a frame, write a frame, settle an invalidation, recycle, close | spawns every handler; flushes the caches when it ends | an invalidation is a barrier; a close ends and loses nothing that was finished |
| Size reads (`ipc/server.rs`, `service.rs`) | gate per document, newest read per document | acquire the gate, build, revalidate stale imports | file-size cache, engine | one combined build per document, only for the newest read |
| Registry refreshes (`ipc/server.rs`, `service.rs`) | flag per manifest, channel of results | start a block, fetch a target, forward, finish | registry lane, registry service | no target reported failed because it was skipped |
| Single flight (`analysis_flight.rs`) | flights by key | run or join | builds and registry fetches run inside it | one compute per key, everybody wakes up |
| Lanes (`lanes.rs`) | queue, number of runners | spawn, drain | background builds, registry fetches | bounded, no job stranded |
| Import cache (`cache/memory.rs`, `cache/disk.rs`) | memory map, dirty keys, queued writes, rows, clear generation | get, insert, flush, clear, trim, enforce the cap, hydrate | every analysis, every maintenance pass | a clear stays cleared |
| Registry cache (`registry/cache.rs`) | memory map, count of unsaved writes, a file shared by all daemons | write, flush, clear, compact, load | registry service, maintenance | no write forgotten, a clear sticks, saves merge |
| Keys, freshness, memos (`cache/key.rs`, `service.rs`, `pipeline/build_memo.rs`, `pipeline/file_size_cache.rs`) | fingerprints, verification generation and window, memos, aggregates | fingerprint, verify, serve stale, rebuild, invalidate | import cache, watcher | never present as current what an edit or an install has changed; never throw away what is good |
| Shards (`cache/project.rs`) | loaded shards, load locks, directories | load, reopen, invalidate, list, maintain, purge, remove | import cache, requests | two requests share one cache; its file is the one the next start reads; an invalidation reaches shards that are being loaded |
| Budget, recency (`cache/budget.rs`, `cache/recency.rs`) | accounts of bytes and rows, logical clock | evict, compact, touch, seed the clock | shards, database locks | accounts are exact, warm entries are spared, a pass ends |
| Engine (`engine/boundary.rs`, `engine/scheduling.rs`), prefetcher (`prefetch.rs`), reclaim (`reclaim.rs`) | permits, drains, sweep generation, counters of work | admit, build, time out, drain, sweep | bundler, pool, lanes | a drain is a map, a permit is left for the user, memory is swept after work |
| Graph build (`engine/plugin.rs`, `engine/adapter.rs`) | byte ledger of a graph, its modules | load a module, reserve, breach, retry | bundler | the ledger is exact; a failure is a function of the package |
| Assets (`pipeline/assets.rs`, `asset_boundary.rs`, `asset_budget.rs`) | gate, reservations, stylesheet trees | admit, read, reserve and settle, collect, compress | graph build | budgets are conserved; no idle permit; bytes are counted once |
| Measurement (`pipeline/analyze.rs`, `resolver.rs`, `file_size.rs`) | none but the request's | resolve, build, measure, sum a document | all of the above | a size that claims to be whole is whole; nothing transient is stored |
| Registry service (`registry/service.rs`) | rate limiter, cooldowns, flights | look up, fetch with retries | registry cache, HTTP | windows are not overrun, backoff is global |
| Documents, report (`document/`, `report/`) | none | parse, scan | - | pure functions of the text |
| Extension (`extension/src`) | pending requests, restarts, state per document | spawn, connect, time out, restart, debounce, apply results | daemon | every request settles; nothing out of date is shown as current |

The behaviours that a test hardly reaches: a clear between two steps of an insert or of
a flush; an edit between the check of a file and the use of the verdict; an install whose
invalidation runs while another thread loads a shard; a leader that panics while others
wait for it; a runner that leaves while a job arrives; a build that hangs with a permit;
two hooks that reserve the last bytes of a ledger at once; a client that disappears in
the middle of an invalidation; a join that gives up on tasks that then finish; two
daemons that save one file; a write that fails after the bookkeeping for it was done.
`PROJECT.json` lists them by line under "hazards", with the properties that would catch
each.

## 2. Modules

Every component has its module; `MC` modules hold the instances TLC checks, and `Proofs`
modules what is proved.

**AnalysisFlight** (`analysis_flight.rs`). `flights` is the registry, `state` and
`result` are a flight's own, `pc` says where a call of `run_or_join` is. A step is one
critical section of the registry's mutex, one of a flight's mutex, or one operation on
its condition variable. Publishing, unregistering and notifying are separate steps, as
in the code, and a compute may panic, which runs the guard's `drop`.

**Lane** (`lanes.rs`). The queue and the number of runners under the mutex, and the
agents outside it: callers of `spawn`, which may have to drain the queue themselves when
a thread cannot be started, and runners. A job may panic; the runner goes on. Engine
extends it and gives its runners a pool to run on.

**ImportCache** (`cache/memory.rs`, `cache/disk.rs`). One shard. An entry is reduced to
where it came from: the clear generation its writer captured, and the one it was first
inserted under. Every load of the generation, map operation, critical section and
database transaction is a step of its own. The operations are insert, the lookup that
hydrates from disk, touch, removal, flush of the queue and of dirty entries, the trims
and caps, and clear; transactions may fail.

**RegistryCache** (`registry/cache.rs`, `atomic_write.rs`). Threads of several daemons on
one file. `dirty` is the count of unsaved writes, `lock` the persist mutex, `file` the
shared file with its `cleared_at`. A save loads, clones, merges and renames in separate
steps. Writes of the file may fail, reads of it may fail, daemons may die anywhere and
start again. An entry's `updated_at` may lie in the past. The set of entries that a
compaction drops is left open, so every retention and budget is covered.

**Connection** (`ipc/server.rs`). The select loop, with one action per arm and message
kind, the tasks it spawns, the barrier, the idle recycle and `close_connection`. What a
handler computes is left out; that it wrote to a cache is `unflushed`. The client is the
set of messages it may send.

**SizeReads** (`ipc/server.rs`, `service.rs`). The gates are kept by identity, because the
map forgets gates nobody holds and makes new ones; the two lifecycles, the build with its
collected stale imports, and the revalidation.

**RegistryRefresh** (`ipc/server.rs`, `service.rs`). Blocks of targets, their jobs, the
channel, the forwarder and the final response, with the flag read where the code reads it.

**Freshness** (`cache/key.rs`, `cache/memory.rs`, `service.rs`, `pipeline/build_memo.rs`,
`pipeline/file_size_cache.rs`, and where `engine/plugin.rs` and `pipeline/analyze.rs` take
fingerprints). Files have an edition (their content) and a stamp (length and time); an
edit, a touch, a deletion, a lock or an install may fall between any stat, any read and
any lookup. Four stores are read and filled through it: imports in memory and on disk, the
comparison memo, the export-list memo and the aggregate of a document. A measurement
carries the editions it was made from, and a file the edition of its last absence, which
only the properties look at.

**ShardRegistry** (`cache/project.rs`, opening and removing in `cache/disk.rs`). `loaded`
is the registry, `lock` the load lock of a shard, `dir` what its directory holds, `cache`
the caches ever made, by identity, so that a cache somebody still uses after its removal
stays apart from its successor. Requests, invalidations, listings, maintenance, purges,
flushes and removals go shard by shard, one step a critical section or a file operation.
An open is several: the look at the path, the creation or the error, the check of the
schema, and for an unfit file `remove_file` and a second creation, with the file let go
of in between; any of them may fail for a passing reason. `form` is what a database file
is fit for (good, without a version, of another version, corrupt). `past` is history for
the properties: who last opened or condemned a shard's database, and the files that were
unlinked on a verdict that no longer stood (`torn`).

**CacheBudget** (`cache/budget.rs`, `cache/recency.rs`, the accounts of `cache/disk.rs`).
The maintenance pass with its evictions and compactions against a thread that hits,
inserts, refuses, invalidates and clears. `db` is the lock on each database, with the
queue that makes a reader wait behind a writer. Restarts seed the clock from the disk,
from the shards that open then; the others (`Late`) are attached in the stages the code
has, with requests in between: the database is published, `load_recent` lists its rows,
and reads them.
**Sums** is the total of a function over a finite set.

**Engine** (`engine/boundary.rs`, `engine/scheduling.rs`, `prefetch.rs`, `reclaim.rs`, the
report jobs of `service.rs`). Batches arrive, are classified on the pool, drained by their
own threads through the background and the engine permits, built (a build gives a value,
fails, panics or hangs until its time limit), compressed on the pool and returned; sweeps
are superseded; the settle loop watches. **ParallelMap** is what a caller is promised of a
drain: every input is answered once, and the answers come in the order of the inputs.
`DrainIsMap` says that Engine implements it, with the batch, the settled results and the
returned answer as the mapping, liveness included.

**Resolution**, **GraphBuild**, **AssetGate**, **AssetStage**, **FileSize**, and
**Measurement** which composes them: one import from its specifier to its result and its
document's File Cost. Resolution (`pipeline/resolver.rs`, `types_only.rs`,
`native_binary.rs`) and FileSize (`pipeline/file_size.rs`, `stage.rs`, `ipc/protocol.rs`)
are functions of a package and of a document. GraphBuild (`engine/plugin.rs`,
`engine/adapter.rs`) is a build's concurrent hooks: `st` is where each module's task is,
`ledger` the shared state they reserve bytes in, `diags` what the bundler collects, in the
order of arrival. AssetGate (`pipeline/asset_boundary.rs`) is the mutex and condition
variable in front of the asset pool, with deadlines. AssetStage (`pipeline/assets.rs`,
`asset_budget.rs`, `css_dependencies.rs`, `css_import_cycles.rs`) is what runs behind it:
`budget` is the read ledger, `tree` the attempt at a stylesheet tree whose reads
interleave, `out` what has been summed. A scenario fixes what the world holds; sizes are
small numbers, a module and its file are numbers. The import's own build may end in any
of the ways the boundary knows (`EngineFails`: a panic, its time limit, a runtime that
goes away), as well as in a graph that fails, in more chunks than one, or at the minifier
or the compressor. A document's other imports have results that are missing, their own,
or stale; a manifest that can be read is an installed package, whatever it says.

The modules meet at these points. Connection spawns the tasks that SizeReads and
RegistryRefresh describe in detail; RegistryRefresh queues its jobs on a Lane and, when a
block is done, triggers RegistryCache's flush; builds of SizeReads and fetches of
RegistryRefresh run inside AnalysisFlight; Connection's flush is ImportCache's; a shard of
ShardRegistry is an ImportCache, whose entries Freshness judges and CacheBudget evicts; a
build of Engine is a Measurement. Engine composes Lane with the pool and the permits,
Measurement composes its five parts. Otherwise they are checked one by one: what a module
assumes of its neighbour (a job runs, a compute ends, a build ends) is what the
neighbour's run shows.

## 3. Runs

| Run | What it shows | Bounds |
|---|---|---|
| `flight` | one compute per key; no wakeup is lost; every call ends | 3 callers, 2 keys, 3 addresses |
| `cache` | an insert that raced a clear is not committed after it; what survives in memory is about to be removed | 2 threads, 2 keys, 1 clear, queue of 1 |
| `registry_cache` | no write forgotten, a clear sticks | 2 threads of one daemon, or 2 daemons; 2 writes, batch of 2, 2 clock values |
| `connection` | the barrier; an orderly close answers and flushes; an invalidation is not cut off; closing ends | 7 sessions of 3 to 5 messages, 1 push |
| `size_reads` | one combined build per document; the newest read is never turned away | 3 interactive reads and a plain one of a document |
| `registry_refresh` | no fabricated failure; what is fetched is delivered | 3 blocks, 2 manifests, 2 targets |
| `freshness` | what is served as fresh is as current as its trust rule says; memos and aggregates honour installs; no verdict takes a good measurement out of memory | 9 workloads, 2 threads, 2 modules, 2 manifests, up to 3 changes, 2 invalidations |
| `shards` | a registered shard's file is the one on disk unless a stale verdict tore it; no database is left that nothing lists or removes, unless a pass made it; a finished invalidation reaches every shard | 9 workloads of 2 threads and 2 shards, one of them found good, without a version, of another version or corrupt; 1 install, 1 passing failure, 8 files, 4 caches |
| `budget` | accounts exact; the clock ahead of every row the process has observed; warm entries spared; no thread waits for a lock it holds; a pass ends | 2 shards of 3 keys, 2 disks, 5 workloads, full and unreadable disks, 1 restart |
| `engine` | the drain is a map; a permit is left for the user; every lane job runs; a sweep follows work | 3 pool workers, 2 permits, 5 mixes of batches |
| `engine_small_pool` | a violation, see section 6 | 2 pool workers |
| `measurement` | both ledgers exact; a failure is a function of the package; no idle permit; the entry agrees with the manifest and with the cached identity; a size or a document's total that claims to be whole is whole, two kinds of zero excepted; nothing transient is stored, two named conditions excepted; requests end | about 6,800 worlds: 2,336 of packages, 872 graphs of up to 7 modules, 158 sets of stylesheets, 3,430 documents; limits of 4 to 8 bytes |

Why these bounds. Two threads make any two operations of a shard overlap at any step,
and one clear separates the two generations an entry can come from; the run takes two
workloads, all operations on one key, or inserts of two keys into a full queue. Three
callers give a leader, a follower and one who comes late. In `registry_cache` two writes
of one package make an old and a new entry, and two clock values put writes before, at and
after a clear; the two workloads separate races within a daemon from races between
daemons. The sessions of `connection` are the smallest that contain each pair of messages
the code treats differently. Three interactive reads are needed for a gate to be dropped
and made anew while one is waiting and one builds. In `freshness` an entry, a dependency
it loads twice (as a module and as an asset), a first-party manifest and a dependency's
manifest are the four kinds of input the code trusts differently; two changes put one
before and one after any check. In `shards` each workload sets two operations that meet
against each other, with a third to see what they left; an unfit file and a pass next to
a cold load are what it takes for a verdict to grow old before its `remove_file`, and two
passes for one to unlink what the other opened. In `budget` the disks put a shard
at its floor and the oldest row in either shard. In `engine` a lane of one and two permits
make every queue form. In `measurement` the limits are as small as lets a stat fit and the
read not, one reservation fit and two not; the worlds vary what one part looks at, with
the others plain. Where reads, blocks or addresses are interchangeable, the `MC` module
takes them in the order of their numbers, which leaves out only renamings.

Deadlock is not checked where the system really may stop: a closed connection, batches,
reads and blocks that have all been answered, workloads that are done.

Every property has a mutant: a plausible bug, defined before the operator it would
replace, under which TLC finds the property violated.

## 4. Fairness

Weak fairness of each thread in AnalysisFlight: they are threads of the operating system,
and computes end (builds have a time limit, fetches a timeout, panics are caught). In
Engine weak fairness of the daemon's own steps taken together, which is enough because
none of them can be taken for ever; nothing of arrivals and edits. A hung build ends by
its time limit, which is such a step. In CacheBudget weak fairness of the pass and of the
request, both blocking threads. In Measurement weak fairness of the analysis thread with
the build's tasks, and of every caller of the gate with its deadline; none of the asset
job or its pool, which may hang for good. In Connection, weak fairness of the connection's
own steps, strong fairness of the select arms that write a frame and lift the barrier
(`select!` picks a random ready arm), and weak fairness of the tasks *except* those whose
handler is parked in the engine: `CloseEnds` is checked with one that never returns.
Nothing is assumed of the client, the timers, or failures.

## 5. Proofs

All theorems are for every value of the constants under the assumptions named in the
modules (`NoFlightAssumption`, `LaneAssumption`, `SizeReadsAssumption`, ...), which only
fix types, that sets that are counted are finite, and that `None` is none of the things it
stands apart from.

* **RequestProofs.** AnalysisFlight: the invariant says who holds which flight: only its
  leader and its followers refer to it, a registered flight has exactly one leader that
  has not yet unregistered it, and a closed flight's parked followers have a notification
  to come. From it: `OneComputePerKey`, `DeadFlightUnreachable`, `AnswersOwnKey`,
  `NoLeakedFlight`, `NoLostWakeup`. SizeReads: a permit belongs to a gate that somebody
  holds, a document's gate in the map is the only one with anybody at it, and the newest
  read of a document is the one its lifecycle names. From it: `OneCombinedBuild`,
  `BuildsAreNewest`, `NewestReadAnswered`.
  Freshness: `FreshMeansCurrent` is about the end of a read, and what it needs was settled
  many steps before, so `FreshInv` follows an edition from the read that saw it to the
  answer. What a measurement is made of is covered by its fingerprints (`Covers`): a print
  that passes its check vouches for the edition behind it, or the file was absent and has
  been since. An entry stamped with the current generation is no older than the last
  completed invalidation, because the bump comes before the invalidation is complete and
  the stamp is taken before the files are looked at. A check under way has vouched for the
  files it is past, a build under way has recorded what it has read, and between the stat
  and the read of a module it knows that only the stamp is old; an analysis that waits
  behind a comparison keeps what it knew. The predicates take the disk, the generation and
  the announced editions as parameters, so that they are shown once and for all to
  survive the passing of time (`Later`), and each action is left with what it changes.
  From it: `FreshIsCurrent`, `InstallsAreHonoured`, and `VerdictsAreFair`, an action
  property. Assumed: that files are numbers, that modules are not manifests, and that
  workloads ask for slots that exist (`FilesAssumption`, `SlotsAssumption`).
* **CacheProofs.** ImportCache: `FlushXorClear` is inductive on its own. For
  `InsertsNeverResurrect` every place a write can be (a thread's hand, the queue, a taken
  batch, a batch on its way back) carries a generation no newer than the one its insert
  captured, and a batch under commit has been filtered under the current generation with
  the clear lock held. For `MemorySurvivorsDoomed` and `RollbackSparesNewer` an entry's
  identity ties it to the insert that will check the generation again.
  ShardRegistry: the load lock orders what is done to a shard's directory and to its
  registration, so its holder knows that the shard is unregistered (a cold load, a
  removal) or which registered cache it retries (`OwnersInv`); the file of a cache is the
  one in its own shard's directory or torn, also while it is being loaded (`FilesInv`).
  redb's lock keeps a pass, which takes no load lock, from opening the file of a live
  cache, but not from the `remove_file` that follows its verdict on an unfit one. So
  `StandingInv` says when that is harmless: while a thread that found a file unfit is the
  last to have opened it, the path still names that file and nobody uses it; otherwise
  what it unlinks is recorded as torn, which `LiveFileKept` excuses and nothing else.
  `NumbersInv` and `OpensInv` say that a file is never used in two shards and where an
  open stands. From these: `LiveFileKept`. A database with no metadata that no pass made is
  tended: its shard is registered, or a thread with the lock is about to describe or to
  remove it (`DescribedInv`); from it: `Findable`. The invariant comes in two layers:
  `ShardsInv` is about threads, locks, registrations and generations and is inductive on
  its own, `DatabasesInv` adds the files (`RegistryInvariant` is both). An entry carries a
  generation no newer than the current one, and if it is the current one a version no older
  than the last invalidation that has ended (`GenerationInv`); from it:
  `InvalidationReachesAll`, an action property.
* **RegistryProofs.** RegistryRefresh: a job that was skipped belongs to a flagged block, a
  slot is empty only while its job is under way or was skipped, and a flag is set only for
  a block its manifest no longer names. From it: `NoFabricatedFailure`,
  `FetchedIsDelivered`, `CancelledByOwnSource`. RegistryCache: `Accounted` says that a flush
  under way has taken a positive count, everything in the file or loaded from it has been
  saved, and a save contains nothing else but the memory it is based on; with these
  `NoWriteForgotten` is inductive. `Orderly`: whoever is between load and rename holds the
  mutex, so what it loaded is still the file unless another *daemon* has renamed; hence
  `SavesMergeNewest`. For `ClearSticks` the invariant follows what a clear has removed
  through every memory, every loaded copy and every merge on its way to a rename: each
  carries a `cleared_at` that keeps it out, or belongs to a thread that met another
  daemon or a file it could not read, which the property excuses.
* **ConnectionProofs.** The joins of `close_connection`: what has not been joined is
  abandoned, an invalidation is never among the abandoned, a task that ended has its reply
  queued, and what is queued when the drain begins is written. From it:
  `InvalidationsNeverCut`, `InvalidationsSettleFirst` (an action property),
  `FinishedWorkFlushed`, `OrderlyCloseAnswers`.
* **EngineProofs.** Lane: the count equals the number of agents between being counted and
  leaving, and a non-empty queue has one of them that has not yet found it empty. From it:
  `Bounded`, `NotStranded`, also when threads cannot be started. Engine: every step of it
  is a step of Lane or leaves Lane's variables alone (`EngineDrivesLane`), so both hold in
  the composition (`BackgroundBounded`); prewarm builds past the background semaphore,
  queued for the engine or on it, are at most all permits but one, from which `PermitLeft`
  and `EngineBounded`.
* **SumProofs.** What a sum over a finite set is (`SumOver`, the fold of the community
  modules): an element may be taken out first, a value changed, the set split. The
  library's induction over sets cannot be used, since it takes an operator as parameter;
  the lemmas argue by a minimal counterexample instead, which exists because the subsets
  of a finite set are well-founded.
* **CacheBudgetProofs.** `Exact` of a shard: its index, bytes and count are those of its
  rows and its mark is above them; an insert, a replacement, a removal of any keys and a
  clear keep it, so that the repair in `write_summary` never runs. `ClockInv`: the clock
  is past every row of a database that has been observed *and* past everything memory
  holds, which a flush writes back; of a database whose rows `load_recent` has listed,
  every row is below the clock or no newer than a listed one, so that reading the list
  puts the clock ahead. Nothing is claimed of one that is published and not yet listed.
  From these `AccountsExact` and `ClockAhead`. For `SparesWarm`, which rows
  `lowest_seq_keys` and `filter_evictable` leave is counted: of a shard's rows at least
  Floor stay that are no older than any row taken. `NeverWaitsForItself` follows from
  where `read_committed` lets go of its guard.
* **MeasurementProofs.** Resolution: whichever way an entry is found it is a declared one,
  and where the resolver calls a file CommonJS the manifest does too. From it:
  `EntryAgrees`. AssetGate: free permits and held ones make up all of them, a caller whose
  job exists is past the gate, and while anybody sleeps there are at least as many callers
  on their way to the gate as free permits: `notify_one` wakes one per permit, and a
  caller that gives up with a permit free passes its wake on. From it: `NoIdlePermit`, for
  the gate on its own (`GateSpec`) and, because every step of Measurement is a step of the
  gate or leaves it alone (`StepOfGate`), in the composition. GraphBuild (`BuildInv`): a
  file is claimed by exactly one asset whose read is over, so reserved, claimed and parsed
  modules are apart and the total is their sum (`LedgerExact`); an asset that could not be
  read is known to the ledger, or a limit was met. AssetStage (`StageOK`): a file the
  stage was the first to read is charged what it is seen to weigh, whatever attempt reads
  it (`BudgetExact`), and an observation, a breach or a compressor's failure is never
  taken back. `MeasureInv` joins them: a job belongs to a build that worked and exists
  only behind the gate, and an answer made of a job's result was given after the job had
  returned. A job that still runs once the request is answered belongs to a caller that
  gave up, whose answer is a transient stage already. `NothingTransientStored` collects
  what happened to the request and says nothing of the package: every failure of the
  engine, a compressor, a comparison or an asset job, every asset or module that could not
  be read, a manifest that could not be. None of it is in a stored result, but for the two
  conditions the code takes for facts (`TakenForFacts`, section 6); of a stored total, no
  combined build met a passing failure. For `TotalIsHonest`, `Summing` says of a total
  under way that every gap and every stage of a group's build is in it, and that a total
  which says nothing is the weight of the groups so far, but for the imports that are
  excused by name (`Excused`, section 6); any other import the first loop takes for a zero
  has a package that ships nothing. The proofs assume of a world that it is finite, that
  lengths are natural numbers, and that what a combined build leaves out is disclosed
  (`WorldsAssumption`); nothing is assumed of the results of other imports, which may be
  stale. TLC evaluates the assumption for the worlds of the run.

`DeadFlightUnreachable`, `AnswersOwnKey`, `Bounded`, `NotStranded`, `RollbackSparesNewer`,
`BuildsAreNewest`, `CancelledByOwnSource` and `SavesMergeNewest` are proved and not in a
run. Only model-checked: every liveness property (`CallsEnd`, `CloseEnds`, `PassEnds`,
`EveryJobRuns`, `SweepFollowsWork`, `RequestsEnd`) and the refinement `DrainIsMap`, which
need fairness and so are out of the prover's reach; and two invariants of Measurement.
`MeasuredIsHonest` compares what a walk over stylesheets found with what is reachable, and
`FailureIsFunction` what the tasks met with what a recursive reading of the graph meets:
both are inductions over the graph, which the installed provers do not do.

## 6. Where code and documentation disagree

* `engine_small_pool`: `lanes.rs:3-5` says that background work runs on at most half the
  pool, "so interactive work always finds free workers". The pieces of a workspace report
  run on the pool itself, up to four of them, and each blocks its worker in a drain whose
  threads compress with `rayon::join` on the same pool. With as many pieces as workers the
  pool waits for itself (`service.rs:526`, `engine/scheduling.rs:49`,
  `pipeline/compress.rs:22`).

Seen while modelling, and left in the models as the code has them without a run of their
own:

* Import cache: a row can outlive a clear, because a thread that re-persists memory may
  capture the generation after the bump and snapshot before memory is emptied
  (`cache/memory.rs:593-596`, `892-895`); a write queued after a clear's bump is dropped
  from the queue while its memory copy stays (`cache/disk.rs:935`); a lookup that hydrates
  can put back a row a clear has just wiped, until the next check (`cache/memory.rs:387`).
* Connection: FR-004c says that no handler is awaited inside the loop; a deferred recycle
  joins the tasks in flight there, for up to two seconds (`ipc/server.rs:1627`). Aborting
  the maintenance task does not stop a pass that runs on the blocking pool
  (`ipc/server.rs:1268`).
* Lanes: a spawn whose thread cannot be started drains the lane in the caller, which for
  the registry's lane is the event loop (`lanes.rs:10` and `100`, `service.rs:423`).
* Registry cache: a compaction whose write fails has already reset the count of unsaved
  writes (`registry/cache.rs:249`; `NoWriteForgotten` excuses exactly these); a file that
  cannot be read for a moment counts as empty, and the next save drops what it held
  (`registry/cache.rs:333`; the set `blind`); two clears in one millisecond are not told
  apart (`raced`).
* Freshness: a failed resolution leaves nothing to fingerprint for the module that was
  missing, so its stored failure does not notice that module's arrival (`service.rs:2563`;
  `FreshMeansCurrent` leaves out `blind` modules); manifests are hashed after the
  analysis they shaped; manifests of dependencies are not fingerprinted, and rely on the
  bump that an install causes. A hydration inserts unconditionally (`cache/memory.rs:413`):
  a lookup that missed memory and verifies its row while another thread evicts, rebuilds
  and stores puts the old measurement over the new one; the next read finds it stale, and
  its eviction compares identities in memory only and deletes the newer row too, although
  `cache/memory.rs:725` says that a verdict "is about the old measurement only". Nothing
  wrong is served, and the price is one more build. `VerdictsSpareGood` is about every
  step of a read but a hydration.
* Shards: a pass that opens a shard while it is being removed can create its database
  anew, and leaves one that nothing lists (`cache/disk.rs:156-161` and `1011`; the set
  `strays`, which `Findable` excuses). A verdict on an unfit file is reached with the file
  open and carried out after it was let go of (`cache/disk.rs:1045-1066`, `1117-1128`): a
  pass that found the same corrupt or incompatible file as a cold load may unlink the
  database the load has recreated and registered meanwhile, which then writes to a file
  that has no name, against the purpose of the comment at `cache/disk.rs:1029` that a live
  shard's file is never to be unlinked by a recreation (`past.torn`, which `LiveFileKept`
  excuses; on Windows an open file cannot be deleted, and the recreation fails instead).
  The removal of a shard unlinks a file it could not open for whatever reason
  (`cache/project.rs:1050`), also a passing one.
* Budget: between the publication of a database attached late and the end of `load_recent`
  an insert or a hit of another request draws a number below rows of that database
  (`cache/memory.rs:768-802`), so an entry just used sorts older than cold ones; if a row
  is replaced or removed between the listing and its read, or is hidden by a queued entry,
  its number is not observed at all (`blind`). `ClockAhead` is about databases whose rows
  have been observed. A write-back may also replace a newer row by one with a lower
  number. A request that arrives between the selection of victims and their eviction does
  not save its entry; `SparesWarm` is about selections nothing has disturbed.
* Graph limits: two ids of one asset file, or a file that changes between stat and read,
  let the order of the tasks decide whether a limit near its edge is met, and the failure
  is stored; `FailureIsFunction` is about settled graphs.
* Stages: a manifest that cannot be read is stored as a durable `package_manifest`, and a
  JavaScript module that cannot be read as a durable `resolve`, though
  `pipeline/stage.rs:9-15` and invariant 3 of ADR-0006 keep conditions of I/O out of the
  durable ones (`NothingTransientStored` names exactly these two, in `TakenForFacts`); in
  a document such a manifest is an import that is not installed, the durable
  `package_resolution`. A chunk that cannot be minified is stored as the durable `minify`
  whatever went wrong before it, and so is a limit that was met; a compressor's failure
  during the retry sheet by sheet that ends in a breach of the ledger is dropped.
* Totals: a stale `types_only` or native result whose package was replaced and does not
  resolve counts as a complete zero, and a subpath of a package that only has a native root
  entry is measured zero (`pipeline/file_size.rs`, `pipeline/native_binary.rs`;
  `TotalIsHonest` excuses these imports and no others).

## 7. What is not modelled, and the plan

Of modelled components: key, hash and row layouts; platform paths; metadata writes that
fail, failures of the removal's own `remove_file` and `remove_dir_all`, and a crash between
opening a database and describing it (ShardRegistry; a shard has one package with one
entry); the heal of accounts on open (CacheBudget); bounded eviction
of memos (Freshness); work stealing inside a join, the engine's runtime going away, and a
leader that would wait for its own flight, which `engine/scheduling.rs:32` rules out
(Engine; its idle workers are alike); spurious wakeups of the asset gate; exports with
wildcards and nested conditions (Resolution).

Next, in this order:

1. **RegistryService** (`registry/service.rs`): rate windows with reserved slots, global
   backoff, retries, the manual cooldown.
2. **Client** (`extension/src`): transport with restarts and time-outs, document states
   and generations, streamed manifests; composed with an abstract daemon that may die.
3. UTF-16 positions (`document/positions.rs`) against a reference definition.

Left out for good: what the bundler, the minifier and the compressors compute
(libraries), the parsers of source and CSS (sequential, tested by example), encodings of
messages and keys, logging, paths and platform names, and rendering in the editor.
