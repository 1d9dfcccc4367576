------------------------------ MODULE Freshness ------------------------------
(***************************************************************************)
(* When a stored measurement may be served: the fingerprints a build takes *)
(* of the files it reads, the check of them against the disk, the cache    *)
(* generation that an install bumps, and the four stores that rely on      *)
(* them: the import cache (memory and disk), the comparison memo that an   *)
(* analysis consults, the export-list memo and the aggregate of a          *)
(* document (cache/key.rs, cache/memory.rs, pipeline/build_memo.rs,        *)
(* pipeline/file_size_cache.rs, pipeline/analyze.rs, engine/plugin.rs).    *)
(*                                                                         *)
(* The disk moves under the readers: every stat and every read is a step   *)
(* of its own.  A file's edition counts its changes and stands for its     *)
(* content (and its content hash); its stamp stands for length and mtime.  *)
(* An entry is known by its content: two measurements of the same editions *)
(* are one.  What the memory and disk layers do to an entry as storage is  *)
(* the subject of ImportCache; calls that join a running analysis are the  *)
(* subject of AnalysisFlight.                                              *)
(***************************************************************************)
EXTENDS Integers, Sequences

CONSTANTS
  Modules,        \* files a build loads: JavaScript and assets
  Assets,         \* modules that are assets, read once more by the asset stage
  Manifests,      \* first-party package.json files that shape resolution
  DepManifests,   \* package.json files of installed dependencies
  Installed,      \* files under node_modules
  Missing,        \* files that do not exist at first
  Entry,          \* the entry module
  Imports,        \* import-cache keys
  FirstParty,     \* keys whose entry is outside node_modules
  Named,          \* keys of named imports, compared with the full package
  Procs,          \* threads of the daemon
  Plans,          \* workloads: what each thread asks for, what happens to the disk
  MaxGen          \* bound: invalidations

Files == Modules \union Manifests \union DepManifests
Memos == {"comparison", "exports"}
Slots == Imports \union Memos \union {"aggregate"}
Intents == {"serve", "swr", "fresh"}

ASSUME FilesAssumption ==
  /\ Assets \subseteq Modules /\ Entry \in Modules
  /\ Installed \subseteq Files /\ DepManifests \subseteq Installed
  /\ Missing \subseteq Modules \ {Entry}
  /\ FirstParty \subseteq Imports /\ Named \subseteq Imports
  /\ Files \subseteq Int   \* the number of a file is its rank in path order
  /\ Modules \intersect (Manifests \union DepManifests) = {}

ASSUME SlotsAssumption ==
  /\ Imports \intersect (Memos \union {"aggregate"}) = {}
  /\ \A pl \in Plans : pl.asks \in [Procs -> Seq(Slots \X Intents)]

VARIABLES
  plan,       \* the workload: [asks: thread -> sequence of <<slot, intent>>,
              \*   moves: set of <<kind, file>>, changes: how many of them]
  file,       \* the disk: edition, stamp, whether it is there, whether it is locked,
              \*   and the edition of its last absence (history)
  changes,    \* changes made so far
  gen,        \* CACHE_GENERATION
  noticed,    \* editions when the invalidation that is under way was received
  announced,  \* editions the last completed invalidation vouches for
  mem,        \* ImportCache memory: key -> entry
  rows,       \* ImportCache disk: key -> entry
  memo,       \* the comparison and export-list memos
  total,      \* the aggregate of the document
  proc        \* the threads

disk == <<plan, file, changes>>
hist == <<noticed, announced>>
stores == <<mem, rows, memo, total>>
freshVars == <<disk, gen, hist, stores, proc>>

\* Sentinels of a fingerprint: no hash; an input seen to be missing; one that
\* could not be read.
NoHash == -1
AbsentStamp == -1
UnverifiableStamp == -2

\* What a build that finds a file missing reads of it; also: never absent.
NoBytes == -1

Nothing == [kind |-> "none"]
Editions == [f \in Files |-> file[f].ed]

-----------------------------------------------------------------------------
(* Fingerprints *)

Fingerprint(f, stamp, hash) == [path |-> f, stamp |-> stamp, hash |-> hash]
absent_file_fingerprint(f) == Fingerprint(f, AbsentStamp, NoHash)
unverifiable_file_fingerprint(f) == Fingerprint(f, UnverifiableStamp, NoHash)

Readable(f) == file[f].here /\ ~file[f].locked

\* A stat or a read of f that fails.
classify_stat_error(f) == IF file[f].here THEN "Unknown" ELSE "Gone"

verify_content_hash(fp) ==
  IF ~Readable(fp.path) THEN classify_stat_error(fp.path)
  ELSE IF file[fp.path].ed = fp.hash THEN "Fresh" ELSE "Stale"

check_fingerprint(fp) ==
  LET f == fp.path IN
  IF fp.stamp = AbsentStamp /\ fp.hash = NoHash
  THEN IF ~file[f].here THEN "Fresh" ELSE IF file[f].locked THEN "Unknown" ELSE "Stale"
  ELSE IF ~Readable(f) THEN classify_stat_error(f)
  ELSE IF file[f].stamp = fp.stamp THEN "Fresh"
  ELSE IF fp.hash = NoHash THEN "Stale" ELSE verify_content_hash(fp)

check_fingerprint_strict(fp) ==
  IF fp.hash = NoHash THEN check_fingerprint(fp) ELSE verify_content_hash(fp)

\* Installed inputs are trusted on length and mtime, the others are read again.
check_one(fp) ==
  IF fp.path \in Installed THEN check_fingerprint(fp) ELSE check_fingerprint_strict(fp)

\* Unknown ends the check; Stale never hides a Gone.
Worse(worst, verdict) ==
  CASE verdict = "Unknown" -> "Unknown"
    [] verdict = "Gone" -> "Gone"
    [] verdict = "Stale" /\ worst = "Fresh" -> "Stale"
    [] OTHER -> worst

fingerprints_have_conflicting_snapshots(prints) ==
  \E a, b \in prints :
    /\ a.path = b.path
    /\ \/ a.stamp # b.stamp
       \/ a.hash # b.hash /\ NoHash \notin {a.hash, b.hash}

fingerprints_are_reusable(prints) ==
  /\ \A fp \in prints : ~(fp.stamp = UnverifiableStamp /\ fp.hash = NoHash)
  /\ ~fingerprints_have_conflicting_snapshots(prints)

\* A second snapshot of one path is kept beside the first, so that a conflict
\* shows.
sort_and_dedup_fingerprints(prints, new) == prints \union new

-----------------------------------------------------------------------------
(* Entries and the stamps that let a read skip the check *)

Measurement(p) ==
  [kind |-> "entry", used |-> proc[p].used, cmp |-> proc[p].cmp,
   blind |-> proc[p].blind, prints |-> proc[p].prints]

Stored(m, g, live) == [entry |-> m, gen |-> g, live |-> live]
NoEntry == Stored(Nothing, 0, FALSE)

\* Verification::is_current: verified under this generation within the window.
is_current(slot) == mem[slot].live /\ mem[slot].gen = gen

\* The same measurement is still in memory (Arc identity).
SameEntry(p) == mem[proc[p].slot].entry = proc[p].entry

Quiet(reads, since, floor) ==
  [pc |-> "idle", reads |-> reads, slot |-> "none", intent |-> "none",
   entry |-> Nothing, tier |-> "none", gen |-> 0, live |-> FALSE, todo |-> {}, half |-> Nothing,
   prints |-> {}, used |-> [f \in Files |-> {}], cmp |-> [f \in Files |-> {}],
   blind |-> {}, io |-> FALSE, failed |-> FALSE, worst |-> "Fresh", again |-> FALSE,
   since |-> since, floor |-> floor, status |-> "none",
   sig |-> Nothing, outer |-> Nothing]

\* A thread that begins a read, with what the disk and the invalidations were.
Begin(p) == Quiet(proc[p].reads, Editions, announced)

FreshInit ==
  LET none == [f \in Files |-> 0] IN
  /\ plan \in Plans
  /\ file = [f \in Files |-> [ed |-> 0, stamp |-> 0, here |-> f \notin Missing, locked |-> FALSE,
                              gone |-> IF f \in Missing THEN 0 ELSE NoBytes]]
  /\ changes = 0
  /\ gen = 1
  /\ noticed = Nothing
  /\ announced = none
  /\ mem = [k \in Imports |-> NoEntry]
  /\ rows = [k \in Imports |-> Nothing]
  /\ memo = [s \in Memos |-> NoEntry]
  /\ total = [stored |-> NoEntry, sig |-> Nothing]
  /\ proc = [p \in Procs |-> Quiet(0, none, none)]

Set(p, r) == proc' = [proc EXCEPT ![p] = r]
At(p, pc) == proc[p].pc = pc

\* The read is over and its caller has the answer.
Serve(p, status, m) ==
  Set(p, [proc[p] EXCEPT !.pc = "done", !.status = status, !.entry = m])

-----------------------------------------------------------------------------
(* The disk *)

Change(kind, f, r) ==
  /\ <<kind, f>> \in plan.moves
  /\ changes < plan.changes
  /\ changes' = changes + 1
  /\ file' = [file EXCEPT ![f] = r]
  /\ UNCHANGED <<plan, gen, hist, stores, proc>>

\* An editor may keep length and mtime; an install always changes them.
Edit(f) ==
  /\ Readable(f)
  /\ \E stamp \in {file[f].stamp + 1} \union (IF f \in Installed THEN {} ELSE {file[f].stamp}) :
       Change("edit", f, [file[f] EXCEPT !.ed = @ + 1, !.stamp = stamp])

Touch(f) == Readable(f) /\ Change("touch", f, [file[f] EXCEPT !.stamp = @ + 1])

Create(f) ==
  ~file[f].here /\ Change("create", f, [file[f] EXCEPT !.here = TRUE, !.ed = @ + 1, !.stamp = @ + 1])

Delete(f) == Readable(f) /\ Change("delete", f, [file[f] EXCEPT !.here = FALSE, !.ed = @ + 1, !.gone = file[f].ed + 1])

Lock(f) == Readable(f) /\ Change("lock", f, [file[f] EXCEPT !.locked = TRUE])

Unlock(f) ==
  /\ file[f].locked
  /\ file' = [file EXCEPT ![f].locked = FALSE]
  /\ UNCHANGED <<plan, changes, gen, hist, stores, proc>>

\* The re-verify window of 30 s runs out for everything stamped so far,
\* stamps still to be stored included.
Elapse ==
  /\ <<"elapse", Entry>> \in plan.moves
  /\ mem' = [k \in Imports |-> [mem[k] EXCEPT !.live = FALSE]]
  /\ memo' = [s \in Memos |-> [memo[s] EXCEPT !.live = FALSE]]
  /\ total' = [total EXCEPT !.stored.live = FALSE]
  /\ proc' = [p \in Procs |-> [proc[p] EXCEPT !.live = FALSE]]
  /\ UNCHANGED <<disk, gen, noticed, announced, rows>>

-----------------------------------------------------------------------------
(* Invalidation after an install: the entries of the named packages go      *)
(* first, the generation moves last.                                        *)

InvalidateEntries(ks) ==
  /\ <<"install", Entry>> \in plan.moves
  /\ noticed = Nothing
  /\ gen < MaxGen
  /\ noticed' = [kind |-> "noticed", eds |-> Editions]
  /\ mem' = [k \in Imports |-> IF k \in ks THEN NoEntry ELSE mem[k]]
  /\ rows' = [k \in Imports |-> IF k \in ks THEN Nothing ELSE rows[k]]
  /\ UNCHANGED <<disk, gen, announced, memo, total, proc>>

bump_cache_generation ==
  /\ noticed # Nothing
  /\ gen' = gen + 1
  /\ announced' = noticed.eds
  /\ noticed' = Nothing
  /\ UNCHANGED <<disk, stores, proc>>

\* A tsconfig changed: only the aggregates are dropped.
InvalidateWorkspaceConfig ==
  /\ <<"tsconfig", Entry>> \in plan.moves
  /\ total.stored # NoEntry
  /\ total' = [stored |-> NoEntry, sig |-> Nothing]
  /\ UNCHANGED <<disk, gen, hist, mem, rows, memo, proc>>

-----------------------------------------------------------------------------
(* Reads of the import cache *)

\* The next request of the workload; the caller of the last one has its answer.
Ask(p) ==
  /\ proc[p].pc \in {"idle", "done"}
  /\ proc[p].reads < Len(plan.asks[p])
  /\ LET ask == plan.asks[p][proc[p].reads + 1] IN
     Set(p, [Begin(p) EXCEPT !.reads = @ + 1, !.slot = ask[1], !.intent = ask[2],
       !.pc = IF ask[1] \in Imports THEN "lookup" ELSE IF ask[1] \in Memos THEN "get" ELSE "signature"])
  /\ UNCHANGED <<disk, gen, hist, stores>>

\* A miss goes on to an analysis (analyze_and_cache, or the build behind a memo
\* or an aggregate), which takes the generation before anything is read.
Analysis(r) ==
  [r EXCEPT !.pc = "resolve", !.gen = gen, !.half = Nothing, !.todo = {}, !.prints = {},
     !.used = [f \in Files |-> {}], !.cmp = [f \in Files |-> {}], !.blind = {},
     !.io = FALSE, !.failed = FALSE, !.entry = Nothing]

\* The memory entry: on the fast path it is served unchecked; otherwise its
\* fingerprints are checked under the generation read here.
LookupMemory(p) ==
  LET k == proc[p].slot IN
  /\ At(p, "lookup")
  /\ mem[k] # NoEntry
  /\ IF proc[p].intent # "fresh" /\ k \notin FirstParty /\ is_current(k)
     THEN Serve(p, "fresh", mem[k].entry)
     ELSE Set(p, [proc[p] EXCEPT !.pc = "check", !.tier = "memory", !.entry = mem[k].entry,
                  !.todo = mem[k].entry.prints, !.worst = "Fresh", !.gen = gen])
  /\ UNCHANGED <<disk, gen, hist, stores>>

\* Not in memory: the generation is taken before the disk row is probed.
LookupMiss(p) ==
  /\ At(p, "lookup")
  /\ mem[proc[p].slot] = NoEntry
  /\ Set(p, [proc[p] EXCEPT !.pc = "probe", !.gen = gen])
  /\ UNCHANGED <<disk, gen, hist, stores>>

ProbeRow(p) ==
  LET row == rows[proc[p].slot] IN
  /\ At(p, "probe")
  /\ Set(p, IF row = Nothing THEN Analysis(proc[p])
            ELSE [proc[p] EXCEPT !.pc = "check", !.tier = "disk", !.entry = row,
                  !.todo = row.prints, !.worst = "Fresh"])
  /\ UNCHANGED <<disk, gen, hist, stores>>

\* check_fingerprints_strict, one file at a time.
CheckFile(p) ==
  /\ At(p, "check")
  /\ \E fp \in proc[p].todo :
       /\ \A other \in proc[p].todo : fp.path <= other.path
       /\ LET worst == Worse(proc[p].worst, check_one(fp)) IN
          Set(p, [proc[p] EXCEPT !.worst = worst,
                  !.todo = IF worst = "Unknown" THEN {} ELSE @ \ {fp}])
  /\ UNCHANGED <<disk, gen, hist, stores>>

Checked(p, tier, verdicts) ==
  At(p, "check") /\ proc[p].todo = {} /\ proc[p].tier = tier /\ proc[p].worst \in verdicts

\* Fresh in memory: restamped in place with the generation read before the
\* check; an entry that is gone by now is stamped and dropped.
RestampWith(p, g) ==
  LET k == proc[p].slot IN
  mem' = IF k \notin FirstParty /\ SameEntry(p)
         THEN [mem EXCEPT ![k].gen = g, ![k].live = TRUE] ELSE mem

\* A mutant: the generation is read after the check.
RestampNow(p) == RestampWith(p, gen)

Restamp(p) == RestampWith(p, proc[p].gen)

ServeFresh(p) ==
  /\ Checked(p, "memory", {"Fresh"})
  /\ Restamp(p)
  /\ Serve(p, "fresh", proc[p].entry)
  /\ UNCHANGED <<disk, gen, hist, rows, memo, total>>

\* A transient error keeps the entry: a force-fresh read builds, the others
\* serve the value unverified.
ServeUnknown(p) ==
  /\ Checked(p, "memory", {"Unknown"})
  /\ IF proc[p].intent = "fresh" THEN Set(p, Analysis(proc[p])) ELSE Serve(p, "unknown", proc[p].entry)
  /\ UNCHANGED <<disk, gen, hist, stores>>

\* Stale while revalidating: served flagged, and rebuilt behind the answer.
ServeStale(p) ==
  /\ Checked(p, "memory", {"Stale"})
  /\ proc[p].intent = "swr"
  /\ Set(p, [proc[p] EXCEPT !.pc = "reprobe"])
  /\ UNCHANGED <<disk, gen, hist, stores>>

\* A mutant: whatever entry is there goes.
MatchesAnything(p) == mem[proc[p].slot] # NoEntry

\* Only the entry the verdict is about is taken.
remove_from_memory_if_current(p) == SameEntry(p)

Evict(p) ==
  /\ \/ Checked(p, "memory", {"Gone"})
     \/ Checked(p, "memory", {"Stale"}) /\ proc[p].intent # "swr"
  /\ IF remove_from_memory_if_current(p)
     THEN /\ mem' = [mem EXCEPT ![proc[p].slot] = NoEntry]
          /\ Set(p, [proc[p] EXCEPT !.pc = "evictRow"])
     ELSE UNCHANGED mem /\ Set(p, Analysis(proc[p]))
  /\ UNCHANGED <<disk, gen, hist, rows, memo, total>>

\* The disk row goes with the memory entry, whatever row is there by now.
EvictRow(p) ==
  /\ At(p, "evictRow")
  /\ rows' = [rows EXCEPT ![proc[p].slot] = Nothing]
  /\ Set(p, Analysis(proc[p]))
  /\ UNCHANGED <<disk, gen, hist, mem, memo, total>>

DropRow(p) ==
  /\ Checked(p, "disk", {"Stale", "Gone"})
  /\ rows' = [rows EXCEPT ![proc[p].slot] = Nothing]
  /\ Set(p, Analysis(proc[p]))
  /\ UNCHANGED <<disk, gen, hist, mem, memo, total>>

\* Into memory: verified under the generation taken before the probe, or not
\* verified at all.
Hydrate(p) ==
  /\ Checked(p, "disk", {"Fresh", "Unknown"})
  /\ IF proc[p].worst = "Unknown" /\ proc[p].intent = "fresh"
     THEN Set(p, Analysis(proc[p])) /\ UNCHANGED mem
     ELSE /\ mem' = [mem EXCEPT ![proc[p].slot] =
               IF proc[p].worst = "Fresh" THEN Stored(proc[p].entry, proc[p].gen, TRUE)
               ELSE Stored(proc[p].entry, 0, FALSE)]
          /\ Serve(p, IF proc[p].worst = "Fresh" THEN "fresh" ELSE "unknown", proc[p].entry)
  /\ UNCHANGED <<disk, gen, hist, rows, memo, total>>

\* The refresh behind a stale answer looks at the entry again: unknown, it is
\* left alone; fresh again, it is read; otherwise it is rebuilt.
Reprobe(p) ==
  LET k == proc[p].slot IN
  /\ At(p, "reprobe")
  /\ Set(p, IF mem[k] = NoEntry THEN Analysis(proc[p])
            ELSE [proc[p] EXCEPT !.pc = "check", !.tier = "reprobe", !.worst = "Fresh",
                  !.entry = mem[k].entry, !.todo = mem[k].entry.prints])
  /\ UNCHANGED <<disk, gen, hist, stores>>

Reprobed(p) ==
  /\ Checked(p, "reprobe", {"Fresh", "Stale", "Gone", "Unknown"})
  /\ Set(p, CASE proc[p].worst = "Unknown" -> [proc[p] EXCEPT !.pc = "done", !.status = "stale"]
              [] proc[p].worst = "Fresh" -> [proc[p] EXCEPT !.pc = "lookup", !.intent = "fresh"]
              [] OTHER -> Analysis(proc[p]))
  /\ UNCHANGED <<disk, gen, hist, stores>>

-----------------------------------------------------------------------------
(* An analysis *)

\* What follows when nothing is left to do in a phase.  A failing build ends
\* the analysis; otherwise an import or an aggregate has its assets processed,
\* from a second read of each, and a named import asks the comparison memo.
\* The manifests come last; with nothing fingerprinted, the entry with them.
Advance(p, r) ==
  LET manifests == [r EXCEPT !.pc = "manifests", !.todo = Manifests
                      \union (IF r.failed /\ r.prints = {} THEN {Entry} ELSE {})]
      compare == [Begin(p) EXCEPT !.pc = "get", !.slot = "comparison", !.outer = r,
                    !.floor = r.floor, !.since = r.since] IN
  IF r.todo # {} \/ r.half # Nothing THEN r
  ELSE IF r.pc = "load" /\ (r.failed \/ r.slot \in Memos) THEN manifests
  ELSE IF r.pc = "load" /\ Assets # {} THEN [r EXCEPT !.pc = "resources", !.todo = Assets]
  ELSE IF r.slot \in Named THEN compare
  ELSE manifests

Saw(p, f, r) == [r EXCEPT !.todo = @ \ {f}, !.half = Nothing]

\* The edition ed of f went into the answer.
ReadEdition(p, f, ed) == [Saw(p, f, proc[p]) EXCEPT !.used[f] = @ \union {ed}]

Read(p, f) == ReadEdition(p, f, file[f].ed)

\* f was not there.  A missing asset leaves a fingerprint of its absence, and
\* fails the build unless its import is guarded (fails); a missing module leaves
\* none: a package of node_modules becomes an import boundary, anything else
\* fails the build.
SawAbsent(p, f, fails) ==
  IF f \in Assets
  THEN [ReadEdition(p, f, NoBytes) EXCEPT !.failed = @ \/ fails,
         !.prints = sort_and_dedup_fingerprints(@, {absent_file_fingerprint(f)})]
  ELSE [ReadEdition(p, f, NoBytes) EXCEPT !.blind = @ \union {f},
         !.failed = @ \/ f \notin Installed]

\* f is an asset that is there and cannot be read: request-local, never reusable.
SawUnreadable(p, f) ==
  [Saw(p, f, proc[p]) EXCEPT !.io = TRUE,
     !.prints = sort_and_dedup_fingerprints(@, {unverifiable_file_fingerprint(f)})]

\* Rolldown's own resolver reads the manifests, before the modules they lead to.
ReadManifests(p) ==
  /\ At(p, "resolve")
  /\ Set(p, [proc[p] EXCEPT !.pc = "load", !.todo = Modules,
       !.used = [f \in Files |-> IF f \in Modules THEN {} ELSE {file[f].ed}]])
  /\ UNCHANGED <<disk, gen, hist, stores>>

\* The build fails on a missing asset or goes on; the asset stage goes on.
MayFail(p) == IF At(p, "load") THEN BOOLEAN ELSE {FALSE}

Loading(p) == proc[p].pc \in {"load", "resources"} /\ proc[p].todo \intersect Modules # {}

\* The plugin's stat, taken before the bytes are read.  A module that cannot
\* be looked at is left to Rolldown.
StatModule(p) ==
  /\ Loading(p)
  /\ proc[p].half = Nothing
  /\ \E f \in proc[p].todo \intersect Modules, fails \in MayFail(p) :
       Set(p, CASE ~file[f].here -> Advance(p, SawAbsent(p, f, fails))
                [] file[f].here /\ file[f].locked /\ f \in Assets -> Advance(p, SawUnreadable(p, f))
                [] OTHER -> [proc[p] EXCEPT !.half =
                     [kind |-> "half", path |-> f, ours |-> ~file[f].locked,
                      stamp |-> file[f].stamp, ed |-> file[f].ed]])
  /\ UNCHANGED <<disk, gen, hist, stores>>

\* A read paired with the stat that came before it.
read_time_fingerprint(p) ==
  Fingerprint(proc[p].half.path, proc[p].half.stamp, file[proc[p].half.path].ed)

ReadModule(p) ==
  LET f == proc[p].half.path
      ours == proc[p].half.ours IN
  /\ Loading(p)
  /\ proc[p].half # Nothing
  /\ \E fails \in MayFail(p) :
     Set(p, Advance(p, CASE ours /\ Readable(f) ->
                   [ReadEdition(p, f, read_time_fingerprint(p).hash) EXCEPT
                      !.prints = sort_and_dedup_fingerprints(@, {read_time_fingerprint(p)})]
              [] ours /\ ~Readable(f) /\ f \in Assets ->
                   IF file[f].here THEN SawUnreadable(p, f) ELSE SawAbsent(p, f, fails)
              [] ours /\ ~Readable(f) /\ f \notin Assets -> [proc[p] EXCEPT !.half.ours = FALSE]
              \* Rolldown reads it for itself: there is no fingerprint of these bytes.
              [] ~ours /\ Readable(f) ->
                   [Read(p, f) EXCEPT
                      !.prints = sort_and_dedup_fingerprints(@, {unverifiable_file_fingerprint(f)})]
              \* UnloadableDependencyError, a durable failure
              [] OTHER -> [Saw(p, f, proc[p]) EXCEPT !.blind = @ \union {f}, !.failed = TRUE]))
  /\ UNCHANGED <<disk, gen, hist, stores>>

\* file_fingerprint_reading_hash of a manifest, after the build: the bytes ...
HashManifest(p) ==
  /\ At(p, "manifests")
  /\ proc[p].half = Nothing
  /\ \E f \in proc[p].todo :
       Set(p, [proc[p] EXCEPT !.half = [kind |-> "half", path |-> f, ours |-> TRUE, stamp |-> 0,
                 ed |-> IF Readable(f) THEN file[f].ed ELSE NoHash]])
  /\ UNCHANGED <<disk, gen, hist, stores>>

\* ... and then the stat; a file that cannot be looked at leaves no fingerprint.
StatManifest(p) ==
  LET f == proc[p].half.path IN
  /\ At(p, "manifests")
  /\ proc[p].half # Nothing
  /\ Set(p, [Saw(p, f, proc[p]) EXCEPT !.prints = IF Readable(f)
         THEN sort_and_dedup_fingerprints(@, {Fingerprint(f, file[f].stamp, proc[p].half.ed)}) ELSE @])
  /\ UNCHANGED <<disk, gen, hist, stores>>

Finished(p, slots) ==
  At(p, "manifests") /\ proc[p].todo = {} /\ proc[p].half = Nothing /\ proc[p].slot \in slots

\* should_cache_result and dependencies_are_reusable
MayStore(p) == ~proc[p].io /\ fingerprints_are_reusable(proc[p].prints)

StoredUnderCaptured(p) == Stored(Measurement(p), proc[p].gen, TRUE)

\* insert_with_fingerprints_at_generation; a prewarm that was told to stop
\* stores nothing.  A refresh looks once more afterwards.
InsertImport(p) ==
  LET k == proc[p].slot IN
  /\ Finished(p, Imports)
  /\ \/ /\ MayStore(p)
        /\ mem' = [mem EXCEPT ![k] = StoredUnderCaptured(p)]
        /\ rows' = [rows EXCEPT ![k] = Measurement(p)]
     \/ /\ ~MayStore(p) \/ proc[p].intent = "serve"
        /\ UNCHANGED <<mem, rows>>
  /\ IF proc[p].tier = "reprobe"
     THEN Set(p, [proc[p] EXCEPT !.pc = "trailing"]) ELSE Serve(p, "built", Measurement(p))
  /\ UNCHANGED <<disk, gen, hist, memo, total>>

\* should_rearm_revalidation: stale again, one more build and no more.
Trailing(p) ==
  LET k == proc[p].slot IN
  /\ At(p, "trailing")
  /\ IF mem[k] # NoEntry /\ ~proc[p].again
          /\ (\E fp \in mem[k].entry.prints : check_one(fp) = "Stale")
          /\ (\A fp \in mem[k].entry.prints : check_one(fp) \in {"Fresh", "Stale"})
     THEN Set(p, Analysis([proc[p] EXCEPT !.again = TRUE]))
     ELSE Serve(p, "built", Measurement(p))
  /\ UNCHANGED <<disk, gen, hist, stores>>

-----------------------------------------------------------------------------
(* BuildMemo: the comparison (inside an analysis) and the export list *)

\* A mutant: the generation is not looked at.
MemoKeepsGeneration(s) == FALSE

\* Under another generation the value is dropped.
MemoOutdated(s) == memo[s].gen # gen

\* The window of the export list spares installed inputs.
trusts_installed_window(s) == s = "exports" /\ memo[s].live

MemoGet(p) ==
  LET s == proc[p].slot
      skip == trusts_installed_window(s) IN
  /\ At(p, "get")
  /\ IF memo[s] = NoEntry \/ MemoOutdated(s)
     THEN /\ memo' = [memo EXCEPT ![s] = NoEntry]
          /\ Set(p, Analysis(proc[p]))
     ELSE /\ UNCHANGED memo
          /\ Set(p, [proc[p] EXCEPT !.pc = "check", !.tier = "memo", !.worst = "Fresh",
               !.entry = memo[s].entry, !.live = ~skip,
               !.todo = {fp \in memo[s].entry.prints : skip => fp.path \notin Installed}])
  /\ UNCHANGED <<disk, gen, hist, mem, rows, total>>

\* The anchor of the window was taken before the check.
Anchor(p) == proc[p].live

\* What the comparison adds to an import: the bytes behind its length.
Compared(m) == [f \in Files |-> IF f \in m.blind THEN {} ELSE m.used[f]]

\* A caller inside an analysis goes on with it.
MemoAnswer(p, status, m) ==
  IF proc[p].outer = Nothing THEN Serve(p, status, m)
  ELSE Set(p, [proc[p].outer EXCEPT !.pc = "manifests", !.todo = Manifests, !.cmp = Compared(m)])

MemoChecked(p) ==
  LET s == proc[p].slot
      same == memo[s].entry = proc[p].entry IN
  /\ Checked(p, "memo", {"Fresh", "Stale", "Gone", "Unknown"})
  /\ IF proc[p].worst = "Fresh"
     THEN /\ memo' = IF same /\ Anchor(p) THEN [memo EXCEPT ![s].live = TRUE] ELSE memo
          /\ MemoAnswer(p, "fresh", proc[p].entry)
     ELSE /\ memo' = IF same /\ proc[p].worst # "Unknown" THEN [memo EXCEPT ![s] = NoEntry] ELSE memo
          /\ Set(p, Analysis(proc[p]))
  /\ UNCHANGED <<disk, gen, hist, mem, rows, total>>

\* A failed build is not memoized, nor one with a module nobody fingerprinted.
MemoInsert(p) ==
  LET s == proc[p].slot IN
  /\ Finished(p, Memos)
  /\ memo' = IF ~proc[p].failed /\ proc[p].prints # {} /\ fingerprints_are_reusable(proc[p].prints)
             THEN [memo EXCEPT ![s] = [StoredUnderCaptured(p) EXCEPT !.live = FALSE]] ELSE memo
  \* A comparison that failed leaves its diagnostic on the import: a panic or
  \* a timeout keeps it out of the stores.
  /\ \E parked \in IF proc[p].failed /\ proc[p].outer # Nothing THEN BOOLEAN ELSE {FALSE} :
       IF proc[p].outer = Nothing THEN Serve(p, "built", Measurement(p))
       ELSE Set(p, [proc[p].outer EXCEPT !.pc = "manifests", !.todo = Manifests,
                    !.cmp = IF proc[p].failed THEN @ ELSE Compared(proc[p]), !.io = @ \/ parked])
  /\ UNCHANGED <<disk, gen, hist, mem, rows, total>>

-----------------------------------------------------------------------------
(* The aggregate of a document *)

\* file_size_signature: the generation and a stat of each first-party file.
file_size_signature ==
  [gen |-> gen, stat |-> [f \in Files \ Installed |-> IF file[f].here THEN file[f].stamp ELSE NoHash]]

TakeSignature(p) ==
  LET sig == file_size_signature IN
  /\ At(p, "signature")
  /\ Set(p, IF total.stored # NoEntry /\ total.sig = sig /\ total.stored.live
            THEN [proc[p] EXCEPT !.pc = "check", !.tier = "total", !.worst = "Fresh", !.sig = sig,
                  !.entry = total.stored.entry, !.todo = total.stored.entry.prints]
            ELSE Analysis([proc[p] EXCEPT !.sig = sig]))
  /\ UNCHANGED <<disk, gen, hist, stores>>

TotalChecked(p) ==
  /\ Checked(p, "total", {"Fresh", "Stale", "Gone", "Unknown"})
  /\ IF proc[p].worst = "Fresh" THEN Serve(p, "fresh", proc[p].entry) ELSE Set(p, Analysis(proc[p]))
  /\ UNCHANGED <<disk, gen, hist, stores>>

\* may_enter_aggregate_cache: a failed combined build is degraded; a floor
\* enters when all its stages are durable.  The slot is overwritten.
TotalInsert(p) ==
  /\ Finished(p, {"aggregate"})
  /\ total' = IF MayStore(p) /\ ~proc[p].failed
              THEN [stored |-> StoredUnderCaptured(p), sig |-> proc[p].sig] ELSE total
  /\ Serve(p, "built", Measurement(p))
  /\ UNCHANGED <<disk, gen, hist, mem, rows, memo>>

-----------------------------------------------------------------------------
\* The daemon dies and is started again: the generation and everything in
\* memory start over, the rows stay.
Restart ==
  /\ \E p \in Procs : proc[p].pc # "idle"
  /\ <<"restart", Entry>> \in plan.moves
  /\ changes < plan.changes /\ changes' = changes + 1
  /\ gen' = 1 /\ noticed' = Nothing
  /\ mem' = [k \in Imports |-> NoEntry]
  /\ memo' = [s \in Memos |-> NoEntry]
  /\ total' = [stored |-> NoEntry, sig |-> Nothing]
  /\ proc' = [p \in Procs |-> Begin(p)]
  /\ UNCHANGED <<plan, file, announced, rows>>

Read1(p) ==
  \/ Ask(p)
  \/ LookupMemory(p) \/ LookupMiss(p) \/ ProbeRow(p) \/ CheckFile(p)
  \/ ServeFresh(p) \/ ServeUnknown(p) \/ ServeStale(p) \/ Evict(p) \/ EvictRow(p)
  \/ DropRow(p) \/ Hydrate(p) \/ Reprobe(p) \/ Reprobed(p)
  \/ MemoGet(p) \/ MemoChecked(p) \/ TakeSignature(p) \/ TotalChecked(p)

Analyse(p) ==
  \/ ReadManifests(p) \/ StatModule(p) \/ ReadModule(p) \/ HashManifest(p) \/ StatManifest(p)
  \/ InsertImport(p) \/ Trailing(p) \/ MemoInsert(p) \/ TotalInsert(p)

Environment ==
  \/ \E f \in Files : Edit(f) \/ Touch(f)
  \/ \E f \in Modules : Create(f) \/ Delete(f) \/ Lock(f) \/ Unlock(f)
  \/ Elapse
  \/ \E ks \in {{}, Imports} : InvalidateEntries(ks)
  \/ bump_cache_generation \/ InvalidateWorkspaceConfig
  \/ Restart

FreshNext == (\E p \in Procs : Read1(p) \/ Analyse(p)) \/ Environment

FreshSpec == FreshInit /\ [][FreshNext]_freshVars

-----------------------------------------------------------------------------
(* Properties *)

Served(p, slots) ==
  At(p, "done") /\ proc[p].status = "fresh" /\ proc[p].slot \in slots

\* What a build read of f was still so when f had edition n, or later: bytes
\* are an edition; of an absence the last one counts.
NotBefore(v, f, n) == IF v = NoBytes THEN file[f].gone >= n ELSE v >= n

\* The reads of f behind a measurement, the comparison's included: unless the
\* import's own build found the asset missing, which is then all that its
\* fingerprint can tell.
Versions(m, f) ==
  m.used[f] \union (IF absent_file_fingerprint(f) \in m.prints THEN {} ELSE m.cmp[f])

\* An import served as fresh was measured from what each module really was:
\* under a first-party key or a force-fresh read, from an edition that was
\* current during this read; under the trust in node_modules, from one no
\* older than the last completed invalidation.  Modules that were missing or
\* unreadable when the build looked are left out: nothing fingerprints them.
FreshMeansCurrent ==
  \A p \in Procs : Served(p, Imports) =>
    \A f \in Modules \ proc[p].entry.blind : \A v \in Versions(proc[p].entry, f) :
      NotBefore(v, f, IF proc[p].intent = "fresh" \/ proc[p].slot \in FirstParty
                      THEN proc[p].since[f] ELSE proc[p].floor[f])

\* A memo or an aggregate served from its store was built after the last
\* invalidation that was completed before the read, its resolution inputs
\* included: the manifests of dependencies, that nothing fingerprints, and
\* packages that were not installed.
MemosHonourInstalls ==
  \A p \in Procs : Served(p, {"exports", "aggregate"}) =>
    \A f \in Files : \A v \in proc[p].entry.used[f] : NotBefore(v, f, proc[p].floor[f])

\* A measurement all of whose inputs are what they were when it was made.
Good(m) ==
  /\ m # Nothing
  /\ \A fp \in m.prints : file[fp.path].here /\ file[fp.path].ed = fp.hash

\* No verdict takes a good measurement out of memory: what is evicted was
\* stale or gone, and is still; a file that is locked for a moment costs
\* nothing.  Only a lookup that found nothing in memory and then hydrates from
\* the disk may put another measurement in its place.
VerdictsSpareGood ==
  [][\A k \in Imports : Good(mem[k].entry) /\ (\E p \in Procs : Read1(p) /\ ~Hydrate(p))
       => Good(mem[k].entry)']_freshVars

=============================================================================
