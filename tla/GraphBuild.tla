----------------------------- MODULE GraphBuild -----------------------------
(***************************************************************************)
(* One engine build of a package's module graph: the plugin's hooks, run   *)
(* by Rolldown on one concurrent task per module (engine/plugin.rs), and   *)
(* the retries and the classification around them (engine/adapter.rs).     *)
(*                                                                         *)
(* A graph is a function from module ids to                                *)
(*   file    the canonical file; two ids may name one file                 *)
(*   class   "js", "counted" (a stylesheet, font or wasm), "unmeasured"    *)
(*           (an image), or "probe" (an optional require of an asset that  *)
(*           the resolver cannot find)                                     *)
(*   stat, actual   the length when the file is statted, and when read     *)
(*   io      "ok"; "absent" or "unreadable" when statted; "lost" when it   *)
(*           can be statted and then not read                              *)
(*   fault   None, "parse", "unresolved" (a relative import that is not    *)
(*           there), "boundary" (a subpath of another package the resolver *)
(*           refuses), "missing_internal" or "missing_entry" (a binding    *)
(*           no module exports, imported by a dependency or by the entry), *)
(*           "ambiguous", or "split" (Rolldown puts it in a chunk of its   *)
(*           own)                                                          *)
(*   barrel  loaded only through a barrel, used by nothing and importing   *)
(*           nothing                                                       *)
(*   parent  the module that imports it, 0 for the virtual entry           *)
(***************************************************************************)
EXTENDS Integers, Sequences, SequencesExt, FiniteSets, Sums

CONSTANTS
    MaxModuleBytes,   \* MAX_MODULE_SOURCE_BYTES
    MaxGraphBytes,    \* MAX_GRAPH_SOURCE_BYTES
    MaxModules        \* MAX_GRAPH_MODULES

ASSUME GraphLimits == MaxModuleBytes \in Nat /\ MaxGraphBytes \in Nat /\ MaxModules \in Nat

VARIABLES
    graph,    \* the package's module graph
    opts,     \* build_with_retries' locals: lazy_barrel and unbound_imports
    st,       \* each module's task: "idle" "reserved" "read" "done" "failed", or
              \* "outnumbered": it failed once its bytes were charged
    ledger,   \* BuildState: the source bytes charged and what was recorded
    diags,    \* the diagnostics Rolldown has collected, in arrival order
    built     \* the build's answer, or Building

buildVars == <<graph, opts, st, ledger, diags, built>>

NoFault == "none"
Building == [state |-> "building"]

FreshState == [total |-> 0,           \* total_source_bytes
               breach |-> 0,          \* limit_breach: the smallest message, 0 for none
               assets |-> << >>,      \* assets: file to the id that claimed it
               unmeasured |-> << >>,  \* unmeasured_assets, likewise
               failed |-> << >>,      \* failed_asset_inputs: file to why
               loaded |-> {},         \* loaded_paths
               externals |-> FALSE]   \* unresolved_externals is not empty

\* The breach messages in the order record_breach compares them.
FileBreach == 1
TotalBreach == 2
CountBreach == 3

(***************************************************************************)
(* BuildState.                                                             *)
(***************************************************************************)

Stats(g) == [m \in DOMAIN g |-> g[m].stat]
Actuals(g) == [m \in DOMAIN g |-> g[m].actual]

Has(f, x) == x \in DOMAIN f
With(f, x, v) == [y \in DOMAIN f \cup {x} |-> IF y = x THEN v ELSE f[y]]

try_reserve_source_bytes(total, bytes) == total + bytes <= MaxGraphBytes

\* reconcile_source_bytes: whether the read's length fits where the stat's was.
reconcile_source_bytes(total, reserved, actual) ==
    actual <= reserved \/ try_reserve_source_bytes(total, actual - reserved)

record_breach(l, message) ==
    [l EXCEPT !.breach = IF @ # 0 /\ @ <= message THEN @ ELSE message]

record_failed_asset_input(l, file, failure) ==
    [l EXCEPT !.failed = With(@, file,
        IF Has(@, file) /\ failure = "absent" THEN @[file] ELSE failure)]

\* A later read of a claimed file keeps its reservation.
ClaimKeepsBoth(l, m) ==
    LET r == graph[m]
        kept == IF r.class = "counted" THEN l.assets ELSE l.unmeasured
    IN  IF Has(kept, r.file) THEN l
        ELSE IF r.class = "counted" THEN [l EXCEPT !.assets = With(@, r.file, m)]
        ELSE [l EXCEPT !.unmeasured = With(@, r.file, m)]

\* record_asset and record_unmeasured_asset: the first read of a file claims
\* it; a later one gives its reservation back.
Claim(l, m) ==
    LET r == graph[m]
        kept == IF r.class = "counted" THEN l.assets ELSE l.unmeasured
    IN  IF Has(kept, r.file) THEN [l EXCEPT !.total = @ - r.actual]
        ELSE IF r.class = "counted" THEN [l EXCEPT !.assets = With(@, r.file, m)]
        ELSE [l EXCEPT !.unmeasured = With(@, r.file, m)]

unreadable_asset_paths(l) == {f \in DOMAIN l.failed : l.failed[f] # "absent"}

(***************************************************************************)
(* The hooks.                                                              *)
(***************************************************************************)

IsAsset(m) == graph[m].class \in {"counted", "unmeasured"}

\* Rolldown starts a module's task once the module that imports it is parsed;
\* with the lazy barrel, one that nothing uses is never started.
Loadable(m) ==
    /\ built = Building
    /\ st[m] = "idle"
    /\ graph[m].parent # 0 => st[graph[m].parent] = "done"
    /\ ~(opts.lazy /\ graph[m].barrel)

Task(m, next) == st' = [st EXCEPT ![m] = next]

\* A hook answered with an error: the module's task ends and Rolldown keeps a
\* diagnostic of this kind.
TaskEnds(m, l, kind, end) ==
    /\ ledger' = l
    /\ diags' = Append(diags, kind)
    /\ Task(m, end)
    /\ UNCHANGED <<graph, opts, built>>
TaskFails(m, l, kind) == TaskEnds(m, l, kind, "failed")

\* load, up to the read.  A JavaScript file that cannot be statted is left to
\* Rolldown, whose own loader fails; an asset's length is reserved first.
LoadStat(m) ==
    /\ Loadable(m)
    /\ graph[m].class # "probe"
    /\ LET r == graph[m] IN
       \/ /\ r.io \in {"absent", "unreadable"}
          /\ TaskFails(m,
                       IF IsAsset(m) THEN record_failed_asset_input(ledger, r.file, r.io) ELSE ledger,
                       "unloadable")
       \/ /\ r.io \notin {"absent", "unreadable"}
          /\ r.stat > MaxModuleBytes
          /\ TaskFails(m, record_breach(ledger, FileBreach), "plugin")
       \/ /\ r.io \notin {"absent", "unreadable"}
          /\ r.stat <= MaxModuleBytes
          /\ IsAsset(m) /\ ~try_reserve_source_bytes(ledger.total, r.stat)
          /\ TaskFails(m, record_breach(ledger, TotalBreach), "plugin")
       \/ /\ r.io \notin {"absent", "unreadable"}
          /\ r.stat <= MaxModuleBytes
          /\ ~IsAsset(m) \/ try_reserve_source_bytes(ledger.total, r.stat)
          /\ ledger' = [ledger EXCEPT !.total = @ + (IF IsAsset(m) THEN r.stat ELSE 0)]
          /\ Task(m, "reserved")
          /\ UNCHANGED <<graph, opts, diags, built>>

\* load of an asset, from the read on: the reservation becomes the length that
\* was read, or is given back.
LoadAsset(m) ==
    /\ st[m] = "reserved"
    /\ IsAsset(m)
    /\ LET r == graph[m]
           released == [ledger EXCEPT !.total = @ - r.stat]
       IN
       \/ /\ r.io = "lost"
          /\ TaskFails(m, record_failed_asset_input(released, r.file, "unreadable"), "unloadable")
       \/ /\ r.io # "lost"
          /\ r.actual > MaxModuleBytes
          /\ TaskFails(m, record_breach(released, FileBreach), "plugin")
       \/ /\ r.io # "lost"
          /\ r.actual <= MaxModuleBytes
          /\ ~reconcile_source_bytes(ledger.total, r.stat, r.actual)
          /\ TaskFails(m, record_breach(released, TotalBreach), "plugin")
       \/ /\ r.io # "lost"
          /\ r.actual <= MaxModuleBytes
          /\ reconcile_source_bytes(ledger.total, r.stat, r.actual)
          /\ ledger' = Claim([released EXCEPT !.total = @ + r.actual], m)
          /\ Task(m, "read")
          /\ UNCHANGED <<graph, opts, diags, built>>

\* load of a JavaScript module, and Rolldown's parse and import resolution.
\* A subpath the resolver refuses becomes a boundary; a relative import that
\* is not there is an error.
LoadSource(m) ==
    /\ st[m] = "reserved"
    /\ ~IsAsset(m)
    /\ LET r == graph[m] IN
       \/ /\ r.io = "lost"
          /\ TaskFails(m, ledger, "unloadable")
       \/ /\ r.io # "lost"
          /\ r.fault \in {"parse", "unresolved"}
          /\ TaskFails(m, ledger, r.fault)
       \/ /\ r.io # "lost"
          /\ r.fault \notin {"parse", "unresolved"}
          /\ ledger' = [ledger EXCEPT !.externals = @ \/ r.fault = "boundary"]
          /\ Task(m, "read")
          /\ UNCHANGED <<graph, opts, diags, built>>

\* resolve_id of an asset the configured resolver cannot find: why is recorded,
\* and Rolldown makes of the optional require what it likes.
ResolveProbe(m) ==
    /\ Loadable(m)
    /\ graph[m].class = "probe"
    /\ ledger' = record_failed_asset_input(ledger, graph[m].file, graph[m].io)
    /\ Task(m, "done")
    /\ UNCHANGED <<graph, opts, diags, built>>

\* module_parsed: an asset links as an empty module, so only source is charged.
ModuleParsed(m) ==
    /\ st[m] = "read"
    /\ LET source == IF IsAsset(m) THEN 0 ELSE graph[m].actual
           charged == [ledger EXCEPT !.total = @ + source, !.loaded = @ \cup {graph[m].file}]
       IN
       \/ /\ source > MaxModuleBytes
          /\ TaskFails(m, record_breach(ledger, FileBreach), "plugin")
       \/ /\ source <= MaxModuleBytes
          /\ ~try_reserve_source_bytes(ledger.total, source)
          /\ TaskFails(m, record_breach(ledger, TotalBreach), "plugin")
       \/ /\ source <= MaxModuleBytes
          /\ try_reserve_source_bytes(ledger.total, source)
          /\ Cardinality(charged.loaded) > MaxModules
          /\ TaskEnds(m, record_breach(charged, CountBreach), "plugin", "outnumbered")
       \/ /\ source <= MaxModuleBytes
          /\ try_reserve_source_bytes(ledger.total, source)
          /\ Cardinality(charged.loaded) <= MaxModules
          /\ ledger' = charged
          /\ Task(m, "done")
          /\ UNCHANGED <<graph, opts, diags, built>>

(***************************************************************************)
(* The adapter.                                                            *)
(***************************************************************************)

\* engine::stage's declaration order, which is its rank.
StageOrder ==
    <<"panic", "timeout", "engine_gone", "asset_io", "module_graph_limit", "resolve", "parse",
      "missing_export", "ambiguous_export", "link", "generate", "output_shape">>

rank(stage) == CHOOSE i \in DOMAIN StageOrder : StageOrder[i] = stage

stage_for(kind) ==
    CASE kind \in {"missing_internal", "missing_entry"} -> "missing_export"
      [] kind = "ambiguous" -> "ambiguous_export"
      [] kind = "parse" -> "parse"
      [] kind \in {"unresolved", "unloadable"} -> "resolve"
      [] OTHER -> "link"

\* The diagnostic that arrived first decides.
FirstArrived(ds) == IF ds = << >> THEN "link" ELSE stage_for(Head(ds))

\* The earliest stage present among the diagnostics, wherever it stands.
EarliestStage(ds) ==
    LET stages == {stage_for(ds[i]) : i \in DOMAIN ds}
    IN  IF stages = {} THEN "link"
        ELSE CHOOSE s \in stages : \A t \in stages : rank(s) <= rank(t)

classify_failure(l, ds) ==
    IF l.breach # 0 THEN "module_graph_limit"
    ELSE IF unreadable_asset_paths(l) # {} THEN "asset_io"
    ELSE EarliestStage(ds)

\* What linking a graph that scanned clean reports: each module's unmatched or
\* ambiguous binding.  shim_missing_exports stubs the unmatched ones.
LinkFaults ==
    {m \in DOMAIN graph : /\ st[m] = "done"
                          /\ \/ graph[m].fault = "ambiguous"
                             \/ /\ graph[m].fault \in {"missing_internal", "missing_entry"}
                                /\ ~opts.unbound}

\* Every module task has ended, and Rolldown links what they loaded.
ScanEnded ==
    /\ built = Building
    /\ \A m \in DOMAIN graph : st[m] \notin {"reserved", "read"} /\ ~Loadable(m)

FinalDiags ==
    IF diags # << >> THEN diags
    ELSE LET faults == SetToSeq(LinkFaults)
         IN  [i \in DOMAIN faults |-> graph[faults[i]].fault]

\* The diagnostics of the failure: an unreadable asset adds one of its own.
FailureDiags ==
    IF classify_failure(ledger, FinalDiags) = "asset_io" THEN Append(FinalDiags, "asset_io")
    ELSE FinalDiags

is_internal_unbound_import(ds) ==
    ds # << >> /\ \A i \in DOMAIN ds : ds[i] = "missing_internal"

\* Every attempt gets a fresh plugin and a fresh state.
Attempt(o) ==
    /\ opts' = o
    /\ st' = [m \in DOMAIN graph |-> "idle"]
    /\ ledger' = FreshState
    /\ diags' = << >>
    /\ UNCHANGED <<graph, built>>

RetryLazyBarrel ==
    /\ ScanEnded
    /\ FinalDiags # << >>
    /\ ~opts.lazy /\ ~opts.unbound
    /\ classify_failure(ledger, FinalDiags) = "module_graph_limit"
    /\ Attempt([opts EXCEPT !.lazy = TRUE])

RetryUnbound ==
    /\ ScanEnded
    /\ opts.lazy \/ classify_failure(ledger, FinalDiags) # "module_graph_limit"
    /\ ~opts.unbound
    /\ is_internal_unbound_import(FailureDiags)
    /\ Attempt([opts EXCEPT !.unbound = TRUE])

\* No retry is left for this failure.
BuildFails ==
    /\ ScanEnded
    /\ FinalDiags # << >>
    /\ opts.lazy \/ opts.unbound \/ classify_failure(ledger, FinalDiags) # "module_graph_limit"
    /\ opts.unbound \/ ~is_internal_unbound_import(FailureDiags)
    /\ built' = [state |-> "failed", stage |-> classify_failure(ledger, FinalDiags)]
    /\ UNCHANGED <<graph, opts, st, ledger, diags>>

\* The modules whose code the one chunk renders: tree shaking drops what only
\* a barrel reaches.
Rendered ==
    {m \in DOMAIN graph : st[m] = "done" /\ graph[m].class = "js" /\ ~graph[m].barrel}

\* The stages translate discloses beside a chunk.
TranslatedStages(l) ==
    (IF opts.unbound THEN {"missing_export"} ELSE {})
        \cup (IF unreadable_asset_paths(l) # {} THEN {"asset_io"} ELSE {})
        \cup (IF DOMAIN l.unmeasured # {} THEN {"uncounted_assets"} ELSE {})
        \cup (IF l.externals THEN {"resolve", "external"} ELSE {})

Split == \E m \in Rendered : graph[m].fault = "split"

\* single_chunk: one of several chunks would under-report the package.
SingleChunkFails ==
    /\ ScanEnded
    /\ FinalDiags = << >>
    /\ Split
    /\ built' = [state |-> "failed",
                 stage |-> IF unreadable_asset_paths(ledger) # {} THEN "asset_io"
                           ELSE "output_shape"]
    /\ UNCHANGED <<graph, opts, st, ledger, diags>>

\* translate: the artifact of a build that linked into one chunk.
Translate ==
    /\ ScanEnded
    /\ FinalDiags = << >>
    /\ ~Split
    /\ built' = [state |-> "ok",
                 code |-> SumOver(Actuals(graph), Rendered),
                 assets |-> {ledger.assets[f] : f \in DOMAIN ledger.assets},
                 stages |-> TranslatedStages(ledger),
                 graph_source_bytes |-> ledger.total]
    /\ UNCHANGED <<graph, opts, st, ledger, diags>>

BuildInit(g) ==
    /\ graph = g
    /\ opts = [lazy |-> FALSE, unbound |-> FALSE]
    /\ st = [m \in DOMAIN g |-> "idle"]
    /\ ledger = FreshState
    /\ diags = << >>
    /\ built = Building

BuildStep ==
    \/ \E m \in DOMAIN graph :
         LoadStat(m) \/ LoadAsset(m) \/ LoadSource(m) \/ ResolveProbe(m) \/ ModuleParsed(m)
    \/ RetryLazyBarrel \/ RetryUnbound \/ BuildFails \/ SingleChunkFails \/ Translate

(***************************************************************************)
(* Properties.                                                             *)
(***************************************************************************)

\* The bytes charged are exactly those of the modules that count: what a task
\* has reserved and not read yet, one claim for each asset file however many
\* module ids name it, and the source of every module that was parsed; and
\* they stay within the limit (plugin.rs, the load and module_parsed hooks).
Reserved == {m \in DOMAIN graph : st[m] = "reserved" /\ IsAsset(m)}
Claimed ==
    {ledger.assets[f] : f \in DOMAIN ledger.assets}
        \cup {ledger.unmeasured[f] : f \in DOMAIN ledger.unmeasured}
Parsed == {m \in DOMAIN graph : graph[m].class = "js" /\ st[m] \in {"done", "outnumbered"}}
LedgerExact ==
    /\ ledger.total = SumOver(Stats(graph), Reserved) + SumOver(Actuals(graph), Claimed \cup Parsed)
    /\ ledger.total <= MaxGraphBytes

(***************************************************************************)
(* What a graph's failure is, read off the graph alone: no task, no order. *)
(***************************************************************************)

\* The module ends its own task with an error and its imports are never seen.
OwnFault(g, m) ==
    IF g[m].class = "probe" THEN "none"
    ELSE IF g[m].io # "ok" THEN "unloadable"
    ELSE IF g[m].class = "js" /\ g[m].fault \in {"parse", "unresolved"} THEN g[m].fault
    ELSE "none"

\* The modules an attempt sees: each importer up the tree loaded cleanly.
Seen(g, lazy) ==
    LET reach[d \in 0 .. Cardinality(DOMAIN g)] ==
            IF d = 0 THEN {}
            ELSE {m \in DOMAIN g :
                    /\ ~(lazy /\ g[m].barrel)
                    /\ \/ g[m].parent = 0
                       \/ g[m].parent \in reach[d - 1] /\ OwnFault(g, g[m].parent) = "none"}
    IN  reach[Cardinality(DOMAIN g)]

TooLarge(g, lazy) ==
    LET seen == Seen(g, lazy)
        loaded == {m \in seen : g[m].class # "probe" /\ OwnFault(g, m) = "none"}
    IN  \/ \E m \in seen : g[m].class # "probe" /\ g[m].io = "ok" /\ g[m].stat > MaxModuleBytes
        \/ SumOver(Actuals(g), loaded) > MaxGraphBytes
        \/ Cardinality(loaded) > MaxModules

\* The stage one attempt fails at, or "none".
AttemptStage(g, lazy, unbound) ==
    LET seen == Seen(g, lazy)
        own == {stage_for(OwnFault(g, m)) : m \in {n \in seen : OwnFault(g, n) # "none"}}
        unread == {m \in seen : g[m].class # "js" /\ g[m].io = "unreadable"}
        links == {stage_for(g[m].fault) :
                    m \in {n \in seen :
                             \/ g[n].fault = "ambiguous"
                             \/ ~unbound /\ g[n].fault \in {"missing_internal", "missing_entry"}}}
        split == {"output_shape" :
                    m \in {n \in seen : g[n].class = "js" /\ ~g[n].barrel /\ g[n].fault = "split"}}
        kinds == IF own # {} THEN own ELSE IF links # {} THEN links ELSE split
    IN  CASE TooLarge(g, lazy) -> "module_graph_limit"
          [] kinds = {} -> "none"
          [] unread # {} -> "asset_io"
          [] OTHER -> CHOOSE s \in kinds : \A t \in kinds : rank(s) <= rank(t)

\* The stage the whole build fails at: the first attempt's, unless one of the
\* two retries is called for.
GraphStage(g) ==
    LET first == AttemptStage(g, FALSE, FALSE)
        lazy == first = "module_graph_limit"
        second == AttemptStage(g, lazy, FALSE)
        unbound == second = "missing_export"
                     /\ \A m \in Seen(g, lazy) : g[m].fault \notin {"missing_entry", "ambiguous"}
    IN  IF unbound THEN AttemptStage(g, lazy, TRUE) ELSE second

\* Bytes that move while the build runs, and two ids of one file, let the
\* order of the tasks decide whether the limit is met.
Settled(g) ==
    /\ \A m \in DOMAIN g : g[m].stat = g[m].actual /\ g[m].io # "lost"
    /\ \A m, n \in DOMAIN g : g[m].file = g[n].file => m = n

\* The stage a build fails at, which is cached with the package, is a function
\* of the package's bytes: no interleaving of the module tasks, and none of
\* the retries, makes the same graph fail at another stage or fail at all
\* (adapter.rs, classify_failure and build_with_retries).
FailureIsFunction ==
    built # Building /\ Settled(graph) =>
        IF built.state = "failed" THEN built.stage = GraphStage(graph)
        ELSE GraphStage(graph) = "none"
=============================================================================
