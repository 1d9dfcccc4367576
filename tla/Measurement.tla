---------------------------- MODULE Measurement ----------------------------
(***************************************************************************)
(* One import measured from its specifier to its result                    *)
(* (pipeline/analyze.rs): the package is resolved (Resolution), its graph  *)
(* is built (GraphBuild), its assets are processed (AssetStage) behind the *)
(* gate they share with every other request (AssetGate), and a document's  *)
(* File Cost is made of it and of other imports (FileSize).                *)
(*                                                                         *)
(* A scenario fixes what the world holds:                                  *)
(*   pkg, configs, nearest   the package, the workspace's alias configs    *)
(*            and the nearest one, as in Resolution                        *)
(*   entry    the stat of the entry: "ok", "fails" or "oversized"          *)
(*   engine   what the engine boundary may answer in the build's place     *)
(*   graph, disk   as in GraphBuild and AssetStage                         *)
(*   tail     "ok", or the step after the build that fails                 *)
(*   compare  "ok", or the stage the full-package build fails at           *)
(*   faults   the asset job may panic, and its compressors may fail        *)
(*   pool     the asset pool can be built                                  *)
(*   rivals   how many other requests come to the gate                     *)
(*   document the import's document is to be summed                        *)
(*   others   the document's other imports, as in FileSize                 *)
(*   combined the outcome of each runtime's combined build                 *)
(***************************************************************************)
EXTENDS AssetStage, AssetGate, FileSize

CONSTANTS
    Scenarios,         \* the worlds to start in
    MaxAliasConfigs    \* MAX_REACHABLE_ALIAS_CONFIGS

\* The shape of a world.
IsGraph(g) ==
    /\ IsFiniteSet(DOMAIN g)
    /\ \A m \in DOMAIN g :
         /\ g[m].class \in {"js", "counted", "unmeasured", "probe"}
         /\ g[m].stat \in Nat /\ g[m].actual \in Nat
         /\ g[m].io \in {"ok", "absent", "unreadable", "lost"}
IsDisk(d) ==
    /\ IsFiniteSet(DOMAIN d)
    /\ \A f \in DOMAIN d :
         d[f].stat \in Nat /\ d[f].actual \in Nat /\ d[f].refs \subseteq DOMAIN d
\* Bytes that are in no size are disclosed.
IsDocument(s) ==
    /\ IsFiniteSet(s.others)
    /\ \A im \in s.others : IsFiniteSet(im.mods) /\ im.mods \subseteq Nat
    /\ \A r \in {"Component", "Server"} :
         LET outcome == s.combined[r]
         IN  outcome.short \in Nat /\ (outcome.short # 0 => outcome.stages \cap marks_a_floor # {})

ASSUME WorldsAssumption ==
    \A s \in Scenarios :
        /\ IsGraph(s.graph) /\ IsDisk(s.disk) /\ IsDocument(s)
        /\ s.engine \subseteq {"panic", "timeout", "engine_gone"}
        /\ s.tail \in {"ok", "minify", "compression"}
        /\ s.compare \notin {"types_only", "native_binary_only"}
        /\ s.pool \in BOOLEAN /\ s.faults \in BOOLEAN
ASSUME FocusAssumption == 1 \in Callers

VARIABLES
    scn,       \* the scenario
    phase,     \* "resolve", "build", "assets", "measured", the runtime whose
               \* group is summed next, "settle" or "summed"
    result,    \* the import's result
    total,     \* the document's File Cost
    moments    \* what went wrong that will not go wrong again: history only

vars == <<buildVars, stageVars, gateVars, scn, phase, result, total, moments>>

requestVars == <<scn, phase, result, total, moments>>

NoResult == [size |-> NoSize, stages |-> {}]
NoTotal == [error |-> TRUE]
Focus == 1

Done == phase \notin {"resolve", "build", "assets"}

Answered(r) ==
    /\ result' = r
    /\ phase' = "measured"
    /\ UNCHANGED <<scn, total>>

Unmeasured(stage) == Answered([size |-> NoSize, stages |-> {stage}])

Moment(kinds) == moments' = moments \cup kinds

\* analyze_import_inner and the checks of the entry file.
Resolve ==
    /\ phase = "resolve"
    /\ \E a \in resolve_package_entry(scn.pkg) :
         \/ /\ ~a.ok
            /\ Answered(unresolved_import_result(scn.pkg, a.message))
            /\ Moment(IF find_package_root(scn.pkg) /\ scn.pkg.manifest = "unreadable"
                      THEN {"manifest"} ELSE {})
         \/ /\ a.ok /\ scn.entry = "fails"
            /\ Unmeasured("entry_metadata")
            /\ Moment({"stat"})
         \/ /\ a.ok /\ scn.entry = "oversized"
            /\ Unmeasured("oversized_entry")
            /\ UNCHANGED moments
         \/ /\ a.ok /\ scn.entry = "ok"
            /\ phase' = "build"
            /\ UNCHANGED <<scn, result, total, moments>>
    /\ UNCHANGED <<buildVars, stageVars, gateVars>>

Build ==
    /\ phase = "build"
    /\ BuildStep
    /\ UNCHANGED <<stageVars, gateVars, requestVars>>

\* run_on_engine and with_permit: the build panics, outlives its cap, or is
\* dropped with its runtime, and engine_error keeps the stage of that.
EngineFails ==
    /\ phase = "build"
    /\ built = Building
    /\ \E stage \in scn.engine : Unmeasured(stage)
    /\ Moment({"engine"})
    /\ UNCHANGED <<buildVars, stageVars, gateVars>>

\* The result once every part is there: the full-package comparison only adds
\* the stage it failed at, and annotate_native_binary its flag.
Measured(assetBytes, assetStages) ==
    /\ Answered([size |-> built.code + assetBytes,
                 stages |-> built.stages \cup assetStages
                              \cup (IF scn.compare = "ok" THEN {} ELSE {scn.compare})
                              \cup (IF scn.pkg.native THEN {"native_binary"} ELSE {})])
    /\ Moment({scn.compare} \cap TRANSIENT_ANALYSIS_STAGES)

\* A failed build is Unmeasured, and so is a chunk that cannot be minified or
\* compressed; otherwise the assets, when there are any, go to the gate.
AfterBuild ==
    /\ phase = "build"
    /\ built # Building
    /\ \/ /\ built.state = "failed"
          /\ Unmeasured(built.stage)
          /\ UNCHANGED <<gateVars, moments>>
       \/ /\ built.state = "ok" /\ scn.tail # "ok"
          /\ Unmeasured(scn.tail)
          /\ Moment({scn.tail} \cap {"compression"})
          /\ UNCHANGED gateVars
       \/ /\ built.state = "ok" /\ scn.tail = "ok" /\ built.assets = {}
          /\ Measured(0, {})
          /\ UNCHANGED gateVars
       \/ /\ built.state = "ok" /\ scn.tail = "ok" /\ built.assets # {}
          /\ phase' = "assets"
          /\ Execute(Focus, scn.pool)
          /\ UNCHANGED <<scn, result, total, moments>>
    /\ UNCHANGED <<buildVars, stageVars>>

\* boundary_failure: the stage of an error the boundary returns.
boundary_failure(error) ==
    CASE error \in {"AdmissionTimedOut", "ExecutionTimedOut"} -> "timeout"
      [] error = "Panicked" -> "panic"
      [] error = "AdmissionFailed" -> "engine_gone"

\* process_assets_bounded returns.
AfterAssets ==
    /\ phase = "assets"
    /\ call[Focus] = "answered"
    /\ \/ /\ answer[Focus] # "ok"
          /\ Unmeasured(boundary_failure(answer[Focus]))
          /\ Moment({"gate"})
       \/ /\ answer[Focus] = "ok" /\ process_assets.failed # NoError
          /\ Unmeasured(process_assets.failed)
          /\ Moment({"gate"})
       \/ /\ answer[Focus] = "ok" /\ process_assets.failed = NoError
          /\ Measured(process_assets.size, process_assets.stages)
    /\ UNCHANGED <<buildVars, stageVars, gateVars>>

(***************************************************************************)
(* The asset job, on its pool thread.                                      *)
(***************************************************************************)

Late == Focus \in expired

StatMoments(io) == Moment(IF io = "unreadable" THEN {"io"} ELSE {})

CompressorMoments(ok) == Moment(IF ok THEN {} ELSE {"compressor"})

\* The job reads on whether or not its caller has given up.
AssetWork ==
    /\ work[Focus] = "running"
    /\ \/ BeginStage /\ UNCHANGED moments
       \/ EndReads(Late) /\ UNCHANGED moments
       \/ EndBinaries(Late) /\ UNCHANGED moments
       \/ \E f \in DOMAIN disk, io \in {"ok", "absent", "unreadable"} :
            BeginRead(f, Late, io) /\ StatMoments(io)
       \/ \E f \in DOMAIN disk :
            FinishRead(f, Late) /\ Moment(IF disk[f].io = "lost" THEN {"io"} ELSE {})
       \/ \E io \in {"ok", "absent", "unreadable"} :
            CollectReference(Late, io) /\ StatMoments(io)
       \/ \E ok \in {TRUE} \cup {~scn.faults} :
            (CompressBundle(Late, ok) \/ CompressBinary(Late, ok)) /\ CompressorMoments(ok)
    /\ UNCHANGED <<buildVars, gateVars, scn, phase, result, total>>

Gate ==
    /\ \/ \E c \in Callers : CallerStep(c) \/ WorkerStart(c) \/ Release(c)
       \/ \E c \in Callers \ {Focus} : (c <= scn.rivals + 1 /\ Execute(c, TRUE)) \/ WorkerReturn(c, "ok")
       \/ tree.step = "done" /\ WorkerReturn(Focus, "ok")
       \/ scn.faults /\ WorkerReturn(Focus, "Panicked")
    /\ UNCHANGED <<buildVars, stageVars, requestVars>>

(***************************************************************************)
(* The document.                                                           *)
(***************************************************************************)

DocumentImports ==
    scn.others \cup
        {[id |-> 0, pkg |-> scn.pkg, loading |-> FALSE, result |-> result, mods |-> {1},
          alias |-> resolves_to_first_party_source(scn.configs, scn.nearest, MaxAliasConfigs)]}

Entries(runtime) ==
    {im \in DocumentImports : Arm(im) = "entry" /\ im.pkg.runtime = runtime}

\* compute_file_size_with: the loop over the imports, then one group of them
\* after the other.
SumImports ==
    /\ phase = "measured"
    /\ scn.document
    /\ total' = FirstLoop(DocumentImports)
    /\ phase' = "Component"
    /\ UNCHANGED <<buildVars, stageVars, gateVars, scn, result, moments>>

SumGroup ==
    /\ phase \in {"Component", "Server"}
    /\ total' = IF Entries(phase) = {} THEN total
                ELSE GroupTotals(total, Entries(phase), scn.combined[phase])
    /\ phase' = IF phase = "Component" THEN "Server" ELSE "settle"
    /\ UNCHANGED <<buildVars, stageVars, gateVars, scn, result, moments>>

SumSettles ==
    /\ phase = "settle"
    /\ total' = Settle(total, Entries("Component") \cup Entries("Server"))
    /\ phase' = "summed"
    /\ UNCHANGED <<buildVars, stageVars, gateVars, scn, result, moments>>

SumDocument == SumImports \/ SumGroup \/ SumSettles

Init ==
    \E s \in Scenarios :
      /\ scn = s
      /\ phase = "resolve"
      /\ result = NoResult
      /\ total = NoTotal
      /\ moments = {}
      /\ BuildInit(s.graph)
      /\ StageInit(s.disk)
      /\ GateInit

Next ==
    \/ Resolve \/ Build \/ EngineFails \/ AfterBuild \/ AfterAssets \/ AssetWork \/ Gate
    \/ SumDocument

\* The analysis thread runs, the build's tasks run and the clock does; nothing
\* is assumed of the asset job or of the pool.
Fairness ==
    /\ WF_vars(Resolve \/ Build \/ AfterBuild \/ AfterAssets \/ SumDocument)
    /\ \A c \in Callers : WF_vars(CallerStep(c) /\ UNCHANGED <<buildVars, stageVars, requestVars>>)

Spec == Init /\ [][Next]_vars /\ Fairness

(***************************************************************************)
(* Properties.                                                             *)
(***************************************************************************)

\* The request and its rivals at the gate are answered, though an asset job may
\* hang for good (analyze.rs, asset_boundary.rs).
RequestsEnd == <>(result # NoResult) /\ CallersAnswered

\* The entry that is measured is the one the manifest declares when it declares
\* any, never a stray index.js; and an entry remembered from an earlier run is
\* read as the same module format as one resolved now (resolver.rs).
EntryAgrees ==
    phase = "resolve" =>
        \A a \in resolve_package_entry(scn.pkg) :
          a.ok => /\ a.entry \in scn.pkg.files
                  /\ ~scn.pkg.sub /\ scn.pkg.exports = "none" /\ DeclaredTargets(scn.pkg) # {}
                       => a.entry \in DeclaredTargets(scn.pkg)
                  /\ resolved_from_cache_identity(scn.pkg, a.entry) = a

\* Every byte the import ships, read off the world alone: the modules that are
\* used, and the files its stylesheets reach, each file once.
Shipped ==
    LET used == {m \in DOMAIN graph : ~graph[m].barrel /\ graph[m].class # "probe"}
        code == {m \in used : graph[m].class = "js"}
        roots == {graph[m].file : m \in used \ code}
        next(files) == files \cup UNION {Range(disk[f].imports) \cup disk[f].refs :
                                           f \in {g \in files : g \in DOMAIN disk}}
        reach[n \in 0 .. 3] == IF n = 0 THEN roots ELSE next(reach[n - 1])
        shipped == {f \in reach[3] : f \in DOMAIN disk => disk[f].kind # "remote"}
    IN  SumOver(Actuals(graph), code)
          + SumOver([f \in shipped |-> IF f \in DOMAIN disk THEN disk[f].actual ELSE 1], shipped)

\* A measured size that says neither that bytes are missing nor that it reads
\* high is exactly what the import ships, whichever of the retries it took and
\* however the reads fell (FR-018a; engine/adapter.rs, assets.rs).
MeasuredIsHonest ==
    /\ Done
    /\ built # Building
    /\ result.size # NoSize
    /\ result.stages \cap (marks_a_floor \cup {"imprecise_assets", "asset_io"}) = {}
    => result.size = Shipped

\* What the build looked for and could not read, for any reason but that it is
\* not there: an asset, or a module of JavaScript.
Unreadable(m) == graph[m].io \in {"unreadable", "lost"}
UnreadableAsset ==
    \E m \in DOMAIN graph :
      /\ graph[m].class # "js" /\ Unreadable(m)
      /\ st[m] = "failed" \/ (graph[m].class = "probe" /\ st[m] = "done")
UnreadableModule ==
    \E m \in DOMAIN graph : graph[m].class = "js" /\ Unreadable(m) /\ st[m] = "failed"

\* All that happened to this request and says nothing of the package.
Passing ==
    moments \cup (IF UnreadableAsset THEN {"asset"} ELSE {})
            \cup (IF UnreadableModule THEN {"module"} ELSE {})

\* What the code does store of it: a module of JavaScript that could not be
\* read is a "resolve" failure, and a manifest that could not be read is a
\* "package_manifest" one, both of them durable stages.
TakenForFacts ==
    (IF "resolve" \in result.stages THEN {"module"} ELSE {})
        \cup (IF "package_manifest" \in result.stages THEN {"manifest"} ELSE {})

\* What happened to this request and says nothing of the package (an engine, a
\* compressor or an asset job that failed, a stat or a read that did) is in no
\* result that a store keeps.  Two IO conditions are the exception, against
\* stage.rs:9-15: those of TakenForFacts.  A resource limit that was met is a
\* fact, whatever else went wrong, and so is a chunk that cannot be minified.
\* Of a document's total that a store keeps, what its combined builds met is no
\* passing failure either; it is made of the imports' facts, the two exceptions
\* included (stage.rs; protocol.rs, is_durable; file_size.rs,
\* may_enter_aggregate_cache).
NothingTransientStored ==
    /\ Done =>
         \/ ~is_durable(result)
         \/ result.stages \cap {"module_graph_limit", "minify"} # {}
         \/ Passing \ TakenForFacts \subseteq (IF budget.limit THEN {"compressor"} ELSE {})
    /\ phase = "summed" /\ may_enter_aggregate_cache(total) =>
         \A r \in {q \in {"Component", "Server"} : Entries(q) # {}} :
           ({scn.combined[r].failed} \cup scn.combined[r].stages)
             \cap TRANSIENT_ANALYSIS_STAGES = {}

\* The imports a total may pass over for a zero although they ship code: a
\* subpath of a package that is a binary and nothing else, and an import whose
\* stored result says types-only or binary-only of a package that was replaced
\* since and does not resolve.
Excused ==
    {im \in DocumentImports : im.pkg.sub /\ native_binary_only_package_result(im.pkg)}
        \cup {im \in scn.others : StaleVerdict(im)}

\* A document's number that passes for its File Cost is its File Cost, but for
\* the excused imports, which it passes over
\* (file_size.rs, compute_file_size_with and is_file_cost).
TotalIsHonest == phase = "summed" => HonestTotal(DocumentImports, Excused, total)
=============================================================================
