------------------------------ MODULE FileSize ------------------------------
(***************************************************************************)
(* A document's File Cost (pipeline/file_size.rs), what a result's stages  *)
(* let a store keep (pipeline/stage.rs, ipc/protocol.rs), and the result   *)
(* an import's own build gives (pipeline/analyze.rs).                      *)
(*                                                                         *)
(* A result is [size, stages]: NoSize when it is Unmeasured, and the set   *)
(* of its unmeasured stage and the stages of its diagnostics.  The five    *)
(* sizes are one number.                                                   *)
(*                                                                         *)
(* An import of a document is                                              *)
(*   pkg      its package, as in Resolution                                *)
(*   alias    the specifier maps to first-party source                     *)
(*   loading  its own build has not landed yet                             *)
(*   result   its result when it has                                       *)
(*   mods     the modules it pulls in; module m weighs m bytes             *)
(*                                                                         *)
(* The combined build of one runtime's imports has an outcome              *)
(*   failed   None, or the stage at which the build, the minifier, the     *)
(*            compressor or the asset stage gave up                        *)
(*   stages   the stages disclosed beside what was built                   *)
(*   short    bytes that ship and are in no size                           *)
(*   reusable every input's fingerprint can be checked again               *)
(***************************************************************************)
EXTENDS Resolution, Sums

(***************************************************************************)
(* Stages.                                                                 *)
(***************************************************************************)

TRANSIENT_ANALYSIS_STAGES ==
    {"panic", "timeout", "engine_gone", "asset_io", "entry_metadata", "compression"}

DURABLE_RESULT_STAGES ==
    {"resolve", "parse", "link", "generate", "output_shape", "module_graph_limit",
     "missing_export", "ambiguous_export", "external", "uncounted_assets", "imprecise_assets",
     "package_validation", "package_resolution", "package_manifest", "entry_resolution",
     "no_root_entry", "oversized_entry", "minify", "types_only", "native_binary_only",
     "native_binary"}

marks_a_floor == {"uncounted_assets", "resolve", "missing_export"}

\* ImportResult::is_durable, the gate of every store that outlives the request.
is_durable(result) == result.stages \subseteq DURABLE_RESULT_STAGES

is_floor(result) == result.stages \cap marks_a_floor # {}
is_types_only(result) == result.size # NoSize /\ "types_only" \in result.stages
is_native_binary_only(result) == result.size # NoSize /\ "native_binary_only" \in result.stages

(***************************************************************************)
(* The imports of a document.                                              *)
(***************************************************************************)

\* file_size_document_response over resolve_installed_package_version: a
\* manifest that can be read is an installed package, of version "unknown" when
\* it does not parse or names none.  Any other import is a path alias on
\* positive evidence, and otherwise not installed.
SizedPackage(im) ==
    IF find_package_root(im.pkg) /\ im.pkg.manifest # "unreadable" THEN "Installed"
    ELSE IF im.alias THEN "PathAlias"
    ELSE "NotInstalled"

Resolves(im) == \A a \in resolve_package_entry(im.pkg) : a.ok

\* The arm of compute_file_size_with's first loop an import takes.
Arm(im) ==
    IF SizedPackage(im) # "Installed" THEN SizedPackage(im)
    ELSE IF Resolves(im) THEN "entry"
    ELSE IF ~im.loading /\ is_types_only(im.result) THEN "types_only"
    ELSE IF ~im.loading /\ is_native_binary_only(im.result) THEN "native_binary_only"
    ELSE "unresolved"

ArmStage(arm) ==
    CASE arm = "NotInstalled" -> {"package_resolution"}
      [] arm = "PathAlias" -> {"path_alias"}
      [] arm = "types_only" -> {"types_only"}
      [] arm = "native_binary_only" -> {"native_binary_only"}
      [] arm = "unresolved" -> {"entry_resolution"}
      [] OTHER -> {}

Weight(mods) == SumOver([m \in mods |-> m], mods)

\* A verdict that there is no code is one the package as it is now is answered
\* with.
OwnResult(pkg, result) ==
    is_types_only(result) \/ is_native_binary_only(result) =>
        \E a \in resolve_package_entry(pkg) :
          ~a.ok /\ result = unresolved_import_result(pkg, a.message)

\* The import's result was stored when its package was another one.
StaleVerdict(im) == ~im.loading /\ ~OwnResult(im.pkg, im.result)

(***************************************************************************)
(* The totals.                                                             *)
(***************************************************************************)

\* per_import_totals: the measurements a group's imports already have, and
\* whether any of them is missing or is itself a floor.
per_import_totals(sized) ==
    LET landed == {im \in sized : ~im.loading}
        measured == {im \in landed : im.result.size # NoSize}
        stage(im) == IF im.loading THEN {"file_size_fallback"}
                     ELSE IF im.result.size = NoSize THEN im.result.stages
                     ELSE im.result.stages \cap marks_a_floor
    IN  [sized_any |-> measured # {},
         missing_inputs |-> measured # sized \/ \E im \in measured : is_floor(im.result),
         size |-> SumOver([im \in measured |-> im.result.size], measured),
         stages |-> UNION {stage(im) : im \in sized}]

\* The first loop: every import that is not built is settled here.
FirstLoop(imports) ==
    [size |-> 0, degraded |-> FALSE, reusable |-> TRUE, any_sized |-> FALSE, error |-> FALSE,
     incomplete |-> \E im \in imports : Arm(im) \in {"NotInstalled", "unresolved"},
     stages |-> UNION {ArmStage(Arm(im)) : im \in imports}]

\* absorb_fallback: the flag travels with the bytes.
absorb_fallback(totals, fallback) ==
    [totals EXCEPT !.incomplete = @ \/ fallback.missing_inputs,
                   !.size = @ + fallback.size,
                   !.any_sized = @ \/ fallback.sized_any,
                   !.stages = @ \cup fallback.stages]

\* A combined build that worked: the bytes of its modules, each once.
AddBuilt(totals, sized, outcome) ==
    [totals EXCEPT
        !.size = @ + Weight(UNION {im.mods : im \in sized}) - outcome.short,
        !.incomplete = @ \/ outcome.stages \cap marks_a_floor # {},
        !.reusable = @ /\ outcome.reusable,
        !.any_sized = TRUE,
        !.stages = @ \cup outcome.stages]

\* A deterministic failure's sum is taken for the file's own number.
DegradesTransiently(totals, sized, outcome) ==
    IF outcome.failed = None THEN AddBuilt(totals, sized, outcome)
    ELSE absorb_fallback([totals EXCEPT
                            !.degraded = @ \/ outcome.failed \in TRANSIENT_ANALYSIS_STAGES,
                            !.stages = @ \cup outcome.stages \cup {outcome.failed}],
                         per_import_totals(sized))

\* One runtime group: its combined build's bytes, or the conservative sum when
\* any step of it failed.
GroupTotals(totals, sized, outcome) ==
    IF outcome.failed = None THEN AddBuilt(totals, sized, outcome)
    ELSE absorb_fallback([totals EXCEPT !.degraded = TRUE,
                                        !.stages = @ \cup outcome.stages \cup {outcome.failed}],
                         per_import_totals(sized))

\* The end: something was to be sized, and nothing was.
Settle(totals, entries) ==
    IF entries = {} \/ totals.any_sized THEN totals
    ELSE [totals EXCEPT !.error = TRUE, !.stages = @ \cup {"file_size_fallback"}]

\* is_file_cost: the rule every durable record and verdict applies.
is_file_cost(t) ==
    /\ ~t.error /\ ~t.incomplete /\ ~t.degraded /\ t.reusable
    /\ t.stages \cap TRANSIENT_ANALYSIS_STAGES = {}

\* may_enter_aggregate_cache: a File Cost, or a floor that is a fact.
may_enter_aggregate_cache(t) ==
    \/ is_file_cost(t)
    \/ /\ ~t.error /\ ~t.degraded /\ t.reusable
       /\ t.stages \subseteq DURABLE_RESULT_STAGES

(***************************************************************************)
(* What a document really ships.                                           *)
(***************************************************************************)

\* An installed package that ships code and is not built is a gap.  One with
\* no JavaScript at all, or with no entry of any kind beside its binary, is a
\* zero, and first-party source is not counted.
ShipsNothing(im) ==
    \/ im.alias /\ SizedPackage(im) # "Installed"
    \/ /\ SizedPackage(im) = "Installed"
       /\ \/ im.pkg.decl /\ im.pkg.files = {}
          \/ im.pkg.native /\ ~im.pkg.sub /\ manifest_declares_no_js_entry(im.pkg)
               /\ "index.js" \notin im.pkg.files

\* A number that passes for the file's cost is the file's cost: every import
\* that ships code was built, but for the excused ones, the modules of one
\* runtime were counted once and nothing is missing from them, whatever failed
\* on the way (file_size.rs, is_file_cost).
HonestTotal(imports, excused, t) ==
    is_file_cost(t) =>
        /\ \A im \in imports \ excused : ShipsNothing(im) \/ Resolves(im)
        /\ t.size = LET built(r) == {im \in imports :
                                       Arm(im) = "entry" /\ im.pkg.runtime = r}
                    IN  Weight(UNION {im.mods : im \in built("Component")})
                          + Weight(UNION {im.mods : im \in built("Server")})
=============================================================================
