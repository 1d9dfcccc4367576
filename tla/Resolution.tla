----------------------------- MODULE Resolution -----------------------------
(***************************************************************************)
(* How an import's package becomes the file that is measured               *)
(* (pipeline/resolver.rs), what an import whose package does not resolve   *)
(* is answered (pipeline/analyze.rs, types_only.rs, native_binary.rs), and *)
(* how an uninstalled specifier is told from a path alias.                 *)
(*                                                                         *)
(* A package is a record:                                                  *)
(*   safe      the name passes validate_package_name                       *)
(*   manifest  "absent" "unreadable" "unparsable" "noversion" "ok"         *)
(*   sub       the specifier names a subpath                               *)
(*   exports   "none", "root" (a "." entry) or "subpaths" (only "./sub"),  *)
(*             with the condition cond and the file target it maps to      *)
(*   browser, module, main   the file each field names, or None            *)
(*   files     the JavaScript files that exist                             *)
(*   ext       the extension of every one of them except "index.js"        *)
(*   type      the manifest's "type", or None                              *)
(*   runtime   the ImportRuntime of the request                            *)
(*   decl, huge, native   ships declarations; more files than the scan     *)
(*             reads; lists a platform binary in optionalDependencies      *)
(***************************************************************************)
EXTENDS Integers, Sequences, SequencesExt, FiniteSets

None == "none"

(***************************************************************************)
(* The manifest.                                                           *)
(***************************************************************************)

\* find_package_root: the walk up the tree finds a manifest or it does not.
find_package_root(p) == p.safe /\ p.manifest # "absent"

\* The error find_package_manifest gives, or None.
ManifestError(p) ==
    IF ~find_package_root(p) THEN "package manifest not found"
    ELSE IF p.manifest \in {"unreadable", "unparsable", "noversion"} THEN "bad manifest"
    ELSE None

\* profile_entry_fields: the entry fields of a runtime, in preference order.
profile_entry_fields(runtime) ==
    IF runtime = "Server" THEN <<"module", "main">> ELSE <<"browser", "module", "main">>

\* The file the i-th of those fields names, and the fields that name one.
Target(p, i) == p[profile_entry_fields(p.runtime)[i]]
Declared(p) == {i \in DOMAIN profile_entry_fields(p.runtime) : Target(p, i) # None}
FirstOf(S) == CHOOSE i \in S : \A j \in S : i <= j

\* The targets the manifest declares for the runtime.
DeclaredTargets(p) == {Target(p, i) : i \in Declared(p)}

manifest_declares_no_js_entry(p) ==
    p.main = None /\ p.module = None /\ p.browser = None /\ p.exports = "none"

(***************************************************************************)
(* Which module format the entry is read as.                               *)
(***************************************************************************)

Extension(p, entry) == IF entry = "index.js" THEN "js" ELSE p.ext

entry_matches_exports_condition(p, entry, conditions) ==
    p.exports # "none" /\ p.cond \in conditions /\ p.target = entry /\ entry \in p.files

resolved_entry_is_commonjs(p, entry, resolver_is_cjs) ==
    LET extension == Extension(p, entry)
    IN  IF extension = None THEN resolver_is_cjs
        ELSE IF extension \in {"cjs", "cts"} THEN TRUE
        ELSE IF extension \in {"mjs", "mts", "ts", "tsx", "jsx", "json"} THEN FALSE
        ELSE IF entry \in {p.module, p.browser} THEN FALSE
        ELSE IF entry_matches_exports_condition(p, entry, {"browser", "import"}) THEN FALSE
        ELSE IF entry_matches_exports_condition(p, entry, {"require"}) THEN TRUE
        ELSE IF p.type = "module" THEN FALSE
        ELSE IF p.type = "commonjs" THEN TRUE
        ELSE resolver_is_cjs \/ entry = p.main \/ extension = "js"

(***************************************************************************)
(* The entry.                                                              *)
(***************************************************************************)

Resolved(entry, is_cjs) == [ok |-> TRUE, entry |-> entry, is_cjs |-> is_cjs]
Unresolved(message) == [ok |-> FALSE, message |-> message]

\* resolve_file_candidate and the format it is then classified as.
Candidate(p, target) ==
    IF target \in p.files
    THEN Resolved(target, resolved_entry_is_commonjs(p, target, FALSE))
    ELSE Unresolved("package entry not found")

\* The conditions resolve_options gives a runtime's resolver.
condition_names(runtime) ==
    {"module", "import", "default"}
        \cup (IF runtime = "Server" THEN {"node", "server"} ELSE {"browser"})

\* oxc_resolver, as resolve_with_oxc configures it: an exports map is the only
\* way in when there is one; without it, the first main field that names a
\* file, then index.js.  None when it answers with an error.
OxcEntry(p) ==
    LET found == {i \in Declared(p) : Target(p, i) \in p.files}
        mapped == p.cond \in condition_names(p.runtime) /\ p.target \in p.files
    IN  IF p.exports # "none"
        THEN IF mapped /\ (p.sub <=> p.exports = "subpaths") THEN p.target ELSE None
        ELSE IF p.sub THEN IF "sub.js" \in p.files THEN "sub.js" ELSE None
        ELSE IF found # {} THEN Target(p, FirstOf(found))
        ELSE IF "index.js" \in p.files THEN "index.js" ELSE None

\* What it may say of the format of a file with this extension: the package's
\* type decides, and without one a .js file is a matter of its version.
OxcFormats(p, entry) ==
    IF Extension(p, entry) = "cjs" THEN {TRUE}
    ELSE IF Extension(p, entry) # "js" THEN {FALSE}
    ELSE IF p.type # None THEN {p.type = "commonjs"}
    ELSE BOOLEAN

\* resolve_module_path over resolve_with_oxc: every answer it may give.
resolve_with_oxc(p) ==
    IF OxcEntry(p) = None THEN {Unresolved("oxc")}
    ELSE {Resolved(OxcEntry(p), cjs) : cjs \in OxcFormats(p, OxcEntry(p))}

\* What the resolver found is taken as it is.
NoValidation(p) == TRUE

\* validate_declared_entry_resolution: a manifest that names entries must have
\* one of them on disk, or a stray index.js would be measured in their place.
validate_declared_entry_resolution(p) ==
    \/ p.exports # "none"
    \/ DeclaredTargets(p) = {}
    \/ DeclaredTargets(p) \cap p.files # {}

resolve_legacy_fallback(p) ==
    IF p.exports # "none" /\ p.sub THEN Unresolved("subpath not exported")
    ELSE IF p.exports # "none" /\ p.main # None THEN Candidate(p, p.main)
    ELSE IF p.exports = "subpaths" THEN Unresolved("no importable root entry")
    ELSE IF p.exports = "root" THEN Unresolved("oxc")
    ELSE IF p.sub THEN Candidate(p, "sub.js")
    ELSE IF Declared(p) # {} THEN Candidate(p, Target(p, FirstOf(Declared(p))))
    ELSE IF "index.js" \in p.files THEN Candidate(p, "index.js")
    ELSE IF manifest_declares_no_js_entry(p) THEN Unresolved("no importable root entry")
    ELSE Unresolved("package entry not found")

\* resolve_package_entry: every answer it may give for the package.
resolve_package_entry(p) ==
    IF ~p.safe THEN {Unresolved("unsafe package name")}
    ELSE IF ManifestError(p) # None THEN {Unresolved(ManifestError(p))}
    ELSE {IF ~answer.ok THEN resolve_legacy_fallback(p)
          ELSE IF ~p.sub /\ ~validate_declared_entry_resolution(p)
          THEN Unresolved("package entry not found")
          ELSE Resolved(answer.entry,
                        resolved_entry_is_commonjs(p, answer.entry, answer.is_cjs)) :
          answer \in resolve_with_oxc(p)}

\* resolved_from_cache_identity: the format of an entry an earlier run
\* resolved, from the manifest alone.
resolved_from_cache_identity(p, entry) ==
    Resolved(entry, resolved_entry_is_commonjs(p, entry, FALSE))

(***************************************************************************)
(* The answer for a package that does not resolve.                         *)
(***************************************************************************)

\* scan_declaration_only_package: declarations and no runtime file, in a scan
\* that saw everything.
is_declaration_only(p) == p.decl /\ p.files = {} /\ ~p.huge

declaration_only_package_result(p) == find_package_root(p) /\ is_declaration_only(p)

native_binary_only_package_result(p) ==
    /\ find_package_root(p)
    /\ p.manifest \notin {"unreadable", "unparsable"}
    /\ p.native
    /\ manifest_declares_no_js_entry(p)

\* The stage unresolved_import_result reads out of the resolver's message.
UnresolvedStage(message) ==
    CASE message = "unsafe package name" -> "package_validation"
      [] message = "package manifest not found" -> "package_resolution"
      [] message = "bad manifest" -> "package_manifest"
      [] message = "no importable root entry" -> "no_root_entry"
      [] OTHER -> "entry_resolution"

NoSize == -1

unresolved_import_result(p, message) ==
    LET stage == UnresolvedStage(message)
        entryless == stage \in {"entry_resolution", "no_root_entry"}
    IN  IF entryless /\ declaration_only_package_result(p)
        THEN [size |-> 0, stages |-> {"types_only"}]
        ELSE IF entryless /\ native_binary_only_package_result(p)
        THEN [size |-> 0, stages |-> {"native_binary_only"}]
        ELSE [size |-> NoSize, stages |-> {stage}]

(***************************************************************************)
(* Path aliases.  A workspace's alias configs are a function from a config *)
(* to [good, refs, hit]: it can be read and parsed, the configs its        *)
(* references name in order, and the specifier maps through its table to a *)
(* file that exists outside node_modules.  0 is "no config found".         *)
(***************************************************************************)

\* referenced_alias_configs: an unreadable config names nothing, and a
\* reference to a config that is not there is dropped on its own.
referenced_alias_configs(configs, c) ==
    IF configs[c].good THEN SelectSeq(configs[c].refs, LAMBDA r : r \in DOMAIN configs)
    ELSE << >>

\* One round of the walk's outer loop: the next config's references that are
\* new join the list, up to the cap.
WalkOne(configs, walk, cap) ==
    LET Join(list, r) == IF r \in Range(list) \/ Len(list) >= cap THEN list ELSE Append(list, r)
    IN  [found |-> FoldLeft(Join, walk.found,
                            referenced_alias_configs(configs, walk.found[walk.next])),
         next |-> walk.next + 1]

reachable_alias_configs(configs, first, cap) ==
    LET walk[n \in 0 .. cap] ==
            IF n = 0 THEN [found |-> <<first>>, next |-> 1]
            ELSE LET prior == walk[n - 1]
                 IN  IF prior.next <= Len(prior.found) /\ Len(prior.found) < cap
                     THEN WalkOne(configs, prior, cap) ELSE prior
    IN  walk[cap].found

\* resolves_to_first_party_source: one hit from any reachable table.
resolves_to_first_party_source(configs, first, cap) ==
    /\ first # 0
    /\ \E c \in Range(reachable_alias_configs(configs, first, cap)) : configs[c].hit
=============================================================================
