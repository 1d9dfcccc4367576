----------------------------- MODULE AssetStage -----------------------------
(***************************************************************************)
(* What runs behind the asset gate: the stylesheets, fonts and wasm files  *)
(* a build collected are bundled, compressed and summed                    *)
(* (pipeline/assets.rs, css_dependencies.rs, css_import_cycles.rs) under   *)
(* one read ledger (pipeline/asset_budget.rs).  Lightning CSS reads an     *)
(* @import tree on several threads, so the reads of one tree interleave.   *)
(*                                                                         *)
(* disk is a function from files to                                        *)
(*   kind     "css", "font" (any counted binary), "image", "remote" or     *)
(*            "garbled" (a url() that names no file)                       *)
(*   stat, actual   the length when it is statted, and when it is read     *)
(*   io       "ok", "absent", "unreadable", "flaky" (unreadable when the   *)
(*            moment is wrong) or "lost" (unreadable after the stat)       *)
(*   parses   Lightning CSS accepts it                                     *)
(*   imports  the sheets it @imports, in source order                      *)
(*   refs     the files its url()s name                                    *)
(* File 0 is the synthetic entry that @imports every collected sheet.      *)
(***************************************************************************)
EXTENDS GraphBuild

CONSTANTS
    MaxSheetFiles,   \* MAX_STYLESHEET_FILES
    MaxSheetBytes,   \* MAX_STYLESHEET_BYTES
    MaxCssReads,     \* MAX_CSS_WORK_READS
    MaxCssBytes      \* MAX_CSS_WORK_BYTES

ASSUME StageLimits ==
    MaxSheetFiles \in Nat /\ MaxSheetBytes \in Nat /\ MaxCssReads \in Nat /\ MaxCssBytes \in Nat

VARIABLES
    disk,     \* the files an asset's processing can reach
    budget,   \* AssetProcessingContext
    tree,     \* the attempt under way: its TrackingProvider and bundle_with's locals
    out       \* ProcessedAssets

stageVars == <<disk, budget, tree, out>>

NoError == "none"

\* The assets the build collected, in the order of their paths.
direct == SetToSortSeq({graph[m].file : m \in built.assets}, <)

Sheets == SelectSeq(direct, LAMBDA f : disk[f].kind = "css")

(***************************************************************************)
(* The read ledger.                                                        *)
(***************************************************************************)

\* AssetProcessingContext::new: the graph's own limits are checked at once.
NewContext ==
    LET files == ledger.loaded \cup Range(direct)
    IN  [unique |-> [f \in files |-> 0],    \* unique_files
         graph |-> files,                   \* graph_files
         input |-> built.graph_source_bytes,  \* input_bytes
         reads |-> 0, work |-> 0,           \* css_work_reads, css_work_bytes
         snapshots |-> Range(direct),
         obs |-> {},                        \* the failed reads, with why
         limit |-> Cardinality(files) > MaxModules \/ built.graph_source_bytes > MaxGraphBytes,
         timedOut |-> FALSE]

Limit(b) == [b EXCEPT !.limit = TRUE]

\* check_available: a breach comes before the deadline, and stays.
check_available(b, late) == ~b.limit /\ ~late
Checked(b, late) == [b EXCEPT !.timedOut = @ \/ (late /\ ~b.limit)]

failure(b) ==
    CASE b.limit -> "module_graph_limit"
      [] ~b.limit /\ b.timedOut -> "timeout"
      [] OTHER -> NoError

record_failed_path(b, f, io) == [b EXCEPT !.obs = @ \cup {<<f, io>>}]

charge_css_work(b, bytes) ==
    IF b.reads + 1 > MaxCssReads \/ b.work + bytes > MaxCssBytes THEN Limit(b)
    ELSE [b EXCEPT !.reads = @ + 1, !.work = @ + bytes]

reserve_unique(b, f, bytes) ==
    IF bytes > MaxModuleBytes THEN Limit(b)
    ELSE IF Has(b.unique, f) THEN b
    ELSE IF Cardinality(DOMAIN b.unique) + 1 > MaxModules \/ b.input + bytes > MaxGraphBytes
    THEN Limit(b)
    ELSE [b EXCEPT !.unique = With(@, f, bytes), !.input = @ + bytes]

begin_css_read(b, f) ==
    LET charged == charge_css_work(b, disk[f].stat)
    IN  IF charged.limit THEN charged ELSE reserve_unique(charged, f, disk[f].stat)

\* The input is charged again in full.
ChargesAgain(b, f, reserved) ==
    LET worked == [b EXCEPT !.work = @ - reserved
                                + (IF disk[f].kind = "css" THEN disk[f].actual ELSE 0)]
    IN  IF worked.work > MaxCssBytes THEN Limit(b)
        ELSE IF disk[f].actual > MaxModuleBytes \/ b.input + disk[f].actual > MaxGraphBytes
        THEN Limit(worked)
        ELSE [worked EXCEPT !.input = @ + disk[f].actual, !.snapshots = @ \cup {f}]

\* finish_read, with the CSS work that was reserved for it: both accounts move
\* to the length that was read, the input's only ever up.
finish_read(b, f, reserved) ==
    LET actual == disk[f].actual
        work == b.work - reserved + (IF disk[f].kind = "css" THEN actual ELSE 0)
        charge == IF f \in b.graph THEN 0 ELSE b.unique[f]
        more == IF f \in b.graph \/ actual <= charge THEN 0 ELSE actual - charge
        worked == [b EXCEPT !.work = work]
    IN  IF work > MaxCssBytes THEN Limit(b)
        ELSE IF actual > MaxModuleBytes \/ b.input + more > MaxGraphBytes THEN Limit(worked)
        ELSE [worked EXCEPT !.input = @ + more,
                            !.unique[f] = charge + more,
                            !.snapshots = @ \cup {f}]

(***************************************************************************)
(* @import cycles.                                                         *)
(***************************************************************************)

\* One round of Walk::visit, its recursion unrolled onto a stack of sheets and
\* the import each takes next.
VisitStep(walk, imports) ==
    IF walk.stack = << >> THEN walk
    ELSE LET top == Last(walk.stack)
             targets == imports[top.sheet]
             target == targets[top.next]
             onward == [walk EXCEPT !.stack[Len(walk.stack)].next = @ + 1]
         IN  IF top.next > Len(targets)
             THEN [walk EXCEPT !.stack = Front(@), !.finished = @ \cup {top.sheet}]
             ELSE IF \E i \in DOMAIN walk.stack : walk.stack[i].sheet = target
             THEN [onward EXCEPT !.closing = @ \cup {<<top.sheet, target>>}]
             ELSE IF target \in walk.finished THEN onward
             ELSE [onward EXCEPT !.stack = Append(@, [sheet |-> target, next |-> 1])]

\* Only an import of the sheet itself closes a cycle.
SelfImports(imports, entry) == {<<f, f>> : f \in {g \in DOMAIN imports : g \in Range(imports[g])}}

\* closing_edges: the edges a depth-first walk from the entry finds pointing at
\* a sheet still on its stack.  Every round takes an import or leaves a sheet.
closing_edges(imports, entry) ==
    LET rounds == Cardinality(DOMAIN imports)
                    + SumOver([f \in DOMAIN imports |-> Len(imports[f])], DOMAIN imports)
        walk[n \in 0 .. rounds] ==
            IF n = 0 THEN [stack |-> <<[sheet |-> entry, next |-> 1]>>,
                           finished |-> {}, closing |-> {}]
            ELSE VisitStep(walk[n - 1], imports)
    IN  walk[rounds].closing

\* The attempt's import graph: the entry is one sheet, or the synthetic one.
Imports ==
    [f \in {0} \cup {g \in DOMAIN disk : disk[g].kind = "css"} |->
        IF f = 0 THEN tree.entries ELSE disk[f].imports]

Onward(f, cut) == {g \in Range(Imports[f]) : <<f, g>> \notin cut}

\* What Lightning CSS puts into the bundle of an import graph: a sheet on a
\* cycle is never entered, and vanishes.
Inlined(cut) ==
    LET sheets == tree.read
        reach[n \in 0 .. Cardinality(sheets)] ==
            [f \in sheets |-> IF n = 0 THEN Onward(f, cut)
                              ELSE reach[n - 1][f] \cup
                                     UNION {Onward(g, cut) : g \in reach[n - 1][f] \cap sheets}]
    IN  {f \in sheets : f \notin reach[Cardinality(sheets)][f]}

(***************************************************************************)
(* One attempt to bundle.                                                  *)
(***************************************************************************)

\* A new TrackingProvider: the union of the sheets is attempt 0, and a retry
\* bundles sheet number a alone.
AttemptAt(step, a, entries) ==
    [step |-> step, attempt |-> a,
     entries |-> entries, todo |-> Range(entries),
     open |-> {}, read |-> {},
     files |-> 0, bytes |-> 0,              \* ReadBudget
     cut |-> {}, err |-> NoError,
     refs |-> {}, got |-> {}, missing |-> {}, omitted |-> FALSE, external |-> FALSE]
NewAttempt(a) == AttemptAt("reading", a, IF a = 0 THEN Sheets ELSE <<Sheets[a]>>)

\* TrackingProvider::reserve.
Fits(t, bytes) == t.files + 1 <= MaxSheetFiles /\ t.bytes + bytes <= MaxSheetBytes
reserve(t, bytes) == [t EXCEPT !.files = @ + 1, !.bytes = @ + bytes]

\* What a stat of the file may say at this moment.
StatSays(f) ==
    CASE disk[f].io = "flaky" -> {"ok", "unreadable"}
      [] disk[f].io = "lost" -> {"ok"}
      [] OTHER -> {disk[f].io}

ReadFails(f, b) ==
    /\ budget' = b
    /\ tree' = [tree EXCEPT !.todo = @ \ {f}, !.open = @ \ {f}, !.err = "transform"]
    /\ UNCHANGED <<disk, out>>

\* The sheet is read and parsed, and the sheets it imports are to be loaded.
ReadDone(f, b, t) ==
    LET known == t.todo \cup t.open \cup t.read
    IN  /\ budget' = b
        /\ tree' = IF disk[f].parses
                   THEN [t EXCEPT !.todo = (@ \cup (Onward(f, t.cut) \ known)) \ {f},
                                  !.open = @ \ {f}, !.read = @ \cup {f}]
                   ELSE [t EXCEPT !.todo = @ \ {f}, !.open = @ \ {f}, !.err = "transform"]
        /\ UNCHANGED <<disk, out>>

\* TrackingProvider::read up to the read itself.  io is what the stat says; a
\* sheet the build or an earlier attempt has read is not statted again.
BeginRead(f, late, io) ==
    /\ tree.step = "reading"
    /\ f \in tree.todo
    /\ \/ /\ ~check_available(budget, late)
          /\ io = "ok"
          /\ ReadFails(f, Checked(budget, late))
       \/ /\ check_available(budget, late)
          /\ f \in budget.snapshots
          /\ io = "ok"
          /\ LET b == charge_css_work(budget, disk[f].actual)
             IN  IF b.limit \/ ~Fits(tree, disk[f].actual) THEN ReadFails(f, b)
                 ELSE ReadDone(f, b, reserve(tree, disk[f].actual))
       \/ /\ check_available(budget, late)
          /\ f \notin budget.snapshots
          /\ io \in StatSays(f)
          /\ IF io # "ok" THEN ReadFails(f, record_failed_path(budget, f, io))
             ELSE LET b == begin_css_read(budget, f)
                  IN  IF b.limit \/ ~Fits(tree, disk[f].stat) THEN ReadFails(f, b)
                      ELSE /\ budget' = b
                           /\ tree' = [reserve(tree, disk[f].stat) EXCEPT
                                         !.todo = @ \ {f}, !.open = @ \cup {f}]
                           /\ UNCHANGED <<disk, out>>

\* ... and from the read on: reconcile, then finish_css_read.
FinishRead(f, late) ==
    /\ f \in tree.open
    /\ LET t == [tree EXCEPT !.bytes = @ - disk[f].stat + disk[f].actual]
           b == finish_read(budget, f, disk[f].stat)
       IN  IF disk[f].io = "lost" THEN ReadFails(f, record_failed_path(budget, f, "unreadable"))
           ELSE IF t.bytes > MaxSheetBytes THEN ReadFails(f, budget)
           ELSE IF ~check_available(budget, late) THEN ReadFails(f, Checked(budget, late))
           ELSE IF b.limit THEN ReadFails(f, b)
           ELSE ReadDone(f, b, t)

(***************************************************************************)
(* process_stylesheets.                                                    *)
(***************************************************************************)

\* The binary assets, each emitted file once.
Binaries(o) == {f \in Range(direct) : disk[f].kind = "font"} \cup o.fonts

\* No stylesheet counts: every one is disclosed, once.
NoneCounted(o) == [o EXCEPT !.degraded = FALSE, !.uncounted = @ \cup Range(Sheets)]

\* The set is settled, and the binary kinds are next.
SheetsSettled(o) ==
    /\ out' = o
    /\ tree' = [NewAttempt(0) EXCEPT !.step = "binaries", !.todo = Binaries(o)]

\* What follows an attempt: the retry of the next sheet alone, or the outcome.
AfterRetry(o) ==
    IF tree.attempt < Len(Sheets)
    THEN out' = o /\ tree' = NewAttempt(tree.attempt + 1)
    ELSE SheetsSettled(IF o.bundles = << >> THEN NoneCounted(o) ELSE o)

\* A compressor's failure splits the union like any other.
RetriesCompression(err, b) ==
    /\ budget' = b
    /\ LET o == out
       IN  IF failure(b) # NoError
           THEN tree' = [tree EXCEPT !.step = "done"] /\ UNCHANGED out
           ELSE IF tree.attempt > 0
           THEN AfterRetry([o EXCEPT !.uncounted = @ \cup {Sheets[tree.attempt]}])
           ELSE IF Len(Sheets) = 1 THEN SheetsSettled(NoneCounted(o))
           ELSE out' = [o EXCEPT !.degraded = TRUE] /\ tree' = NewAttempt(1)
    /\ UNCHANGED disk

\* A ledger failure is final, and so is a compressor's for the union; a union
\* that cannot be bundled is retried one sheet at a time.
AttemptFails(err, b) ==
    /\ budget' = b
    /\ LET o == [out EXCEPT !.compression = @ \/ err = "compression"]
       IN  IF failure(b) # NoError
           THEN tree' = [tree EXCEPT !.step = "done"] /\ UNCHANGED out
           ELSE IF tree.attempt > 0
           THEN AfterRetry([o EXCEPT !.uncounted = @ \cup {Sheets[tree.attempt]}])
           ELSE IF err = "compression" \/ Len(Sheets) = 1 THEN SheetsSettled(NoneCounted(o))
           ELSE out' = [o EXCEPT !.degraded = TRUE] /\ tree' = NewAttempt(1)
    /\ UNCHANGED disk

AttemptCounts ==
    /\ LET o == [out EXCEPT !.bundles = Append(@, Inlined(tree.cut)),
                            !.fonts = @ \cup tree.got,
                            !.uncounted = @ \cup tree.missing,
                            !.omitted = @ \/ tree.omitted,
                            !.external = @ \/ tree.external]
       IN  IF tree.attempt > 0 THEN AfterRetry(o) ELSE SheetsSettled(o)
    /\ UNCHANGED <<disk, budget>>

\* bundle_with once the bundler returns.  An error ends the attempt whether or
\* not the other reads had their turn; a cyclic tree is walked a second time,
\* its closing edges cut, against a fresh tree budget.
EndReads(late) ==
    /\ tree.step = "reading"
    /\ tree.open = {}
    /\ \/ /\ tree.err # NoError
          /\ AttemptFails("transform", budget)
       \/ /\ tree.err = NoError
          /\ tree.todo = {}
          /\ LET cut == closing_edges(Imports, 0)
                 refs == UNION {disk[f].refs : f \in Inlined(tree.cut)}
             IN  IF ~check_available(budget, late)
                 THEN AttemptFails("transform", Checked(budget, late))
                 ELSE /\ tree' = IF tree.cut = {} /\ cut # {}
                                 THEN [NewAttempt(tree.attempt) EXCEPT !.cut = cut]
                                 ELSE [tree EXCEPT !.step = "refs", !.refs = refs]
                      /\ UNCHANGED <<disk, budget, out>>

\* collect_referenced_assets, one reference: fetched at runtime, no file name,
\* not there, disclosed by size, or read as a counted binary of its own.
CollectOne(f, late, io) ==
    LET t == [tree EXCEPT !.refs = @ \ {f}]
        reserved == reserve_unique(budget, f, disk[f].stat)
        b == IF f \in budget.snapshots \/ reserved.limit THEN reserved
             ELSE finish_read(reserved, f, 0)
    IN
    \/ /\ ~check_available(budget, late)
       /\ io = "ok"
       /\ AttemptFails("transform", Checked(budget, late))
    \/ /\ check_available(budget, late)
       /\ disk[f].kind \in {"remote", "garbled"}
       /\ io = "ok"
       /\ tree' = [t EXCEPT !.external = @ \/ disk[f].kind = "remote",
                            !.omitted = @ \/ disk[f].kind = "garbled"]
       /\ UNCHANGED <<disk, budget, out>>
    \/ /\ check_available(budget, late)
       /\ disk[f].kind \in {"image", "font"}
       /\ io \in StatSays(f)
       /\ \/ /\ io # "ok"
             /\ budget' = record_failed_path(budget, f, io)
             /\ tree' = [t EXCEPT !.missing = @ \cup {f}]
          \/ /\ io = "ok" /\ disk[f].kind = "image"
             /\ tree' = [t EXCEPT !.missing = @ \cup {f}]
             /\ UNCHANGED budget
          \/ /\ io = "ok" /\ disk[f].kind = "font" /\ disk[f].io = "lost"
             /\ budget' = record_failed_path(reserved, f, "unreadable")
             /\ tree' = [t EXCEPT !.missing = @ \cup {f}]
          \/ /\ io = "ok" /\ disk[f].kind = "font" /\ disk[f].io # "lost"
             /\ budget' = b
             /\ tree' = IF b.limit THEN [t EXCEPT !.missing = @ \cup {f}]
                        ELSE [t EXCEPT !.got = @ \cup {f}]
       /\ UNCHANGED <<disk, out>>
CollectReference(late, io) ==
    /\ tree.step = "refs"
    /\ \E f \in tree.refs : (\A g \in tree.refs : f <= g) /\ CollectOne(f, late, io)

\* The last prints, and compress_bundle_with.
CompressBundle(late, ok) ==
    /\ tree.step = "refs"
    /\ tree.refs = {}
    /\ \/ ok /\ ~check_available(budget, late) /\ AttemptFails("transform", Checked(budget, late))
       \/ ok /\ check_available(budget, late) /\ AttemptCounts
       \/ ~ok /\ check_available(budget, late) /\ AttemptFails("compression", budget)

\* process_binary_kind_with, one asset.
CompressBinary(late, ok) ==
    /\ tree.step = "binaries"
    /\ tree.todo # {}
    /\ LET f == CHOOSE g \in tree.todo : \A h \in tree.todo : g <= h
       IN  IF check_available(budget, late)
           THEN /\ out' = IF ok THEN [out EXCEPT !.binaries = @ \cup {f}]
                          ELSE [out EXCEPT !.uncounted = @ \cup {f}, !.compression = TRUE]
                /\ tree' = [tree EXCEPT !.todo = @ \ {f}, !.read = @ \cup {f}]
                /\ UNCHANGED budget
           ELSE /\ ok
                /\ budget' = Checked(budget, late)
                /\ tree' = [tree EXCEPT !.step = "done"]
                /\ UNCHANGED out
    /\ UNCHANGED disk

\* The loop over the binaries ends; each one checks the deadline behind it.
EndBinaries(late) ==
    /\ tree.step = "binaries"
    /\ tree.todo = {}
    /\ budget' = IF tree.read = {} THEN budget ELSE Checked(budget, late)
    /\ tree' = [tree EXCEPT !.step = "done"]
    /\ UNCHANGED <<disk, out>>

(***************************************************************************)
(* process_assets.                                                         *)
(***************************************************************************)

NothingProcessed ==
    [bundles |-> << >>, fonts |-> {}, binaries |-> {}, uncounted |-> {}, degraded |-> FALSE,
     omitted |-> FALSE, external |-> FALSE, compression |-> FALSE]

\* disclose_budget_breach: no asset counts and every one is disclosed.
disclose_budget_breach == [NothingProcessed EXCEPT !.uncounted = Range(direct)]

Bytes(files) == SumOver([f \in DOMAIN disk |-> disk[f].actual], files)

AssetBytes(o) ==
    Bytes(o.binaries) + FoldLeft(LAMBDA sum, bundle : sum + Bytes(bundle), 0, o.bundles)

asset_diagnostics(o, b) ==
    (IF o.uncounted # {} \/ o.omitted THEN {"uncounted_assets"} ELSE {})
        \cup (IF o.degraded THEN {"imprecise_assets"} ELSE {})
        \cup (IF o.external THEN {"external"} ELSE {})
        \cup (IF \E x \in b.obs : x[2] = "unreadable" THEN {"asset_io"} ELSE {})
        \cup (IF o.compression THEN {"compression"} ELSE {})

\* What process_assets returns: only the deadline fails the stage.
process_assets ==
    IF failure(budget) = "timeout" THEN [failed |-> "timeout"]
    ELSE LET o == IF failure(budget) = NoError THEN out ELSE disclose_budget_breach
         IN  [failed |-> NoError, size |-> AssetBytes(o), stages |-> asset_diagnostics(o, budget)]

\* The job starts: a ledger that is over its limits reads nothing.
BeginStage ==
    /\ tree.step = "idle"
    /\ budget' = NewContext
    /\ LET settled == [NewAttempt(0) EXCEPT !.step = "binaries",
                                            !.todo = Binaries(NothingProcessed)]
       IN  tree' = IF budget'.limit THEN [tree EXCEPT !.step = "done"]
                   ELSE IF Sheets = << >> THEN settled
                   ELSE NewAttempt(0)
    /\ UNCHANGED <<disk, out>>

StageInit(d) ==
    /\ disk = d
    /\ budget = [unique |-> << >>, graph |-> {}, input |-> 0, reads |-> 0, work |-> 0,
                 snapshots |-> {}, obs |-> {}, limit |-> FALSE, timedOut |-> FALSE]
    /\ tree = AttemptAt("idle", 0, << >>)
    /\ out = NothingProcessed

(***************************************************************************)
(* Properties.                                                             *)
(***************************************************************************)

\* The ledger holds each file outside the module graph once, at the largest
\* length it was seen to have, over every attempt and every interleaving of the
\* reads; and until a breach is recorded neither account is over its limit
\* (asset_budget.rs, reserve_unique and finish_read).
Own(b) == DOMAIN b.unique \ b.graph
Largest(b) ==
    [f \in DOMAIN disk |->
        IF f \in b.snapshots /\ disk[f].actual > disk[f].stat THEN disk[f].actual ELSE disk[f].stat]
BudgetExact ==
    tree.step # "idle" =>
        /\ budget.input = built.graph_source_bytes + SumOver(Largest(budget), Own(budget))
        /\ ~budget.limit => /\ budget.input <= MaxGraphBytes
                            /\ budget.work <= MaxCssBytes
                            /\ budget.reads <= MaxCssReads
=============================================================================
