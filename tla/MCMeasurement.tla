--------------------------- MODULE MCMeasurement ---------------------------
(***************************************************************************)
(* The worlds Measurement is checked in: four families, each varying what  *)
(* one part of the pipeline looks at.                                      *)
(***************************************************************************)
EXTENDS Measurement, TLC

(***************************************************************************)
(* Parts.                                                                  *)
(***************************************************************************)

Plain ==
    [safe |-> TRUE, manifest |-> "ok", sub |-> FALSE, exports |-> "none", cond |-> "import",
     target |-> "a.js", browser |-> None, module |-> None, main |-> "a.js",
     files |-> {"a.js"}, ext |-> "js", type |-> None, runtime |-> "Component",
     decl |-> FALSE, huge |-> FALSE, native |-> FALSE]

Module(file, class, bytes) ==
    [file |-> file, class |-> class, stat |-> bytes, actual |-> bytes, io |-> "ok",
     fault |-> NoFault, barrel |-> FALSE, parent |-> 0]

Entry == Module(1, "js", 1)

File(kind, bytes) ==
    [kind |-> kind, stat |-> bytes, actual |-> bytes, io |-> "ok", parses |-> TRUE,
     imports |-> << >>, refs |-> {}]

Built(failed, stages, short, reusable) ==
    [failed |-> failed, stages |-> stages, short |-> short, reusable |-> reusable]

Fine == Built(None, {}, 0, TRUE)

World ==
    [pkg |-> Plain, configs |-> <<[good |-> TRUE, refs |-> << >>, hit |-> FALSE]>>,
     nearest |-> 0, entry |-> "ok", engine |-> {}, graph |-> <<Entry>>, disk |-> << >>, tail |-> "ok",
     compare |-> "ok", faults |-> FALSE, pool |-> TRUE, rivals |-> 0, document |-> FALSE, others |-> {},
     combined |-> [Component |-> Fine, Server |-> Fine]]

(***************************************************************************)
(* Packages.                                                               *)
(***************************************************************************)

Manifests ==
    {[Plain EXCEPT !.safe = s, !.manifest = m] :
        s \in BOOLEAN, m \in {"absent", "unreadable", "unparsable", "noversion", "ok"}}

Fields ==
    {[Plain EXCEPT !.main = main, !.module = module, !.browser = browser, !.files = files,
                   !.runtime = r, !.sub = sub, !.type = t, !.ext = e] :
        main \in {None, "a.js"}, module \in {None, "b.js"}, browser \in {None, "b.js"},
        files \in {{}, {"a.js"}, {"b.js"}, {"a.js", "b.js"}, {"index.js"}, {"b.js", "sub.js"}},
        r \in {"Component", "Server"}, sub \in BOOLEAN,
        t \in {None, "module", "commonjs"}, e \in {"js", "cjs", "mjs"}}

Exports ==
    {[Plain EXCEPT !.exports = x, !.cond = c, !.target = t, !.main = main, !.files = files,
                   !.runtime = r, !.sub = sub] :
        x \in {"root", "subpaths"}, c \in {"import", "browser", "require", "server"},
        t \in {"a.js", "b.js"}, main \in {None, "a.js"},
        files \in {{}, {"a.js"}, {"a.js", "b.js"}},
        r \in {"Component", "Server"}, sub \in BOOLEAN}

Codeless ==
    {[Plain EXCEPT !.main = main, !.files = files, !.decl = d, !.huge = h, !.native = n,
                   !.exports = x, !.target = "b.js", !.sub = sub] :
        main \in {None, "a.js"}, files \in {{}, {"a.js"}, {"index.js"}}, d \in BOOLEAN,
        h \in BOOLEAN, n \in BOOLEAN, x \in {"none", "subpaths"}, sub \in BOOLEAN}

Aliases ==
    {[World EXCEPT !.pkg = [Plain EXCEPT !.manifest = "absent"], !.nearest = near, !.document = TRUE,
                   !.configs = <<[good |-> good, refs |-> <<2, 7, 3>>, hit |-> FALSE],
                                 [good |-> TRUE, refs |-> <<1, 4>>, hit |-> hit = 2],
                                 [good |-> TRUE, refs |-> << >>, hit |-> hit = 3],
                                 [good |-> TRUE, refs |-> << >>, hit |-> hit = 4]>>] :
        near \in {0, 1}, good \in BOOLEAN, hit \in 0 .. 4}

PackageWorlds ==
    {[World EXCEPT !.pkg = p, !.document = TRUE] : p \in Manifests \cup Fields \cup Exports \cup Codeless}
        \cup Aliases
        \cup {[World EXCEPT !.entry = e] : e \in {"fails", "oversized"}}
        \cup {[World EXCEPT !.engine = {"panic", "timeout", "engine_gone"}, !.document = TRUE]}
        \cup {[World EXCEPT !.tail = t, !.compare = c] :
                t \in {"ok", "minify", "compression"}, c \in {"ok", "timeout", "parse"}}
        \cup {[World EXCEPT !.tail = t,
                            !.graph = <<Entry, [Module(11, "probe", 0) EXCEPT !.io = "unreadable"]>>] :
                t \in {"ok", "minify", "compression"}}

(***************************************************************************)
(* Graphs: an entry and modules it imports.                                *)
(***************************************************************************)

Faulty ==
    {[Module(2, "js", 1) EXCEPT !.fault = f] :
        f \in {NoFault, "parse", "unresolved", "boundary", "missing_internal", "missing_entry",
               "ambiguous", "split"}}
      \cup {[Module(2, "js", b) EXCEPT !.barrel = barrel] : b \in {3, 5}, barrel \in BOOLEAN}
      \cup {[Module(2, "js", 1) EXCEPT !.io = i] : i \in {"absent", "unreadable"}}
      \cup {[Module(2, "js", 1) EXCEPT !.stat = 3, !.io = "lost"],
            [Module(2, "js", 5) EXCEPT !.stat = 1]}
      \cup {Module(12, "unmeasured", 1)}
      \cup {[Module(11, "counted", 1) EXCEPT !.io = i] : i \in {"ok", "absent", "unreadable", "lost"}}
      \cup {[Module(11, "probe", 0) EXCEPT !.io = i] : i \in {"absent", "unreadable"}}

Pairs ==
    {g \in {<<Entry, [a EXCEPT !.parent = 1],
               [b EXCEPT !.parent = p, !.file = IF @ < 10 THEN 3 ELSE @]>> :
               a \in Faulty, b \in Faulty, p \in {1, 2}} :
        g[3].parent = 1 \/ (g[2].class = "js" /\ ~g[2].barrel)}

\* A barrel whose other half is over the limit, one file under three ids, and
\* a chain of more modules than there may be.
Wide ==
    {[i \in 1 .. 7 |-> [Module(i, "js", 0) EXCEPT !.parent = i - 1]]}
      \cup {<<Entry, [Module(2, "js", 2) EXCEPT !.barrel = TRUE, !.parent = 1],
       [Module(3, "js", 2) EXCEPT !.parent = 1, !.fault = f],
       [Module(11, "counted", 2) EXCEPT !.parent = 3]>> : f \in {NoFault, "missing_internal"}}
      \cup {<<Entry>> \o [i \in 1 .. 3 |->
                 [Module(11, c, b) EXCEPT !.stat = s, !.parent = 1]] :
              c \in {"counted", "unmeasured"}, b \in {1, 2, 4}, s \in {1, 2, 4}}

GraphWorlds ==
    {[World EXCEPT !.graph = g, !.disk = (11 :> File("font", (g[Len(g)]).actual))] :
        g \in Wide}
      \cup {[World EXCEPT !.graph = g, !.disk = (11 :> File("font", 1))] : g \in Pairs}

(***************************************************************************)
(* Assets: stylesheets 11 and 12 and a font 13 in the graph, 21 and 22 the *)
(* sheets they import, 31 and 32 what their url()s name.                   *)
(***************************************************************************)

Sheet(bytes, imports, refs) ==
    [File("css", bytes) EXCEPT !.imports = imports, !.refs = refs]

AssetGraph(files) ==
    <<Entry>> \o [i \in 1 .. Len(files) |-> [Module(files[i], "counted", 1) EXCEPT !.parent = 1]]

Child(io, parses, stat) ==
    [Sheet(1, << >>, {}) EXCEPT !.io = io, !.parses = parses, !.stat = stat]

\* Two sheets over one child, and what may be wrong with the child.
TwoSheets ==
    {(11 :> Sheet(1, <<21>>, {}) @@ 12 :> Sheet(1, <<21>>, {}) @@ 21 :> child) :
        child \in {Child(io, parses, stat) :
                     io \in {"ok", "absent", "unreadable", "flaky", "lost"},
                     parses \in BOOLEAN, stat \in {0, 1}}
                  \cup {[Child("ok", TRUE, s) EXCEPT !.actual = a] : s \in {1, 3, 5}, a \in {1, 3, 5}}}
      \cup {(11 :> Sheet(1, <<21>>, {}) @@ 12 :> [Sheet(1, << >>, {}) EXCEPT !.parses = FALSE]
               @@ 21 :> Sheet(1, << >>, {31}) @@ 31 :> File("font", 1))}

\* Cycles of imports, and a tree at the tree's own limit.
Trees ==
    {(11 :> Sheet(1, <<21>>, {}) @@ 12 :> Sheet(1, i, {}) @@ 21 :> Sheet(1, j, {31})
        @@ 22 :> Sheet(1, k, {}) @@ 23 :> Sheet(1, << >>, {}) @@ 31 :> File("font", 1)) :
        i \in {<<22, 21>>, <<12>>, <<11, 12>>, <<22, 23>>}, j \in {<<22>>, <<21>>, << >>},
        k \in {<<21>>, <<12, 11>>, << >>}}

\* One sheet and what its url()s name.
Resources ==
    {(11 :> Sheet(1, << >>, refs) @@ 12 :> Sheet(1, << >>, {}) @@ 31 :> r @@ 32 :> File(k, 1)) :
        refs \in {{31}, {31, 32}},
        r \in {[File("font", 1) EXCEPT !.io = io] : io \in {"ok", "absent", "unreadable", "lost", "flaky"}}
                \cup {[File("font", a) EXCEPT !.stat = s] : s \in {1, 5}, a \in {3, 5}},
        k \in {"image", "remote", "garbled", "font"}}

AssetWorlds ==
    {[World EXCEPT !.graph = AssetGraph(<<11, 12>>), !.disk = d] : d \in TwoSheets \cup Trees \cup Resources}
      \cup {[World EXCEPT !.graph = AssetGraph(<<11, 12>>), !.disk = d, !.faults = TRUE] :
              d \in {e \in TwoSheets : e[21].io \in {"ok", "flaky"}}}
      \cup {[World EXCEPT !.graph = AssetGraph(<<11, 13>>), !.pool = p, !.faults = TRUE,
                          !.disk = (11 :> Sheet(1, << >>, {13}) @@ 13 :> File("font", 1))] :
              p \in BOOLEAN}
      \cup {[World EXCEPT !.graph = AssetGraph(<<13>>), !.rivals = n, !.disk = (13 :> File("font", 1))] :
              n \in 1 .. 2}

(***************************************************************************)
(* Documents.                                                              *)
(***************************************************************************)

Import(id, p, loading, r, mods) ==
    [id |-> id, pkg |-> p, alias |-> FALSE, loading |-> loading, result |-> r, mods |-> mods]

Got(size, stages) == [size |-> size, stages |-> stages]

Others ==
    {Import(1, [Plain EXCEPT !.runtime = r], l, g, m) :
        r \in {"Component", "Server"}, l \in BOOLEAN, m \in {{1, 2}},
        g \in {Got(3, {}), Got(2, {"uncounted_assets"}), Got(NoSize, {"timeout"}), Got(NoSize, {"parse"})}}
      \cup {Import(2, [Plain EXCEPT !.files = {}, !.decl = TRUE], l, g, {2}) :
              l \in BOOLEAN, g \in {Got(0, {"types_only"}), Got(NoSize, {"timeout"})}}
      \cup {[Import(3, [Plain EXCEPT !.manifest = x.m], FALSE, Got(NoSize, {x.stage}), {2})
               EXCEPT !.alias = a] :
              a \in BOOLEAN,
              x \in {[m |-> "absent", stage |-> "package_resolution"],
                     [m |-> "unreadable", stage |-> "package_manifest"],
                     [m |-> "noversion", stage |-> "package_manifest"]}}
      \cup {Import(4, [Plain EXCEPT !.native = TRUE, !.main = main, !.files = {}], FALSE,
                   Got(0, {"native_binary_only"}), {2}) : main \in {None}}
      \cup {Import(5, [Plain EXCEPT !.manifest = m, !.files = {}], FALSE, Got(0, {v}), {2}) :
              m \in {"ok", "noversion"}, v \in {"types_only", "native_binary_only"}}

Outcomes ==
    {Fine, Built(None, {}, 0, FALSE), Built(None, {"uncounted_assets"}, 1, TRUE),
     Built(None, {"asset_io"}, 0, TRUE), Built(None, {"compression", "uncounted_assets"}, 1, TRUE),
     Built("timeout", {}, 0, TRUE), Built("parse", {}, 0, TRUE), Built("minify", {}, 0, TRUE),
     Built("compression", {"resolve"}, 0, TRUE)}

DocumentWorlds ==
    {[World EXCEPT !.document = TRUE, !.others = o, !.combined = c] :
        o \in {{a, b} : a \in Others, b \in {x \in Others : x.id # 1 /\ ~x.loading}}
                \cup {{a} : a \in Others},
        c \in {[Component |-> x, Server |-> Fine] : x \in Outcomes}
                \cup {[Component |-> Fine, Server |-> Built("timeout", {}, 0, TRUE)]}}

MCScenarios == PackageWorlds \cup GraphWorlds \cup AssetWorlds \cup DocumentWorlds
=============================================================================
