--------------------------- MODULE MCRustProject ---------------------------
(***************************************************************************)
(* Small workspaces, the ways to start a tool and the files an editor asks *)
(* about, for RustProject.                                                 *)
(***************************************************************************)
EXTENDS RustProject

NoAliases == <<>>
Rule(label, root, name, type, test, deps) ==
  [label |-> label, root |-> root, name |-> name, type |-> type, test |-> test, deps |-> deps,
   aliases |-> NoAliases, cfg |-> {label}, external |-> FALSE, configurations |-> {"target"},
   dir |-> <<"home", "ws">>, sources |-> {<<"home", "ws">>}]

Lib(label, root, deps) == Rule(label, root, label, "rlib", FALSE, deps)
Bin(label, root, deps) == Rule(label, root, label, "bin", FALSE, deps)
\* A test of a crate has its name, a test with sources of its own the name of its label.
TestOf(label, root, name, deps) == Rule(label, root, name, "bin", TRUE, deps)
Macro(label, root, configurations) ==
  [Rule(label, root, label, "proc-macro", FALSE, {}) EXCEPT !.configurations = configurations]
In(rule, dir, sources) == [rule EXCEPT !.dir = dir, !.sources = sources]
External(rule) == [rule EXCEPT !.external = TRUE, !.dir = <<"cache">>, !.sources = {<<"cache">>}]
Aliased(rule, aliases) == [rule EXCEPT !.aliases = aliases]

WsDir == <<"home", "ws">>
Workspace(targets) == [targets |-> targets, unbuilt |-> {}, buildfiles |-> {WsDir}]
------------------------------------------------------------------------------
\* The ways to start a tool.
Tool == <<"bin", "/", "tool">>
Tree == RunfilesOf(Tool)
NoLaunch ==
  [manifestFile |-> <<>>, runfilesDir |-> <<>>, testSrcdir |-> <<>>, binary |-> Tool, dirs |-> {},
   links |-> <<>>, manifests |-> <<>>, mappings |-> <<>>, content |-> {},
   toolchain |-> [path |-> <<"rules_rust", "/", "toolchain">>, source |-> <<>>]]

\* A file, the name of its repository in Bazel, and who asks for it under which name.
RunfileOf(repo, name, asked, source) == [repo |-> repo, name |-> name, asked |-> asked, source |-> source]
Toolchain(source) == RunfileOf(<<"rules_rust+">>, <<"toolchain">>, <<"rules_rust", "/", "toolchain">>, source)

Mapping ==
  {<< <<>>, <<"rules_rust">>, <<"rules_rust+">> >>,
   << <<"rules_rust+">>, <<"rules_rust">>, <<"rules_rust+">> >>,
   << <<"rules_rust+">>, <<"main">>, <<"_main">> >>,
   << <<"rules_rust+", "+crates+", "*">>, <<"serde">>, <<"rules_rust+", "+crates+", "serde">> >>}

\* A name that has to be escaped.
Odd == UNION {[1..n -> {"\\", " ", "nl", "s", "n", "b"}] : n \in 1..3}

Runfiles ==
  {Toolchain(<<>>), Toolchain(<<"rules_rust+">>),
   RunfileOf(<<"_main">>, <<"data">>, <<"_main", "/", "data">>, <<>>),
   RunfileOf(<<"_main">>, <<"data">>, <<"main", "/", "data">>, <<"rules_rust+">>),
   RunfileOf(<<"rules_rust+", "+crates+", "serde">>, <<"lib">>, <<"serde", "/", "lib">>,
             <<"rules_rust+", "+crates+", "tokio">>)}

OddRunfiles == {RunfileOf(<<"_main">>, odd, <<"_main", "/">> \o odd, <<>>) : odd \in Odd}

InTree(dir, files) == {[asked |-> f.asked, source |-> f.source, target |-> Join(dir, Join(f.repo, f.name))] : f \in files}
Elsewhere(f) == <<"/", "real", "/">> \o f.name
InStore(files) == {[asked |-> f.asked, source |-> f.source, target |-> Elsewhere(f)] : f \in files}
ManifestOf(files, mapping) ==
  {ManifestLine(Join(f.repo, f.name), Elsewhere(f)) : f \in files} \union {ManifestLine(<<"_repo_mapping">>, mapping)}

Dirs(launch, dir) ==
  [launch EXCEPT !.dirs = @ \union {dir}, !.content = InTree(dir, Runfiles),
                 !.mappings = (Join(dir, <<"_repo_mapping">>) :> Mapping)]
Listed(launch, path, files) ==
  [launch EXCEPT !.manifests = (path :> ManifestOf(files, <<"mapping">>)), !.content = InStore(files),
                 !.mappings = (<<"mapping">> :> Mapping)]

Elsewhere2 == <<"elsewhere", ".runfiles">>
Beside1 == Dirs(NoLaunch, Tree)
AllLaunches ==
  LET link   == <<"home", "/", "tool">>
      nested == <<"outer", ".runfiles", "/", "rules_rust+", "/", "tool">>
  IN  <<Beside1,
       \* Through one link and through two, the second one relative.
       [Dirs(NoLaunch, Tree) EXCEPT !.binary = link, !.links = (link :> [absolute |-> TRUE, to |-> Tool])],
       [Dirs(NoLaunch, Tree) EXCEPT
          !.binary = link,
          !.links = (link :> [absolute |-> TRUE, to |-> <<"bin", "/", "alias">>])
                    @@ (<<"bin", "/", "alias">> :> [absolute |-> FALSE, to |-> <<"tool">>])],
       \* In the runfiles of another binary.
       [Dirs(NoLaunch, <<"outer", ".runfiles">>) EXCEPT !.binary = nested],
       \* What the environment says, and what it says of a directory that is gone.
       [Dirs(NoLaunch, Elsewhere2) EXCEPT !.runfilesDir = <<Elsewhere2>>],
       [Dirs(NoLaunch, Elsewhere2) EXCEPT !.testSrcdir = <<Elsewhere2>>, !.manifestFile = <<<<>>>>],
       [Dirs(NoLaunch, Tree) EXCEPT !.runfilesDir = <<Elsewhere2>>],
       \* A manifest, in the environment and in the directory.
       [Listed(NoLaunch, <<"manifest">>, Runfiles) EXCEPT !.manifestFile = <<<<"manifest">>>>],
       [Listed(NoLaunch, <<"manifest">>, Runfiles \union OddRunfiles) EXCEPT !.manifestFile = <<<<"manifest">>>>],
       [Listed(NoLaunch, Join(Tree, <<"MANIFEST">>), Runfiles) EXCEPT !.dirs = {Tree}],
       \* Without a mapping the names are those of the repositories.
       [Dirs(NoLaunch, Tree) EXCEPT
          !.mappings = <<>>,
          !.content = InTree(Tree, {RunfileOf(<<"rules_rust">>, <<"toolchain">>, <<"rules_rust", "/", "toolchain">>, <<>>)})]>>
------------------------------------------------------------------------------
\* Crates with tests, procedural macros, aliases and dependencies of other repositories.
Plain ==
  {Workspace({Lib("a", "a.rs", {})}),
   Workspace({Lib("a", "a.rs", {"b"}), TestOf("a_test", "a.rs", "a_test", {"a", "c"}),
              Lib("b", "b.rs", {}), Lib("c", "c.rs", {"b"}), Bin("m", "m.rs", {"a"})}),
   Workspace({Lib("a", "a.rs", {}), TestOf("t1", "a.rs", "a", {"a"}), TestOf("t2", "a.rs", "a", {"a", "b"}),
              Aliased(Lib("b", "b.rs", {"c"}), [l \in {"c"} |-> "see"]), External(Lib("c", "c.rs", {}))}),
   Workspace({Macro("pm", "pm.rs", {"target", "opt-exec"}), TestOf("pm_test", "pm.rs", "pm", {"pm"}),
              Aliased(Lib("a", "a.rs", {"pm"}), [l \in {"pm"} |-> "derive"]),
              Aliased(TestOf("a_test", "a.rs", "a", {"a", "pm", "d"}), [l \in {"d"} |-> "dev"]), Lib("d", "d.rs", {})})}

\* A binary with a test of it.
BinaryWithTest == Workspace({Bin("m", "m.rs", {"a"}), TestOf("m_test", "m.rs", "m", {"m"}), Lib("a", "a.rs", {})})

\* A test of a library that needs what needs the library, and specs that were not built.
Stuck ==
  {Workspace({Lib("a", "a.rs", {}), TestOf("a_test", "a.rs", "a", {"a", "b"}), Lib("b", "b.rs", {"a"}), Lib("c", "c.rs", {"b"})}),
   [Workspace({Lib("a", "a.rs", {}), Lib("b", "b.rs", {"a"}), Lib("c", "c.rs", {"b"}), Lib("d", "d.rs", {})}) EXCEPT !.unbuilt = {"a"}],
   [Workspace({Lib("a", "a.rs", {}), Bin("m", "m.rs", {"a"})}) EXCEPT !.unbuilt = {"m"}]}

\* Packages inside packages; the build file above the workspace is not part of it.
P == <<"home", "ws", "p">>
Q == <<"home", "ws", "p", "src", "q">>
Nested(buildfiles) ==
  [Workspace({In(Lib("p", "p.rs", {}), P, {P, Append(P, "src")}),
              In(Lib("q", "q.rs", {"p"}), Q, {Q}),
              In(TestOf("q_test", "q.rs", "q", {"q"}), Q, {Q})}) EXCEPT !.buildfiles = buildfiles]
Packages == {Nested({P, Q}), Nested({P, Q, WsDir}), Nested({P, Q, <<"home">>})}

Request(workspace, tool, argument, launch, old) ==
  [workspace |-> workspace, tool |-> tool, argument |-> argument, launch |-> launch, file |-> old]
Ask(kind, dir) == [kind |-> kind, dir |-> dir]
NoArgument == Ask("none", <<>>)
Tools == {"gen", "discover"}
AllRequests ==
  {Request(w, tool, NoArgument, 1, old) : w \in Plain \union Stuck \union {BinaryWithTest}, tool \in Tools, old \in {"none", "old"}}
  \union {Request(Workspace({Lib("a", "a.rs", {})}), "discover", NoArgument, launch, "none") : launch \in DOMAIN Launches}
  \union {Request(w, "discover", Ask(kind, dir), 1, "old") :
            w \in Packages, kind \in {"path"}, dir \in {P, Append(P, "src"), Q, WsDir, <<"home">>}}
  \union {Request(w, "discover", Ask("buildfile", dir), 1, "old") : w \in Packages, dir \in {P, Q}}
==============================================================================
