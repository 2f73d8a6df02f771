------------------------------ MODULE MCSplicer ------------------------------
(***************************************************************************)
(* A workspace ws with members app and lib, and packages one and two on    *)
(* their own; two is in a directory of another name.                       *)
(***************************************************************************)
EXTENDS Splicer

MCNoName == "-"
MCDirectPackage == "direct-cargo-bazel-deps"

MCOrder == <<<<"one">>, <<"three">>, <<"ws">>, <<"ws", "app">>, <<"ws", "lib">>, <<"x", "two">>>>

Package(name, deps, patches) ==
  [type |-> "manifest", package |-> name, workspace |-> FALSE, members |-> {}, deps |-> deps,
   patches |-> patches, metadata |-> "none", bazel |-> <<>>]
WorkspaceOf(name, members, metadata, patches) ==
  [Package(name, {}, patches) EXCEPT !.workspace = TRUE, !.members = members, !.metadata = metadata]

Plain(sources) == [type |-> "config", registries |-> ("mirror" :> "mirror.index"), sources |-> sources]
Leaked == Plain(("crates-io" :> [registry |-> "crates.index", replace |-> "leaked"]))
Given == Plain(<<>>)
Mirrored == Plain(("crates-io" :> [registry |-> "crates.index", replace |-> "mirror"]))
Vendored == Plain(("up" :> [registry |-> "git.index", replace |-> "down"])
                  @@ ("down" :> [registry |-> "down.index", replace |-> NoReplace]))
Unknown == Plain(("crates-io" :> [registry |-> "crates.index", replace |-> "unknown"]))

Locked(name, kind, url) == [name |-> name, kind |-> kind, url |-> url, checksum |-> TRUE, indexed |-> TRUE]
Serde == Locked("serde", "registry", "crates.index")
MCLocks == {
  {Locked("app", "none", "none"), Serde},
  {Serde, Locked("mine", "registry", "git.index"), Locked("fork", "git", "git.index")},
  {Serde, Locked("mine", "sparse", "git.index")},
  {Locked("mine", "registry", "git.index"), Locked("fast", "sparse", "git.index")},
  {[Serde EXCEPT !.checksum = FALSE]}, {[Serde EXCEPT !.checksum = FALSE, !.indexed = FALSE]},
  {Locked("mine", "local", "git.index")}}

\* What may be in .cargo, and whether there is a Cargo.lock.
Extras(dir) ==
  {dotCargo @@ stray @@ locked :
     dotCargo \in {<<>>, dir \o Config :> Leaked,
                   (dir \o <<".cargo", "config">> :> Leaked) @@ (dir \o <<".cargo", "audit.toml">> :> [type |-> "other"])},
     stray \in {<<>>, dir \o <<"config.toml">> :> [type |-> "other"]},
     locked \in {<<>>, dir \o RootLock :> [type |-> "lock", packages |-> {}]}}

Case(files, listed, direct, config, above, packages, lockfile, before) ==
  [files |-> files, order |-> SelectSeq(MCOrder, LAMBDA dir : dir \in DOMAIN listed), listed |-> listed, direct |-> direct, config |-> config,
   above |-> above, packages |-> packages, lockfile |-> lockfile, before |-> before]
At2(dirs) == [dir \in dirs |-> dir]
Bare == CHOOSE locked \in MCLocks : "app" \in {p.name : p \in locked}

WorkspaceFiles(name, metadata) ==
  (Toml(<<"ws">>) :> WorkspaceOf(name, {"app", "lib"}, metadata, (<<"crates-io", "x">> :> "fork")))
    @@ (Toml(<<"ws", "app">>) :> Package("app", {"serde"}, <<>>))
    @@ (Toml(<<"ws", "lib">>) :> Package("library", {}, <<>>))
    @@ (Toml(<<"one">>) :> Package("one", {"serde"}, <<>>))
    @@ (<<"ws", "app", "main.rs">> :> [type |-> "other"])

Configs == {<<>>, <<Given>>}
MCWorkspaces ==
  {Case(WorkspaceFiles(name, metadata) @@ extras, At2(listed), direct, config, above, Bare, lockfile, before) :
     name \in {"-", "root"}, metadata \in {"none", "table", "other"}, extras \in Extras(<<"ws">>),
     listed \in {{<<"ws">>}, {<<"ws">>, <<"ws", "app">>}, {<<"ws">>, <<"one">>}},
     direct \in {{}, {"serde"}}, config \in Configs, above \in BOOLEAN,
     lockfile \in {"new", "skip"},
     before \in {<<>>, (DotCargo :> Directory) @@ (Config :> Given)}}

\* A package of its own; a member of a workspace that is not listed.
MCPackages ==
  {Case(WorkspaceFiles("-", "none") @@ extras, At2(listed), direct, config, FALSE, Bare, lockfile, <<>>) :
     extras \in Extras(<<"one">>), direct \in {{}, {"serde"}, {"log"}}, config \in Configs,
     listed \in {{<<"one">>}, {<<"ws", "app">>}}, lockfile \in {"new", "skip"}}

Patches == {<<>>, <<"crates-io", "x">> :> "fork", <<"crates-io", "x">> :> "other", <<"git", "x">> :> "fork"}
Multi(p1, p2, third) ==
  (Toml(<<"one">>) :> Package("one", {}, p1)) @@ (Toml(<<"three">>) :> third)
    @@ (Toml(<<"x", "two">>) :> Package("two", {}, p2))
    @@ (Toml(<<"ws">>) :> WorkspaceOf("-", {"app"}, "none", <<>>))
    @@ (Toml(<<"ws", "app">>) :> Package("app", {}, <<>>))
MCMulti ==
  {Case(Multi(p1, p2, third), At2(listed), direct, config, FALSE, Bare, "new", before) :
     p1 \in Patches, p2 \in Patches,
     third \in {Package("three", {}, <<>>), Package("one", {}, <<>>), Package("3", {}, <<>>),
                WorkspaceOf("three", {}, "none", <<>>)},
     listed \in {{<<"one">>, <<"x", "two">>}, {<<"one">>, <<"three">>, <<"x", "two">>},
                 {<<"one">>, <<"ws", "app">>}, {<<"three">>, <<"ws">>}},
     direct \in {{}, {"serde"}}, config \in Configs,
     before \in {<<>>, (DotCargo :> Directory) @@ (Config :> Given)}}

MCRegistries ==
  {Case(WorkspaceFiles("-", "none") @@ extras, At2({<<"one">>}), {}, config, FALSE, packages, "new", <<>>) :
     packages \in MCLocks, config \in {<<>>, <<Given>>, <<Mirrored>>, <<Vendored>>, <<Unknown>>},
     extras \in {<<>>, <<"one">> \o Config :> Leaked}}

MCInputs == {MCWorkspaces, MCPackages, MCMulti, MCRegistries}
=============================================================================
