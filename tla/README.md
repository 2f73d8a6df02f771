# rules_rust: specifications and proofs

TLA+ models of the parts of rules_rust that keep state and can get an order wrong, TLC
configurations that check them on small instances, and proofs that TLAPS checks. Paths
are relative to the repository's root.

- [Inventory](#inventory): the parts of the system
- [Modules](#modules): what is modelled, and how it corresponds to the code
- [Runs](#runs): what TLC checks, with which bounds and which fairness
- [Proofs](#proofs): what holds for every value of the constants, and why
- [What the models found](#what-the-models-found)
- [Not modelled](#not-modelled)
- [Plan](#plan)

## Inventory

rules_rust is a set of Bazel rules. Three kinds of program make it up: Starlark
evaluated while Bazel loads and analyses a build (rules, repository rules), small Rust
programs that run inside build actions, and `cargo-bazel`, a Rust program that turns
Cargo workspaces into BUILD files. "Module" names the TLA+ module that models a part,
"-" a part that has none.

| Part | State it keeps | Operations | Talks to | What is hard | What makes it correct | Module |
|---|---|---|---|---|---|---|
| Fastpath feature solver, `crate_universe/private/fastpath_solver.bzl` | per crate and triple: enabled features, links; which dependency entries are retired; the worklist | one round over the dirty crates: apply feature tables, scan dependencies | called by the fastpath resolver, which seeds it and reads its result | a fixpoint computed with a worklist, snapshots and early retirement: order and staleness | result closed, least, links exact; terminates within the rounds | `FastpathSolver` |
| Fastpath resolver, `fastpath_resolver.bzl` | the lockfile's facts, caches of archives, manifests and metadata | load and write the lockfile, download, prepare the solver's input, render | sparse index, cargo, spoke repositories of `fastpath_repo.bzl` | writes in place, caches shared by repositories that run at the same time, stale entries, fallback rules | a stale or truncated file is noticed; a cache hit equals a miss | the solver's input only: `FeatureGraph` |
| Process wrapper, `util/process_wrapper` | the command line as far as it is read; the child, its pipe, whether the metadata was announced, the exit code | parse, prepare parameter files, spawn, read lines, kill, wait, touch, copy | rustc, clippy or rustfmt as a child process; Bazel through exit code and files | two processes; kill racing with the child's own end; full pipes; partial failure; substitutions in nested files | the child gets what was meant; success means outputs; failure is reported; nothing is lost or left running | `WrapperOptions`, `ProcessWrapper`, composed in `WrapperLaunch` |
| Pipelined compilation, `rust/private/rustc.bzl`, `utils.bzl`, `rust.bzl` | the graph of Rustc and RustcMetadata actions | collect dependencies, choose metadata or objects as inputs | one process wrapper per action; Bazel schedules | which of two outputs an action may take; two actions of one crate at once | every file a command line names is an input; binaries see full crates | `PipelinedBuild` |
| Build script runner, `cargo/private/cargo_build_script_runner` | a directory of runfiles, links into the exec root, OUT_DIR, output files | make links, run the script, write flags and environment, drain, undo, sweep | the build script as a child; the process wrapper and other runners read its files | undoing on every path; entries that existed before; links into what is drained; escapes | what Bazel captures is plain and complete; what was printed arrives | `BuildScriptRunner`, `BuildScriptOutput` |
| Pinning, `crate_universe/src/cli`, `lockfile.rs`, `private/generate_utils.bzl` | manifests, Cargo.lock, the Bazel lockfile with its digest, rendered files | query, splice, generate, vendor | cargo; the user, who edits all of them; the rules | a digest that is stale or covers too little; files written one after another; interruption | what is served is current; the files agree; pinning settles | `CargoBazel` |
| Splicing, `crate_universe/src/splicing` | a workspace of links into the user's, its root manifest | link, configure, inject members, patches and metadata, write, lock, look up indexes | cargo, the user's files | writing through links, names that clash, configs in three places | the user's files stay; Cargo sees every member, patch and index | `Splicer`, `CargoRegistries` |
| Cargo tree resolver, `crate_universe/src/metadata/cargo_tree_resolver.rs` | jobs in flight, results | inject macros, spawn, join, parse, merge | one cargo process per pair of triples | bounded pool, first failure, a parser of indentation, results by key | every pair's result, whatever the order; macros on every host | `TreeResolver`, `CargoTreeOutput` |
| Crate contexts and rendering, `crate_universe/src/context`, `config.rs`, `rendering.rs`, `select.rs` | none between runs | annotate, map configurations to platforms, merge, remap, render | cargo metadata and the tree resolver's result | two sources of truth about dependencies; names, renames and conditions through many merges | BUILD files say what Cargo resolved; names lead somewhere; annotations take effect | `CargoMetadata`, `CrateContexts`, `CrateRendering`, `Selects` |
| protoc wrapper, `extensions/prost/private/protoc_wrapper.rs` | an output directory that may outlive the action | parse, run protoc, combine, write lib.rs and package info | protoc, prost, tonic; wrappers of dependent crates | files of an earlier build; a loop over the files it renames | a crate has what was generated for it, where its info says | `ProtocWrapper` |
| rust_analyzer tools, `tools/rust_analyzer` | specs and crates of one run; rust-project.json | query, read specs, merge, order in passes, write or print | bazel, the editor, the runfiles library | specs in any order, cycles, missing specs, a stop in mid-write | the project is what the targets make of it; one answer | `RustProject`, `Runfiles` |
| vscode tool, `tools/vscode`, and label parser, `util/label` | launch.json, shared with the user | query, generate, merge, write | bazel, the user | telling own configurations from the user's by name, run after run | the user's stay; each target once | `LaunchJson`, `Label` |
| Clippy, rustfmt, rustdoc, unpretty, `rust/private/*.bzl` | none of their own | register actions | process wrapper | a marker made for a failed check | see process wrapper | - |
| Toolchains, repositories, `rust/` | none after loading | choose, download | Bazel | | | - |
| rustfmt tool, coverage, mdbook, wasm-bindgen and manifest helpers | within one run only | read, transform, write | external tools | little beyond parsing | | - |

The hazards behind the column "hard", each at its line, are listed in `PROJECT.json`
with the properties that would catch them.

## Modules

```
FeatureGraph ──┬── FeatureClosure              abstract: features follow from rules
               └── FastpathSolver ── refines ── FeatureClosure
                     ├── MCFastpathSolver ──┬── MCFastpathLeast
                     └── FastpathLeast ─────┘   the least closed assignment
                           └── FastpathSolver_proofs

CompileAction                                  abstract: one compile action
ProcessWrapper ── refines ── CompileAction
  └── WrapperLaunch                            from the first flag on
      (with WrapperOptions)
        ├── ProcessWrapper_proofs              of both
        └── MCProcessWrapper

CrateBuild                                     abstract: crates checked, built, rejected
PipelinedBuild ── refines ── CrateBuild        over actions that are CompileActions
  ├── PipelinedBuild_proofs
  └── MCPipelinedBuild

CargoBazel ──┬── CargoBazel_proofs             pinning: which lockfile is served
             └── MCCargoBazel
CargoRegistries ── Splicer ──┬── Splicer_proofs         splicing: what Cargo is given
                             └── MCSplicer
CargoTreeOutput ─┬─ TreeResolver ──┬── TreeResolver_proofs    what Cargo resolved
        Selects ─┤                 └── MCTreeResolver
                 └─ CargoMetadata ── CrateContexts ── CrateRendering ── MCCrateRendering

BuildScriptOutput ── BuildScriptRunner ─┬┬── MCBuildScriptRunner
                                        │└── Generators_proofs       both generators
                        ProtocWrapper ──┴─── MCProtocWrapper
Runfiles ── RustProject ─┬┬── EditorTools_proofs
  Label ── LaunchJson ───┼┘
                         └── MCRustProject, MCLaunchJson
```

A line without a word is EXTENDS; "refines" is `INSTANCE ... WITH` and a property. An MC
module holds the instance and nothing else; every property is stated in the module it is
about, in front of the code it names. Programs that are called (cargo, rustc, build
scripts, protoc with its plugins, Bazel) and users who edit files are modelled by what
the code relies on or has to bear, and are marked external in `PROJECT.json`. Names,
labels and texts are model values; where the code builds a name from another one (a
module's name, a path, an escape), the function is a constant or is written out.

### The feature solver

`FeatureGraph` is the solver's input and the rules by which features follow from one
another. A package is a number, its place in the solver's list, since the order of
visits is by that number. A feature table entry (`Clause`) is one of the forms `f`,
`d/f` and `d?/f`. A dependency's `cfg()` target is kept as far as the solver looks at
it: for each triple the alternatives (sets of features that must and must not be on)
left once the triple has decided its part, so that `cfg(any(unix, feature = "std"))` is
`{Always}` on one triple and `{[has |-> {"std"}, lacks |-> {}]}` on another.
Dependencies that Cargo.lock does not hold are part of the graph (`Unresolved`, `bare`),
because the solver reads their fields.

`FastpathSolver` is `resolve()`. Its variables are those of the code:

| Model | Code |
|---|---|
| `features[t][p]` | `features_enabled[triple]` of a package's `feature_resolutions` |
| `linked[t][p]` | `deps[triple]` and `build_deps[triple]` |
| `pending[p]` | the entries whose `bazel_target` is not yet `None` |
| `dirty`, `newDirty` | `dirty_package_indices`, `new_dirty_package_indices` |
| `todo` | the rest of the loops over `list(feature_set)` and `enables` |
| `changed` | `package_changed` |
| `StartPackage` ... `FinishPackage` | one turn of `_resolve_one_round`'s loop |
| `PropagateClause`, `Abort` | one entry in `_propagate_feature_enablement` |
| `ScanDependency` | one turn of the loop over `possible_deps` |
| `EndRound` | one turn of `resolve`'s loop |

The code applies a feature table in the order of a dictionary. The model takes the
entries in any order, which includes the code's; what is proved for every order holds
for that one. Dependencies are scanned in manifest order, as in the code. Left out:
`aliases` and the counts printed in debug mode, which nothing reads back.

`FeatureClosure` says what resolution promises: features appear that some rule derives
from those present, and the result is declared when no rule derives more.
`FastpathLeast` defines the intersection of all closed assignments.

### The process wrapper

`ProcessWrapper` has two processes. The wrapper is `main()`, one action per step that
another process can see: spawn, opening the files, one line read and dispatched, the
kill, the wait, the marker file, the copy. Every step that can return an error has a
failing twin. The child is external: it writes lines and output files, closes its
stderr, and ends with success, failure or a signal, in any order the operating system
allows; a full pipe blocks it, and one that succeeds has written its outputs. A line is
what `process_line` distinguishes: a diagnostic, a notification, noise that the wrapper
knows, text that is not JSON, bytes that are not UTF-8. The platform is part of the
command line (`opts.windows`) because `status_code` differs.

`CompileAction` is what Bazel may assume of an action: one that succeeded has left what
it declared, and its outputs no longer change. For RustcMetadata (`early`) the metadata
is enough. The mapping takes the wrapper's exit as the verdict.

`WrapperOptions` and `WrapperLaunch` are what precedes the run: `options()` over the
flags, parameter files that name parameter files, `--subst`, environment and status
files. A text is a sequence of pieces, so that `${pwd}` in the middle of a file's name
is one; a status `{x}` is also put into a `${x}`, as `str::replace` does, and leaves the
`$` (`Holding`, `Filled`). `ParseFlag`, `FlagRefused` and `ParseEnds` are the loop of `flags.rs`;
`OptionsUsed` and `OptionsRefused` are the rest of `options()`, which nothing else sees;
every later step is one of `ProcessWrapper` (`Run`). A launch that was refused never
starts a child. So a run of `WrapperLaunch` is a run of `ProcessWrapper`, which is one
of `CompileAction`; both are proved.

### The pipelined build

`PipelinedBuild` has two layers that run at the same time, as in Bazel. `Analyze(c)` is
a rule implementation: it reads the providers of the target's dependencies, computes its
own and registers its actions. `Execute(a)` is Bazel running one of them: it may start
once its inputs were made, and `Succeed` and `Fail` are what the process wrapper then
reports (`CompileAction`). An action is named by the file it declares, `<<c, "full">>`
for Rustc and `<<c, "metadata">>` for RustcMetadata.

| Model | Code |
|---|---|
| `crateInfo[c].metadata`, `.pipelines` | `CrateInfo.metadata`, `metadata_supports_pipelining` |
| `depInfo[c].crates` | `DepInfo.transitive_crates` |
| `depInfo[c].outputs`, `.metadataOutputs` | `transitive_crate_outputs`, `transitive_metadata_outputs` |
| `CanBuildMetadata`, `CanUseMetadataForPipelining` | the functions of that name in `utils.bzl` |
| `CollectDeps`, `DependOn`, `Opened` | `collect_deps`, its `depend_on` and its `is_proc_macro` |
| `Inputs` | `collect_inputs` |
| `Externs`, `SearchPath` | `add_crate_link_flags` |
| `Emit` | `emit` in `rustc_compile_action` |
| `DeclaredMetadata`, `OutputHash` | the file names the rules declare, `output_hash` |
| `verdict[a]` | what Bazel knows of an action |

rustc is external. The crates it loads for a target (`Needed`) are defined from the
graph alone, as the least set closed under "depends on, unless it is a macro", and not
from what the rules collected: that the two agree is what is checked and proved. `needs`
holds that set, so that it is computed once; it never changes. rustc fails if a crate is
not found or only found in a form that does not serve (`FindsCrates`), if a dependency
was compiled against another variant of a crate (`CratesAgree`), or for its source
(`broken`, while checking or in code generation); Bazel fails an action whose declared
output is not there (`WritesOutput`).

`CrateBuild` knows no files: a crate is checked, built or rejected, a crate is compiled
only if what it needs is checked (and built, for macros and for whatever is linked), and
it is rejected for its own source alone.

### The build script runner

`BuildScriptRunner` is `run_buildrs()`: the runfiles directory and OUT_DIR are functions
from paths to what is there (a directory, a copy, a link, nothing), and an action is one
turn of a loop over paths, in any order, as a directory is read in any order. The script
is external: it writes over what it likes, makes directories, leaves files and links of
every kind and prints lines. (It does not remove a directory of the layout: the runfile in
it would go with it, a cause like `Deletes`. What `remove_symlink` removes is what it
removes on unix; on windows an empty directory goes too.) `InputOutputFails` may take the
place of any step that touches a file, and the runner then stops where it is, as the code
does, but for the sweep of volatile files: its errors are ignored on purpose
(`bin.rs:270`), so that `Sweep` leaves any of them, remembers which (`refused`) and goes
on, and `MarkOutDir` takes a directory that cannot be listed for an empty one
(`bin.rs:250`). `BuildScriptOutput` is what becomes
of the lines: the four files, with the escapes of each, and their two readers,
`options.rs` of the process wrapper and the runner of a dependent crate.

### Pinning

`CargoBazel` is the loop around Cargo.lock and `cargo-bazel-lock.json`. Its program is
`query`, `splice`, `generate` and `vendor`, one action per file that is read or written,
with a write in two steps (`bazel lock cut`: emptied, not yet written). `Fail` ends a
run anywhere. The environment edits the listed manifest, the manifest of another member,
the settings, either lockfile, or the registry at any time, also while a run is at work;
in particular between `query`, which compares the digest, and `generate`, which reads the
lockfile once more (`pc = "rendering"`). `setup` is how the rules call the program. A digest is modelled by the versions of what it covers, so that it is
equal exactly if that is.

| Model | Code |
|---|---|
| `run.context` | the `Context` that is read, made and rendered |
| `bazelLock.digest` | `Context.checksum` and `Digest` of `lockfile.rs` |
| `run.lock` | `Cargo.lock` in the temporary workspace |
| `history` | no variable of the code: what has happened since it last pinned |

### Splicing

`Splicer` is `splicer.rs` over two file systems: the user's files and the directory of
the workspace that is spliced, which holds links into the first. A write that goes
through a link changes what it leads to. The steps are those of `SplicerKind::splice`,
in the order of `todo`, for a workspace, a package and several packages; `Broken` is an
error at any of them. What Cargo sees is read back through the links (`MembersAt`, the
config, the tables of the root manifest). `CargoRegistries` is `crate_index_lookup.rs`
and `cargo_config.rs`: which index and which replacement a package's source has.

### The tree resolver

`TreeResolver` is `execute_cargo_tree` and `generate`. A thread (`ThreadEnds`) ends at
any time in any of three ways; the pool spawns up to `MaxParallel` and joins the oldest.
`CargoTreeOutput` defines what `cargo tree` prints for a workspace, on a host and a
target, from the rules of Cargo's resolver, and parses it with the code's own stack of
indentation. The printer (`PrintNext`) keeps a list of what is still to be printed; the
crates below one go in front of it the first time that the crate is printed. The result
is compared with what the workspace resolves to (`Resolution`, on what `Built` reaches
from the members), computed without either.

### Crate contexts and rendering

`CrateRendering` makes of `cargo metadata` and the trees what the user gets, in five
steps: sources, annotations and extras, crate contexts, BUILD files, the module with its
aliases and macros. They are functions of their input; the variables are what each step
hands to the next, and the state ends in `done`, `failed` or a panic. `CargoMetadata` is
the package graph as Cargo prints it, with renames, optional and platform-specific
edges; `CrateContexts` are `CrateContext::new`, its annotations and `Dependency`;
`Selects` is the map from conditions to values of `select.rs`, with its merges. The
reference is the graph: on each triple a rule has to depend on what Cargo builds its
crate with.

`defs.bzl` is modelled as its templates make it: for each member and kind a dictionary of
dependencies (`DepsMap`) and one of aliases (`AliasesMap`), filled from the kinds the
template names (`AliasesOf`), and the macros `all_crate_deps` and `aliases` that merge and
read them (`Flatten`). What a member gets is a label, name and version, of an alias of the
module, so that it is looked up in `aliases` as `RenderModule` leaves them (`LeadsTo`).
That a macro's label leads nowhere, and that a name is not given, are the divergences
[below](#what-the-models-found); `Lost` and `MemberAliasesApply` say where, exactly, and
`DefsLoad` when Bazel can load the file at all. `crate_deps` looks names up in the same
dictionaries and is not modelled.

### protoc wrapper

`ProtocWrapper` is `main()` with its directories, which outlive it: a build of a target
that was cut off is followed by another, with another list of files. Combining is a loop
over the files it renames and removes, taken in any order; a file that must be read or
renamed and was already taken for another is a panic, and so is each other error, at any
step (`ProtocFails`, `Broken`). A dependent's build reads the package info that was
written. protoc, prost and tonic are external: a file per package,
with what the package's messages need.

### rust_analyzer, vscode, runfiles, labels

`RustProject` goes from the aspect's specs over `aquery.rs` (query, merge, consolidate)
to `rust_project.rs` (the passes over crates that wait for others) and
`discover_bazel_rust_project.rs` or `gen_rust_project.rs`; `RemoveOld`, `Write` and
`Flush` are the three steps the latter writes its file in. `Killed` stops it anywhere.
`ReplacedByProject` covers what precedes these steps: between them there may be no
file, or a part of one.
`Runfiles` finds the toolchain's files, from the directory, the manifest or the
environment, with the repository mapping and the escapes of manifest lines; it is
evaluated for every launch.

`LaunchJson` is the vscode tool, run after run, and a user who edits the file and the
workspace between any two of its steps. `Label` is `Label::analyze` as a function, next
to the grammar it is to accept (`Denotes`), written without reference to the code's
searches for separators.

## Runs

Distinct states and seconds are those of one run with two workers.

| Run | States | Properties | Question |
|---|---|---|---|
| `fastpath_solver` | 18843, 31 s | `TypeOK`, `ResultExact`, `NothingForgotten`, `Least`, `RefinesClosure`, `Converges` | is the result the least fixpoint with exact links, do worklist and retirement lose nothing, does resolution end? |
| `fastpath_solver_late_feature` | - | `ConvergedIsFixpoint` | refuted: a feature that arrives late |
| `process_wrapper` | 333848, 45 s | `TypeOK`, `OutcomeSound`, `OutputKept`, `LaunchMeant`, `RefinesCompileAction`, `WrapperEnds` | does the child get what the command line means, does exit code 0 mean outputs, is nothing lost, does it end? |
| `pipelined_build` | 50311, 120 s | `TypeOK`, `InputsExact`, `KeepsPromise`, `BuildProceeds` | are inputs exact, do only broken targets fail, does everything else get built, and metadata without object files? |
| `build_script` | 11846, 12 s | `Captured`, `FailsForCause`, `OutputArrives` | what does Bazel capture, when does the runner fail, what do rustc and dependents read? |
| `tree_resolver` | 13412 | `PoolSound`, `TreesMerged`, `PoolEmpties` | does the pool stay in its limit and empty, is no failure passed over, is the result what Cargo resolved? |
| `cargo_bazel` | 719285 | `ServedIsCurrent`, `LocksSettled`, `PinsAreNeeded`, `MergesAreRefused` | is what is served current, do the lockfiles agree, does pinning settle? |
| `crate_contexts` | 28256 | `DepsRight`, `NamesRight`, `AnnotationsHeard` | do BUILD files say what Cargo resolved, do names lead there, do annotations take effect? |
| `splicer` | 132754 | `UserFilesUntouched`, `MembersSpliced`, `SettingsKept` | do the user's files stay, does Cargo see all members, patches and indexes, and the given config only? |
| `protoc_wrapper` | 77092 | `LibExact`, `TypesKnown` | is a crate exactly what was generated for it, where its info says? |
| `rust_analyzer` | 4719 | `ProjectExact`, `FilesFound`, `ReplacedByProject`, `Answered` | is the project what the targets make of it, does the editor get one answer? |
| `launch_json` | 320695 | `ConfigurationsKept`, `NotWrittenOver` | are labels read by the grammar, do the user's configurations stay, is each target there once? |

Most properties are conjunctions of parts that are about one subject and have names of
their own; `PROJECT.json` lists the mutants of the code that break them.

| Property | Parts |
|---|---|
| `ResultExact` | `ResultClosed`, `LinksExact`, `LinksJustified` |
| `NothingForgotten` | `WorklistComplete`, `RetiredDone` |
| `OutcomeSound` | `SuccessSound`, `FailureReported`, `MarkerMeansDone`, `NoOrphan` |
| `OutputKept` | `DiagnosticsDelivered`, `LogFaithful` |
| `LaunchMeant` | `LaunchedAsAsked`, `ArgumentsMeant`, `FeaturesGated`, `EnvironmentMeant` |
| `WrapperEnds` | `AlwaysEnds`, `QuitsOnMetadata` |
| `BuildProceeds` | `SoundTargetsAreBuilt`, `MetadataIsUnlocked` |
| `Captured` | `TypeOK`, `RunfilesCaptured`, `OutDirCaptured` |
| `PoolSound`, `TreesMerged` | `TypeOK`, `ProcessesBounded`, `FailuresSeen`; `OutputsUnderstood`, `ResolvesExactly`, `MacrosOnEveryHost` |
| `LocksSettled` | `TypeOK`, `LocksAgree`, `RepinSettles` |
| `DepsRight` | `TypeOK`, `DepsAsResolved`, `MacrosApart`, `MemberDepsAsResolved` |
| `NamesRight`, `AnnotationsHeard` | `AliasesApply`, `MemberAliasesApply`, `LabelsExist`, `DefsLoad`, `AliasesUnambiguous`, `RepositoriesVisible`; `AnnotationsApplied`, `FlagsHeard`, `RundirHeard` |
| `MembersSpliced`, `SettingsKept` | `TypeOK`, `MembersFound`, `PathIds`, `MembersTracked`; `ConfigReproducible`, `PatchesKept`, `SourcesKnown` |
| `LibExact`, `TypesKnown` | `TypeOK`, `LibComplete`, `LibFresh`; `TypesFound`, `ExternsPassed` |
| `ProjectExact`, `FilesFound` | `TypeOK`, `CratesAreMerges`, `DepsFound`, `ProjectComplete`; `OwnersDiscovered`, `RunfilesFound` |
| `ConfigurationsKept` | `TypeOK`, `ParsedByGrammar`, `UsersKept`, `MadeOnce` |

**Instances and bounds.**

- `fastpath_solver`: three crates are a member, a crate with a table and an optional
  dependency, and that dependency. Each order of the list makes another pair be visited
  before the other; two triples are what it takes for a dependency to apply on one and
  not on the other, which is where retirement and matching differ. Further graphs have
  feature predicates and dependencies missing from Cargo.lock; the properties that need
  targets free of them say so. `MaxRounds` is 3, with which most graphs converge and
  some run out of rounds, and 50 as in the code where a late feature is the question.
  `Least` compares with all closed assignments of the graphs in `Compared`, those small
  enough to enumerate them.
- `process_wrapper`: 1265 command lines. Seven are those the rules make, under
  which the child runs with every interleaving: all six kinds of line, `MaxLines` 3 (a
  message, the line that ends the loop, one after it), `PipeCapacity` 2 (full with a
  line to come). The others vary parameter files, environment, statuses and
  substitutions, or are not what the parser expects; a file may name one that is
  missing, or itself.
- `pipelined_build`: all graphs of four targets in which a target depends on lower
  numbers (Bazel rejects cycles), and for four shapes all flags, libraries that opt out
  or have no wrapper, tests, shared libraries, a broken source anywhere. Four are enough
  for a crate that is reached on two paths, one of them through a macro, below a target
  that takes it directly as well.
- `build_script`: eight paths of runfiles and five of OUT_DIR, with runfiles,
  directories and entries of the exec root of one name; one script output of each kind,
  and pairs of lines; links in OUT_DIR to each kind of thing a runfiles directory may
  hold, with and without symlinks (`Followed`); and directories the script makes in the
  package, in place of a runfile or of a link to the exec root, and as the marker
  (`Directories`).
- `tree_resolver`: `MaxParallel` 2 with up to six pairs, so that jobs queue. Linux under
  two of Bazel's names, a Mac, and WebAssembly, which is never a host; all kinds of
  edges among an app, a library, a macro, and what the macro uses.
- `cargo_bazel`: two crates. Each of the manifests, settings and the registry changes
  once (`MaxEdit` 1), and a Bazel lockfile is merged by hand once before it is pinned anew, at any point of any number of runs: enough for a state that is
  stale, and for one that is stale again after a run was cut off.
- `crate_contexts`: some 4800 workspaces of seven packages, two of them versions of one
  crate, on three platforms of which two are one triple to Cargo.
- `splicer`: some 9300 inputs of a workspace and three packages, with configs and
  lockfiles given, found, or left from before.
- `protoc_wrapper`: two builds, of one target or of a target and its dependent.
- `rust_analyzer`: workspaces of up to five targets; eleven ways to start the tool.
- `launch_json`: `MaxRuns` 2; every name of up to five characters from the five that the
  parser tells apart, longer ones where a case needs them.

The proofs remove the bounds of `fastpath_solver`, `process_wrapper`, `pipelined_build`,
`cargo_bazel`, `tree_resolver`, `splicer`, `build_script`, `rust_analyzer` and `launch_json` for the
properties they prove.

**Deadlock** is checked where the end is a step of its own (`Ended`): in
`fastpath_solver`, `process_wrapper`, `build_script`, `tree_resolver`, and in
`cargo_bazel`, where a next run may always start. Elsewhere the program stops when it is
done or has failed, and a build rightly stops once its actions have all run or wait for
one that failed. That it does not stop before is `SoundTargetsAreBuilt` there, and
`Answered` in `rust_analyzer`.

**Fairness.** `resolve()` is a loop that nothing suspends: weak fairness of its next
step. The wrapper is a thread that runs whenever it is not blocked on the pipe or on the
child: weak fairness of parsing and of `WrapperStep`. `QuitsOnMetadata` needs no more:
it must not depend on the compiler. `AlwaysEnds` has as its premise that the child ends
if the pipe is not full (`ChildEnds`): a compiler does end, unless it is blocked
writing. No fairness is assumed for what it writes. Bazel analyses every target it was
asked for and, with `--keep_going`, runs every action whose inputs are there: weak
fairness of each `Analyze(c)` and `Execute(a)`. The resolver goes on and cargo does not
run for ever: weak fairness of `Pool` and of each `ThreadEnds(p)`. The rust_analyzer
tools are one thread that waits for nothing but Bazel, which ends: weak fairness of
`Proceed`. The other modules state no liveness: their programs are straight lines and
finite loops.

## Proofs

Eight modules hold them. Every step is checked by the SMT backend, Zenon, or LS4 for the
temporal steps.

**`FastpathSolver_proofs`** proves, for any number of packages and any graphs, triples,
names and number of rounds:

- `TypeCorrect`, `SolverResult` (`ResultExact`), `SolverForgetsNothing`
  (`NothingForgotten`), `SolverLeast`, and `SolverRefines` (the last for graphs without
  feature predicates in targets), with a theorem for each part.

That the result is closed is not inductive: a state in the middle of a round is not
closed anywhere. The invariant says where the debt is (`WorklistComplete`): a package
that neither worklist holds has nothing left to do; the one being processed has nothing
left but the entries in `todo` and the dependencies from `depIndex` on, unless it will
be visited again. A retired entry is exempt from scans for ever, so `RetiredDone` must
say that it owes nothing under any later features either, which holds because without
feature predicates a match never changes (`MatchStable`) and a switch that is on stays
on (`SwitchedOnGrows`). `NextGrows` and the lemmas on clauses say that a step only adds,
and adds only what a rule allows; with an empty worklist the debt is nil, and that is
`ResultClosed` and `LinksExact`. `Least` is inductive with the types: each rule's
conclusion lies in every closed assignment that contains its premises, which needs that
all clause forms are monotone (`PassedGrows`).

**`ProcessWrapper_proofs`** proves, for pipes of any size, children that write any
number of lines, and any set of command lines:

- `TypeCorrect`, `WrapperOutcome` (`OutcomeSound`) with its parts, `WrapperLogFaithful`,
  `WrapperKeepsOutput` (`OutputKept`), `WrapperRefines`;
- for every set of launches, files and environment, that reading a command line is a
  stutter of `ProcessWrapper` that ends in options it allows (`LaunchImplements`);
  whence `LaunchOutcome`, `LaunchKeepsOutput` and `LaunchRefines`, the same for the
  program from its first flag on;
- `LaunchMeans` (`LaunchMeant`): whatever the flags, the files and the environment, the
  compiler is started with what they say, and only a command line that makes no sense,
  or one whose files fail, is refused.

The invariants: a notification that is in the pipe or was read was preceded by the
metadata file (`Announced`); past the wait the exit code is that of the child's status
and the child is gone (`Judged`); the marker exists only past that point (`Marked`);
what is logged and what is in the pipe make up what was written, until a line ends the
loop (`LogInv`).

`OutputKept` compares what was forwarded with a filter of what was written. The
invariant (`DeliveryInv`) speaks of positions instead: there are increasing positions of
what was written at which the forwarded lines stand, they lie before those the pipe
still holds, and each diagnostic that was read stands at one of them. One line read adds
a position or passes over a line that may be dropped; so no induction over the sequence
is needed, and at the end of the loop, with the pipe empty (`PipeAtEnd`), the positions
are those of all diagnostics.

`LaunchMeant` compares what `options()` computes, one flag, line and key after another,
with what the whole command line means. Its invariant (`LaunchInv`, checked with TLC
before it was proved) places the parser: there is a number of options after which the
flags read are those the options up to there give, all of them well formed, and what is
left of `argv` is the rest (`AtOption`). `TakesIs` is one turn of the loop: the next
option is taken if it is well formed, refused if not, and `--` ends the loop. What follows
is about functions. An argument with its references replaced is a sequence of which
each element is replaced by a sequence (`Expand`); replacing one key of a list after
another is one such expansion, by the first value of each key (`ReplacedIs`), because no
value refers to a key itself. A file read to the depth there are files means what it
says (`ReadIsMeant`), the file written for it is found by its name, as no two are expanded
into one (`WrittenIs`), and the features it asks for are seen (`FeaturesSeen`); the
variables are by induction over the lines that set them (`EnvFromFilesIs`). The
inductions use recursive functions, whose existence `Recursion` proves.

**`PipelinedBuild_proofs`** proves, for any set of targets, any graph, any combination
of flags and any broken sources:

- `TypeCorrect` and `InputsAreExact`;
- `OnlyBrokenFail` and `PromiseKept`, assuming `NamesAgree`: a build with
  `always_enable_metadata_output_groups` has no tests, no `cc_common.link` and is not
  for Windows. What happens otherwise is under [What the models
  found](#what-the-models-found).

The rules pass sets from provider to provider; rustc follows the graph. The lemma that
joins them is `NeededUnfolds`: the least closed set is the dependencies and what those
that are not macros need, which is one step of `collect_deps`. The invariant
(`ProvidersExact`) says of every analysed target that its providers hold exactly that
set in each of their three forms, and that what it needs is analysed, so that no later
step changes those forms (`ProviderKept`). From it follow the inputs (`InputFor`), that
rustc finds its crates (`CratesFound`) and that an action whose inputs were made may
compile in the sense of `CrateBuild` (`ReadyCanCompile`).

**`CargoBazel_proofs`** proves, for any crates, any dependencies of the manifests, any
number of edits (`MaxEdit`) and every way in which the rules may call the program:

- `TypeCorrect`, `ServedCurrent`, `PinsNeeded`, `MergesRefused`, `LocksAreSettled`.

A lockfile is served runs after it was made, and inputs have changed in the meantime; so
the invariant has to speak of the lockfile at rest. `LockInv` says what a digest that
matches stands for: it is about this very content unless someone merged the file by
hand, about these settings always, and about these manifests unless one was edited while
it was made. `RunInv` says at each place of the program what was read so far and what it
is worth there. `ServedIsCurrent` is the case of the two at the end of a run that
rendered without pinning. `MergesRefused` is another: a merge breaks the digest, which the
run refuses unless the file was merged after it was compared and before it was read again
(`history.late`); an earlier model allowed no merge there, and the property read that none
is ever served.

`LocksSettled` relates two lockfiles and the rendered files, which are written one after
the other and survive the run. `QuietInv` says what the three are while nobody edits
anything: of one resolution of the present inputs, with members in Cargo.lock just where
the setup leaves them. It is carried from run to run by what a run that nobody disturbs (`history.steady`) knows of its own
files at each place (`FilesInv`, `CargoLockInv`, `BazelLockInv`) and by the inputs it has
read (`InputsRead`). That pinning again changes nothing is `RepinInv`: the lockfile a run
works with keeps the pins it found, by `ResolvedSame`, since a minimal update of pins
that are all needed is none.

**`TreeResolver_proofs`** proves, for any finite set of triples, any limit and threads
that end in any order and any way, and for any workspace:

- `PoolIsSound` (`PoolSound`) and `TreesAreMerged` (`TreesMerged`).

`PoolInv` adds to the property that each pair is in one place: waiting, in flight or
joined, once. The lemmas `HeadElements` and `AppendElements` say this of the queues, as
sequences without repetition, and `PoolBound` that the processes at work are among
those in flight.

`TreesMerged` says that printing, parsing, merging and splitting together are the
identity on what Cargo resolved. The argument has five parts.

- *Recursion.* `Parse`, `Printed` and `Built` are recursive functions of a length.
  `Induct` is induction for a set of numbers instead of a predicate, from the
  well-foundedness of the naturals; `Recursion` and `RecursionIs` give from it that each
  function exists and takes its step, as lemmas about one function of steps.
- *In step.* `Sync` relates the printer after some lines to the parser of those lines:
  the item at the head of the list has its parent on the parser's stack at its depth, in
  the section the parser is in, and each later item finds its own there once the ones in
  front are done (`Queue`); the parser knows the crates printed, with all features and
  with those dependencies whose items have been printed (`EntriesRight`). `SyncStep`
  keeps it, through `CrateParsed` and `MarkerParsed`, which are the parser's branches, and
  `QueueConcat`, which puts a crate's dependencies in front.
- *It ends.* `Left`, the length of the list and the most lines that each crate not seen
  could add, falls with each line (`LeftFalls`), so that the list is empty when the bound
  is reached. Then what was seen is closed under dependencies, and every item printed is
  built: with `BuiltLeast`, that `Built` is the least closed set, the parser's entries
  are `Resolution` (`SyncEnd`, `TreeParsed`).
- *Merging.* What is known of a crate for a triple is one entry for each side it is
  built on there, over all pairs (`TreeEntry`, `KnownEntries`). A branch of a triple never
  equals the common part, since the two share nothing and neither is empty; so
  `Select::insert`, which drops such branches, drops none, and the division loses nothing
  (`RestIsNotCommon`, `SplitIsLossless`).
- *Macros.* The copy is a workspace again with an edge from a member to every macro
  (`InjectType`), so the pair of a host and itself builds the macro for the host
  (`MacroBuilt`).

`StageInv` says what each stage has made of the one before, and joins the parts to the
steps of the resolver.

**`Splicer_proofs`** proves, for any files of the user's, any manifests and configs, and
a failure at any step:

- `FilesAreUntouched` (`UserFilesUntouched`), `SettingsAreKept` (`SettingsKept`),
  `MembersAreSpliced` (`MembersSpliced`).

Whether a write goes through a link depends on steps taken before it. A config is
copied over what has its name, so the link there must be gone (`LinksInv`); it is
removed only if the file it leads to exists, so every link has to lead somewhere
(`LinksLead`); and `.cargo` must have been relinked before, which is the order of the
steps (`TodoInv`). Every later write removes the link first or makes a file of its own.

`SettingsKept` is about the end, and what it asks for is put there at different steps.
`SettingsInv` says from which step on each is there. Between clearing and installing no
config is left, since whatever has a config's name is removed unless a link to nothing
hides it; after that only a package of the name `config` can put something in its place,
and that is a directory (`ConfigInv`). Each manifest whose patches are to be taken over
is still on the list of steps or its patches are in the root manifest (`RootInv`); that
nothing but locking follows the writing of that manifest (`WritesLast`) makes the file
complete (`FileInv`), and the sources are written into it from the config that was
installed (`SourcesInv`, `ConfigIsRead`).

`MembersSpliced` joins what was linked, what the root manifest lists and what the user's
files are. With many packages, each that is listed is still on the list of steps or both
linked and a member (`MembersInv`), and when the root manifest is written none is left
(`WrittenInv`). A link is never replaced, since a name that is taken is an error and
whatever else is written is at the root of the spliced workspace; so two packages of one
name would have one link, to two manifests, which is why the prefix of a name is that of
its package (`PathIdOfPackage`). With one root, everything beside `.cargo` is a link to
what has its name in the user's directory, or a file made later (`RootLinked`), and
Cargo finds there what it finds in the user's (`EntryLeads`).

**`Generators_proofs`** proves, of `BuildScriptRunner`, for any layout of runfiles, any
exec root and any script:

- `RunnerCaptures` (`Captured`), `RunnerFailsForCause` (`FailsForCause`), `OutputIsRead`
  (`OutputArrives`).

The tree at each stage is a function of the action alone (`Base`, `WithLinks`,
`Scripted`, `Unlinked`, `Drained`); the invariants say so, with the part of the loop that
is done (`LayoutInv`, `ExecLinksInv`, `UnlinkInv`, `DrainInv`). Directories are the
exception, as draining removes those it has emptied in an order that is not fixed. Of
them the invariant says that what is there is in directories that are there, and that
each holds a file, a directory of the script's or a runfile still to be drained (`Held`,
`PrunedStep`), or is the script's (`Made`): when no runfile is left to drain, none is empty
but those (`OccupiedAre`). That no cause is missed is `NoCause`: a run that has come past
the sweep has passed each place where one would have stopped it.

Of the files that carry a script's output, `WrittenInv` says that from their writing on
they are what the output makes them. What a reader then makes of them is a matter of
functions: the loop that keeps the outputs of one kind can be split and repeated
(`ChosenOfChosen`), the reader that joins continued lines gives back one value for each
that was written (`ReadsEach`), both by induction over the length, and a value survives
the escape and the stand-in for the exec root if it holds neither stand-in itself, which
is what `RunnerAssumption` says.

and, of `ProtocWrapper`, for any targets built in any sequence, any arguments, any order
in which files are combined and a panic at any step:

- `LibsAreExact` (`LibExact`), `TypesAreKnown` (`TypesKnown`).

All is about names of files, which are sequences of names. What a plugin writes for two
packages has two names, and prost's file of one is not tonic's of the other, unless a
package is named like tonic's files (`FilesApart`, `RawFilesApart`); those are the
targets that `Ambiguous` leaves out. The file of no package is renamed before combining
with tonic and after it without (`RenamedIs`).

The loop that combines is followed package by package: as long as one of a package's
files is still to come, they are as the plugins wrote them (`Apart`), and then there is
one file, under tonic's name, that has prost's piece before tonic's (`Together`). One
turn of the loop takes one file of one package, which after the first point touches no
file of another (`CombineOne`, `CombineStep`); with nothing pending all are together
(`CombineEnds`). The invariant (`OutputsRight`) says this of the stage `combine`, and at
each other stage that the directory has one file for each package that has one, of the
name that stage looks for, with the pieces of that package (`Whole`) and nothing else;
before `protoc` nothing is said, since whatever an earlier build left is removed. Whether
tonic is used is a fold over the arguments that may come in any order; `FlagsAre` says, by
induction over their number, that it is whether the flag is among them. The last step is
lib.rs: modules go by escaped paths, so the file of a module is the one of its package if
names are escaped apart (`LibRight`), which is in `BuildsAssumption`.

What a crate says of its types is read by another build. `InfosInv` adds to the
invariant that each target still to be built finds the package info of its dependencies
(they come before it, and a build that failed is repeated before anything else, so
`NextHasDeps`), that from `protoc` on the command names each of their lines (`Told`), and
that the target's own info is the one of its types once it is written (`Listed`). That
the command names them is again about the arguments: what one argument adds stays
whatever comes later (`FoldKeeps`), options for the plugins are made of all lines after
the last argument (`OptionsTold`), so that it does not matter whether `--is_tonic` was
before or after them (`CommandInforms`). What the info says of a type that has its proto
path for itself (`PathsListed`) is the path of a module and a name in it (`OuterLeads`),
and `LibsAreExact` has that module in lib.rs.

**`EditorTools_proofs`** proves, of `RustProject`, for any workspaces of finitely many
targets, specs read in any order, a stop at any step and either tool:

- `ProjectIsExact` (`ProjectExact`), `OldProjectKept` (`ReplacedByProject`),
  `OwnersAreDiscovered` (`OwnersDiscovered`, the half of `FilesFound` that is about
  build files).

While the files are read, each spec is what the files read so far make of it, in
whatever order (`SpecsRight`, whose parts survive one more file on either side). While
the crates are ordered, each crate that is out is what its spec says and its
dependencies are in front of it (`CratesRight`), and each spec is out or in the pass, of
which those skipped had a dependency missing (`Progress`). That a cycle is reported
exactly when crates wait for each other is `CycleIsDetected`: what a walk of
`detect_cycle` finds is the crates of a set each of which waits for one on the walk or
in the set, by induction on how many crates the walk has left (`Induct`, an induction
for sets of numbers).

It extends `LaunchJson` as well, whose names for what every specification has begin with
`Vscode` for that reason. Of it, it proves for any workspace, any launch.json, any edits
of the user's and any number of runs:

- `ConfigurationsAreKept` (`ConfigurationsKept`), `FilesNotWrittenOver`
  (`NotWrittenOver`), and `LabelParsed`, on which the first rests: for every string of
  characters, `Analyze` accepts what `Denotes` derives and gives the label it denotes.

The parser searches for separators, the grammar puts parts together. `LabelParsed` says
why no search cuts at the wrong place: a repository holds no slash, so that it can end
only at the first `//` (`RepoEndIs`); a package holds no colon and no `//`, so that its
name is behind the first colon (`WithColon`) and a second `//` refuses both
(`SecondMark`); and without a colon the name is what follows the last slash
(`NameOfPackage`). The invariant of the tool (`ToolInv`) says that the targets found have
labels the parser takes, and what is about to be written as a function of these targets
and of the file that was read. With it the properties are matters of lists: a
configuration goes exactly if it has a target's name (`ReplacesThose`); taking targets
out of the merged list gives what taking them out of the file gives (`WithoutAdded`,
`WithoutTwice`, by induction over the length); and none with a target's name is left in
front of those that are added (`EachOnce`).

**Assumptions.** `GraphAssumption` and `RoundsAssumption` (graphs are well-formed, at
least one round), `WrapperAssumption` (command lines and lines are of their types, the
pipe holds a line), `BuildAssumption` (workspaces are such as the rules accept), those
of `CargoBazel` (manifests have dependencies among the crates, setups are of their type,
what stands for no file is no lockfile), `ResolverAssumption` (a request has finitely
many triples, the limit is positive, there are finitely many crates, and a workspace has
a member or is virtual), `InputsAssumption` (paths are sequences of names,
the directory that is spliced into holds no link at the start: it is a temporary one or
the rule's own, and no manifest or config is one that Cargo refuses for a package named
`.cargo` or for two sources with one url), `MembersAssumption` (a label names a manifest
of its own Bazel package, packages below a workspace are its members, as Cargo insists,
under names that splicing neither makes nor removes itself, and the directory that is
spliced into has at most a `.cargo`), `RunnerAssumption` (runfiles are not in one
another, directories nest, `.empty` is neither a runfile nor an entry of the exec root, and a script prints paths
but not the text `${pwd}`, which stands for one), `RequestsAssumption` (a workspace has
finitely many targets, with labels of their own), `PackagesAssumption` (a target of
the workspace is declared in a build file there, its sources are below that file with no
other in between, and it is built in some configuration), `CharsAssumption` (`/`, `:` and
`@` are in no name of a repository or package), `BuildsAssumption` (a build is of one target
or more, with arguments and proto files that are sequences and finitely many types in a
file, no part of a package is `_`, no two names are escaped to one, as `r#` is in no
name; a target is given the package info of exactly its dependencies, as `prost.bzl`
writes its arguments, and these are built before it, none being itself),
`LaunchAssumption` (the wrapper's own tokens are tokens, which the provers do not know of
strings; there are finitely many files, and they, the environment and the command lines
are made of tokens; an option's values do not begin with `--`; what `--subst` stands for
has no `${x}`, unless it is a place as a whole, as the rules pass it, and what a status
stands for has no `{x}` or `${x}`) and
`ScenariosAssumption` (targets have labels that the parser takes, and files and edits are
of their types). TLC evaluates
them in the runs.
`NamesAgree` is a hypothesis of two theorems and holds of the instance of
`pipelined_build`.

**Only model-checked.** Liveness (`Converges`, `WrapperEnds`, `BuildProceeds`,
`PoolEmpties`, `Answered`) is out of the proof system's reach. Of the safety properties
these have no theorem yet: the `RunfilesFound` half of `FilesFound`, and those of
`CrateRendering`, which are about what one evaluation computes from nested maps, by folds
over sequences. Induction over a length is possible where the fold is a recursive
function, as `Parse` of `CargoTreeOutput` and of `ProtocWrapper`, `Chosen` and `ReadFileToArray` of
`BuildScriptOutput`, `Without` of `LaunchJson` and those of `WrapperOptions` are; the library's
folds and its induction theorems, which take operators, are beyond the provers.

## What the models found

With a run:

- `fastpath_solver.bzl:199` retires a dependency when all triples that match *now* are
  linked. If its target mentions a feature, more triples may match later; they are never
  linked, and the result is not a fixpoint (`fastpath_solver_late_feature`). Without
  feature predicates retirement is right (`SolverRetired`).

Without one; where such a case would break a property, the property or its instance
leaves it out, and says so:

- `fastpath_solver.bzl:41` reads the target of a dependency that Cargo.lock does not
  hold; where the target is absent resolution stops with an error instead of skipping
  it.
- `output.rs:110`: after a bad line the rest is not logged, though the option is
  documented to log everything.
- `main.rs:192`: `was_killed` is set although the child may have ended by itself, and on
  windows that turns a failure into success.
- `options.rs:247`: with `--require-explicit-unstable-features` and nothing after `--`,
  the flag that is added is taken for the program, and the error meant for that case is
  not given.
- `options.rs:317`: a parameter file that names itself, or two that name each other, are
  read without end, and the wrapper dies of it before it starts a child (`PrepareParamFile`
  takes this as a refusal).
- `options.rs:237`: the command may come from `--arg-file` alone, without a `--`; an
  earlier `WellFormed` asked for one, and the proof failed there.
- `process_wrapper/util.rs:58`: a last line that ends in an odd number of backslashes
  waits for one to join it with, and is lost.
- With `always_enable_metadata_output_groups` a test's metadata is declared without the
  hash that rustc puts into its name (`rust.bzl:384`), and a binary and its test declare
  the same file (`rust.bzl:282`). `cc_common.link` drops the metadata from `--emit` but
  not the action (`rustc.bzl:1462`), and on Windows the declared name of a macro's
  metadata has no `lib` prefix (`utils.bzl:846`). The flag also overrides
  `disable_pipelining`, documented to produce no `.rmeta` file (`utils.bzl:740`). Builds
  without that flag are not affected.
- `bin.rs:279`, `:298`: a volatile file that cannot be removed, or that is in a directory
  that cannot be read, stays in OUT_DIR, and the runner succeeds (`refused`). That is what
  the comment at `bin.rs:270` says; an OUT_DIR that cannot be listed afterwards is taken
  for an empty one and gets a `.empty` beside what is in it, or written over it (`bin.rs:250`).
- `cargo_manifest_dir.rs:284` removes the directories of the layout that draining has
  emptied, not those the script made, which Bazel captures empty. One the script made over
  a link or a runfile, or as `.empty`, makes the run fail after the script succeeded.
- `bin.rs:220`: what the script writes over one of the runner's links to the exec root is
  removed with the links, so that a link in OUT_DIR to it makes the run fail (`Survivors`;
  an earlier `FailsForCause` did not say so, and the proof failed there).
- `splicer.rs:337` removes whatever is called `config` or `config.toml` in the root of
  the spliced workspace, as a config of Cargo's, though Cargo reads none there: a
  workspace whose member is in a directory `config` loses the link to it
  (`MembersAssumption` leaves it out, since no proof of `MembersFound` goes through with
  it).
- `query.rs:68` compares neither Cargo.lock nor the manifests of members that are not listed.
- `lockfile.rs:68`: the digest is taken of the manifests at the end of a run; a manifest
  edited while it ran leaves a lockfile of the old one under a digest of the new one.
  `history.raced` is that case.
- `query.rs:43` compares the digest and `generate.rs:122` reads the lockfile again, in
  another process and without comparing: a lockfile that changes in between is rendered
  as it is then, and refused by the next run. `history.late` is that case.
- `vendor --dry-run`, documented to print instead of writing (`vendor.rs:81`), removes
  the vendored directory and writes Cargo.lock (`vendor.rs:302`, `:308`).
- An optional dependency whose package is used on a platform for another reason is given
  there, though Cargo does not use that edge (`dependency.rs:211`). `Given` is that
  case.
- `deps_map.j2:33` makes a member's labels of a crate's name and version. The alias of
  that name is not made when members know the crate by several names, none its own
  (`rendering.rs:223`, where two renames of one version keep each other from it), nor for a
  macro that only build scripts use (`context.rs:206`): `all_crate_deps` and `aliases`
  give labels that lead nowhere (`Lost`).
- `module_bzl.j2:306`, `:310`: the dictionaries of aliases for macros are filled with those
  of dev-dependencies, of macros and of libraries, so that a renamed macro is not renamed.
  `:276`: where a member's dependencies have several conditions, `aliases` drops
  all names that are given under a condition.
- `aliases_map.j2:33`: a member that knows one package by two names, neither the
  package's own, as the same kind of dependency gives a dictionary one key twice, and
  `defs.bzl` cannot be loaded (`Loads`).
- `_flatten_dependency_maps` (`module_bzl.j2:30`) collects entries of one name with
  different labels in order to alert of them, and does not: of a normal and a
  dev-dependency of one name that are different packages, asking for both gives the
  latter only (`Shadowed`).
- A scalar that a `select` of an annotation gives for some platforms has no default, so
  that others cannot be built.
- `protoc_wrapper.rs:378` puts the enclosing types of a nested type into lower case,
  where prost uses snake case. It does so in the proto path too: a type inside a message
  `Foo` of package `a` and one of package `a.foo` then have one path, and the one in the
  later file takes the other's place in the package info (`Alone` leaves these out; TLC
  finds `TypesFound` violated without it, and no proof goes through). Two packages of a target with one name in snake case lose
  a file (`Ambiguous`).
- `aquery.rs:236`: of a crate that is a macro and a test, the order of the specs decides
  the type; `aquery.rs:243` gives a binary the label of its test.
  `gen_rust_project.rs:54` drops a `BufWriter` without flushing it, so that an error of
  the last write is lost. The cycle report (`rust_project.rs:419`) visits each path, not
  each crate: its time is exponential in the crates.
- The vscode tool cannot add to a launch.json that is an object without
  `configurations`.

## Not modelled

- Formatting and the text of rendered Starlark and of messages; debug output; `--help`;
  attributes that only pass through to the rules; license data.
- What external programs do beyond what the code relies on; grandchildren of the wrapper
  that inherit its pipe.
- In the pipelined build: C++ dependencies, linkstamps, build script outputs and data;
  the action of `cc_common.link`; aspects that force object files
  (`force_depend_on_objects`: rustdoc, which has no second action); actions without a
  sandbox, where the two actions of a crate write the same metadata file; tests of
  tests; crates whose metadata differ between two runs of one compiler.
- Negated feature predicates in targets are part of `FeatureGraph`, but properties
  exclude them: Cargo gives them no order-independent meaning.
- The fastpath resolver around its solver: downloads, caches, its lockfile and
  rendering.
- Splicing: ignore lists, which have no effect, and links on Windows. Two kinds of
  source at one url.
- Merging the tags of the crate extension into a configuration.
- The tasks.json half of the vscode library, which no program calls.
- Clippy, rustfmt, rustdoc and unpretty aspects, toolchains and repositories: no state
  of their own; what they ask of the process wrapper (touch, copy) is in its runs.
  rustfmt, coverage, mdbook, wasm-bindgen and manifest helpers: sequential, around
  external tools.

## Plan

Modules 1 to 11 are written: the solver; the wrapper with its launch; the pipelined
build; the build script runner; the tree resolver; pinning; contexts and rendering;
splicing; the protoc wrapper; the rust_analyzer tools; the vscode tool. What is left, in
order of importance:

1. Proofs of `RunfilesFound`, then of what `CrateRendering` computes.
2. `FastpathCache`: lockfile and archive cache under interrupted and concurrent runs, as
   a refinement of a fetch without a cache.
3. Version matching of `fastpath_semver.bzl` and the cfg parser, against reference
   definitions over bounded inputs.
4. `PipelinedBuild` without a sandbox: the metadata file as shared state of the two
   actions, each a `ProcessWrapper`.
5. `CargoBazel` with `Splicer` and `CrateRendering` as its steps, in place of the
   versions that stand for what they read and make.
