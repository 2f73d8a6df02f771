----------------------------- MODULE RustProject -----------------------------
(***************************************************************************)
(* How the projects for rust-analyzer are made (tools/rust_analyzer): the  *)
(* specs that the aspect writes for the crates of a workspace are read     *)
(* (aquery.rs), those of one crate are made one, and the crates are        *)
(* ordered by their dependencies (rust_project.rs).  gen_rust_project      *)
(* writes the result to rust-project.json, discover_rust_project prints it *)
(* for the editor that asked.                                              *)
(*                                                                         *)
(* A request is a workspace, a tool, its argument and a way to start it.   *)
(* Directories are sequences of names, <<>> the one Bazel does not see;    *)
(* Root is the workspace's.  A crate is identified by its root file.       *)
(***************************************************************************)
EXTENDS Runfiles

CONSTANTS
  Requests,    \* the requests under study
  Launches,    \* the ways to start a tool, in any order
  Root,        \* the directory of the workspace
  None

\* Bazel's targets go by their labels, and a tool finds no project file or an old one.
ASSUME RequestsAssumption ==
  \A r \in Requests :
    /\ IsFiniteSet(r.workspace.targets)
    /\ \A t, u \in r.workspace.targets : t.label # None /\ (t.label = u.label => t = u)
    /\ r.tool \in {"gen", "discover"} /\ r.file \in {"none", "old"}

VARIABLES
  request,   \* what is run
  stage,     \* what the tool does next
  toolchain, \* where the toolchain's file is found, which how the tool was started decides
  unread,    \* the files of specs that are still to be read
  specs,     \* the spec of each crate
  pass,      \* unmerged_crates
  todo,      \* those the pass has not come to
  skipped,   \* skipped_crates
  crates,    \* the project's crates, in order
  runs,      \* the labels of the runnables of kind Run
  warned,    \* "Cycle detected"
  file,      \* rust-project.json
  lines      \* what was printed: the answer for the editor

vars == <<request, stage, toolchain, unread, specs, pass, todo, skipped, crates, runs, warned, file, lines>>

Ws == request.workspace
Launch == Launches[request.launch]
Target(label) == CHOOSE t \in Ws.targets : t.label = label
\* crate_id
IdOf(label) == Target(label).root
------------------------------------------------------------------------------
\* The aspect: the spec of a target in one of the configurations it is built in.
SpecOf(target, configuration) ==
  [id      |-> target.root,
   name    |-> target.name,
   type    |-> target.type,
   test    |-> target.test,
   deps    |-> {IdOf(dep) : dep \in target.deps} \ {target.root},
   aliases |-> [id \in {IdOf(dep) : dep \in DOMAIN target.aliases} |->
                  target.aliases[CHOOSE dep \in DOMAIN target.aliases : IdOf(dep) = id]],
   cfg     |-> target.cfg,
   build   |-> IF target.external THEN None ELSE target.label,
   dylib   |-> IF target.type = "proc-macro" THEN configuration ELSE None]

Labels == {t.label : t \in Ws.targets}

\* What is needed for the targets: in every set that has them and all it depends on.
Closure(labels) ==
  {l \in Labels : \A set \in SUBSET Labels :
     labels \subseteq set /\ (\A k \in set : Target(k).deps \subseteq set) => l \in set}

\* The files that aquery names; a file is a label and a configuration.
SpecFiles(labels) == {f \in Closure(labels) \X {"target", "opt-exec"} : f[2] \in Target(f[1]).configurations}
------------------------------------------------------------------------------
\* consolidate_crate_specs: a spec for a crate that has one.
BothAliases(existing, spec) ==
  [id \in DOMAIN existing.aliases \union DOMAIN spec.aliases |->
     IF id \in DOMAIN spec.aliases THEN spec.aliases[id] ELSE existing.aliases[id]]

\* Mutant: the first spec of a crate gives it its name.
MergeSpecFirstName(existing, spec) ==
  [existing EXCEPT
     !.deps = @ \union spec.deps,
     !.aliases = BothAliases(existing, spec),
     !.cfg = @ \union spec.cfg,
     !.type = IF spec.type = "rlib" THEN "rlib" ELSE @,
     !.test = IF spec.type = "rlib" THEN spec.test ELSE @,
     !.build = IF spec.test /\ spec.build # None THEN spec.build ELSE @,
     !.dylib = IF spec.dylib = "opt-exec" THEN spec.dylib ELSE @]

MergeSpec(existing, spec) ==
  LET rlib == spec.type = "rlib"
  IN  [existing EXCEPT
         !.deps = @ \union spec.deps,
         !.aliases = BothAliases(existing, spec),
         !.cfg = @ \union spec.cfg,
         !.name = IF rlib THEN spec.name ELSE @,
         !.type = IF rlib THEN spec.type ELSE @,
         !.test = IF rlib THEN spec.test ELSE @,
         !.build = IF spec.test /\ spec.build # None THEN spec.build ELSE @,
         !.dylib = IF spec.dylib = "opt-exec" THEN spec.dylib ELSE @]

Consolidate(spec) ==
  [id \in DOMAIN specs \union {spec.id} |->
     IF id # spec.id THEN specs[id]
     ELSE IF id \in DOMAIN specs THEN MergeSpec(specs[id], spec) ELSE spec]
------------------------------------------------------------------------------
\* assemble_rust_project
KindOf(spec) == IF spec.type # "bin" THEN "lib" ELSE IF spec.test THEN "test" ELSE "bin"

\* merged_crates_index
Merged(id) == \E n \in DOMAIN crates : crates[n].id = id
IndexOf(id) == CHOOSE n \in DOMAIN crates : crates[n].id = id

\* Mutant: a dependency goes by its own name.
DepNameUnaliased(spec, dep) == crates[IndexOf(dep)].name

DepName(spec, dep) == IF dep \in DOMAIN spec.aliases THEN spec.aliases[dep] ELSE crates[IndexOf(dep)].name

CrateOf(spec) ==
  [id    |-> spec.id, name |-> spec.name, kind |-> KindOf(spec), cfg |-> spec.cfg,
   build |-> spec.build, dylib |-> spec.dylib,
   deps  |-> {[index |-> IndexOf(dep), name |-> DepName(spec, dep)] : dep \in spec.deps}]

\* detect_cycle: the crates from which the search comes back to the path it came along.
DetectsCycle(left) ==
  LET detect[path \in SUBSET left] ==
        {id \in left : id \in path \/ specs[id].deps \intersect detect[path \union {id}] # {}}
  IN  detect[{}] # {}
------------------------------------------------------------------------------
\* find_workspace_root_file, source_file_to_buildfile: the directory of the build file.
Above(dir) == {SubSeq(dir, 1, n) : n \in 0..Len(dir)}

\* Bazel's packages: a target of the workspace is declared in a build file of it, its
\* sources are beside or below that file with no other in between, and it is built in
\* some configuration.
ASSUME PackagesAssumption ==
  \A r \in Requests : \A t \in {u \in r.workspace.targets : ~u.external} :
    /\ t.configurations # {} /\ t.configurations \subseteq {"target", "opt-exec"}
    /\ IsPrefix(Root, t.dir)
    /\ \A dir \in t.sources :
         LET owners == Above(dir) \intersect r.workspace.buildfiles
         IN  /\ dir \in Seq(STRING) /\ t.dir \in owners
             /\ \A d \in owners : Len(d) <= Len(t.dir)

Nearest(dirs) == CHOOSE d \in dirs : \A e \in dirs : Len(e) <= Len(d)

\* Mutant: the outermost build file is taken.
BuildfileOutermost(dir) ==
  LET owners == Above(dir) \intersect Ws.buildfiles
  IN  IF owners = {} THEN {} ELSE {CHOOSE d \in owners : \A e \in owners : Len(d) <= Len(e)}

Buildfile(dir) ==
  LET owners == Above(dir) \intersect Ws.buildfiles IN IF owners = {} THEN {} ELSE {Nearest(owners)}

\* buildfile_to_targets: <<>> when the build file is not part of the workspace.
TargetsOf(dir) ==
  IF ~IsPrefix(Root, dir) THEN <<>>
  ELSE <<IF dir = Root THEN Ws.targets ELSE {t \in Ws.targets : t.dir = dir}>>

\* into_target_details, project_discovery, and the default of gen_rust_project: all targets.
\* The rules of a package are those of the workspace, not those of another repository.
Requested ==
  IF request.tool = "gen" THEN <<Ws.targets>>
  ELSE IF request.argument.kind = "none" THEN TargetsOf(Root)
  ELSE IF request.argument.kind = "buildfile" THEN TargetsOf(request.argument.dir)
  ELSE LET dirs == Buildfile(request.argument.dir)
       IN  IF dirs = {} THEN <<>> ELSE TargetsOf(CHOOSE d \in dirs : TRUE)

Local(targets) == {t.label : t \in {u \in targets : ~u.external}}
------------------------------------------------------------------------------
\* Runfiles::create and rlocation!, for every way to start the tool.
RunfilesAt == [l \in DOMAIN Launches |-> Create(Launches[l])]
ToolchainFile ==
  [l \in DOMAIN Launches |->
     LET asked == Launches[l].toolchain
     IN  IF RunfilesAt[l].ok THEN Rlocation(RunfilesAt[l], asked.path, asked.source) ELSE {}]
------------------------------------------------------------------------------
Ended == {"done", "failed", "killed"}

TypeOK ==
  /\ stage \in {"info", "build", "read", "locate", "assemble", "write", "create", "flush"} \union Ended
  /\ \A id \in DOMAIN specs : specs[id].id = id
  /\ {crates[n].id : n \in DOMAIN crates} \subseteq DOMAIN specs
  /\ todo \union skipped \subseteq pass /\ todo \intersect skipped = {}
  /\ pass \subseteq DOMAIN specs
  /\ file \in {"none", "old", "partial", "new"}
  /\ Len(lines) <= 1
  /\ warned \in BOOLEAN

Init ==
  /\ request \in Requests
  /\ stage = "info" /\ toolchain = ToolchainFile[request.launch]
  /\ unread = {} /\ specs = <<>> /\ pass = {} /\ todo = {} /\ skipped = {}
  /\ crates = <<>> /\ runs = {} /\ warned = FALSE
  /\ file = request.file /\ lines = <<>>

Project == <<specs, pass, todo, skipped, crates, runs, warned>>

\* main: what project_discovery returns is printed; gen_rust_project prints to the terminal.
Answer(kind) == lines' = IF request.tool = "discover" THEN Append(lines, kind) ELSE lines

Fail == stage' = "failed" /\ Answer("error")

\* Mutant: the old file is removed first.
InfoRemoving ==
  /\ stage = "info"
  /\ \/ Fail
     \/ Requested = <<>> /\ Fail
     \/ Requested # <<>> /\ stage' = "build" /\ UNCHANGED lines
  /\ file' = IF request.tool = "gen" THEN "none" ELSE file
  /\ UNCHANGED <<request, toolchain, unread, Project>>

\* bazel info, and the targets that are asked for.
Info ==
  /\ stage = "info"
  /\ \/ Fail
     \/ Requested = <<>> /\ Fail
     \/ Requested # <<>> /\ stage' = "build" /\ UNCHANGED lines
  /\ UNCHANGED <<request, toolchain, unread, Project, file>>

\* generate_crate_info and the query: files that were not built are skipped.
Build ==
  /\ stage = "build"
  /\ \/ Fail /\ UNCHANGED unread
     \/ LET files == SpecFiles(Local(Requested[1])) IN
        IF files = {} THEN Fail /\ UNCHANGED unread
        ELSE /\ unread' = {f \in files : f[1] \notin Ws.unbuilt}
             /\ stage' = "read" /\ UNCHANGED lines
  /\ UNCHANGED <<request, toolchain, Project, file>>

\* The files are read one after another, in the order of the actions.
Read ==
  /\ stage = "read" /\ unread # {}
  /\ \E f \in unread :
       /\ unread' = unread \ {f}
       /\ specs' = Consolidate(SpecOf(Target(f[1]), f[2]))
  /\ UNCHANGED <<request, stage, toolchain, pass, todo, skipped, crates, runs, warned, file, lines>>

ReadFails ==
  /\ stage = "read" /\ Fail
  /\ UNCHANGED <<request, toolchain, unread, Project, file>>

AllRead ==
  /\ stage = "read" /\ unread = {}
  /\ stage' = "locate"
  /\ UNCHANGED <<request, toolchain, unread, Project, file, lines>>

\* The toolchain's file, and the crates as they come out of the set.
Locate ==
  /\ stage = "locate"
  /\ IF toolchain = {} THEN Fail /\ UNCHANGED <<pass, todo>>
     ELSE stage' = "assemble" /\ pass' = DOMAIN specs /\ todo' = DOMAIN specs /\ UNCHANGED lines
  /\ UNCHANGED <<request, toolchain, unread, specs, skipped, crates, runs, warned, file>>

\* One crate of the pass.  The order is that of the whole specs, which is any.
Assemble ==
  /\ stage = "assemble"
  /\ \E id \in todo :
       /\ todo' = todo \ {id}
       /\ IF \E dep \in specs[id].deps : ~Merged(dep)
          THEN skipped' = skipped \union {id} /\ UNCHANGED <<crates, runs>>
          ELSE /\ crates' = Append(crates, CrateOf(specs[id]))
               /\ runs' = IF KindOf(specs[id]) = "bin" /\ specs[id].build # None
                          THEN runs \union {specs[id].build} ELSE runs
               /\ UNCHANGED skipped
  /\ UNCHANGED <<request, stage, toolchain, unread, specs, pass, warned, file, lines>>

\* Mutant: the passes go on as long as there are crates left.
NextPassAlways ==
  /\ stage = "assemble" /\ todo = {} /\ pass # {}
  /\ pass' = skipped /\ todo' = skipped /\ skipped' = {}
  /\ UNCHANGED <<request, stage, toolchain, unread, specs, crates, runs, warned, file, lines>>

\* Mutant: the crates that were skipped are forgotten.
NextPassForgetting ==
  /\ stage = "assemble" /\ todo = {} /\ pass # {}
  /\ Cardinality(pass) # Cardinality(skipped)
  /\ pass' = {} /\ todo' = {} /\ skipped' = {}
  /\ UNCHANGED <<request, stage, toolchain, unread, specs, crates, runs, warned, file, lines>>

\* Mutant: the crates that were skipped are not cleared.
NextPassKeeping ==
  /\ stage = "assemble" /\ todo = {} /\ pass # {}
  /\ Cardinality(pass) # Cardinality(skipped)
  /\ pass' = skipped /\ todo' = skipped /\ skipped' = skipped
  /\ UNCHANGED <<request, stage, toolchain, unread, specs, crates, runs, warned, file, lines>>

\* A pass that merged something is followed by one over the crates it skipped.
NextPass ==
  /\ stage = "assemble" /\ todo = {} /\ pass # {}
  /\ Cardinality(pass) # Cardinality(skipped)
  /\ pass' = skipped /\ todo' = skipped /\ skipped' = {}
  /\ UNCHANGED <<request, stage, toolchain, unread, specs, crates, runs, warned, file, lines>>

\* "Failed to make progress on building crate dependency graph"
NoProgress ==
  /\ stage = "assemble" /\ todo = {} /\ pass # {}
  /\ Cardinality(pass) = Cardinality(skipped)
  /\ warned' = DetectsCycle(pass)
  /\ Fail
  /\ UNCHANGED <<request, toolchain, unread, specs, pass, todo, skipped, crates, runs, file>>

Assembled ==
  /\ stage = "assemble" /\ pass = {}
  /\ IF request.tool = "discover" THEN stage' = "done" /\ Answer("finished")
     ELSE stage' = "write" /\ UNCHANGED lines
  /\ UNCHANGED <<request, toolchain, unread, Project, file>>

\* write_rust_project: the old file is removed; one that is not there will do.
RemoveOld ==
  /\ stage = "write"
  /\ \/ Fail /\ UNCHANGED file
     \/ file' = "none" /\ stage' = "create" /\ UNCHANGED lines
  /\ UNCHANGED <<request, toolchain, unread, Project>>

\* The new one is opened, and what overflows the buffer is written.
Write ==
  /\ stage = "create"
  /\ \/ Fail /\ UNCHANGED file
     \/ file' = "partial" /\ stage' = "flush" /\ UNCHANGED lines
  /\ UNCHANGED <<request, toolchain, unread, Project>>

Flush ==
  /\ stage = "flush"
  /\ \/ file' = "new" /\ stage' = "done" /\ UNCHANGED lines
     \/ Fail /\ UNCHANGED file
     \* What the buffer still held when it was dropped, and nobody hears that it was not written.
     \/ stage' = "done" /\ UNCHANGED <<file, lines>>
  /\ UNCHANGED <<request, toolchain, unread, Project>>

Killed ==
  /\ stage \notin Ended
  /\ stage' = "killed"
  /\ UNCHANGED <<request, toolchain, unread, Project, file, lines>>

Proceed ==
  \/ Info \/ Build \/ Read \/ ReadFails \/ AllRead \/ Locate
  \/ Assemble \/ NextPass \/ NoProgress \/ Assembled \/ RemoveOld \/ Write \/ Flush

Next == Proceed \/ Killed

\* The tool is one thread that waits for nothing but Bazel, which ends.
Spec == Init /\ [][Next]_vars /\ WF_vars(Proceed)
------------------------------------------------------------------------------
ReadFiles == {f \in SpecFiles(Local(Requested[1])) : f[1] \notin Ws.unbuilt}
ReadIds == {IdOf(f[1]) : f \in ReadFiles}
TargetsAt(id) == {Target(f[1]) : f \in {g \in ReadFiles : IdOf(g[1]) = id}}
Ids == {crates[n].id : n \in DOMAIN crates}

\* A crate of the project is what all the targets on its root file make of it, in
\* whatever order their specs are read: a library that is also compiled as a test is a
\* library under its own name, with the features and dependencies of both and the label
\* of the test, and a procedural macro is the one built for the execution platform.
\* (consolidate_crate_specs, generate_rust_project's order of aquery's actions)
CratesAreMerges ==
  \A n \in DOMAIN crates :
    LET crate == crates[n]
        at    == TargetsAt(crate.id)
        libs  == {t \in at : t.type = "rlib"}
        tests == {t \in at : t.test /\ ~t.external}
    IN  /\ libs # {} => crate.kind = "lib" /\ \E t \in libs : crate.name = t.name
        /\ crate.cfg = UNION {t.cfg : t \in at}
        /\ {crates[d.index].id : d \in crate.deps} = (UNION {{IdOf(l) : l \in t.deps} : t \in at}) \ {crate.id}
        /\ tests # {} => \E t \in tests : crate.build = t.label
        /\ (\E t \in at : t.type = "proc-macro" /\ <<t.label, "opt-exec">> \in ReadFiles) => crate.dylib = "opt-exec"

\* A dependency is the index of a crate that stands earlier in the project, and goes
\* by the name that a target of the crate gave it, or else by its own; no crate is in
\* the project twice.  (assemble_rust_project, merged_crates_index)
DepsFound ==
  /\ \A n \in DOMAIN crates : \A d \in crates[n].deps :
       /\ d.index \in 1..n - 1
       /\ LET dep     == crates[d.index]
              aliases == UNION {{t.aliases[l] : l \in {k \in DOMAIN t.aliases : IdOf(k) = dep.id}}
                                  : t \in TargetsAt(crates[n].id)}
          IN  d.name \in IF aliases = {} THEN {dep.name} ELSE aliases
  /\ \A n, k \in DOMAIN crates : crates[n].id = crates[k].id => n = k

\* No crate gets lost: a project that is finished has a crate for every spec, and one
\* that cannot be finished has crates that wait for each other or for a spec that was
\* not there; that there is a cycle is said exactly when there is one.
\* (assemble_rust_project, detect_cycle)
ProjectComplete ==
  /\ stage = "done" => Ids = ReadIds
  /\ stage = "failed" /\ pass # {} =>
       /\ \A id \in pass : specs[id].deps \intersect (pass \union ((UNION {specs[i].deps : i \in pass}) \ ReadIds)) # {}
       /\ warned = \E left \in SUBSET pass : left # {} /\ \A id \in left : specs[id].deps \intersect left # {}

\* The project file of before is touched only when the new project is ready: a build, a
\* query or a graph that fails costs the user nothing.  (write_rust_project)
ReplacedByProject ==
  [][file' # file => request.tool = "gen" /\ Ids = ReadIds]_vars

\* The editor gets one answer, whatever happens but the end of the tool itself, and the
\* ordering of the crates ends.  (main of discover_rust_project, assemble_rust_project)
Answered ==
  <>(\/ stage = "killed"
     \/ stage \in {"done", "failed"} /\ Len(lines) = IF request.tool = "discover" THEN 1 ELSE 0)

\* An editor that asks about a file gets a project with the crates the file is in.
\* (source_file_to_buildfile, buildfile_to_targets)
OwnersDiscovered ==
  stage = "done" /\ request.tool = "discover" /\ request.argument.kind = "path" =>
    \A t \in Ws.targets :
      ~t.external /\ t.label \notin Ws.unbuilt /\ request.argument.dir \in t.sources => t.root \in Ids

\* However the tool was started, it finds every file that Bazel put into its runfiles,
\* under the name the rule gave its repository.  (Runfiles::create, rlocation_from)
RunfilesFound ==
  stage = "locate" =>
    /\ RunfilesAt[request.launch].ok
    /\ \A entry \in Launch.content : Rlocation(RunfilesAt[request.launch], entry.asked, entry.source) = {entry.target}

\* The project is what the targets make of it, whatever the order of their specs: each
\* crate right, in its place, and none lost.
ProjectExact == TypeOK /\ CratesAreMerges /\ DepsFound /\ ProjectComplete

\* The tool finds what it is asked about, and its own files.
FilesFound == OwnersDiscovered /\ RunfilesFound
==============================================================================
