---------------------------- MODULE CrateContexts ----------------------------
(***************************************************************************)
(* The crates of a workspace made ready to render: where each comes from   *)
(* (crate_universe/src/metadata/metadata_annotation.rs), what the user's   *)
(* annotations say of it (src/config.rs), its dependencies and targets     *)
(* (src/context/crate_context.rs), and the platforms each `cfg(..)` stands *)
(* for (src/context/platforms.rs).                                         *)
(*                                                                         *)
(* An optional value is <<>> or <<value>>.                                 *)
(***************************************************************************)
EXTENDS CargoMetadata

CONSTANT Builtin  \* the triples cfg-expr knows

Or(a, b) == IF a # <<>> THEN a ELSE b
Joined(a, b, Join(_, _)) == IF a # <<>> /\ b # <<>> THEN <<Join(a[1], b[1])>> ELSE Or(a, b)
\* BTreeMap::extend: the second map wins.
Extend(f, g) == [x \in DOMAIN f \union DOMAIN g |-> IF x \in DOMAIN g THEN g[x] ELSE f[x]]
------------------------------------------------------------------------------
(***************************************************************************)
(* LockfileAnnotation.  lock says of each package whether Cargo.lock has   *)
(* it and with which source; spliced are the packages that were made       *)
(* workspace members to get at their binaries, with the place they came    *)
(* from.  A package that is not spliced and a member has no source.        *)
(***************************************************************************)
Sourced(ws, spliced) == {p \in Package : p \in ws.members => p \in spliced}

SourceKind == {"git", "http", "path"}

Failed == "failed"
Unavailable == [kind |-> Failed, patches |-> <<>>]

Source(lock, spliced, p) ==
  LET source == lock[p]
      download == [kind |-> "http", patches |-> <<>>]
  IN  CASE source = "missing" -> Unavailable
        [] source = "git" -> [kind |-> "git", patches |-> <<>>]
        [] source \in {"none", "path", "registry", "unknown"} /\ p \in spliced -> download
        [] source = "path" -> [kind |-> "path", patches |-> <<>>]
        [] source = "registry" -> download
        [] OTHER -> Unavailable
------------------------------------------------------------------------------
(***************************************************************************)
(* Annotations, CrateAnnotations::add, the defaults a package gives for    *)
(* itself, and their pairing with packages.  Of each way in which two      *)
(* annotations are combined there is one field here, or two.               *)
(***************************************************************************)
NoAnnotation ==
  [genBinaries |-> <<>>, genBuildScript |-> <<>>, deps |-> <<>>, buildDeps |-> <<>>,
   patches |-> <<>>, aliased |-> <<>>, override |-> <<>>, flags |-> <<>>, rundir |-> <<>>]

\* Mutant: the annotation that matches last replaces the others.
PlusReplacing(a, b) == b

Plus(a, b) ==
  [genBinaries |-> Or(a.genBinaries, b.genBinaries),
   genBuildScript |-> Or(a.genBuildScript, b.genBuildScript),
   deps |-> Joined(a.deps, b.deps, MergeSets),
   buildDeps |-> Joined(a.buildDeps, b.buildDeps, MergeSets),
   patches |-> Joined(a.patches, b.patches, LAMBDA x, y : x \union y),
   aliased |-> Joined(a.aliased, b.aliased, Extend),
   override |-> Or(a.override, b.override),
   flags |-> Joined(a.flags, b.flags, MergeLists),
   rundir |-> Or(a.rundir, b.rundir)]

\* Mutant: what a package says of itself goes before what the user says.
WithDefaultsBefore(a, provided) ==
  [a EXCEPT !.genBuildScript = Or(provided.genBuildScript, @), !.deps = Or(provided.deps, @),
            !.aliased = Or(provided.aliased, @), !.flags = Or(provided.flags, @),
            !.rundir = Or(provided.rundir, @)]

WithDefaults(a, provided) ==
  [a EXCEPT !.genBuildScript = Or(@, provided.genBuildScript), !.deps = Or(@, provided.deps),
            !.aliased = Or(@, provided.aliased), !.flags = Or(@, provided.flags),
            !.rundir = Or(@, provided.rundir)]

\* CrateNameAndVersionReq::matches; version 0 is the requirement "*".
Matches(ws, req, p) ==
  /\ req.name \in {"*", ws.name[p]}
  /\ req.version \in {0, ws.version[p]}

\* annotations is a sequence, in the order of the configuration's map.
Extra(ws, annotations, provided, p) ==
  LET matching == SelectSeq(annotations, LAMBDA a : Matches(ws, a.req, p))
      sum == FoldLeft(LAMBDA sum, a : Plus(sum, a.extra), NoAnnotation, matching)
  IN  WithDefaults(sum, provided[p])

Unused(ws, annotations) == {a \in ToSet(annotations) : \A p \in Package : ~Matches(ws, a.req, p)}
------------------------------------------------------------------------------
(***************************************************************************)
(* CrateContext::new.  A rule is named for its crate; for binaries,        *)
(* genBinaries says which are wanted.                                      *)
(***************************************************************************)
RuleKind == {"lib", "proc-macro", "bin", "custom-build"}

CrateDependency == [pkg : Package, target : Name, alias : Name \union {NoName}, local : BOOLEAN]

MapSet(select, F(_)) ==
  [common |-> {F(x) : x \in select.common},
   selects |-> [c \in DOMAIN select.selects |-> {F(x) : x \in select.selects[c]}]]

\* Mutant: a dependency's library goes by the name of its target.
NewCrateDepsUnsanitized(deps, sources) ==
  MapSet(deps, LAMBDA d :
    [pkg |-> d.pkg, target |-> d.target, alias |-> d.alias,
     local |-> d.pkg \in DOMAIN sources /\ sources[d.pkg].kind = "path"])

NewCrateDeps(deps, sources) ==
  MapSet(deps, LAMBDA d :
    [pkg |-> d.pkg, target |-> ModuleOf[d.target], alias |-> d.alias,
     local |-> d.pkg \in DOMAIN sources /\ sources[d.pkg].kind = "path"])

Rules(ws, p, extra, config) ==
  LET script == Or(extra.genBuildScript, <<config.buildScripts>>)[1]
      wanted(t) == IF extra.genBinaries # <<>> THEN t.name \in extra.genBinaries[1]
                   ELSE config.binaries
      kept(t) == \/ t.kind \in {"lib", "proc-macro"}
                 \/ t.kind = "custom-build" /\ script
                 \/ t.kind = "bin" /\ wanted(t)
  IN  {[kind |-> t.kind, name |-> IF t.kind = "bin" THEN t.name ELSE ModuleOf[t.name]] :
         t \in {t \in ws.targets[p] : kept(t)}}

RuleOf(rules, kinds) == {r \in rules : r.kind \in kinds}

\* The build script is a dependency of its own crate.
NewContext(ws, p, deps, sources, extra, config) ==
  LET rules == Rules(ws, p, extra, config)
      script == RuleOf(rules, {"custom-build"})
      libraries == RuleOf(rules, {"lib", "proc-macro"})
      new(set) == NewCrateDeps(set, sources)
      own == [pkg |-> p, target |-> (CHOOSE r \in script : TRUE).name, alias |-> NoName,
              local |-> p \in DOMAIN sources /\ sources[p].kind = "path"]
  IN  [pkg |-> p,
       repository |-> IF p \in DOMAIN sources THEN <<sources[p]>> ELSE <<>>,
       rules |-> rules,
       library |-> IF libraries = {} THEN <<>> ELSE <<(CHOOSE r \in libraries : TRUE).name>>,
       deps |-> IF script = {} THEN new(deps.normal) ELSE InsertSet(new(deps.normal), own, None),
       depsDev |-> new(deps.normalDev),
       macros |-> new(deps.macro),
       macrosDev |-> new(deps.macroDev),
       extraDeps |-> EmptySet,
       flags |-> EmptyList,
       build |-> IF script = {} THEN <<>>
                 ELSE <<[deps |-> new(deps.build), links |-> new(deps.buildLink),
                         macros |-> new(deps.buildMacro), extraDeps |-> EmptySet,
                         flags |-> EmptyList, rundir |-> EmptyScalar]>>,
       aliased |-> NoSelects, override |-> NoSelects]

ApplyPatches(source, extra) ==
  IF source.kind = "path" THEN source ELSE [source EXCEPT !.patches = extra.patches]

(***************************************************************************)
(* What the annotations say of a crate.  One without a build script        *)
(* ignores what they say of it, one with a path its patches.               *)
(***************************************************************************)
WithOverrides(context, extra) ==
  LET added(set, option) == IF option = <<>> THEN set ELSE MergeSets(set, option[1])
      rundir(b) == IF extra.rundir = <<>> THEN b.rundir ELSE MergeScalars(b.rundir, extra.rundir[1])
      each(option, F(_)) == [i \in DOMAIN option |-> F(option[i])]
  IN  [context EXCEPT
         !.repository = each(@, LAMBDA source : ApplyPatches(source, extra)),
         !.extraDeps = added(@, extra.deps),
         !.flags = IF extra.flags = <<>> THEN @ ELSE MergeLists(@, extra.flags[1]),
         !.build = each(@, LAMBDA b : [b EXCEPT !.extraDeps = added(@, extra.buildDeps),
                                                !.rundir = rundir(b)]),
         !.aliased = IF extra.aliased = <<>> THEN @ ELSE extra.aliased[1],
         !.override = IF extra.override = <<>> THEN @ ELSE extra.override[1]]

CrateContext(ws, p, deps, sources, extra, config) ==
  WithOverrides(NewContext(ws, p, deps, sources, extra, config), extra)
------------------------------------------------------------------------------
(***************************************************************************)
(* Context::new.                                                           *)
(***************************************************************************)
ValuesOf(select) == select.common \union UNION Range(select.selects)

IsMember(ws, crates, p) == p \in ws.members /\ crates[p].repository = <<>>
WorkspaceMembers(ws, crates) == {p \in Package : IsMember(ws, crates, p)}

BinaryCrates(crates) ==
  {p \in Package : RuleOf(crates[p].rules, {"bin"}) # {} /\ crates[p].repository # <<>>}

\* Mutant: what a build script needs is not direct.
DirectDepsOfCrates(ws, deps) ==
  UNION {{d.pkg : d \in UNION {ValuesOf(deps[m][kind]) : kind \in {"normal", "macro"}}} :
           m \in ws.members}

DirectDeps(ws, deps) ==
  UNION {{d.pkg : d \in UNION {ValuesOf(deps[m][kind]) :
            kind \in {"normal", "macro", "build", "buildLink", "buildMacro"}}} : m \in ws.members}
DirectDevDeps(ws, deps) ==
  UNION {{d.pkg : d \in ValuesOf(deps[m].normalDev) \union ValuesOf(deps[m].macroDev)} :
           m \in ws.members} \ DirectDeps(ws, deps)

WorkspaceMemberDeps(ws, crates) ==
  UNION {UNION {ValuesOf(crates[m].deps), ValuesOf(crates[m].depsDev), ValuesOf(crates[m].macros),
                ValuesOf(crates[m].macrosDev),
                IF crates[m].build = <<>> THEN {} ELSE ValuesOf(crates[m].build[1].deps)} :
           m \in WorkspaceMembers(ws, crates)}

(***************************************************************************)
(* resolve_cfg_platforms: every configuration of a dependency stands for   *)
(* the supported triples it holds for, and a triple for itself.  A bare    *)
(* triple is compared with the names that Cargo knows the triples by.      *)
(***************************************************************************)
Configurations(crate) ==
  LET build == IF crate.build = <<>> THEN {}
               ELSE DOMAIN crate.build[1].deps.selects \union DOMAIN crate.build[1].macros.selects
  IN  UNION {DOMAIN crate.deps.selects, DOMAIN crate.depsDev.selects,
             DOMAIN crate.macros.selects, DOMAIN crate.macrosDev.selects, build}

Conditions(crates, supported) ==
  LET found == UNION {Configurations(crates[p]) : p \in Package}
      expression(c) == IF c \in found THEN Holds[c] \intersect supported ELSE {}
      identity(c) == IF c \in supported THEN {c} ELSE {}
  IN  [c \in found \union supported |-> expression(c) \union identity(c)]
=============================================================================
