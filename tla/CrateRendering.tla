--------------------------- MODULE CrateRendering ---------------------------
(***************************************************************************)
(* From a resolved workspace to the BUILD files of its crates and the      *)
(* module through which its members use them                               *)
(* (crate_universe/src/context.rs, src/rendering.rs, its templates, and    *)
(* src/utils/starlark/select_*.rs).                                        *)
(*                                                                         *)
(* in is one input: the workspace, Cargo.lock, the annotations and the     *)
(* rendering configuration.  The run goes through its stages once; a stage *)
(* that cannot do its work ends it.                                        *)
(***************************************************************************)
EXTENDS CrateContexts

CONSTANTS
  ConfigLabel, \* configurations that look like labels of Bazel
  Alphabet,    \* the configurations, as a map of them is ordered
  Families     \* the inputs considered, in families

VARIABLES
  in,          \* [ws, lock, spliced, annotations, provided, outside, config]
  stage,       \* what is done next
  sources,     \* LockfileAnnotation.crates
  deps,        \* CrateAnnotation.deps
  extras,      \* Annotations.pairred_extras
  crates,      \* Context.crates
  conditions,  \* Context.conditions
  files,       \* the rules of each rendered BUILD file
  aliases      \* the aliases of the module's BUILD file

vars == <<in, stage, sources, deps, extras, crates, conditions, files, aliases>>
NoFun == NoSelects
------------------------------------------------------------------------------
(***************************************************************************)
(* SelectSet::new and its like: from configurations to platforms.  Of two  *)
(* configurations that give a key of a map, or a scalar, different values, *)
(* the first in the alphabet is heard; what they add to a list is strung   *)
(* together.  A configuration that is no platform's is left in a comment.  *)
(***************************************************************************)
Platforms(c) ==
  IF c \in DOMAIN conditions THEN conditions[c]
  ELSE IF c \in ConfigLabel THEN {c} ELSE {}
FromPlatform(select, k) == {c \in DOMAIN select.selects : k \in Platforms(c)}
PlatformsOf(select) == UNION {Platforms(c) : c \in DOMAIN select.selects}
InAlphabet(configurations) == SelectSeq(Alphabet, LAMBDA c : c \in configurations)

RemapSet(select) ==
  [common |-> select.common,
   selects |-> [k \in PlatformsOf(select) |->
                  UNION {select.selects[c] : c \in FromPlatform(select, k)}]]

RemapDict(select) ==
  LET keys(k) == UNION {DOMAIN select.selects[c] : c \in FromPlatform(select, k)}
      first(k, key) ==
        InAlphabet({c \in FromPlatform(select, k) : key \in DOMAIN select.selects[c]})[1]
  IN  [common |-> select.common,
       selects |-> [k \in PlatformsOf(select) |->
                      [key \in keys(k) |-> select.selects[first(k, key)][key]]]]

\* Mutant: of two configurations of a platform one is heard, as with a scalar.
RemapListFirst(select) ==
  [common |-> select.common,
   selects |-> [k \in PlatformsOf(select) |->
                  select.selects[InAlphabet(FromPlatform(select, k))[1]]]]

RemapList(select) ==
  LET from(k) == InAlphabet(FromPlatform(select, k))
  IN  [common |-> select.common,
       selects |-> [k \in PlatformsOf(select) |->
                      FlattenSeq([i \in DOMAIN from(k) |-> select.selects[from(k)[i]]])]]

RemapScalar(select) ==
  [common |-> select.common,
   selects |-> [k \in PlatformsOf(select) |->
                  select.selects[InAlphabet(FromPlatform(select, k))[1]]]]

\* What the select() evaluates to on a platform; that of a scalar may have no
\* branch for it.
SetAt(set, t) == SetUnder(set, t)
DictAt(dict, t) == Extend(dict.common, Get(dict.selects, t, NoFun))
ListAt(list, t) == list.common \o Get(list.selects, t, <<>>)
ScalarAt(scalar, t) == Get(scalar.selects, t, scalar.common)
------------------------------------------------------------------------------
(***************************************************************************)
(* Labels.  A crate is in a repository of its own, or, if its source is a  *)
(* path and crates are vendored locally, in its own directory (local).     *)
(***************************************************************************)
Plain(name) == [name |-> name, form |-> "plain"]
Binary(name) == [name |-> name, form |-> "bin"]
BuildScript == [name |-> NoName, form |-> "bs"]

CrateLabel(p, target) == [pkg |-> p, target |-> target, local |-> FALSE]
DependencyLabel(d) ==
  [pkg |-> d.pkg, target |-> Plain(d.target), local |-> d.local /\ in.config.vendor = "local"]
IsLocal(p) ==
  /\ in.config.vendor = "local"
  /\ crates[p].repository # <<>> /\ crates[p].repository[1].kind = "path"

MakeDeps(set, extra) == MergeSets(MapSet(set, DependencyLabel), extra)

\* Mutant: the aliases of macros are forgotten.
MakeAliasesOfLibraries(krate, build) ==
  LET set == IF build THEN krate.build[1].deps ELSE krate.deps
      aliased == SelectSeq(SetItems(set), LAMBDA item : item[2].alias # NoName)
  IN  FoldLeft(LAMBDA m, item :
                 InsertMap(m, <<CrateLabel(item[2].pkg, Plain(item[2].target)), item[2].alias>>,
                           item[1]),
               EmptyMap, aliased)

MakeAliases(krate, build) ==
  LET selects == IF build THEN <<krate.build[1].deps, krate.build[1].macros>>
                 ELSE <<krate.deps, krate.macros>>
      aliased(s) == SelectSeq(SetItems(s), LAMBDA item : item[2].alias # NoName)
  IN  FoldLeft(LAMBDA m, item :
                 InsertMap(m, <<CrateLabel(item[2].pkg, Plain(item[2].target)), item[2].alias>>,
                           item[1]),
               EmptyMap, aliased(selects[1]) \o aliased(selects[2]))
------------------------------------------------------------------------------
(***************************************************************************)
(* render_one_build_file: the rules of a crate's BUILD file.               *)
(***************************************************************************)
AliasTo(name, actual) == [kind |-> "alias", name |-> name, actual |-> actual]

\* make_common_attrs: warnings of others' crates are of no interest.
CapLints == "--cap-lints=allow"
Quietly(flags) == RemapList(MergeLists([EmptyList EXCEPT !.common = <<CapLints>>], flags))

\* make_rust_library, make_rust_proc_macro
LibraryRule(krate, r) ==
  [kind |-> r.kind, name |-> Plain(r.name), flags |-> Quietly(krate.flags),
   deps |-> RemapSet(MakeDeps(krate.deps, krate.extraDeps)),
   macros |-> RemapSet(MakeDeps(krate.macros, EmptySet)),
   aliases |-> RemapDict(MakeAliases(krate, FALSE))]

\* Mutant: the library of a binary is one of its libraries, whatever it is.
BinaryRuleLib(krate, r) ==
  LET own == [pkg |-> krate.pkg, target |-> Plain(krate.library[1]), local |-> IsLocal(krate.pkg)]
      deps_ == MakeDeps(krate.deps, krate.extraDeps)
      macros_ == MakeDeps(krate.macros, EmptySet)
  IN  [kind |-> "bin", name |-> Binary(r.name), flags |-> Quietly(krate.flags),
       deps |-> RemapSet(IF krate.library # <<>> THEN InsertSet(deps_, own, None) ELSE deps_),
       macros |-> RemapSet(macros_), aliases |-> RemapDict(MakeAliases(krate, FALSE))]

\* make_rust_binary: a binary also depends on its crate's library.
BinaryRule(krate, r) ==
  LET own == [pkg |-> krate.pkg, target |-> Plain(krate.library[1]), local |-> IsLocal(krate.pkg)]
      isMacro == RuleOf(krate.rules, {"proc-macro"}) # {}
      with(set, wanted) == IF krate.library # <<>> /\ wanted THEN InsertSet(set, own, None) ELSE set
  IN  [kind |-> "bin", name |-> Binary(r.name), flags |-> Quietly(krate.flags),
       deps |-> RemapSet(with(MakeDeps(krate.deps, krate.extraDeps), ~isMacro)),
       macros |-> RemapSet(with(MakeDeps(krate.macros, EmptySet), isMacro)),
       aliases |-> RemapDict(MakeAliases(krate, FALSE))]

\* make_cargo_build_script
BuildScriptRule(krate) ==
  LET build == krate.build[1]
  IN  [kind |-> "custom-build", name |-> BuildScript,
       flags |-> Quietly(build.flags), rundir |-> RemapScalar(build.rundir),
       deps |-> RemapSet(MakeDeps(build.deps, build.extraDeps)),
       links |-> RemapSet(MakeDeps(build.links, EmptySet)),
       macros |-> RemapSet(MakeDeps(build.macros, EmptySet)),
       aliases |-> RemapDict(MakeAliases(krate, TRUE))]

RulesFor(krate, r) ==
  LET here(target) == [pkg |-> krate.pkg, target |-> target, local |-> IsLocal(krate.pkg)]
  IN  IF r.kind \in DOMAIN krate.override
      THEN {AliasTo(Plain(r.name), krate.override[r.kind])}
      ELSE CASE r.kind = "custom-build" ->
                  {BuildScriptRule(krate), AliasTo(Plain(r.name), here(BuildScript))}
             [] r.kind = "bin" -> {BinaryRule(krate, r)}
             [] OTHER -> {LibraryRule(krate, r)}

RenderOneBuildFile(krate) == UNION {RulesFor(krate, r) : r \in krate.rules}

\* render_build_files leaves out the members.
RenderBuildFiles ==
  [p \in Package \ WorkspaceMembers(in.ws, crates) |-> RenderOneBuildFile(crates[p])]
------------------------------------------------------------------------------
(***************************************************************************)
(* render_module_build_file: a crate that a member depends on has aliases  *)
(* in the module: its name with its version, the name a member gave it,    *)
(* with the version and without, and those the user asked for.  Version 0  *)
(* stands for no version; dep keeps apart aliases made for different       *)
(* dependencies.                                                           *)
(***************************************************************************)
CrateName(d) == in.ws.name[d.pkg]
ShortName(d) == IF d.alias = NoName THEN CrateName(d) ELSE d.alias

\* Mutant: a short name is given to every dependency.
DuplicateByAliasNever(all, d) == FALSE

\* Mutant: a dependency counts as a duplicate of its own.
DuplicateByVersionOfItself(all, d) == \E e \in all : e.pkg = d.pkg

DuplicateByVersion(all, d) == \E e \in all \ {d} : e.pkg = d.pkg
DuplicateByAlias(all, d) ==
  \E e \in all \ {d} : CrateName(e) = CrateName(d) /\ e.alias = d.alias

ModuleAliases ==
  LET all == WorkspaceMemberDeps(in.ws, crates)
      alias(d, role, name, version, target) ==
        [dep |-> d, role |-> role, name |-> name, version |-> version,
         actual |-> CrateLabel(d.pkg, Plain(target))]
      library(d) == crates[d.pkg].library[1]
      known == {d \in all : crates[d.pkg].library # <<>>}
  IN  {alias(d, "primary", CrateName(d), in.ws.version[d.pkg], library(d)) :
         d \in {d \in known : d.alias = NoName \/ ~DuplicateByVersion(all, d)}}
      \union
      {alias(d, "renamed", d.alias, in.ws.version[d.pkg], library(d)) :
         d \in {d \in known : d.alias \notin {NoName, CrateName(d)}}}
      \union
      {alias(d, "short", ShortName(d), 0, library(d)) :
         d \in {d \in known : ~DuplicateByAlias(all, d)}}
      \union
      UNION {{alias(d, "extra", n, 0, crates[d.pkg].aliased[n]) : n \in DOMAIN crates[d.pkg].aliased} :
               d \in all}

\* An alias for each binary, by the names of its crate and itself.
BinaryAliases ==
  LET binaries == BinaryCrates(crates)
      duplicate(p) == \E q \in binaries \ {p} : in.ws.name[q] = in.ws.name[p]
      alias(p, r) ==
        [dep |-> [pkg |-> p, target |-> r.name, alias |-> NoName, local |-> FALSE],
         role |-> "binary", name |-> in.ws.name[p],
         version |-> IF duplicate(p) THEN in.ws.version[p] ELSE 0,
         actual |-> CrateLabel(p, Binary(r.name))]
  IN  UNION {{alias(p, r) : r \in RuleOf(crates[p].rules, {"bin"})} : p \in binaries}

SameName(a, b) == a # b /\ a.name = b.name /\ a.version = b.version
DuplicateAliases(all) == \E a, b \in all : SameName(a, b)
------------------------------------------------------------------------------
(***************************************************************************)
(* defs.bzl.  For each member and kind there is a dictionary of its        *)
(* dependencies, from condition and name to label, and one of its aliases, *)
(* from condition and label to name; None stands for _COMMON_CONDITION.    *)
(* A label is that of an alias in the module, the name of a crate with its *)
(* version (default_crate_alias_template), whatever aliases there are.     *)
(***************************************************************************)
ModuleKinds == <<"normal", "normalDev", "macro", "macroDev", "build", "buildMacro">>

DepsSet(m, kind) ==
  CASE kind = "normal" -> crates[m].deps
    [] kind = "normalDev" -> crates[m].depsDev
    [] kind = "macro" -> crates[m].macros
    [] kind = "macroDev" -> crates[m].macrosDev
    [] crates[m].build = <<>> -> EmptySet
    [] kind = "build" -> crates[m].build[1].deps
    [] kind = "buildMacro" -> crates[m].build[1].macros

\* Mutant: the dictionary of a kind's aliases is that of another kind.
AliasesOfOther(kind) ==
  CASE kind = "normal" -> "normalDev" [] kind = "macro" -> "macroDev"
    [] kind = "macroDev" -> "normalDev" [] OTHER -> kind

\* The kind whose aliases the dictionary of a kind is filled with.
AliasesOf(kind) ==
  CASE kind = "macro" -> "macroDev" [] kind = "macroDev" -> "normalDev" [] OTHER -> kind

ModuleLabel(p) == [name |-> in.ws.name[p], version |-> in.ws.version[p]]

\* What is in a dictionary under each condition, members left out.
Entries(m, kind) ==
  LET set == DepsSet(m, kind)
      all == IF set.common = {} THEN set.selects ELSE With(set.selects, None, set.common)
  IN  [c \in DOMAIN all |-> {d \in all[c] : d.pkg \notin WorkspaceMembers(in.ws, crates)}]

Aliased(entries) == {d \in entries : d.alias # NoName}

DepsMap(m, kind) ==
  LET entries == Entries(m, kind)
      named(c, n) == CHOOSE d \in entries[c] : ShortName(d) = n
  IN  [c \in DOMAIN entries |->
         [n \in {ShortName(d) : d \in entries[c]} |-> ModuleLabel(named(c, n).pkg)]]

AliasesMap(m, kind) ==
  LET entries == Entries(m, AliasesOf(kind))
      labelled(c, l) == CHOOSE d \in Aliased(entries[c]) : ModuleLabel(d.pkg) = l
  IN  [c \in DOMAIN entries |->
         [l \in {ModuleLabel(d.pkg) : d \in Aliased(entries[c])} |-> labelled(c, l).alias]]

\* Starlark refuses a dictionary that has a key twice, and with it the file.
Loads ==
  \A m \in WorkspaceMembers(in.ws, crates) : \A i \in DOMAIN ModuleKinds :
    LET entries == Entries(m, ModuleKinds[i])
        aliased == Entries(m, AliasesOf(ModuleKinds[i]))
    IN  /\ \A c \in DOMAIN entries : IsInjective([d \in entries[c] |-> ShortName(d)])
        /\ \A c \in DOMAIN aliased : IsInjective([d \in Aliased(aliased[c]) |-> d.pkg])

\* Mutant: a later dictionary replaces all that is under a condition.
FlattenReplacing(maps) ==
  FoldLeft(LAMBDA f, g : [c \in DOMAIN f \union DOMAIN g |-> Get(g, c, Get(f, c, NoFun))], NoFun, maps)

\* _flatten_dependency_maps: what a later dictionary says of a key counts.
Flatten(maps) ==
  FoldLeft(LAMBDA f, g : [c \in DOMAIN f \union DOMAIN g |-> Extend(Get(f, c, NoFun), Get(g, c, NoFun))],
           NoFun, maps)
Flattened(kinds, Map(_)) ==
  LET chosen == SelectSeq(ModuleKinds, LAMBDA kind : kind \in kinds)
  IN  Flatten([i \in DOMAIN chosen |-> Map(chosen[i])])
OrDefault(kinds, default) == IF kinds = {} THEN default ELSE kinds

\* What the list of labels evaluates to on a platform.
AllCrateDeps(m, kinds, t) ==
  LET deps_ == Flattened(OrDefault(kinds, {"normal"}), LAMBDA kind : DepsMap(m, kind))
      holds == {c \in DOMAIN deps_ : c = None \/ t \in conditions[c]}
  IN  UNION {Range(deps_[c]) : c \in holds}

\* What the dictionary of aliases evaluates to: the conditions count only if
\* there is just one.
AliasesMacro(m, kinds, t) ==
  LET all == Flattened(OrDefault(kinds, {"normal", "macro"}), LAMBDA kind : AliasesMap(m, kind))
      common == Get(all, None, NoFun)
      here == {c \in DOMAIN all : DOMAIN all \ {None} = {c} /\ t \in conditions[c]}
  IN  IF here = {} THEN common ELSE Extend(all[CHOOSE c \in here : TRUE], common)
------------------------------------------------------------------------------
Init ==
  /\ \E family \in Families : in \in family
  /\ stage = "sources"
  /\ sources = NoFun /\ deps = NoFun /\ extras = NoFun /\ crates = NoFun
  /\ conditions = NoFun /\ files = NoFun /\ aliases = {}

(***************************************************************************)
(* LockfileAnnotation::new and MetadataAnnotation::new.                    *)
(***************************************************************************)
AnnotateMetadata ==
  /\ stage = "sources"
  /\ LET sourced == Sourced(in.ws, in.spliced)
         source(p) == Source(in.lock, in.spliced, p)
     IN  IF \E p \in sourced : source(p) = Unavailable
         THEN stage' = Failed /\ UNCHANGED <<sources, deps>>
         ELSE /\ stage' = "extras"
              /\ sources' = [p \in sourced |-> source(p)]
              /\ deps' = [p \in Package |-> DependencySet(in.ws, p)]

\* Annotations::new refuses an annotation of no package.
PairExtras ==
  /\ stage = "extras"
  /\ IF Unused(in.ws, in.annotations) # {}
     THEN stage' = Failed /\ UNCHANGED extras
     ELSE /\ stage' = "contexts"
          /\ extras' = [p \in Package |-> Extra(in.ws, in.annotations, in.provided, p)]

(***************************************************************************)
(* Context::new.  A target outside its package, or a platform that is not  *)
(* known, is refused.                                                      *)
(***************************************************************************)
MakeContext ==
  /\ stage = "contexts"
  /\ IF in.outside # {} \/ ~(in.config.supported \subseteq Builtin)
     THEN stage' = Failed /\ UNCHANGED <<crates, conditions>>
     ELSE /\ stage' = "build files"
          /\ crates' = [p \in Package |->
                          CrateContext(in.ws, p, deps[p], sources, extras[p], in.config)]
          /\ conditions' = Conditions(crates', in.config.supported)

RenderFiles ==
  /\ stage = "build files"
  /\ stage' = "module"
  /\ files' = RenderBuildFiles

\* The assertion of render_module_build_file ends the program.
RenderModule ==
  /\ stage = "module"
  /\ LET all == ModuleAliases
     IN  IF DuplicateAliases(all)
         THEN stage' = "panicked" /\ UNCHANGED aliases
         ELSE stage' = "done" /\ aliases' = all \union BinaryAliases

Next ==
  \/ AnnotateMetadata /\ UNCHANGED <<in, extras, crates, conditions, files, aliases>>
  \/ PairExtras /\ UNCHANGED <<in, sources, deps, crates, conditions, files, aliases>>
  \/ MakeContext /\ UNCHANGED <<in, sources, deps, extras, files, aliases>>
  \/ RenderFiles /\ UNCHANGED <<in, sources, deps, extras, crates, conditions, aliases>>
  \/ RenderModule /\ UNCHANGED <<in, sources, deps, extras, crates, conditions, files>>

Spec == Init /\ [][Next]_vars
------------------------------------------------------------------------------
(***************************************************************************)
(* What the properties compare the output with: the dependencies Cargo     *)
(* uses on a triple, and those it may be given.  A dependency given though *)
(* Cargo does not use it is an optional one: its package is used all the   *)
(* same, or its library is not named for its package.                      *)
(***************************************************************************)
Stages == {"sources", "extras", "contexts", "build files", "module", "done", Failed, "panicked"}
FilesMade == stage \in {"module", "done", "panicked"}

Outside(p, kind) ==
  {e \in in.ws.edges : e.from = p /\ e.kind = kind /\ e.to \notin in.ws.members}
Active(p, kind, t) == {e \in Outside(p, kind) : t \in e.on}
Given(p, kind, t) ==
  {e \in Outside(p, kind) :
     \/ t \in e.on
     \/ e.optional /\ e.listed /\ e.to \in Used(in.ws, p, t)
     \/ /\ e.listed /\ t \in Reach(in.ws.built[p], e.cfg)
        /\ e.rename = NoName /\ ModuleOf[in.ws.name[e.to]] # LibName(in.ws, e.to)}

Targets(edges) == {e.to : e \in edges}
PackagesAt(set, t) == {l.pkg : l \in SetAt(set, t)} \intersect Package
LabelsIn(set) == {l \in ValuesOf(set) : l.pkg \in Package}

RulesIn(p, kinds) == {r \in files[p] : r.kind \in kinds}
OfCrate == {"lib", "proc-macro", "bin"}
\* The rules of a crate with the kind of dependency they have.
KindedRules(p) ==
  {<<r, "normal">> : r \in RulesIn(p, OfCrate)}
    \union {<<r, "build">> : r \in RulesIn(p, {"custom-build"})}

TypeOK ==
  /\ stage \in Stages
  /\ \A p \in DOMAIN sources : sources[p].kind \in SourceKind
  /\ \A p \in DOMAIN crates : /\ \A r \in crates[p].rules : r.kind \in RuleKind
                              /\ crates[p].deps.common \subseteq CrateDependency
  /\ FilesMade =>
       \A p \in DOMAIN files : \A r \in files[p] :
         r.kind # "alias" => r.deps.common \intersect UNION Range(r.deps.selects) = {}

(***************************************************************************)
(* On every platform it is built for, a crate's rules depend on the        *)
(* packages Cargo uses there, and a build script on the packages Cargo     *)
(* builds it with and the system libraries its crate is linked with: the   *)
(* way from `cargo metadata` and `cargo tree` through configurations,      *)
(* optional dependencies and merges to select() loses none and adds none.  *)
(***************************************************************************)
DepsAsResolved ==
  FilesMade =>
    \A p \in DOMAIN files : \A t \in in.ws.built[p] :
      /\ \A rk \in KindedRules(p) :
           LET given == (PackagesAt(rk[1].deps, t) \union PackagesAt(rk[1].macros, t)) \ {p}
           IN  /\ Targets(Active(p, rk[2], t)) \subseteq given
               /\ given \subseteq Targets(Given(p, rk[2], t))
      /\ \A r \in RulesIn(p, {"custom-build"}) :
           {q \in Targets(Active(p, "normal", t)) \intersect in.ws.links : IsLib(in.ws, q)}
             \subseteq PackagesAt(r.links, t)

(***************************************************************************)
(* Macros are in proc_macro_deps and nothing else is, whatever the rule:   *)
(* rust_binary refuses its crate's own library in the wrong attribute.     *)
(***************************************************************************)
MacrosApart ==
  FilesMade =>
    \A p \in DOMAIN files : \A rk \in KindedRules(p) :
      LET library(l) == l.target = Plain(LibName(in.ws, l.pkg))
          isMacro(l) == IsMacro(in.ws, l.pkg) /\ library(l)
      IN  /\ \A l \in LabelsIn(rk[1].deps) : ~isMacro(l)
          /\ \A l \in LabelsIn(rk[1].macros) : isMacro(l)

(***************************************************************************)
(* The code of a crate finds a dependency under the name its manifest      *)
(* gives it, on each platform where it uses it: the rule's aliases hold    *)
(* that name, or it is the name of the library.  Left out are packages a   *)
(* crate knows by two names on one platform (aliases can hold one), and    *)
(* crates vendored in their own directory, which aliases does not refer to *)
(* by that.                                                                *)
(***************************************************************************)
AliasesApply ==
  FilesMade =>
    \A p \in DOMAIN files : \A rk \in KindedRules(p), t \in in.ws.built[p] :
      \A e \in Active(p, rk[2], t) :
        LET name == LibName(in.ws, e.to)
            dict == DictAt(rk[1].aliases, t)
            label == CrateLabel(e.to, Plain(name))
        IN  \/ CodeName(in.ws, e) = Get(dict, label, name)
            \/ IsLocal(e.to)
            \/ \E f \in Given(p, rk[2], t) : f.to = e.to /\ CodeName(in.ws, f) # CodeName(in.ws, e)

(***************************************************************************)
(* A short name in the module means one crate: the one meant by every      *)
(* member that uses the name, and a binary's name means one binary.  The   *)
(* assertion that aliases differ fails for                                 *)
(* names the user has to change, as its message says, and for no others:   *)
(* one name for two crates, or an extra alias that is another crate's      *)
(* name, or is given twice because members know its crate by two names.    *)
(***************************************************************************)
Means(e) == IF e.rename = NoName THEN in.ws.name[e.to] ELSE ModuleOf[e.rename]

Clash ==
  LET all == WorkspaceMemberDeps(in.ws, crates)
      aliased(d) == DOMAIN crates[d.pkg].aliased
  IN  \E d \in all, e \in all :
        \/ /\ d # e /\ ShortName(d) = ShortName(e)
           /\ CrateName(d) # CrateName(e) \/ d.alias # e.alias
        \/ ShortName(e) \in aliased(d)
        \/ d # e /\ aliased(d) \intersect aliased(e) # {}

AliasesUnambiguous ==
  /\ \A a, b \in {a \in aliases : a.role = "binary"} :
       SameName(a, b) => a.actual.target # b.actual.target
  /\ \A a \in aliases : a.role = "short" =>
       \A m \in WorkspaceMembers(in.ws, crates) : \A e \in Outside(m, "normal") \union Outside(m, "dev") :
         e.listed /\ Means(e) = a.name => a.actual.pkg = e.to
  /\ stage = "panicked" => Clash

(***************************************************************************)
(* The dependencies of a member that its macros speak of, by kind.  A      *)
(* dev-dependency that is also a normal one is only given as a normal one, *)
(* a build dependency that is also a dev-dependency not at all, and none   *)
(* without a build script.                                                 *)
(***************************************************************************)
Sibling(e, kind) ==
  \E f \in in.ws.edges :
    /\ f.from = e.from /\ f.to = e.to /\ CodeName(in.ws, f) = CodeName(in.ws, e)
    /\ f.kind = kind /\ f.listed

MemberEdges(edges, kind) ==
  {e \in edges :
     /\ IF kind \in {"macro", "macroDev", "buildMacro"} THEN IsMacro(in.ws, e.to) ELSE IsLib(in.ws, e.to)
     /\ e.kind = "dev" => ~Sibling(e, "normal")
     /\ e.kind = "build" => ~Sibling(e, "dev") \/ Sibling(e, "normal")
     /\ e.kind = "build" => crates[e.from].build # <<>>}

CargoKind(kind) ==
  CASE kind \in {"normal", "macro"} -> "normal" [] kind \in {"normalDev", "macroDev"} -> "dev"
    [] OTHER -> "build"

ActiveOf(m, kind, t) == MemberEdges(Active(m, CargoKind(kind), t), kind)
GivenOf(m, kind, t) == MemberEdges(Given(m, CargoKind(kind), t), kind)

\* What is asked of the macros: one kind, none, or what a library or a test takes.
Asked == {{}} \union {{kind} : kind \in ToSet(ModuleKinds)} \union {{"normal", "normalDev"}, {"normal", "macro"}}

(***************************************************************************)
(* A package that has no alias with its own name and version, though       *)
(* defs.bzl refers to it by that: members know it by several names,        *)
(* none of them its own, or only their build scripts use it, as a macro.   *)
(***************************************************************************)
NamesGiven(p) ==
  {CodeName(in.ws, e) :
     e \in {e \in in.ws.edges :
              /\ e.to = p /\ e.listed /\ e.from \in WorkspaceMembers(in.ws, crates)
              /\ e.kind = "build" =>
                   /\ IsLib(in.ws, p) /\ crates[e.from].build # <<>>
                   /\ ~Sibling(e, "dev") \/ Sibling(e, "normal")}}
Lost(p) == LibName(in.ws, p) \notin NamesGiven(p) /\ Cardinality(NamesGiven(p)) # 1

LeadsTo(label) ==
  {a.actual.pkg : a \in {a \in aliases : a.role # "binary" /\ <<a.name, a.version>> = <<label.name, label.version>>}}

(***************************************************************************)
(* defs.bzl can be loaded, unless a member knows one package by two names  *)
(* as the same kind of dependency, neither of them the package's own.      *)
(***************************************************************************)
DefsLoad ==
  stage = "done" /\ ~Loads =>
    \E e, f \in {e \in in.ws.edges : e.from \in WorkspaceMembers(in.ws, crates)} :
      /\ e.from = f.from /\ e.to = f.to /\ e.kind = f.kind
      /\ Cardinality({CodeName(in.ws, e), CodeName(in.ws, f), LibName(in.ws, e.to)}) = 3

(***************************************************************************)
(* A label names a rule that is there: a dependency's, an alias's, those   *)
(* of the module, and those that all_crate_deps and aliases() give, which  *)
(* lead through an alias of the module to their package, and nowhere if    *)
(* that alias was not made (Lost).  Left out are a member's own build      *)
(* script, which gets an alias in the module though members have no BUILD  *)
(* file, targets the user named, and aliases of crates vendored in their   *)
(* own directory.                                                          *)
(***************************************************************************)
Exists(l) ==
  /\ l.pkg \in DOMAIN files /\ l.local = IsLocal(l.pkg)
  /\ \E r \in files[l.pkg] : r.name = l.target

LabelsExist ==
  FilesMade =>
    /\ \A p \in DOMAIN files :
         /\ \A r \in files[p] : r.kind = "alias" /\ r.actual.pkg \in Package => Exists(r.actual)
         /\ \A rk \in KindedRules(p) :
              /\ \A l \in LabelsIn(rk[1].deps) \union LabelsIn(rk[1].macros) : Exists(l)
              /\ \A l \in DOMAIN rk[1].aliases.common : Exists(l) \/ IsLocal(l.pkg)
         /\ \A r \in RulesIn(p, {"custom-build"}) : \A l \in LabelsIn(r.links) : Exists(l)
    /\ stage = "done" /\ Loads =>
         \A m \in WorkspaceMembers(in.ws, crates) : \A asked \in Asked, t \in in.ws.built[m] :
           \A p \in Package \ WorkspaceMembers(in.ws, crates) :
             ModuleLabel(p) \in AllCrateDeps(m, asked, t) \union DOMAIN AliasesMacro(m, asked, t) =>
               LeadsTo(ModuleLabel(p)) = IF Lost(p) THEN {} ELSE {p}
    /\ \A a \in aliases :
         Exists(a.actual) \/ a.role = "extra" \/ a.actual.pkg \in in.ws.members \/ IsLocal(a.actual.pkg)

(***************************************************************************)
(* all_crate_deps gives a member, through the aliases of the module, what  *)
(* Cargo uses on the platform, for each kind and for several together.     *)
(* Left out are packages without the alias (Lost), and, where kinds are    *)
(* given together, a name that means another package in a later one.       *)
(***************************************************************************)
Shadowed(e, m, kinds, t) ==
  \E kind \in kinds : \E f \in GivenOf(m, kind, t) : f.to # e.to /\ Means(f) = Means(e)

MemberDepsAsResolved ==
  stage = "done" /\ Loads =>
    \A m \in WorkspaceMembers(in.ws, crates) : \A asked \in Asked, t \in in.ws.built[m] :
      LET kinds == OrDefault(asked, {"normal"})
          reached == UNION {LeadsTo(l) : l \in AllCrateDeps(m, asked, t)}
          wanted == {e \in UNION {ActiveOf(m, kind, t) : kind \in kinds} :
                       ~Lost(e.to) /\ ~Shadowed(e, m, kinds, t)}
      IN  /\ Targets(wanted) \subseteq reached
          /\ reached \subseteq Targets(UNION {GivenOf(m, kind, t) : kind \in kinds})

(***************************************************************************)
(* aliases() gives a member's code the names its manifest gives: a renamed *)
(* package under the new name, and any other under that of its library.    *)
(* Left out are macros, whose dictionaries are made of other kinds; names  *)
(* given under one of several conditions, none of which aliases() heeds;   *)
(* and packages a member knows by two names.                               *)
(***************************************************************************)
MemberAliasesApply ==
  stage = "done" /\ Loads =>
    \A m \in WorkspaceMembers(in.ws, crates) : \A asked \in Asked, t \in in.ws.built[m] :
      LET names == AliasesMacro(m, asked, t)
          kinds == OrDefault(asked, {"normal"}) \ {"macro", "macroDev"}
          given == UNION {GivenOf(m, kind, t) : kind \in kinds}
      IN  \A e \in UNION {ActiveOf(m, kind, t) : kind \in kinds} :
            \/ Get(names, ModuleLabel(e.to), LibName(in.ws, e.to)) = CodeName(in.ws, e)
            \/ \E f \in in.ws.edges : f.from = m /\ e.cfg # None /\ f.cfg \notin {None, e.cfg}
            \/ \E f \in given : f.to = e.to /\ CodeName(in.ws, f) # CodeName(in.ws, e)

(***************************************************************************)
(* Of several annotations of a crate, each takes effect: the dependencies  *)
(* it adds are there under the configuration it names, and the aliases it  *)
(* asks for are made, if a member depends on the crate.                    *)
(***************************************************************************)
AnnotationsApplied ==
  FilesMade =>
    \A p \in DOMAIN files : \A a \in {a \in ToSet(in.annotations) : Matches(in.ws, a.req, p)} :
      /\ a.extra.deps # <<>> =>
           \A r \in RulesIn(p, OfCrate), t \in in.config.supported :
             SetUnder(a.extra.deps[1], t) \subseteq SetAt(r.deps, t)
      /\ a.extra.aliased # <<>> /\ stage = "done" =>
           /\ p \in {d.pkg : d \in WorkspaceMemberDeps(in.ws, crates)} =>
                DOMAIN a.extra.aliased[1]
                  \subseteq {b.name : b \in {b \in aliases : b.role = "extra" /\ b.dep.pkg = p}}

(***************************************************************************)
(* rustc gets, on each platform, the flag that silences warnings first, so *)
(* that an annotation can undo it, and then every flag of the annotations  *)
(* of the crate, as often as it is given and in their order, those meant   *)
(* for the platform after those meant for all; without such an annotation, *)
(* what the package says itself.                                           *)
(***************************************************************************)
Giving(p, field) ==
  LET given(a) == Matches(in.ws, a.req, p) /\ a.extra[field] # <<>>
      annotations == SelectSeq(in.annotations, given)
  IN  IF annotations # <<>> THEN [i \in DOMAIN annotations |-> annotations[i].extra[field][1]]
      ELSE in.provided[p][field]

FlagsHeard ==
  FilesMade =>
    \A p \in DOMAIN files : \A r \in RulesIn(p, OfCrate), t \in in.config.supported :
      LET given == Giving(p, "flags")
          all == FlattenSeq([i \in DOMAIN given |-> given[i].common])
          here == SelectSeq(Alphabet, LAMBDA c : t \in Platforms(c))
          under(c) == FlattenSeq([i \in DOMAIN given |-> Get(given[i].selects, c, <<>>)])
      IN  ListAt(r.flags, t) = <<CapLints>> \o all \o FlattenSeq([i \in DOMAIN here |-> under(here[i])])

(***************************************************************************)
(* A build script runs, on each platform, where the first annotation that  *)
(* names a directory says it does there, and where it names none for that  *)
(* platform, the one it names for all.                                     *)
(***************************************************************************)
RundirHeard ==
  FilesMade =>
    \A p \in DOMAIN files : \A r \in RulesIn(p, {"custom-build"}), t \in in.config.supported :
      LET given == Giving(p, "rundir")
          here == {given[1].selects[c] : c \in {c \in DOMAIN given[1].selects : t \in Platforms(c)}}
      IN  IF given = <<>> THEN ScalarAt(r.rundir, t) = <<>>
          ELSE ScalarAt(r.rundir, t) \in IF here = {} THEN {given[1].common} ELSE here

(***************************************************************************)
(* The repositories the module extension makes visible are those its       *)
(* aliases refer to, and one is for development only if no member needs    *)
(* it otherwise.                                                           *)
(***************************************************************************)
RepositoriesVisible ==
  stage = "done" =>
    LET members == {a \in aliases : a.role # "binary"}
        direct == DirectDeps(in.ws, deps)
        dev == DirectDevDeps(in.ws, deps)
    IN  /\ {a.actual.pkg : a \in members} \ in.ws.members \subseteq direct \union dev
        /\ \A m \in WorkspaceMembers(in.ws, crates), t \in Triple :
             t \in in.ws.built[m] => Targets(Active(m, "normal", t)) \subseteq direct

(***************************************************************************)
(* Every rule and every member gets the dependencies that Cargo resolved,  *)
(* platform by platform, macros apart (new_for_node, SelectSet::new,       *)
(* make_deps, all_crate_deps).                                             *)
(***************************************************************************)
DepsRight == TypeOK /\ DepsAsResolved /\ MacrosApart /\ MemberDepsAsResolved

(***************************************************************************)
(* Names lead where they should: in the code of a crate, in labels, in the *)
(* module's aliases, in the repositories that are visible (make_aliases,   *)
(* render_module_build_file, Context::new).                                *)
(***************************************************************************)
NamesRight ==
  /\ AliasesApply /\ MemberAliasesApply /\ LabelsExist /\ DefsLoad
  /\ AliasesUnambiguous /\ RepositoriesVisible

(***************************************************************************)
(* What the user's annotations say takes effect, each where it is meant to *)
(* (CrateAnnotations::add, with_overrides, make_common_attrs).             *)
(***************************************************************************)
AnnotationsHeard == AnnotationsApplied /\ FlagsHeard /\ RundirHeard
=============================================================================
