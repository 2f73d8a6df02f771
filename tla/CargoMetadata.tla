---------------------------- MODULE CargoMetadata ----------------------------
(***************************************************************************)
(* What `cargo metadata` and `cargo tree` say of a workspace, and the      *)
(* dependencies of a crate made of both                                    *)
(* (crate_universe/src/metadata/dependency.rs).                            *)
(*                                                                         *)
(* A workspace is what Cargo has resolved: packages with their targets,    *)
(* declared dependencies, and the triples on which Cargo builds a package  *)
(* and uses a dependency.  `cargo metadata` lists dependencies with their  *)
(* target but knows one set of features for all platforms; `cargo tree`    *)
(* knows the packages used on every triple but not as what kind.           *)
(***************************************************************************)
EXTENDS Selects

CONSTANTS
  Package,  \* PackageId; CrateId, its name and version, identifies it too
  Name,
  ModuleOf, \* sanitize_module_name
  NoName,
  Triple,   \* platforms, as Bazel names them
  Cfg,      \* `cfg(..)` expressions and bare triples that manifests may name
  Holds     \* the triples an expression holds for, as cfg-expr evaluates it

Kind == {"normal", "dev", "build"}
TargetKind == {"lib", "proc-macro", "bin", "custom-build", "example"}

\* rename is NoName or the name given in the manifest.  An optional
\* dependency is listed by `cargo metadata` if any feature set enables it.
Edge ==
  [from : Package, to : Package, rename : Name \union {NoName}, kind : Kind,
   cfg : Cfg \union {None}, optional : BOOLEAN, listed : BOOLEAN, on : SUBSET Triple]

\* The triples a dependency that nothing switches off is used on.
Reach(built, cfg) == IF cfg = None THEN built ELSE built \intersect Holds[cfg]

Libraries(ws, p) == {t \in ws.targets[p] : t.kind \in {"lib", "proc-macro"}}
IsLib(ws, p) == \E t \in ws.targets[p] : t.kind = "lib"
IsMacro(ws, p) == \E t \in ws.targets[p] : t.kind = "proc-macro"
LibName(ws, p) == ModuleOf[(CHOOSE t \in Libraries(ws, p) : TRUE).name]

\* The name a dependency goes by in the code of the crate that has it.
CodeName(ws, e) == IF e.rename = NoName THEN LibName(ws, e.to) ELSE ModuleOf[e.rename]

IsWorkspace(ws) ==
  /\ ws.members \subseteq Package
  /\ ws.name \in [Package -> Name]
  /\ ws.version \in [Package -> Nat]
  /\ \A p, q \in Package : ws.name[p] = ws.name[q] /\ ws.version[p] = ws.version[q] => p = q
  /\ \A p \in Package : \A t \in ws.targets[p] : t.name \in Name /\ t.kind \in TargetKind
  /\ ws.links \subseteq Package
  /\ ws.built \in [Package -> SUBSET Triple]
  /\ ws.edges \subseteq Edge
  /\ \A e \in ws.edges :
       /\ e.on \subseteq Reach(ws.built[e.from], e.cfg)
       /\ ~e.optional => e.listed /\ e.on = Reach(ws.built[e.from], e.cfg)
       /\ e.on # {} => e.listed
       /\ e.kind = "dev" => e.from \in ws.members
       /\ Libraries(ws, e.to) # {}
  /\ \A e, f \in ws.edges :
       /\ e.from = f.from /\ CodeName(ws, e) = CodeName(ws, f) /\ e # f =>
            /\ <<e.kind, e.cfg>> # <<f.kind, f.cfg>>
            /\ e.kind = f.kind /\ e.on \intersect f.on # {} => e.to = f.to
            /\ e.optional /\ f.optional =>
                 /\ e.listed = f.listed
                 /\ e.on \intersect Reach(ws.built[f.from], f.cfg)
                      = f.on \intersect Reach(ws.built[e.from], e.cfg)
------------------------------------------------------------------------------
(***************************************************************************)
(* The resolve graph of `cargo metadata`: a crate's dependencies by name   *)
(* and package, each with the kinds and targets it was declared for.       *)
(***************************************************************************)
NodeDeps(ws, p) ==
  LET listed == {e \in ws.edges : e.from = p /\ e.listed}
      same(e) == {f \in listed : f.to = e.to /\ CodeName(ws, f) = CodeName(ws, e)}
  IN  {[name |-> CodeName(ws, e), pkg |-> e.to,
        kinds |-> {[kind |-> f.kind, cfg |-> f.cfg] : f \in same(e)}] : e \in listed}

(***************************************************************************)
(* The tree resolver's result for a crate: what it depends on, whatever    *)
(* the kind, on all triples it is built on, or on some.                    *)
(***************************************************************************)
Used(ws, p, t) == {e.to : e \in {e \in ws.edges : e.from = p /\ t \in e.on}}

TreeDeps(ws, p) ==
  LET common == {q \in Package : \A t \in ws.built[p] : q \in Used(ws, p, t)}
      rest(t) == Used(ws, p, t) \ common
      branches == {t \in ws.built[p] : rest(t) # {}}
  IN  IF ws.built[p] = {} THEN EmptySet
      ELSE [common |-> common, selects |-> [t \in branches |-> rest(t)]]
------------------------------------------------------------------------------
(***************************************************************************)
(* dependency.rs.  An alias is NoName or a name; examples, and nothing     *)
(* else, are passed over when a target is looked for.                      *)
(***************************************************************************)
Dependency == [pkg : Package, target : Name, alias : Name \union {NoName}]

HasKind(dep, kind) == \E k \in dep.kinds : k.kind = kind
IsNormal(dep) == HasKind(dep, "normal")
IsDev(dep) == ~IsNormal(dep) /\ HasKind(dep, "dev")
IsBuild(dep) == HasKind(dep, "build")

LibraryTarget(ws, dep) ==
  IF \E t \in ws.targets[dep.pkg] : t.name = dep.name /\ t.kind # "example"
  THEN dep.name
  ELSE (CHOOSE t \in Libraries(ws, dep.pkg) : TRUE).name

TargetAlias(ws, dep) ==
  IF \E t \in ws.targets[dep.pkg] : t.kind # "example" /\ ModuleOf[t.name] = dep.name
  THEN NoName
  ELSE dep.name

DependencyOf(ws, dep) ==
  [pkg |-> dep.pkg, target |-> LibraryTarget(ws, dep), alias |-> TargetAlias(ws, dep)]

\* is_optional_dependency knows the declaration by its rename or its package's name.
IsOptional(ws, p, dep, k) ==
  \E e \in ws.edges :
    /\ e.from = p /\ e.kind = k.kind /\ e.cfg = k.cfg /\ e.optional
    /\ ModuleOf[IF e.rename # NoName THEN e.rename ELSE ws.name[e.to]] = dep.name

SetOf(items) ==
  FoldLeft(LAMBDA s, item : InsertSet(s, item[2], item[1]), EmptySet, SetToSeq(items))

\* Mutant: optional dependencies are taken for what the manifest says of them.
CollectDeclared(ws, p, deps, kind) ==
  SetOf(UNION {{<<k.cfg, DependencyOf(ws, dep)>> : k \in {k \in dep.kinds : k.kind = kind}} :
                 dep \in deps})

(***************************************************************************)
(* collect_deps_selectable: a dependency is there under the target it was  *)
(* declared for, but an optional one where the tree has its package.       *)
(***************************************************************************)
Collect(ws, p, deps, kind) ==
  LET tree == {<<item[1], item[2]>> : item \in ToSet(SetItems(TreeDeps(ws, p)))}
      items(dep, k) ==
        IF IsOptional(ws, p, dep, k)
        THEN {<<item[1], DependencyOf(ws, dep)>> : item \in {i \in tree : i[2] = dep.pkg}}
        ELSE {<<k.cfg, DependencyOf(ws, dep)>>}
  IN  SetOf(UNION {UNION {items(dep, k) : k \in {k \in dep.kinds : k.kind = kind}} : dep \in deps})

\* Mutant: a macro counts as a library too.
DependencySetMixed(ws, p) ==
  LET all == {dep \in NodeDeps(ws, p) : dep.pkg \notin ws.members}
      macros == {dep \in all : IsMacro(ws, dep.pkg)}
      collect(deps, kind) == Collect(ws, p, deps, kind)
  IN  [normal |-> collect({d \in all : IsNormal(d)}, "normal"),
       normalDev |-> collect({d \in all : IsDev(d)}, "dev"),
       macro |-> collect({d \in macros : IsNormal(d)}, "normal"),
       macroDev |-> collect({d \in macros : IsDev(d)}, "dev"),
       build |-> collect({d \in all : IsBuild(d) /\ ~IsDev(d)} \ macros, "build"),
       buildMacro |-> collect({d \in macros : IsBuild(d) /\ ~IsDev(d)}, "build"),
       buildLink |-> EmptySet]

(***************************************************************************)
(* DependencySet::new_for_node.  Dependencies on workspace members are     *)
(* left to the user.                                                       *)
(***************************************************************************)
DependencySet(ws, p) ==
  LET all == {dep \in NodeDeps(ws, p) : dep.pkg \notin ws.members}
      libs == {dep \in all : IsLib(ws, dep.pkg)}
      macros == {dep \in all : IsMacro(ws, dep.pkg)}
      building == {dep \in all : IsBuild(dep) /\ ~IsDev(dep)}
      collect(deps, kind) == Collect(ws, p, deps, kind)
      normal == collect({d \in libs : IsNormal(d)}, "normal")
  IN  [normal |-> normal,
       normalDev |-> collect({d \in libs : IsDev(d)}, "dev"),
       macro |-> collect({d \in macros : IsNormal(d)}, "normal"),
       macroDev |-> collect({d \in macros : IsDev(d)}, "dev"),
       build |-> collect(building \ macros, "build"),
       buildMacro |-> collect(building \intersect macros, "build"),
       buildLink |-> SetOf({item \in ToSet(SetItems(normal)) : item[2].pkg \in ws.links})]
=============================================================================
