------------------------------- MODULE Splicer -------------------------------
(***************************************************************************)
(* Splicing: the manifests a user lists are made into one Cargo workspace, *)
(* in a directory of its own, without touching the user's files            *)
(* (crate_universe/src/splicing/splicer.rs, src/splicing.rs,               *)
(* src/cli/splice.rs, the lockfile generator of src/metadata.rs, and       *)
(* get_package_path_id of src/context.rs, which reads what was written).   *)
(*                                                                         *)
(* A path is a sequence of names.  user has the user's files, from the     *)
(* root of the Bazel workspace; tree has the links, directories and files  *)
(* of the spliced workspace, from its own root.  What is at a path of tree *)
(* may be reached through a link: Leads says where it really is.           *)
(***************************************************************************)
EXTENDS CargoRegistries, TLC

CONSTANTS
  Inputs,        \* families of inputs: see TypeOK
  NoName,        \* a manifest without a package
  DirectPackage  \* DEFAULT_SPLICING_PACKAGE_NAME

Toml(dir) == dir \o <<"Cargo.toml">>
DotCargo == <<".cargo">>

\* A manifest as far as splicing looks at it.  No package or member is named `.cargo`.
ManifestFields == {"type", "package", "workspace", "members", "deps", "patches", "metadata", "bazel"}
IsManifest(m) ==
  /\ m = [f \in ManifestFields |-> m[f]]
  /\ m.type = "manifest" /\ m.bazel = <<>> /\ <<m.package>> # DotCargo
  /\ m.package \in STRING /\ m.members \subseteq STRING \ {".cargo"} /\ m.workspace \in BOOLEAN

\* Files are at paths, some manifests are listed, and the spliced workspace is
\* made where no link is: in a temporary directory, or in the one of the rule.
\* Cargo takes no config in which two sources have one url.
ASSUME InputsAssumption ==
  \A family \in Inputs : \A in \in family :
    /\ in.files = [p \in DOMAIN in.files |-> in.files[p]] /\ DOMAIN in.files \subseteq Seq(STRING)
    /\ DOMAIN in.listed \subseteq Seq(STRING) /\ IsFiniteSet(DOMAIN in.listed)
    /\ in.order \in Seq(DOMAIN in.listed) /\ DOMAIN in.listed = {in.order[n] : n \in DOMAIN in.order}
    /\ \A dir \in DOMAIN in.listed : Toml(dir) \in DOMAIN in.files => IsManifest(in.files[Toml(dir)])
    /\ in.config = <<>> \/ in.config = <<in.config[1]>>
    /\ \A n \in DOMAIN in.config : LET config == in.config[n] IN
         /\ config.type = "config"
         /\ \A a, b \in DOMAIN config.sources : config.sources[a].registry = config.sources[b].registry => a = b
    /\ DOMAIN in.before \subseteq Seq(STRING) /\ \A p \in DOMAIN in.before : in.before[p].type # "link"

VARIABLES
  input,     \* the splicing manifest, the options, and the user's files at the start
  todo,      \* the steps that are left, each with the directory it is about
  status,    \* running, done or failed
  user,      \* the user's files
  tree,      \* what is in the spliced workspace
  root,      \* the root manifest that is being made
  lock,      \* the packages of the lockfile: <<>> or <<packages>>
  tracked    \* extra_paths_to_track

vars == <<input, todo, status, user, tree, root, lock, tracked>>

RootToml == Toml(<<>>)
RootLock == <<"Cargo.lock">>
Config == <<".cargo", "config.toml">>
------------------------------------------------------------------------------
\* The file system, seen through the links of the spliced workspace.
Link(path) == [type |-> "link", to |-> path]
Directory == [type |-> "dir"]
IsLink(p) == p \in DOMAIN tree /\ tree[p].type = "link"
Leads(p) == IF IsLink(p) THEN <<tree[p].to>>
            ELSE IF Len(p) > 1 /\ IsLink(Front(p)) THEN <<Append(tree[Front(p)].to, Last(p))>>
            ELSE <<>>

UserDir(p) == \E file \in DOMAIN user : IsStrictPrefix(p, file)
Exists(p) == LET to == Leads(p)
             IN  IF to = <<>> THEN p \in DOMAIN tree
                 ELSE to[1] \in DOMAIN user \/ UserDir(to[1])
IsFile(p) == LET to == Leads(p)
             IN  IF to = <<>> THEN p \in DOMAIN tree /\ tree[p] # Directory
                 ELSE to[1] \in DOMAIN user
Read(p) == LET to == Leads(p) IN IF to = <<>> THEN tree[p] ELSE user[to[1]]

With(f, p, content) == [q \in DOMAIN f \union {p} |-> IF q = p THEN content ELSE f[q]]
Without(f, gone) == [p \in DOMAIN f \ gone |-> f[p]]

\* fs::write and fs::copy follow a link; fs::remove_file takes the link itself.
Write(p, content) ==
  IF Leads(p) = <<>> THEN tree' = With(tree, p, content) /\ UNCHANGED user
  ELSE user' = With(user, Leads(p)[1], content) /\ UNCHANGED tree
Removed(gone) == /\ tree' = Without(tree, gone)
                 /\ user' = Without(user, UNION {ToSet(Leads(p)) : p \in gone \ DOMAIN tree})

\* symlink_roots; a name that is taken is an error.
Entries(dir) == {file[Len(dir) + 1] : file \in {file \in DOMAIN user : IsStrictPrefix(dir, file)}}
Links(source, dest) ==
  [p \in {Append(dest, name) : name \in Entries(source)} |-> Link(Append(source, Last(p)))]
CanLink(source, dest) ==
  /\ UserDir(source)
  /\ dest = <<>> \/ (dest \in DOMAIN tree => tree[dest] = Directory)
  /\ DOMAIN Links(source, dest) \intersect DOMAIN tree = {}
Linked(source, dest) ==
  LET links == Links(source, dest)
  IN  [p \in DOMAIN links \union DOMAIN tree \union ({dest} \ {<<>>}) |->
         IF p \in DOMAIN links THEN links[p] ELSE IF p \in DOMAIN tree THEN tree[p] ELSE Directory]
------------------------------------------------------------------------------
\* Splicer::new and SplicerKind::new.
Manifest(dir) == user[Toml(dir)]
Listed == DOMAIN input.listed

\* parent_workspace: the nearest directory above with a workspace manifest.
WorkspaceAbove(files, dir) ==
  LET above == {SubSeq(dir, 1, n) : n \in 0..Len(dir)}
      found == {d \in above : Toml(d) \in DOMAIN files /\ files[Toml(d)].workspace}
  IN  {d \in found : \A e \in found : Len(e) <= Len(d)}
ParentWorkspace(dir) == WorkspaceAbove(user, dir)

\* The names of what splicing itself makes in its workspace, or removes there.
Reserved == {".cargo", "config", "config.toml", "Cargo.toml", "Cargo.lock"}

\* An input: files; the directories of the manifests that are listed, in order
\* of their paths, and with the Bazel packages of their labels; the direct
\* packages; the config, if one is given, and whether a directory above has
\* one; the packages that Cargo locks, and what is done with the lockfile; and
\* what the directory of the spliced workspace has in it before.
Fields == {"files", "order", "listed", "direct", "config", "above", "packages", "lockfile", "before"}

\* A label names a manifest of its own Bazel package; a package below a workspace is
\* one of its members, as Cargo insists, by a name that splicing has no other use for;
\* and there is nothing but a .cargo in the directory that is spliced into.
ASSUME MembersAssumption ==
  \A family \in Inputs : \A in \in family :
    /\ DOMAIN in = Fields
    /\ \A dir \in DOMAIN in.listed :
         /\ in.listed[dir] = dir
         /\ \A ws \in (WorkspaceAbove(in.files, dir) \intersect DOMAIN in.listed) \ {dir} :
              \E name \in in.files[Toml(ws)].members \ Reserved : dir = Append(ws, name)
    /\ \A p \in DOMAIN in.before :
         p = DotCargo \/ (DotCargo \in DOMAIN in.before /\ Len(p) = 2 /\ Front(p) = DotCargo)

Roots == UNION {ParentWorkspace(dir) : dir \in Listed}

SplicerKind ==
  IF Roots # {} /\ Roots \subseteq Listed THEN "workspace"
  ELSE IF Cardinality(Listed) = 1 THEN "package" ELSE "multi"

\* The manifest that splice_workspace and splice_package are about.
RootDir == CHOOSE dir \in Listed : SplicerKind = "workspace" => dir \in Roots

Step(names, dir) == [n \in DOMAIN names |-> <<names[n], dir>>]

\* One step for each listed manifest, in the order of their paths.
InOrder(dirs, name) == [n \in DOMAIN dirs |-> <<name, dirs[n]>>]

Finish == <<"write", "lock", "sources", "publish">>
Steps(order) ==
  IF SplicerKind = "multi"
  THEN Step(<<"relink", "clear", "install">>, <<>>) \o InOrder(order, "member")
         \o InOrder(order, "patches") \o Step(<<"metadata", "direct">>, <<>>) \o Step(Finish, <<>>)
  ELSE Step(<<"link", "relink", "clear", "install", "direct", "metadata">>, RootDir)
         \o Step(Finish, RootDir)

DefaultWorkspace ==
  [type |-> "manifest", package |-> NoName, workspace |-> TRUE, members |-> {}, deps |-> {},
   patches |-> <<>>, metadata |-> "none", bazel |-> <<>>]

Init ==
  \E family \in Inputs : \E in \in family :
    /\ input = in
    /\ user = in.files /\ tree = in.before
    /\ status = "running"
    /\ todo = <<<<"kind", <<>>>>>> /\ root = DefaultWorkspace
    /\ lock = <<>> /\ tracked = {}

Fail == status' = "failed" /\ UNCHANGED <<input, todo, user, tree, root, lock, tracked>>
At(step) == status = "running" /\ Head(todo)[1] = step
Passed == todo' = Tail(todo) /\ UNCHANGED <<status, input>>
Dir == Head(todo)[2]

\* A manifest cannot be read, or they are of two workspaces.
PickKind ==
  /\ At("kind")
  /\ IF (\A dir \in Listed : Toml(dir) \in DOMAIN user) /\ Cardinality(Roots) <= 1
     THEN /\ todo' = Steps(input.order)
          /\ root' = IF SplicerKind = "multi" THEN DefaultWorkspace
                     ELSE [Manifest(RootDir) EXCEPT !.workspace = TRUE]
          /\ UNCHANGED <<status, input, user, tree, lock, tracked>>
     ELSE Fail
------------------------------------------------------------------------------
\* splice_workspace and splice_package link the directory of their manifest.
LinkRoot ==
  /\ At("link")
  /\ IF CanLink(Dir, <<>>)
     THEN tree' = Linked(Dir, <<>>) /\ Passed /\ UNCHANGED <<user, root, lock, tracked>>
     ELSE Fail

\* Mutant: the directory is not made again.
RelinkDotCargoBare ==
  /\ At("relink")
  /\ tree' = IF IsLink(DotCargo) /\ Exists(DotCargo)
             THEN Without(tree, {DotCargo}) @@ Links(tree[DotCargo].to, DotCargo) ELSE tree
  /\ Passed /\ UNCHANGED <<user, root, lock, tracked>>

\* setup_cargo_config, lines 304-333: a directory in place of a link to one.
Relinked ==
  LET links == Links(tree[DotCargo].to, DotCargo)
  IN  [p \in DOMAIN tree \union DOMAIN links |->
         IF p = DotCargo THEN Directory ELSE IF p \in DOMAIN tree THEN tree[p] ELSE links[p]]
RelinkDotCargo ==
  /\ At("relink")
  /\ tree' = IF IsLink(DotCargo) /\ Exists(DotCargo) THEN Relinked ELSE tree
  /\ Passed /\ UNCHANGED <<user, root, lock, tracked>>

ConfigNames == {<<"config">>, <<"config.toml">>, <<".cargo", "config">>, Config}

\* Mutant: only `config.toml` is a config file.
ClearConfigsToml ==
  /\ At("clear")
  /\ Removed({p \in {Config} : Exists(p)})
  /\ IF input.above THEN status' = "failed" /\ UNCHANGED <<input, todo>> ELSE Passed
  /\ UNCHANGED <<root, lock, tracked>>

\* Lines 335-369: config files are removed, and none may be above.
ClearConfigs ==
  /\ At("clear")
  /\ Removed({p \in ConfigNames : Exists(p)})
  /\ IF input.above THEN status' = "failed" /\ UNCHANGED <<input, todo>> ELSE Passed
  /\ UNCHANGED <<root, lock, tracked>>

\* Lines 371-379.
InstallConfig ==
  /\ At("install")
  /\ IF input.config = <<>> THEN UNCHANGED <<user, tree>>
     ELSE IF Exists(DotCargo) THEN Write(Config, input.config[1])
     ELSE tree' = With(With(tree, DotCargo, Directory), Config, input.config[1]) /\ UNCHANGED user
  /\ Passed /\ UNCHANGED <<root, lock, tracked>>
------------------------------------------------------------------------------
\* Mutant: a directory is made once for all the packages of one name.
LinkMemberOnce ==
  /\ At("member")
  /\ LET name == Manifest(Dir).package
     IN  IF name # NoName
         THEN /\ root' = [root EXCEPT !.members = @ \union {name}]
              /\ tree' = tree @@ Linked(Dir, <<name>>)
              /\ Passed /\ UNCHANGED <<user, lock, tracked>>
         ELSE Fail

\* inject_workspace_members, for one manifest; without a package it panics.
LinkMember ==
  /\ At("member")
  /\ LET name == Manifest(Dir).package
     IN  IF name # NoName /\ CanLink(Dir, <<name>>)
         THEN /\ root' = [root EXCEPT !.members = @ \union {name}]
              /\ tree' = Linked(Dir, <<name>>)
              /\ Passed /\ UNCHANGED <<user, lock, tracked>>
         ELSE Fail

\* Mutant: the patches that come later win.
MergePatchesLast ==
  /\ At("patches")
  /\ root' = [root EXCEPT !.patches = Manifest(Dir).patches @@ @]
  /\ Passed /\ UNCHANGED <<user, tree, lock, tracked>>

\* inject_patches; patches go from a registry and a package to what replaces it.
MergePatches ==
  /\ At("patches")
  /\ LET patches == Manifest(Dir).patches
     IN  IF \A key \in DOMAIN patches \intersect DOMAIN root.patches :
              patches[key] = root.patches[key]
         THEN /\ root' = [root EXCEPT !.patches =
                   [key \in DOMAIN patches \union DOMAIN @ |-> IF key \in DOMAIN patches THEN patches[key] ELSE @[key]]]
              /\ Passed /\ UNCHANGED <<user, tree, lock, tracked>>
         ELSE Fail

\* Mutant: the prefix of a package is its Bazel package.
PackagePrefixesWhole ==
  IF SplicerKind # "multi" THEN [workspace |-> input.listed[RootDir], packages |-> <<>>]
  ELSE LET named == {dir \in Listed : input.listed[dir] # <<>>}
       IN  [workspace |-> <<>>,
            packages |-> [name \in {Manifest(dir).package : dir \in named} |->
              input.listed[CHOOSE dir \in named : Manifest(dir).package = name]]]

\* WorkspaceMetadata::new: the prefix of a package is the directory above its
\* Bazel package; that of the root of a workspace is its Bazel package.
PackagePrefixes ==
  IF SplicerKind # "multi" THEN [workspace |-> input.listed[RootDir], packages |-> <<>>]
  ELSE LET named == {dir \in Listed : input.listed[dir] # <<>>}
       IN  [workspace |-> <<>>,
            packages |-> [name \in {Manifest(dir).package : dir \in named} |->
              Front(input.listed[CHOOSE dir \in named : Manifest(dir).package = name])]]

\* WorkspaceMetadata::new and inject_into.
AddMetadata ==
  /\ At("metadata")
  /\ IF root.metadata = "other" THEN Fail
     ELSE /\ root' = [root EXCEPT !.metadata = "table", !.bazel = <<[prefixes |-> PackagePrefixes, sources |-> {}]>>]
          /\ Passed /\ UNCHANGED <<user, tree, lock, tracked>>

\* default_cargo_package_manifest: a root without a package is given one.
PackageFor(manifest) ==
  [manifest EXCEPT !.package = IF @ = NoName THEN DirectPackage ELSE @]

\* inject_direct_packages, when there are some.
AddDirect ==
  /\ At("direct")
  /\ IF input.direct = {} THEN UNCHANGED root /\ Passed /\ UNCHANGED <<user, tree, lock, tracked>>
     ELSE IF root.deps \intersect input.direct # {} THEN Fail
     ELSE /\ root' = [PackageFor(root) EXCEPT !.deps = @ \union input.direct]
          /\ Passed /\ UNCHANGED <<user, tree, lock, tracked>>
------------------------------------------------------------------------------
\* Mutant: it is written where it is.
WriteRootThrough ==
  /\ At("write")
  /\ Write(RootToml, root)
  /\ Passed /\ UNCHANGED <<root, lock, tracked>>

\* write_root_manifest: a link is removed first.
WriteRoot ==
  /\ At("write")
  /\ tree' = With(tree, RootToml, root)
  /\ Passed /\ UNCHANGED <<user, root, lock, tracked>>

\* generate_lockfile and LockGenerator::generate: Cargo writes Cargo.lock, a
\* copy of the user's lockfile to begin with if there is one, unless the user
\* has asked for the lockfile to be taken as it is; Cargo may fail.
Relock ==
  /\ At("lock")
  /\ lock' = <<input.packages>>
  /\ IF input.lockfile = "skip" THEN UNCHANGED tree
     ELSE tree' = With(tree, RootLock, [type |-> "lock", packages |-> input.packages])
  /\ Passed /\ UNCHANGED <<user, root, tracked>>

\* write_registry_urls_and_feature_map: the manifest is read back and replaced.
WriteSources ==
  /\ At("sources")
  /\ LET config == IF IsFile(Config) THEN <<Read(Config)>> ELSE <<>>
         written == Read(RootToml)
     IN  IF Loads(config, lock[1]) /\ (\A p \in RegistryPackages(lock[1]) : Summed(p))
         THEN /\ tree' = With(tree, RootToml, [written EXCEPT !.bazel[1].sources = SourceInfos(config, lock[1])])
              /\ Passed /\ UNCHANGED <<user, root, lock, tracked>>
         ELSE Fail

\* What Cargo finds of the members of a workspace manifest: their directories.
MembersAt(manifest, dir, Found(_)) ==
  {Append(dir, name) : name \in {name \in manifest.members : Found(Toml(Append(dir, name)))}}
    \union (IF manifest.package = NoName THEN {} ELSE {dir})

\* Mutant: what the user has listed is to be watched.
PublishListed ==
  /\ At("publish")
  /\ IF IsFile(RootLock)
     THEN /\ tracked' = IF SplicerKind = "workspace" THEN Listed ELSE {}
          /\ status' = "done" /\ todo' = <<>>
          /\ UNCHANGED <<input, user, tree, root, lock>>
     ELSE Fail

\* The end of splice: the lockfile is copied, and for a workspace the manifests
\* of its members, where the user has them, are to be watched.
Publish ==
  /\ At("publish")
  /\ IF IsFile(RootLock)
     THEN /\ tracked' = IF SplicerKind = "workspace"
                        THEN MembersAt(Manifest(RootDir), RootDir, LAMBDA p : p \in DOMAIN user) ELSE {}
          /\ status' = "done" /\ todo' = <<>>
          /\ UNCHANGED <<input, user, tree, root, lock>>
     ELSE Fail

\* Any step may fail, for a reason that is outside of the program.
Broken == status = "running" /\ Fail

Next ==
  \/ PickKind \/ LinkRoot \/ RelinkDotCargo \/ ClearConfigs \/ InstallConfig
  \/ LinkMember \/ MergePatches \/ AddMetadata \/ AddDirect
  \/ WriteRoot \/ Relock \/ WriteSources \/ Publish \/ Broken

Spec == Init /\ [][Next]_vars
------------------------------------------------------------------------------
\* The variables have their types.
TypeOK ==
  /\ DOMAIN input = Fields
  /\ status \in {"running", "done", "failed"}
  /\ \A p \in DOMAIN tree : Len(p) \in 1..2 /\ (Len(p) = 2 => Front(p) \in DOMAIN tree)
  /\ root.workspace /\ root.bazel \in Seq([prefixes : {PackagePrefixes}, sources : {{}}])
  /\ tracked \subseteq {Front(p) : p \in DOMAIN user}

\* The user's files are what they were, whatever was linked, removed or
\* overwritten in the spliced workspace, and wherever splicing stops.
UserFilesUntouched == user = input.files

\* Cargo finds no config in the spliced workspace but the one that was given,
\* and it finds that one (the rest "will not be reproducible").
ConfigReproducible ==
  status = "done" =>
    /\ {Read(p) : p \in {p \in ConfigNames : IsFile(p)}} = ToSet(input.config)
    /\ ~input.above

\* The packages Cargo finds in the spliced workspace, with their directories.
Members == MembersAt(Read(RootToml), <<>>, IsFile)
PackageAt(dir) == Read(Toml(dir)).package

\* Each listed manifest of the workspace is a member of what was spliced, and
\* is itself, not another package of its name.
MembersFound ==
  status = "done" =>
    \A dir \in Listed :
      (SplicerKind = "workspace" => ParentWorkspace(dir) = {RootDir}) =>
        \/ Manifest(dir).package = NoName
        \/ \E member \in Members :
             \/ Leads(Toml(member)) = <<Toml(dir)>>
             \/ member = <<>> /\ dir = RootDir /\ SplicerKind # "multi"

\* get_package_path_id.
PathId(name, dir) ==
  LET prefixes == Read(RootToml).bazel[1].prefixes
  IN  IF name \in DOMAIN prefixes.packages THEN prefixes.packages[name] \o dir
      ELSE prefixes.workspace \o dir

\* A package is rendered under the Bazel package it is in, which all_crate_deps
\* looks it up by.  With more manifests than one and no workspace among them it
\* has to have the name of its directory, and not to be at the root.
PathIds ==
  status = "done" =>
    \A member \in Members \ (IF SplicerKind = "multi" THEN {<<>>} ELSE {}) :
      LET at == IF member = <<>> THEN RootDir ELSE Front(Leads(Toml(member))[1])
      IN  (SplicerKind = "multi" => at # <<>> /\ Last(at) = PackageAt(member)) =>
            PathId(PackageAt(member), member) = at

\* No patch of a listed manifest is lost or replaced by another one's.
PatchesKept ==
  status = "done" =>
    \A dir \in (IF SplicerKind = "multi" THEN Listed ELSE {RootDir}) :
      \A key \in DOMAIN Manifest(dir).patches :
        /\ key \in DOMAIN Read(RootToml).patches
        /\ Read(RootToml).patches[key] = Manifest(dir).patches[key]

\* Every locked package of a registry has the place it is downloaded from: the
\* index at its own url, or at the url of the source or registry that the given
\* config replaces that one with.  Two kinds of source at one url are left out.
SourcesKnown ==
  status = "done" =>
    \A p \in RegistryPackages(lock[1]) :
      LET config == Loaded(input.config[1])
          replaced == IF input.config = <<>> THEN {}
                      ELSE {n \in SourcesFromUrl(config, p.url) : config.sources[n].replace # NoReplace}
          urls == IF replaced = {} THEN {p.url}
                  ELSE UNION {IndexUrlByName(config, config.sources[n].replace) : n \in replaced}
      IN  (\A q \in RegistryPackages(lock[1]) : q.url = p.url => q.kind = p.kind) =>
            \E source \in Read(RootToml).bazel[1].sources : source[1] = p.name /\ source[2][2] \in urls

\* Splicing is done again when the manifest of any member changes.
MembersTracked ==
  (status = "done" /\ SplicerKind = "workspace") =>
    \A member \in Members : (member = <<>> => Manifest(RootDir).package # NoName) => RootDir \o member \in tracked

\* Cargo finds in the spliced workspace the packages that were listed, rendering
\* finds the Bazel packages they are in, and Bazel watches them.
MembersSpliced == TypeOK /\ MembersFound /\ PathIds /\ MembersTracked

\* What decides how Cargo resolves is taken over: config, patches, registries.
SettingsKept == ConfigReproducible /\ PatchesKept /\ SourcesKnown
=============================================================================
