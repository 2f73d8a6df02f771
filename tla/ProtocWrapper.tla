---------------------------- MODULE ProtocWrapper ----------------------------
(***************************************************************************)
(* The wrapper that runs protoc with the prost and tonic plugins for a     *)
(* proto_library and makes one crate of what they generate                 *)
(* (extensions/prost/private/protoc_wrapper.rs).                           *)
(*                                                                         *)
(* Targets are built one after another, the same one twice or one that     *)
(* depends on the other, and their output directories stay where they are. *)
(* A package, a type and the name of a file are sequences of names, the    *)
(* parts between the dots.  A file holds a sequence of pieces, each from   *)
(* one plugin for one package.                                             *)
(***************************************************************************)
EXTENDS Naturals, Sequences, FiniteSets, SequencesExt

CONSTANTS
  Builds,   \* families of sequences of targets
  Required, \* the flags without which the wrapper stops
  Snake, Camel, Lower,  \* names in other cases, as the crate heck writes them
  Keyword   \* RUST_KEYWORDS

VARIABLES
  builds,   \* the targets that are left, the current one first
  stage,    \* what the wrapper does next; failed and done are its ends
  args,     \* the arguments for protoc
  dirs,     \* the files in each output directory
  pending,  \* the files that are still to be combined
  libs,     \* the lib.rs of each crate
  infos     \* the package info file of each crate

protocVars == <<builds, stage, args, dirs, pending, libs, infos>>

Target == Head(builds)
\* What f says, and what g says where f says nothing.
Over(f, g) == [x \in DOMAIN f \union DOMAIN g |-> IF x \in DOMAIN f THEN f[x] ELSE g[x]]
With(g, key, value) == Over([x \in {key} |-> value], g)
Mapped(f, names) == [n \in DOMAIN names |-> f[names[n]]]
Escape(name) == IF name \in Keyword THEN "r#" \o name ELSE name
Escaped(names) == [n \in DOMAIN names |-> Escape(names[n])]

\* No part of a package is "_", which stands for a package without a name, and
\* no two names are escaped to the same.  A target is told where the package
\* info files of its dependencies are, and they were built before it.
ProtoTypes == [path : Seq(DOMAIN Lower) \ {<<>>}, kind : {"message", "enum", "oneof"}]
ProtoFiles == [package : Seq(DOMAIN Snake), types : SUBSET ProtoTypes, services : BOOLEAN, extensions : BOOLEAN]
Targets == UNION {ToSet(list) : list \in UNION Builds}
TargetOK(target) ==
  /\ DOMAIN target = {"crate", "dir", "args", "files", "deps", "additional"}
  /\ target.args \in Seq(ToSet(target.args)) /\ target.files \in Seq(ProtoFiles)
  /\ \A n \in DOMAIN target.files : IsFiniteSet(target.files[n].types)
  /\ IsFiniteSet(target.deps)
  /\ target.deps = UNION {ToSet(arg.value) : arg \in {arg \in ToSet(target.args) : arg.flag = "--deps_info"}}
Names == {Snake[name] : name \in DOMAIN Snake} \union {"_"}
BuildsOK ==
  /\ "_" \notin DOMAIN Snake /\ \A name \in DOMAIN Snake : Snake[name] # "_"
  /\ \A x, y \in Names : Escape(x) = Escape(y) => x = y
  /\ \A list \in UNION Builds :
       /\ list \in Seq(Targets) /\ list # <<>>
       /\ \A n \in DOMAIN list : list[n].deps \subseteq {list[m].crate : m \in 1..(n - 1)} \ {list[n].crate}
  /\ \A target \in Targets : TargetOK(target)
ASSUME BuildsAssumption == BuildsOK
------------------------------------------------------------------------------
\* Args::parse: an argument is a flag and a value.  A flag without a meaning is protoc's.
Optional == {"", "-I", "--is_tonic", "--compile_well_known_types", "--deps_info", "--direct_dep_crate_names",
             "--rustfmt", "--proto_path", "--additional_srcs"}
NothingParsed ==
  [given |-> {}, files |-> {}, paths |-> <<>>, includes |-> <<>>, extra |-> <<>>, externs |-> <<>>,
   tonic |-> FALSE, wellKnown |-> FALSE, uses |-> {}, rustfmt |-> FALSE]

\* The lines of the package info files of the crates that are named.
Lines(crates) == SetToSeq(UNION {{<<proto, infos[c][proto]>> : proto \in DOMAIN infos[c]} : c \in crates})

Handle(parsed, arg) ==
  LET flag == arg.flag
      added(list, name) == IF flag = name THEN Append(list, arg) ELSE list
  IN  [given |-> IF flag \in Required THEN parsed.given \union {flag} ELSE parsed.given,
       files |-> IF flag = "" THEN parsed.files \union {arg.value} ELSE parsed.files,
       paths |-> added(parsed.paths, "--proto_path"),
       includes |-> added(parsed.includes, "-I"),
       extra |-> IF flag \in Required \union Optional THEN parsed.extra ELSE Append(parsed.extra, arg),
       externs |-> IF flag = "--deps_info" THEN parsed.externs \o Lines(ToSet(arg.value)) ELSE parsed.externs,
       tonic |-> parsed.tonic \/ flag = "--is_tonic",
       wellKnown |-> parsed.wellKnown \/ flag = "--compile_well_known_types",
       uses |-> IF flag = "--direct_dep_crate_names" THEN ToSet(arg.value) ELSE parsed.uses,
       rustfmt |-> parsed.rustfmt \/ flag = "--rustfmt"]

Opt(flag, value) == [flag |-> flag, value |-> value]
Both(parsed, option) ==
  <<Opt("--prost_opt", option)>> \o (IF parsed.tonic THEN <<Opt("--tonic_opt", option)>> ELSE <<>>)

\* Mutant: whether tonic is used is looked at when an info file is read.
ParseEagerly(arguments) ==
  FoldLeft(LAMBDA parsed, arg :
             LET next == Handle(parsed, arg)
                 new == SubSeq(next.externs, Len(parsed.externs) + 1, Len(next.externs))
             IN  [next EXCEPT !.extra = @ \o FlattenSeq([n \in DOMAIN new |-> Both(next, new[n])])],
           NothingParsed, arguments)

\* Options for the crates that are depended on come after all other arguments.
Parse(arguments) ==
  LET upTo[n \in 0..Len(arguments)] ==
        IF n = 0 THEN NothingParsed ELSE Handle(upTo[n - 1], arguments[n])
      parsed == upTo[Len(arguments)]
      told[n \in 0..Len(parsed.externs)] ==
        IF n = 0 THEN parsed.extra ELSE told[n - 1] \o Both(parsed, parsed.externs[n])
  IN  [parsed EXCEPT !.extra = told[Len(parsed.externs)]]

Parsed == Parse(Target.args)
------------------------------------------------------------------------------
\* The descriptor set: a sequence of proto files, each with its package (<<>>
\* for none) and what it defines; a type is a message, an enum or a oneof.
Defines(file) == file.types # {} \/ file.services

\* expect_fs_file_to_be_generated.
Expected(files) ==
  \E file \in files : Defines(file) \/ ~file.extensions

\* get_package_name.
FirstPackage(files) ==
  LET named == SelectSeq(files, LAMBDA file : file.package # <<>>)
  IN  IF named = <<>> THEN <<"_">> ELSE named[1].package

\* descriptor_set_file_to_extern_paths and the functions it calls.  What a
\* message contains is in a module that has its name in lower case.
ProtoPath(file, type) ==
  file.package \o Mapped(Lower, Front(type.path)) \o <<Last(type.path)>>

\* Mutant: modules are named as packages are.
RustPathUncased(crate, file, type) ==
  <<Escape(crate)>> \o Escaped(file.package) \o Mapped(Lower, Front(type.path))
    \o <<Escape(Camel[Last(type.path)])>>

RustPath(crate, file, type) ==
  <<Escape(crate)>> \o Escaped(Mapped(Snake, file.package))
    \o Escaped(Mapped(Lower, Front(type.path)))
    \o <<Escape(IF type.kind = "oneof" THEN Last(type.path) ELSE Camel[Last(type.path)])>>

WellKnown(file) == IsPrefix(<<"google", "protobuf">>, file.package)

\* get_extern_paths: of the files with a type of one proto path the last counts.
ExternPaths(files, crate, wellKnown) ==
  LET known == {n \in DOMAIN files : wellKnown \/ ~WellKnown(files[n])}
      types == UNION {{<<n, type>> : type \in files[n].types} : n \in known}
      listed(proto) == {t \in types : ProtoPath(files[t[1]], t[2]) = proto}
  IN  [proto \in {ProtoPath(files[t[1]], t[2]) : t \in types} |->
         LET t == CHOOSE t \in listed(proto) : \A u \in listed(proto) : u[1] <= t[1]
         IN  RustPath(crate, files[t[1]], t[2])]
------------------------------------------------------------------------------
\* find_generated_rust_files: the file of no package is given its extension.
IsRust(name) == Len(name) > 1 /\ Last(name) = "rs"
Renamed(found) ==
  IF <<"_">> \notin DOMAIN found THEN found
  ELSE With([name \in DOMAIN found \ {<<"_">>, <<"_", "rs">>} |-> found[name]], <<"_", "rs">>, found[<<"_">>])
RustFiles(found) == {name \in DOMAIN found : IsRust(name)}

IsTonic(name) == Len(name) > 2 /\ SubSeq(name, Len(name) - 1, Len(name)) = <<"tonic", "rs">>

\* snake_cased_package_name of the package a file is named for.
ModuleOf(name, tonic) ==
  LET package == IF tonic THEN Front(Front(name)) ELSE Front(name)
  IN  IF package = <<"_">> THEN package ELSE Mapped(Snake, package)

\* generate_lib_rs and write_module: what is in which module, by the escaped
\* path of the module; what has no package is at the root of the crate.
LibModules(found, tonic) ==
  LET files == RustFiles(found)
      paths == {ModuleOf(name, tonic) : name \in files}
      all == {<<>>} \union UNION {{SubSeq(path, 1, n) : n \in 1..Len(path)} : path \in paths}
      Contents(path) ==
        LET same == {name \in files : ModuleOf(name, tonic) = (IF path = <<>> THEN <<"_">> ELSE path)}
        IN  IF same = {} THEN <<>> ELSE found[CHOOSE name \in same : TRUE]
  IN  [path \in {Escaped(p) : p \in all \ {<<"_">>}} |->
         Contents(CHOOSE p \in all : Escaped(p) = path)]
------------------------------------------------------------------------------
ProtocInit ==
  /\ \E family \in Builds : builds \in family
  /\ stage = "parse" /\ args = <<>> /\ pending = {}
  /\ dirs = <<>> /\ libs = <<>> /\ infos = <<>>

Found == dirs[Target.dir]
Put(files) == dirs' = With(dirs, Target.dir, files)
Goto(next) == stage' = next /\ UNCHANGED builds

\* A panic, at any stage.
ProtocFails == stage' = "failed" /\ pending' = {} /\ UNCHANGED <<builds, args, dirs, libs, infos>>
Broken == stage \notin {"done", "failed"} /\ ProtocFails

ParseArgs ==
  /\ stage = "parse"
  /\ IF Required \subseteq Parsed.given
     THEN Goto("dirs") /\ UNCHANGED <<args, dirs, pending, libs, infos>> ELSE ProtocFails

\* Mutant: of what is in the output directory only tonic's files are removed.
MakeOutputDirKeeping ==
  /\ stage = "dirs"
  /\ Put(IF Target.dir \in DOMAIN dirs
         THEN [name \in {name \in DOMAIN Found : ~IsTonic(name)} |-> Found[name]] ELSE <<>>)
  /\ Goto("protoc")
  /\ UNCHANGED <<args, pending, libs, infos>>

\* get_and_create_output_dir; the directory .tmp next to it is made and removed.
MakeOutputDir ==
  /\ stage = "dirs"
  /\ Put(<<>>) /\ Goto("protoc")
  /\ UNCHANGED <<args, pending, libs, infos>>

Command(parsed) ==
  <<Opt("--prost_out", <<Target.dir>>)>> \o (IF parsed.tonic THEN <<Opt("--tonic_out", <<Target.dir>>)>> ELSE <<>>)
    \o (IF parsed.wellKnown THEN Both(parsed, <<"compile_well_known_types">>) ELSE <<>>)
    \o parsed.extra \o parsed.paths \o parsed.includes

\* The plugins write a file for each package, prost if it has anything but
\* extensions in it, tonic if it has a service.
Stem(package) == IF package = <<>> THEN <<"_">> ELSE package
Generated(files, tonic) ==
  LET of(package) == {file \in ToSet(files) : file.package = package}
      packages == {files[n].package : n \in DOMAIN files}
      prost == {p \in packages : Expected(of(p))}
      served == {p \in packages : tonic /\ \E file \in of(p) : file.services}
  IN  Over([name \in {IF p = <<>> THEN <<"_">> ELSE Append(p, "rs") : p \in prost} |->
              <<<<"prost", IF name = <<"_">> THEN <<>> ELSE Front(name)>>>>],
           [name \in {Stem(p) \o <<"tonic", "rs">> : p \in served} |->
              <<<<"tonic", IF Front(Front(name)) = <<"_">> THEN <<>> ELSE Front(Front(name))>>>>])

\* protoc runs; then find_generated_rust_files, if there is something to combine.
Protoc ==
  /\ stage = "protoc"
  /\ args' = Command(Parsed)
  /\ LET found == Over(Generated(Target.files, Parsed.tonic), Found)
     IN  IF Parsed.tonic
         THEN Put(Renamed(found)) /\ pending' = RustFiles(Renamed(found)) /\ Goto("combine")
         ELSE Put(found) /\ UNCHANGED pending /\ Goto("gather")
  /\ UNCHANGED <<libs, infos>>

Sibling(name) == IF IsTonic(name) THEN Append(Front(Front(name)), "rs")
                 ELSE Front(name) \o <<"tonic", "rs">>

\* Mutant: prost's file is removed, but was not read.
CombineDropping ==
  /\ stage = "combine"
  /\ \E name \in pending :
       LET other == Sibling(name)
           skipped == IsTonic(name) <=> other \notin DOMAIN Found
       IN  IF ~skipped /\ name \notin DOMAIN Found THEN ProtocFails
           ELSE /\ pending' = pending \ {name}
                /\ IF skipped THEN UNCHANGED dirs
                   ELSE IF IsTonic(name) THEN Put([file \in DOMAIN Found \ {other} |-> Found[file]])
                   ELSE Put(With([file \in DOMAIN Found \ {name} |-> Found[file]], other, Found[name]))
                /\ UNCHANGED <<builds, stage, args, libs, infos>>

\* One file: tonic's is put behind prost's of the same package; prost's without
\* one is renamed; a file that was taken for another's is a panic.  The code
\* goes by their paths, here they come in any order.
Combine ==
  /\ stage = "combine"
  /\ \E name \in pending :
       LET other == Sibling(name)
           skipped == IsTonic(name) <=> other \notin DOMAIN Found
       IN  IF ~skipped /\ name \notin DOMAIN Found THEN ProtocFails
           ELSE /\ pending' = pending \ {name}
                /\ IF skipped THEN UNCHANGED dirs
                   ELSE IF IsTonic(name)
                   THEN Put([file \in DOMAIN Found \ {other} |->
                               IF file = name THEN Found[other] \o Found[name] ELSE Found[file]])
                   ELSE Put(With([file \in DOMAIN Found \ {name} |-> Found[file]], other, Found[name]))
                /\ UNCHANGED <<builds, stage, args, libs, infos>>

\* Mutant: the loop ends with the first file.
CombinedEarly ==
  /\ stage = "combine"
  /\ Goto("gather") /\ UNCHANGED <<args, dirs, pending, libs, infos>>

Combined ==
  /\ stage = "combine" /\ pending = {}
  /\ Goto("gather") /\ UNCHANGED <<args, dirs, pending, libs, infos>>

\* Without any file: an empty one, unless one was expected.
EmptyName == FirstPackage(Target.files) \o (IF Parsed.tonic THEN <<"tonic", "rs">> ELSE <<"rs">>)
Gather ==
  /\ stage = "gather"
  /\ LET found == Renamed(Found)
     IN  IF RustFiles(found) # {} THEN Put(found) /\ Goto("lib") /\ UNCHANGED <<args, pending, libs, infos>>
         ELSE IF Expected(ToSet(Target.files)) THEN ProtocFails
         ELSE Put(With(found, EmptyName, <<>>)) /\ Goto("lib") /\ UNCHANGED <<args, pending, libs, infos>>

\* With tonic a file of another name is a panic.
WriteLib ==
  /\ stage = "lib"
  /\ IF Parsed.tonic /\ \E name \in RustFiles(Found) : ~IsTonic(name) THEN ProtocFails
     ELSE /\ libs' = With(libs, Target.crate, [modules |-> LibModules(Found, Parsed.tonic), uses |-> Parsed.uses,
                                                additional |-> Target.additional])
          /\ Goto("info") /\ UNCHANGED <<args, dirs, pending, infos>>

WriteInfo ==
  /\ stage = "info"
  /\ infos' = With(infos, Target.crate, ExternPaths(Target.files, Target.crate, Parsed.wellKnown))
  /\ Goto(IF Parsed.rustfmt THEN "format" ELSE "done")
  /\ UNCHANGED <<args, dirs, pending, libs>>

Format == stage = "format" /\ Goto("done") /\ UNCHANGED <<args, dirs, pending, libs, infos>>

\* Bazel goes on to a target that depends on this one, if it was built.
NextTarget ==
  /\ stage = "done" \/ (stage = "failed" /\ Len(builds) > 1 /\ builds[2].crate = Target.crate)
  /\ Len(builds) > 1
  /\ builds' = Tail(builds) /\ stage' = "parse" /\ args' = <<>>
  /\ UNCHANGED <<dirs, pending, libs, infos>>

ProtocNext ==
  \/ ParseArgs \/ MakeOutputDir \/ Protoc \/ Combine \/ Combined
  \/ Gather \/ WriteLib \/ WriteInfo \/ Format \/ Broken \/ NextTarget

ProtocSpec == ProtocInit /\ [][ProtocNext]_protocVars
------------------------------------------------------------------------------
ProtocStages == {"parse", "dirs", "protoc", "combine", "gather", "lib", "info", "format", "done", "failed"}

Pieces(files, tonic) ==
  LET found == Generated(files, tonic) IN {found[name][1] : name \in DOMAIN found}
ModulePath(package) == Escaped(Mapped(Snake, package))

\* The variables have their types, and once lib.rs was written all files have
\* the ending they were looked for under.
ProtocTypeOK ==
  /\ \A n \in DOMAIN builds :
       DOMAIN builds[n] = {"crate", "dir", "args", "files", "deps", "additional"}
  /\ stage \in ProtocStages
  /\ \A dir \in DOMAIN dirs : \A name \in DOMAIN dirs[dir] :
       \A n \in DOMAIN dirs[dir][name] : dirs[dir][name][n][1] \in {"prost", "tonic"}
  /\ pending # {} => stage = "combine"
  /\ stage \in {"info", "format", "done"} /\ Parsed.tonic => \A name \in RustFiles(Found) : IsTonic(name)

\* Two packages of one target have one name in snake case, or the package is
\* named like tonic's files: these lose files, and are left out below.
Ambiguous ==
  LET packages == {Target.files[n].package : n \in DOMAIN Target.files}
  IN  \/ \E p \in packages : p # <<>> /\ Last(p) = "tonic"
      \/ \E p \in packages : \E q \in packages \ {p} : ModulePath(p) = ModulePath(q)

\* Everything protoc generated for a target is in its crate, in the module of
\* its package, whichever of the plugins wrote it and in whatever order the
\* files were combined.
LibComplete ==
  (stage = "done" /\ ~Ambiguous) =>
    \A piece \in Pieces(Target.files, Parsed.tonic) :
      /\ ModulePath(piece[2]) \in DOMAIN libs[Target.crate].modules
      /\ piece \in ToSet(libs[Target.crate].modules[ModulePath(piece[2])])

\* Nothing else is, and nothing twice: not what an earlier build of the target
\* has left behind, wherever that one was cut off.
LibFresh ==
  (stage = "done" /\ ~Ambiguous) =>
    LET modules == libs[Target.crate].modules
    IN  \A path \in DOMAIN modules : \A m \in DOMAIN modules[path] :
          /\ modules[path][m] \in Pieces(Target.files, Parsed.tonic)
          /\ ModulePath(modules[path][m][2]) = path
          /\ \A n \in DOMAIN modules[path] : modules[path][m] = modules[path][n] => m = n

\* No other type has the proto path of this one.  A type inside a message Foo
\* of package a and one of package a.foo may have the same.
Alone(n, type) ==
  \A m \in DOMAIN Target.files : \A other \in Target.files[m].types :
    ProtoPath(Target.files[m], other) = ProtoPath(Target.files[n], type) => m = n /\ other = type

\* What the package info file says of a message or an enum that is not inside
\* another one leads to the module of the crate that has it, so that a crate
\* that depends on this one can name it.
TypesFound ==
  (stage = "done" /\ ~Ambiguous) =>
    \A n \in DOMAIN Target.files :
      LET file == Target.files[n]
      IN  \A type \in file.types :
            (/\ Len(type.path) = 1 /\ type.kind # "oneof" /\ Alone(n, type)
             /\ WellKnown(file) => Parsed.wellKnown) =>
              LET rust == infos[Target.crate][file.package \o type.path]
                  modules == libs[Target.crate].modules
              IN  /\ rust[1] = Escape(Target.crate)
                  /\ SubSeq(rust, 2, Len(rust) - 1) \in DOMAIN modules
                  /\ <<"prost", file.package>> \in ToSet(modules[SubSeq(rust, 2, Len(rust) - 1)])
                  /\ Last(rust) = Escape(Camel[type.path[1]])

\* Both plugins are told of every type of every crate that is depended on, in
\* whatever order the arguments come.
ExternsPassed ==
  stage = "done" =>
    \A dep \in Target.deps : \A proto \in DOMAIN infos[dep] :
      LET line == <<proto, infos[dep][proto]>>
      IN  /\ Opt("--prost_opt", line) \in ToSet(args)
          /\ Parsed.tonic => Opt("--tonic_opt", line) \in ToSet(args)

\* A crate has what protoc generated for its target, all of it and nothing else.
LibExact == ProtocTypeOK /\ LibComplete /\ LibFresh

\* What a crate says of its types is right, and those that depend on it are told.
TypesKnown == TypesFound /\ ExternsPassed
=============================================================================
