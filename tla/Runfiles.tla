------------------------------ MODULE Runfiles ------------------------------
(***************************************************************************)
(* The library that finds the files a Bazel binary was built with          *)
(* (rust/runfiles/runfiles.rs), and how Bazel lays those files out.        *)
(*                                                                         *)
(* A string is a sequence of tokens: a word, or one of the characters that *)
(* matter here.  A path is a string with "/" tokens.  A launch is a way to *)
(* start the binary: the environment variables (a sequence of at most one  *)
(* value), the name it was started under, and the file system it finds.    *)
(***************************************************************************)
EXTENDS Naturals, Sequences, FiniteSets, SequencesExt, Functions

Slash == "/"
Join(path, rest) == path \o <<Slash>> \o rest

\* split_once: what stands before and behind the first such token.
SplitAt(string, token) ==
  LET at == SelectInSeq(string, LAMBDA c : c = token)
  IN  IF at = 0 THEN <<string>> ELSE <<SubSeq(string, 1, at - 1), SubSeq(string, at + 1, Len(string))>>

\* A backslash and the mark become the character.
Unescape(string, mark, character) ==
  LET Starts(n) == n \in 1..Len(string) - 1 /\ string[n] = "\\" /\ string[n + 1] = mark
  IN  FlattenSeq([n \in DOMAIN string |->
        IF Starts(n) THEN <<character>> ELSE IF Starts(n - 1) THEN <<>> ELSE <<string[n]>>])

\* Mutant: the backslash is restored first, and what follows it is taken for a mark.
UnescapedFirst(string) == Unescape(Unescape(Unescape(string, "b", "\\"), "s", " "), "n", "nl")

\* An escaped path.
Unescaped(string) == Unescape(Unescape(Unescape(string, "s", " "), "n", "nl"), "b", "\\")
UnescapedTarget(string) == Unescape(Unescape(string, "n", "nl"), "b", "\\")

\* create_manifest_based: what a line says, and a line without a space is left out.
IsEscaped(line) == line # <<>> /\ Head(line) = " "
PairOf(line) == SplitAt(IF IsEscaped(line) THEN Tail(line) ELSE line, " ")

Entry(line) ==
  LET pair == PairOf(line)
  IN  IF IsEscaped(line) THEN <<Unescaped(pair[1]), UnescapedTarget(pair[2])>> ELSE pair

Manifest(lines) == {Entry(line) : line \in {l \in lines : Len(PairOf(l)) = 2}}

Found(path) == [ok |-> TRUE, path |-> path]
Failed(error) == [ok |-> FALSE, error |-> error]
------------------------------------------------------------------------------
\* find_runfiles_dir
ParentOf(path) ==
  LET at == SelectLastInSeq(path, LAMBDA c : c = Slash) IN SubSeq(path, 1, at - 1)

RunfilesOf(binary) == binary \o <<".runfiles">>
InRunfiles(binary) ==
  {n \in 1..Len(binary) - 1 : binary[n] = ".runfiles" /\ binary[n + 1] = Slash}

\* The binary under one of its names: the directory beside it, or the innermost one it is in.
Beside(launch, binary) ==
  IF RunfilesOf(binary) \in launch.dirs THEN {RunfilesOf(binary)}
  ELSE {SubSeq(binary, 1, n) : n \in {m \in InRunfiles(binary) : \A k \in InRunfiles(binary) : k <= m}}

\* Where a link leads, seen from the directory it is in.
LinkTarget(launch, binary) ==
  LET link == launch.links[binary]
  IN  IF link.absolute THEN link.to ELSE Join(ParentOf(binary), link.to)

\* The names of the binary, one link after another.
Names(launch) ==
  LET name[n \in 0..Cardinality(DOMAIN launch.links)] ==
        IF n = 0 THEN launch.binary
        ELSE IF name[n - 1] \in DOMAIN launch.links THEN LinkTarget(launch, name[n - 1]) ELSE name[n - 1]
  IN  name

IsDir(launch, variable) == variable # <<>> /\ variable[1] \in launch.dirs

FindDir(launch) ==
  IF IsDir(launch, launch.runfilesDir) THEN Found(launch.runfilesDir[1])
  ELSE IF IsDir(launch, launch.testSrcdir) THEN Found(launch.testSrcdir[1])
  ELSE LET names == Names(launch)
           hits  == {n \in DOMAIN names : Beside(launch, names[n]) # {}}
       IN  IF hits = {} THEN Failed("no runfiles directory")
           ELSE Found(CHOOSE dir \in Beside(launch, names[CHOOSE n \in hits : \A k \in hits : n <= k]) : TRUE)
------------------------------------------------------------------------------
\* Runfiles::create
InManifest(launch, path) ==
  IF path \in DOMAIN launch.manifests
  THEN [ok |-> TRUE, manifest |-> TRUE, entries |-> Manifest(launch.manifests[path])]
  ELSE Failed("no manifest")

Mode(launch) ==
  IF launch.manifestFile \notin {<<>>, <<<<>>>>} THEN InManifest(launch, launch.manifestFile[1])
  ELSE LET dir == FindDir(launch)
       IN  IF ~dir.ok THEN dir
           ELSE IF Join(dir.path, <<"MANIFEST">>) \in DOMAIN launch.manifests
                THEN InManifest(launch, Join(dir.path, <<"MANIFEST">>))
                ELSE [ok |-> TRUE, manifest |-> FALSE, dir |-> dir.path]

RawLocation(mode, path) ==
  IF mode.manifest THEN {entry[2] : entry \in {e \in mode.entries : e[1] = path}} ELSE {Join(mode.dir, path)}

\* parse_repo_mapping: a line is the sequence of its parts.
HasStar(name) == name # <<>> /\ Last(name) = "*"
ParseMapping(lines) ==
  IF \E line \in lines : Len(line) < 3 THEN Failed("mapping")
  ELSE [ok |-> TRUE,
        exact |-> {line \in lines : ~HasStar(line[1])},
        prefixes |-> {<<Front(line[1]), line[2], line[3]>> : line \in {l \in lines : HasStar(l[1])}}]

NoMapping == [ok |-> TRUE, exact |-> {}, prefixes |-> {}]

MappingOf(launch, mode) ==
  LET files == {file \in RawLocation(mode, <<"_repo_mapping">>) : file \in DOMAIN launch.mappings}
  IN  IF files = {} THEN NoMapping ELSE ParseMapping(launch.mappings[CHOOSE file \in files : TRUE])

Create(launch) ==
  LET mode == Mode(launch)
  IN  IF ~mode.ok THEN mode
      ELSE LET mapping == MappingOf(launch, mode)
           IN  IF ~mapping.ok THEN mapping ELSE [ok |-> TRUE, mode |-> mode, mapping |-> mapping]

\* RepoMapping::get, with one prefix at most for a repository.
MappedRepo(mapping, source, apparent) ==
  LET exact == {line[3] : line \in {l \in mapping.exact : l[1] = source /\ l[2] = apparent}}
      begun == {line[3] : line \in {l \in mapping.prefixes : IsPrefix(l[1], source) /\ l[2] = apparent}}
  IN  IF exact # {} THEN exact ELSE begun

\* rlocation_from, for a path that is not absolute.
Rlocation(runfiles, path, source) ==
  LET parts == SplitAt(path, Slash)
      repo  == MappedRepo(runfiles.mapping, source, parts[1])
  IN  IF repo = {} THEN RawLocation(runfiles.mode, path)
      ELSE LET to == CHOOSE r \in repo : TRUE
           IN  RawLocation(runfiles.mode, IF Len(parts) = 2 THEN Join(to, parts[2]) ELSE to)
------------------------------------------------------------------------------
\* Bazel's side: the line of a manifest for a file, SourceManifestAction.java.
Escape(string, characters) ==
  FlattenSeq([n \in DOMAIN string |->
    IF string[n] \in DOMAIN characters THEN <<"\\", characters[string[n]]>> ELSE <<string[n]>>])

ManifestLine(name, target) ==
  IF ToSet(name) \intersect {" ", "nl"} # {} \/ "nl" \in ToSet(target)
  THEN <<" ">> \o Escape(name, (" " :> "s") @@ ("nl" :> "n") @@ ("\\" :> "b"))
       \o <<" ">> \o Escape(target, ("nl" :> "n") @@ ("\\" :> "b"))
  ELSE name \o <<" ">> \o target
==============================================================================
