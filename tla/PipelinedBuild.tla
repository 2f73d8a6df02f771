--------------------------- MODULE PipelinedBuild ---------------------------
(***************************************************************************)
(* How the rules turn a graph of Rust targets into Bazel actions, with and *)
(* without pipelined compilation (rust/private/rust.bzl, rustc.bzl and     *)
(* utils.bzl), and how Bazel then runs those actions.                      *)
(*                                                                         *)
(* Analysis visits a target after its dependencies, reads the CrateInfo    *)
(* and DepInfo they provide and provides its own; it registers a Rustc     *)
(* action and, where it can, a RustcMetadata action.  Bazel runs an action *)
(* once its inputs exist, in any order and also while other targets are    *)
(* still analysed.  Both actions see nothing but their inputs.             *)
(***************************************************************************)
CONSTANTS
  Target,  \* the Rust targets of the workspace
  Builds   \* the workspaces and flags under study

Kind == {"library", "macro", "shared", "binary", "test"}

Damage == {"never", "check", "codegen"}

(***************************************************************************)
(* A build.  deps are deps and proc_macro_deps together; crate is the      *)
(* crate a rust_test tests, if any; disabled are the libraries with        *)
(* disable_pipelining; unwrapped the *_without_process_wrapper targets;    *)
(* ccLink those with experimental_use_cc_common_link; allDirect those      *)
(* whose rule passes force_all_deps_direct.  broken says where rustc       *)
(* rejects a target's source: while checking it or after the metadata is   *)
(* written.  pipelined and always are the flags pipelined_compilation and  *)
(* always_enable_metadata_output_groups; windows is the target platform.   *)
(***************************************************************************)
BuildRecord ==
  [kind : [Target -> Kind],
   deps : [Target -> SUBSET Target],
   crate : [Target -> SUBSET Target],
   disabled : SUBSET Target,
   unwrapped : SUBSET Target,
   ccLink : SUBSET Target,
   allDirect : SUBSET Target,
   broken : [Target -> Damage],
   pipelined : BOOLEAN,
   always : BOOLEAN,
   windows : BOOLEAN]

(***************************************************************************)
(* _assert_correct_dep_mapping and the providers the rules return let a    *)
(* target depend on libraries and macros only; the attributes exist on the *)
(* rules named here only.  Tests of tests are left out.                    *)
(***************************************************************************)
WellFormed(b) ==
  /\ \A c \in Target : \A d \in b.deps[c] : b.kind[d] \in {"library", "macro"}
  /\ \A c \in Target : b.crate[c] # {} => b.kind[c] = "test"
  /\ \A c \in Target : \A d \in b.crate[c] : b.kind[d] # "test"
  /\ \A c \in b.disabled : b.kind[c] = "library"
  /\ \A c \in b.ccLink : b.kind[c] \in {"shared", "binary", "test"}

ASSUME BuildAssumption ==
  \A b \in Builds : b \in BuildRecord /\ WellFormed(b)

(***************************************************************************)
(* The output of a target's Rustc action and that of its RustcMetadata     *)
(* action.  An action is named by the file it declares.                    *)
(***************************************************************************)
File == Target \X {"full", "metadata"}

VARIABLES
  build,      \* the workspace and the flags
  needs,      \* the crates rustc loads for each target: the graph fixes them
  analyzed,   \* targets whose rule implementation has run
  crateInfo,  \* the CrateInfo each of them provides
  depInfo,    \* the DepInfo each of them provides
  verdict     \* how each action ended

vars == <<build, needs, analyzed, crateInfo, depInfo, verdict>>

CrateInfoRecord == [metadata : BOOLEAN, pipelines : BOOLEAN]

DepInfoRecord ==
  [crates : SUBSET Target, outputs : SUBSET File, metadataOutputs : SUBSET File]

NoCrateInfo == [metadata |-> FALSE, pipelines |-> FALSE]

NoDepInfo == [crates |-> {}, outputs |-> {}, metadataOutputs |-> {}]

TypeOK ==
  /\ build \in BuildRecord /\ WellFormed(build)
  /\ needs \in [Target -> SUBSET Target]
  /\ analyzed \subseteq Target
  /\ crateInfo \in [Target -> CrateInfoRecord]
  /\ depInfo \in [Target -> DepInfoRecord]
  /\ verdict \in [File -> {"none", "succeeded", "failed"}]

-----------------------------------------------------------------------------
(***************************************************************************)
(* Analysis                                                                *)
(***************************************************************************)
\* A rust_test with a crate has that crate's dependencies besides its own.
Dependencies(c) ==
  build.deps[c] \union UNION {build.deps[d] : d \in build.crate[c]}

IsProcMacro(c) ==
  \/ build.kind[c] = "macro"
  \/ \E d \in build.crate[c] : build.kind[d] = "macro"

CanUseMetadataForPipelining(c) ==
  build.pipelined /\ build.kind[c] = "library"

CanBuildMetadata(c) ==
  /\ c \notin build.unwrapped
  /\ \/ build.always
     \/ c \notin build.disabled /\ CanUseMetadataForPipelining(c)

CrateInfo(c) ==
  [metadata |-> CanBuildMetadata(c),
   pipelines |-> /\ CanBuildMetadata(c)
                 /\ CanUseMetadataForPipelining(c)
                 /\ c \notin build.disabled]

(* Mutants of DependOn: no object file where there is no metadata, metadata *)
(* wherever there is some, metadata wherever the flag says so.             *)
DependOnNoObject(d) == <<d, IF crateInfo[d].pipelines THEN "metadata" ELSE "none">>
DependOnAnyMetadata(d) ==
  <<d, IF crateInfo[d].metadata THEN "metadata" ELSE "full">>
DependOnFlag(d) ==
  <<d, IF CanUseMetadataForPipelining(d) THEN "metadata" ELSE "full">>

\* The file of d that a crate compiling against metadata takes.
DependOn(d) ==
  IF crateInfo[d].metadata /\ crateInfo[d].pipelines
  THEN <<d, "metadata">>
  ELSE <<d, "full">>

(* Mutant of Opened: macros are treated like any crate.                    *)
OpenedAll(c) == Dependencies(c)

\* What a procedural macro was made of stays with it.
Opened(c) == {d \in Dependencies(c) : ~IsProcMacro(d)}

CollectDeps(c) ==
  LET direct == Dependencies(c)
  IN  [crates |-> direct \union UNION {depInfo[d].crates : d \in Opened(c)},
       outputs |-> {<<d, "full">> : d \in direct}
                     \union UNION {depInfo[d].outputs : d \in Opened(c)},
       metadataOutputs |-> {DependOn(d) : d \in direct}
                     \union UNION {depInfo[d].metadataOutputs : d \in Opened(c)}]

Analyze(c) ==
  /\ c \notin analyzed
  /\ Dependencies(c) \union build.crate[c] \subseteq analyzed
  /\ analyzed' = analyzed \union {c}
  /\ crateInfo' = [crateInfo EXCEPT ![c] = CrateInfo(c)]
  /\ depInfo' = [depInfo EXCEPT ![c] = CollectDeps(c)]
  /\ UNCHANGED <<build, needs, verdict>>

-----------------------------------------------------------------------------
(***************************************************************************)
(* The actions                                                             *)
(***************************************************************************)
Registered ==
  {a \in File : /\ a[1] \in analyzed
                /\ a[2] = "metadata" => crateInfo[a[1]].metadata}

DependOnMetadata(c) == build.kind[c] = "library"

(* Mutant of Inputs: object files for everybody.                           *)
InputsFull(c) == depInfo[c].outputs

\* Both actions of a target have the same inputs and the same --extern flags.
Inputs(c) ==
  IF DependOnMetadata(c) THEN depInfo[c].metadataOutputs ELSE depInfo[c].outputs

Externs(c) ==
  LET named == IF c \in build.allDirect THEN depInfo[c].crates ELSE Dependencies(c)
  IN  IF DependOnMetadata(c)
      THEN {DependOn(d) : d \in named}
      ELSE {<<d, "full">> : d \in named}

\* Where -Ldependency lets rustc look for what --extern does not name.
SearchPath(c) == depInfo[c].crates

(* Mutant of Emit: only the RustcMetadata action is told to emit metadata.  *)
EmitApart(a) ==
  {"dep-info", "link"} \union (IF a[2] = "metadata" THEN {"metadata"} ELSE {})

\* What both actions ask of rustc.
Emit(a) ==
  IF a[1] \in build.ccLink
  THEN {"obj"}
  ELSE {"dep-info", "link"}
         \union (IF crateInfo[a[1]].metadata THEN {"metadata"} ELSE {})

(***************************************************************************)
(* The name of a metadata file: whether it starts with lib, the crate's    *)
(* name and, in a singleton, the target whose hash is part of it.  The     *)
(* rules declare one name; rustc writes one made from --crate-name and     *)
(* from the hash in --codegen=extra-filename, if there is one.             *)
(***************************************************************************)
CrateName(c) == IF build.crate[c] = {} THEN {c} ELSE build.crate[c]

OutputHash(c) == IF build.kind[c] \in {"shared", "binary"} THEN {} ELSE {c}

DeclaredMetadata(c) ==
  IF build.kind[c] \in {"binary", "test"}
  THEN <<TRUE, CrateName(c), {}>>
  ELSE <<build.windows => build.kind[c] = "library", CrateName(c), OutputHash(c)>>

EmittedMetadata(c) == <<TRUE, CrateName(c), OutputHash(c)>>

-----------------------------------------------------------------------------
(***************************************************************************)
(* rustc                                                                   *)
(***************************************************************************)
\* The sets that hold c's dependencies and, with a target of opened, its own.
ClosedSets(c, opened) ==
  {S \in SUBSET Target :
     /\ Dependencies(c) \subseteq S
     /\ \A d \in S \intersect opened : Dependencies(d) \subseteq S}

Reach(c, opened) ==
  {d \in Target : \A S \in ClosedSets(c, opened) : d \in S}

\* The crates rustc loads for c; it does not look inside a macro.
Needed(c) == Reach(c, {d \in Target : ~IsProcMacro(d)})

Linked(c) == build.kind[c] # "library"

\* rustc runs a macro and links a crate; else the interface is enough.
MustBeFull(c, d) == Linked(c) \/ IsProcMacro(d)

\* Every crate is named or found, in a form that serves.
FindsCrates(c) ==
  /\ \A d \in Dependencies(c) : \E f \in Externs(c) : f[1] = d
  /\ Externs(c) \subseteq Inputs(c)
  /\ \A d \in needs[c] :
       /\ d \in SearchPath(c)
       /\ \E f \in Inputs(c) : f[1] = d /\ (MustBeFull(c, d) => f[2] = "full")

(***************************************************************************)
(* rustc rejects a crate that was compiled against another variant of a    *)
(* crate than the one it loads itself; what it was told to emit tells the  *)
(* variants apart.                                                         *)
(***************************************************************************)
CratesAgree(c) ==
  \A d \in needs[c] : ~IsProcMacro(d) =>
    \A f \in Inputs(c), g \in Inputs(d) : f[1] = g[1] => Emit(f) = Emit(g)

SourceCompiles(a) ==
  IF a[2] = "full"
  THEN build.broken[a[1]] = "never"
  ELSE build.broken[a[1]] # "check"

\* Bazel fails an action that did not write what it declared.
WritesOutput(a) ==
  a[2] = "metadata" =>
    /\ "metadata" \in Emit(a)
    /\ DeclaredMetadata(a[1]) = EmittedMetadata(a[1])

Ready(a) ==
  /\ a \in Registered
  /\ verdict[a] = "none"
  /\ \A f \in Inputs(a[1]) : verdict[f] = "succeeded"

Succeed(a) ==
  /\ Ready(a)
  /\ FindsCrates(a[1])
  /\ CratesAgree(a[1])
  /\ SourceCompiles(a)
  /\ WritesOutput(a)
  /\ verdict' = [verdict EXCEPT ![a] = "succeeded"]
  /\ UNCHANGED <<build, needs, analyzed, crateInfo, depInfo>>

Fail(a) ==
  /\ Ready(a)
  /\ \/ ~FindsCrates(a[1])
     \/ ~CratesAgree(a[1])
     \/ ~SourceCompiles(a)
     \/ ~WritesOutput(a)
  /\ verdict' = [verdict EXCEPT ![a] = "failed"]
  /\ UNCHANGED <<build, needs, analyzed, crateInfo, depInfo>>

Execute(a) == Succeed(a) \/ Fail(a)

Init ==
  /\ build \in Builds
  /\ needs = [c \in Target |-> Needed(c)]
  /\ analyzed = {}
  /\ crateInfo = [c \in Target |-> NoCrateInfo]
  /\ depInfo = [c \in Target |-> NoDepInfo]
  /\ verdict = [f \in File |-> "none"]

Next ==
  \/ \E c \in Target : Analyze(c)
  \/ \E a \in File : Execute(a)

Spec == Init /\ [][Next]_vars

(***************************************************************************)
(* Bazel analyses what it can, and with --keep_going runs every action     *)
(* whose inputs are there.                                                 *)
(***************************************************************************)
FairSpec ==
  /\ Spec
  /\ \A c \in Target : WF_vars(Analyze(c))
  /\ \A a \in File : WF_vars(Execute(a))

-----------------------------------------------------------------------------
(***************************************************************************)
(* Properties                                                              *)
(***************************************************************************)
(***************************************************************************)
(* Every target is given exactly one file of every crate rustc will load   *)
(* for it, in a form that serves, and no file of any other crate: what a   *)
(* procedural macro depends on reaches nobody else.                        *)
(***************************************************************************)
InputsExact ==
  \A c \in analyzed :
    /\ {f[1] : f \in Inputs(c)} = needs[c]
    /\ \A f, g \in Inputs(c) : f[1] = g[1] => f = g
    /\ \A f \in Inputs(c) : MustBeFull(c, f[1]) => f[2] = "full"

(***************************************************************************)
(* An action fails only for what is wrong in its own target's source:      *)
(* pipelining never leaves rustc without a crate it needs, and a broken    *)
(* code generation never takes the metadata with it.                       *)
(***************************************************************************)
FailsOnlyWhenBroken ==
  \A a \in File : verdict[a] = "failed" => ~SourceCompiles(a)

(***************************************************************************)
(* Whatever files the actions exchange, a target is only compiled when     *)
(* what it needs is known or built, and rejected for its own source alone  *)
(* (CrateBuild).                                                           *)
(***************************************************************************)
Promise ==
  INSTANCE CrateBuild
    WITH Crate <- Target,
         needs <- needs,
         macros <- {c \in Target : IsProcMacro(c)},
         linked <- {c \in Target : Linked(c)},
         broken <- build.broken,
         checked <- {c \in Target : \E f \in File :
                       f[1] = c /\ verdict[f] = "succeeded"},
         built <- {c \in Target : verdict[<<c, "full">>] = "succeeded"},
         rejected <- {c \in Target : \E f \in File :
                       f[1] = c /\ verdict[f] = "failed"}

KeepsPromise == Promise!Spec

\* Everything c depends on, the dependencies of macros included.
Uses(c) == Reach(c, Target)

(***************************************************************************)
(* A target that is sound, as is everything it depends on, is built,       *)
(* whatever else is broken: no action waits for a file that no action      *)
(* makes.                                                                  *)
(***************************************************************************)
SoundTargetsAreBuilt ==
  \A c \in Target :
    <>((\A d \in Uses(c) \union {c} : build.broken[d] = "never")
         => /\ c \in analyzed
            /\ \A a \in Registered : a[1] = c => verdict[a] = "succeeded")

(***************************************************************************)
(* With pipelining, a library's metadata waits for the metadata of the     *)
(* libraries it depends on and never for their object code: it is there    *)
(* even if their code generation fails.                                    *)
(***************************************************************************)
MetadataIsUnlocked ==
  \A c \in Target :
    <>(/\ CanBuildMetadata(c) /\ ~Linked(c)
       /\ build.broken[c] # "check"
       /\ \A d \in needs[c] :
            \/ \A e \in Uses(d) \union {d} : build.broken[e] = "never"
            \/ build.broken[d] # "check" /\ CrateInfo(d).pipelines
       => verdict[<<c, "metadata">>] = "succeeded")

(***************************************************************************)
(* No action waits for what no action makes, and a library's metadata never*)
(* waits for object code it does not need (rust.bzl, rustc.bzl).           *)
(***************************************************************************)
BuildProceeds == SoundTargetsAreBuilt /\ MetadataIsUnlocked
=============================================================================
