------------------------ MODULE PipelinedBuild_proofs -----------------------
(***************************************************************************)
(* Proofs about PipelinedBuild, for every workspace.                       *)
(***************************************************************************)
EXTENDS PipelinedBuild, TLAPS

-----------------------------------------------------------------------------
(***************************************************************************)
(* The graph                                                               *)
(***************************************************************************)
GraphOK == build \in BuildRecord /\ WellFormed(build)

(***************************************************************************)
(* Dependencies are targets, and what rustc loads for a target are targets *)
(* (Dependencies, Needed).                                                 *)
(***************************************************************************)
LEMMA DependenciesType ==
  ASSUME GraphOK, NEW c \in Target
  PROVE  /\ Dependencies(c) \subseteq Target
         /\ Needed(c) \subseteq Target
<1>1. /\ build.deps \in [Target -> SUBSET Target]
      /\ build.crate \in [Target -> SUBSET Target]
  BY DEF GraphOK, BuildRecord
<1>2. Needed(c) \subseteq Target
  BY DEF Needed, Reach
<1>3. QED
  BY <1>1, <1>2 DEF Dependencies

\* rustc loads the direct dependencies of a target (Needed).
LEMMA NeededDirect ==
  ASSUME GraphOK, NEW c \in Target
  PROVE  Dependencies(c) \subseteq Needed(c)
BY DependenciesType DEF Needed, Reach, ClosedSets

\* It loads the dependencies of what it loads, macros apart (Needed).
LEMMA NeededClosed ==
  ASSUME GraphOK, NEW c \in Target, NEW d \in Needed(c), ~IsProcMacro(d)
  PROVE  Dependencies(d) \subseteq Needed(c)
<1>1. d \in Target
  BY DependenciesType
<1>2. ASSUME NEW e \in Dependencies(d),
             NEW S \in ClosedSets(c, {x \in Target : ~IsProcMacro(x)})
      PROVE  e \in S
  <2>1. d \in S
    BY DEF Needed, Reach
  <2>2. QED
    BY <1>1, <2>1 DEF ClosedSets
<1>3. Dependencies(d) \subseteq Target
  BY <1>1, DependenciesType
<1>4. QED
  BY <1>2, <1>3 DEF Needed, Reach

\* What a dependency that is not a macro needs, its dependent needs too.
LEMMA NeededOfDependency ==
  ASSUME GraphOK, NEW c \in Target, NEW d \in Opened(c)
  PROVE  Needed(d) \subseteq Needed(c)
<1> DEFINE opened == {x \in Target : ~IsProcMacro(x)}
<1>1. d \in Dependencies(c) /\ d \in opened
  BY DependenciesType DEF Opened
<1>2. ASSUME NEW S \in ClosedSets(c, opened)
      PROVE  S \in ClosedSets(d, opened)
  BY <1>1, <1>2 DEF ClosedSets
<1>3. QED
  BY <1>2 DEF Needed, Reach

(***************************************************************************)
(* collect_deps computes what rustc loads, one step at a time: the least   *)
(* closed set is the dependencies and what those that are not macros need. *)
(***************************************************************************)
LEMMA NeededUnfolds ==
  ASSUME GraphOK, NEW c \in Target
  PROVE  Needed(c) = Dependencies(c) \union UNION {Needed(d) : d \in Opened(c)}
<1> DEFINE opened == {x \in Target : ~IsProcMacro(x)}
           S0 == Dependencies(c) \union UNION {Needed(d) : d \in Opened(c)}
<1>1. S0 \subseteq Needed(c)
  BY NeededDirect, NeededOfDependency
<1>2. \A d \in Opened(c) : d \in Target /\ d \in Dependencies(c)
  BY DependenciesType DEF Opened
<1>3. S0 \in SUBSET Target
  BY <1>2, DependenciesType
<1>4. ASSUME NEW e \in S0 \intersect opened
      PROVE  Dependencies(e) \subseteq S0
  <2>1. CASE e \in Dependencies(c)
    <3>1. e \in Opened(c)
      BY <2>1 DEF Opened
    <3>2. Dependencies(e) \subseteq Needed(e)
      BY NeededDirect
    <3>3. QED
      BY <3>1, <3>2
  <2>2. CASE \E d \in Opened(c) : e \in Needed(d)
    <3>1. PICK d \in Opened(c) : e \in Needed(d)
      BY <2>2
    <3>2. Dependencies(e) \subseteq Needed(d)
      BY <1>2, <3>1, NeededClosed
    <3>3. QED
      BY <3>1, <3>2
  <2>3. QED
    BY <2>1, <2>2
<1>5. S0 \in ClosedSets(c, opened)
  BY <1>3, <1>4 DEF ClosedSets
<1>6. Needed(c) \subseteq S0
  BY <1>5 DEF Needed, Reach
<1>7. QED
  BY <1>1, <1>6

-----------------------------------------------------------------------------
(***************************************************************************)
(* The inductive invariant                                                 *)
(***************************************************************************)
NeedsExact == needs = [c \in Target |-> Needed(c)]

\* What an analysed target provides.
ProvidesExact(c) ==
  /\ needs[c] \subseteq analyzed
  /\ crateInfo[c] = CrateInfo(c)
  /\ depInfo[c].crates = needs[c]
  /\ depInfo[c].outputs = {<<d, "full">> : d \in needs[c]}
  /\ depInfo[c].metadataOutputs = {DependOn(d) : d \in needs[c]}

ProvidersExact == \A c \in analyzed : ProvidesExact(c)

IInv == TypeOK /\ NeedsExact /\ ProvidersExact

\* A file that stands for an analysed crate is a file (DependOn).
LEMMA DependOnType ==
  ASSUME NEW d \in Target
  PROVE  DependOn(d) \in File /\ DependOn(d)[1] = d
BY DEF DependOn, File

\* What is collected for a target has its type (CollectDeps).
LEMMA CollectDepsType ==
  ASSUME TypeOK, NEW c \in Target
  PROVE  CollectDeps(c) \in DepInfoRecord
<1>1. Dependencies(c) \subseteq Target
  BY DependenciesType DEF TypeOK, GraphOK
<1>2. \A d \in Opened(c) : d \in Target
  BY <1>1 DEF Opened
<1>3. \A d \in Target : /\ depInfo[d].crates \subseteq Target
                        /\ depInfo[d].outputs \subseteq File
                        /\ depInfo[d].metadataOutputs \subseteq File
  BY DEF TypeOK, DepInfoRecord
<1>4. \A d \in Target : <<d, "full">> \in File
  BY DEF File
<1>5. \A d \in Target : DependOn(d) \in File
  BY DependOnType
<1>6. CollectDeps(c).crates \subseteq Target
  BY <1>1, <1>2, <1>3 DEF CollectDeps
<1>7. CollectDeps(c).outputs \subseteq File
  BY <1>1, <1>2, <1>3, <1>4 DEF CollectDeps
<1>8. CollectDeps(c).metadataOutputs \subseteq File
  BY <1>1, <1>2, <1>3, <1>5 DEF CollectDeps
<1>9. QED
  BY <1>6, <1>7, <1>8 DEF CollectDeps, DepInfoRecord

LEMMA TypeInit == Init => TypeOK
<1>1. Init => build \in BuildRecord /\ WellFormed(build)
  BY BuildAssumption DEF Init
<1>2. Init => needs \in [Target -> SUBSET Target]
  BY DEF Init, Needed, Reach
<1>3. Init => /\ crateInfo \in [Target -> CrateInfoRecord]
              /\ depInfo \in [Target -> DepInfoRecord]
  BY DEF Init, CrateInfoRecord, DepInfoRecord, NoCrateInfo, NoDepInfo
<1>4. QED
  BY <1>1, <1>2, <1>3 DEF Init, TypeOK

LEMMA TypeStep == TypeOK /\ [Next]_vars => TypeOK'
<1> SUFFICES ASSUME TypeOK, [Next]_vars PROVE TypeOK'
  OBVIOUS
<1>1. ASSUME NEW c \in Target, Analyze(c) PROVE TypeOK'
  <2>1. CrateInfo(c) \in CrateInfoRecord
    BY DEF CrateInfo, CrateInfoRecord, CanBuildMetadata,
           CanUseMetadataForPipelining, TypeOK, BuildRecord
  <2>2. CollectDeps(c) \in DepInfoRecord
    BY CollectDepsType
  <2>3. /\ (build \in BuildRecord /\ WellFormed(build))'
        /\ (needs \in [Target -> SUBSET Target])'
    BY <1>1 DEF Analyze, TypeOK, WellFormed
  <2>4. /\ analyzed' \subseteq Target
        /\ crateInfo' \in [Target -> CrateInfoRecord]
        /\ depInfo' \in [Target -> DepInfoRecord]
        /\ verdict' \in [File -> {"none", "succeeded", "failed"}]
    BY <1>1, <2>1, <2>2 DEF Analyze, TypeOK
  <2>5. QED
    BY <2>3, <2>4 DEF TypeOK
<1>2. ASSUME NEW a \in File, Execute(a) PROVE TypeOK'
  BY <1>2 DEF Execute, Succeed, Fail, TypeOK, WellFormed
<1>3. CASE UNCHANGED vars
  BY <1>3 DEF vars, TypeOK, WellFormed
<1>4. QED
  BY <1>1, <1>2, <1>3 DEF Next

-----------------------------------------------------------------------------
(***************************************************************************)
(* What an analysed target provides is exact                               *)
(***************************************************************************)
\* The graph does not change, nor does what is derived from it.
LEMMA GraphFixed ==
  ASSUME build' = build, NEW c \in Target
  PROVE  /\ Dependencies(c)' = Dependencies(c)
         /\ IsProcMacro(c)' = IsProcMacro(c)
         /\ Needed(c)' = Needed(c)
         /\ CrateInfo(c)' = CrateInfo(c)
         /\ Linked(c)' = Linked(c)
<1>1. /\ Dependencies(c)' = Dependencies(c)
      /\ Linked(c)' = Linked(c)
  BY DEF Dependencies, Linked
<1>2. \A d \in Target : IsProcMacro(d)' = IsProcMacro(d)
  BY DEF IsProcMacro
<1>3. {d \in Target : ~IsProcMacro(d)}' = {d \in Target : ~IsProcMacro(d)}
  BY <1>2
<1>4. CrateInfo(c)' = CrateInfo(c)
  BY DEF CrateInfo, CanBuildMetadata, CanUseMetadataForPipelining
<1>5. Needed(c)' = Needed(c)
  BY <1>3 DEF Needed, Reach, ClosedSets, Dependencies
<1>6. QED
  BY <1>1, <1>2, <1>4, <1>5

\* What is collected for a target from exact providers is exact.
LEMMA CollectDepsExact ==
  ASSUME IInv, NEW c \in Target, Dependencies(c) \subseteq analyzed
  PROVE  /\ needs[c] \subseteq analyzed
         /\ CollectDeps(c).crates = needs[c]
         /\ CollectDeps(c).outputs = {<<d, "full">> : d \in needs[c]}
         /\ CollectDeps(c).metadataOutputs = {DependOn(d) : d \in needs[c]}
<1>0. GraphOK
  BY DEF IInv, TypeOK, GraphOK
<1>1. \A d \in Target : needs[d] = Needed(d)
  BY DEF IInv, NeedsExact
<1>2. \A d \in Opened(c) : d \in Target /\ d \in analyzed
  BY <1>0, DependenciesType DEF Opened
<1>3. needs[c] = Dependencies(c) \union UNION {needs[d] : d \in Opened(c)}
  BY <1>0, <1>1, <1>2, NeededUnfolds
<1>4. \A d \in Opened(c) : ProvidesExact(d)
  BY <1>2 DEF IInv, ProvidersExact
<1>5. needs[c] \subseteq analyzed
  BY <1>3, <1>4 DEF ProvidesExact
<1>6. CollectDeps(c).crates = needs[c]
  BY <1>3, <1>4 DEF CollectDeps, ProvidesExact
<1>7. CollectDeps(c).outputs = {<<d, "full">> : d \in needs[c]}
  BY <1>3, <1>4 DEF CollectDeps, ProvidesExact
<1>8. CollectDeps(c).metadataOutputs = {DependOn(d) : d \in needs[c]}
  BY <1>3, <1>4 DEF CollectDeps, ProvidesExact
<1>9. QED
  BY <1>5, <1>6, <1>7, <1>8

LEMMA InitIInv == Init => IInv
BY TypeInit DEF Init, IInv, NeedsExact, ProvidersExact

\* A step that leaves the providers of the analysed targets leaves them exact.
LEMMA ProviderKept ==
  ASSUME IInv, build' = build, needs' = needs, analyzed \subseteq analyzed',
         NEW c \in analyzed,
         \A d \in analyzed : crateInfo'[d] = crateInfo[d] /\ depInfo'[d] = depInfo[d]
  PROVE  ProvidesExact(c)'
<1>1. c \in Target /\ ProvidesExact(c)
  BY DEF IInv, TypeOK, ProvidersExact
<1>2. CrateInfo(c)' = CrateInfo(c)
  BY <1>1, GraphFixed
<1>3. \A d \in needs[c] : DependOn(d)' = DependOn(d)
  BY <1>1 DEF DependOn, ProvidesExact
<1>4. {DependOn(d) : d \in needs[c]}' = {DependOn(d) : d \in needs[c]}
  BY <1>3
<1>5. QED
  BY <1>1, <1>2, <1>4 DEF ProvidesExact

LEMMA StepIInv == IInv /\ [Next]_vars => IInv'
<1> SUFFICES ASSUME IInv, [Next]_vars PROVE IInv'
  OBVIOUS
<1>1. TypeOK'
  BY TypeStep DEF IInv
<1>2. build' = build /\ needs' = needs
  BY DEF Next, Analyze, Execute, Succeed, Fail, vars
<1>3. NeedsExact'
  BY <1>2, GraphFixed DEF IInv, NeedsExact
<1>4. ASSUME NEW c \in Target, Analyze(c) PROVE ProvidersExact'
  <2>1. /\ c \notin analyzed
        /\ analyzed' = analyzed \union {c}
        /\ crateInfo'[c] = CrateInfo(c)
        /\ depInfo'[c] = CollectDeps(c)
        /\ Dependencies(c) \subseteq analyzed
        /\ \A d \in analyzed : crateInfo'[d] = crateInfo[d] /\ depInfo'[d] = depInfo[d]
    BY <1>4 DEF Analyze, IInv, TypeOK
  <2>2. \A d \in analyzed : ProvidesExact(d)'
    BY <1>2, <2>1, ProviderKept
  <2>3. CrateInfo(c)' = CrateInfo(c)
    BY <1>2, GraphFixed
  <2>4. \A d \in needs[c] : DependOn(d)' = DependOn(d)
    BY <2>1, CollectDepsExact DEF DependOn
  <2>5. {DependOn(d) : d \in needs[c]}' = {DependOn(d) : d \in needs[c]}
    BY <1>2, <2>4
  <2>6. ProvidesExact(c)'
    BY <1>2, <2>1, <2>3, <2>5, CollectDepsExact DEF ProvidesExact
  <2>7. QED
    BY <2>1, <2>2, <2>6 DEF ProvidersExact
<1>5. ASSUME (\E a \in File : Execute(a)) \/ UNCHANGED vars PROVE ProvidersExact'
  <2>1. analyzed' = analyzed /\ crateInfo' = crateInfo /\ depInfo' = depInfo
    BY <1>5 DEF Execute, Succeed, Fail, vars
  <2>2. \A c \in analyzed : ProvidesExact(c)'
    BY <1>2, <2>1, ProviderKept
  <2>3. QED
    BY <2>1, <2>2 DEF ProvidersExact
<1>6. ProvidersExact'
  <2>1. CASE \E c \in Target : Analyze(c)
    BY <1>4, <2>1
  <2>2. QED
    BY <1>5, <2>1 DEF Next
<1>7. QED
  BY <1>1, <1>3, <1>6 DEF IInv

THEOREM Inductive == Spec => []IInv
BY InitIInv, StepIInv, PTL DEF Spec

(***************************************************************************)
(* Type correctness, for every workspace.                                  *)
(***************************************************************************)
THEOREM TypeCorrect == Spec => []TypeOK
<1>1. IInv => TypeOK
  BY DEF IInv
<1>2. QED
  BY <1>1, Inductive, PTL

-----------------------------------------------------------------------------
(***************************************************************************)
(* What the inputs are good for                                            *)
(***************************************************************************)
\* The inputs of an analysed target, by the crates they stand for (Inputs).
LEMMA InputsAre ==
  ASSUME IInv, NEW c \in analyzed
  PROVE  Inputs(c) = IF Linked(c) THEN {<<d, "full">> : d \in needs[c]}
                     ELSE {DependOn(d) : d \in needs[c]}
BY DEF IInv, ProvidersExact, ProvidesExact, Inputs, DependOnMetadata, Linked

\* Procedural macros are never taken for their metadata (DependOn).
LEMMA MacrosAreFull ==
  ASSUME IInv, NEW d \in analyzed, IsProcMacro(d)
  PROVE  DependOn(d) = <<d, "full">>
<1>1. crateInfo[d] = CrateInfo(d) /\ d \in Target
  BY DEF IInv, TypeOK, ProvidersExact, ProvidesExact
<1>2. build.kind[d] # "library"
  BY <1>1 DEF IInv, TypeOK, WellFormed, IsProcMacro, BuildRecord
<1>3. ~crateInfo[d].pipelines
  BY <1>1, <1>2 DEF CrateInfo, CanUseMetadataForPipelining
<1>4. QED
  BY <1>3 DEF DependOn

\* One file of every crate rustc will load, in a form that serves.
LEMMA InputFor ==
  ASSUME IInv, NEW c \in analyzed
  PROVE  /\ \A f \in Inputs(c) : /\ f \in File
                                 /\ f[1] \in needs[c]
                                 /\ MustBeFull(c, f[1]) => f[2] = "full"
         /\ \A d \in needs[c] : \E f \in Inputs(c) : f[1] = d
         /\ \A f, g \in Inputs(c) : f[1] = g[1] => f = g
<1>1. needs[c] \subseteq analyzed /\ needs[c] \subseteq Target
  BY DEF IInv, ProvidersExact, ProvidesExact, TypeOK
<1>2. CASE Linked(c)
  <2>1. Inputs(c) = {<<d, "full">> : d \in needs[c]}
    BY <1>2, InputsAre
  <2>2. \A f \in Inputs(c) : f = <<f[1], "full">> /\ f[1] \in needs[c]
    BY <2>1
  <2>3. \A d \in needs[c] : <<d, "full">> \in Inputs(c) /\ <<d, "full">>[1] = d
    BY <2>1
  <2>4. \A d \in needs[c] : \E f \in Inputs(c) : f[1] = d
    BY <2>3
  <2>5. ASSUME NEW f \in Inputs(c)
        PROVE  f \in File /\ f[2] = "full"
    <3>1. PICK d \in needs[c] : f = <<d, "full">>
      BY <2>1
    <3>2. QED
      BY <1>1, <3>1 DEF File
  <2>6. ASSUME NEW f \in Inputs(c), NEW g \in Inputs(c), f[1] = g[1]
        PROVE  f = g
    <3>1. f = <<f[1], "full">> /\ g = <<g[1], "full">>
      BY <2>2
    <3>2. QED
      BY <2>6, <3>1
  <2>7. QED
    BY <2>2, <2>4, <2>5, <2>6
<1>3. CASE ~Linked(c)
  <2>1. Inputs(c) = {DependOn(d) : d \in needs[c]}
    BY <1>3, InputsAre
  <2>2. \A d \in needs[c] : DependOn(d) \in File /\ DependOn(d)[1] = d
    BY <1>1, DependOnType
  <2>3. \A f \in Inputs(c) : f \in File /\ f[1] \in needs[c] /\ f = DependOn(f[1])
    BY <2>1, <2>2
  <2>4. \A d \in needs[c] : DependOn(d) \in Inputs(c)
    BY <2>1
  <2>5. \A d \in needs[c] : IsProcMacro(d) => DependOn(d)[2] = "full"
    BY <1>1, MacrosAreFull
  <2>6. \A f \in Inputs(c) : MustBeFull(c, f[1]) => f[2] = "full"
    BY <1>3, <2>3, <2>5 DEF MustBeFull
  <2>7. \A d \in needs[c] : \E f \in Inputs(c) : f[1] = d
    BY <2>2, <2>4
  <2>8. ASSUME NEW f \in Inputs(c), NEW g \in Inputs(c), f[1] = g[1]
        PROVE  f = g
    <3>1. f = DependOn(f[1]) /\ g = DependOn(g[1])
      BY <2>3
    <3>2. DependOn(f[1]) = DependOn(g[1])
      BY <2>8
    <3>3. QED
      BY <3>1, <3>2
  <2>9. QED
    BY <2>3, <2>6, <2>7, <2>8
<1>4. QED
  BY <1>2, <1>3

(***************************************************************************)
(* Every target gets exactly one usable file of every crate rustc loads    *)
(* for it and no other, for every workspace and all flags.                 *)
(***************************************************************************)
THEOREM InputsAreExact == Spec => []InputsExact
<1>1. IInv => InputsExact
  <2> SUFFICES ASSUME IInv, NEW c \in analyzed
      PROVE /\ {f[1] : f \in Inputs(c)} = needs[c]
            /\ \A f, g \in Inputs(c) : f[1] = g[1] => f = g
            /\ \A f \in Inputs(c) : MustBeFull(c, f[1]) => f[2] = "full"
    BY DEF InputsExact
  <2>1. QED
    BY InputFor
<1>2. QED
  BY <1>1, Inductive, PTL

\* rustc finds every crate it loads for an analysed target (FindsCrates).
LEMMA CratesFound ==
  ASSUME IInv, NEW c \in analyzed
  PROVE  FindsCrates(c)
<1>1. /\ depInfo[c].crates = needs[c]
      /\ needs[c] \subseteq Target
  BY DEF IInv, ProvidersExact, ProvidesExact, TypeOK
<1>2. Dependencies(c) \subseteq needs[c]
  BY NeededDirect DEF IInv, TypeOK, GraphOK, NeedsExact
<1> DEFINE named == IF c \in build.allDirect THEN depInfo[c].crates ELSE Dependencies(c)
<1>3. Dependencies(c) \subseteq named /\ named \subseteq needs[c]
  BY <1>1, <1>2
<1>4. \A d \in needs[c] : DependOn(d)[1] = d
  BY <1>1, DependOnType
<1>5. Externs(c) = IF Linked(c) THEN {<<d, "full">> : d \in named}
                   ELSE {DependOn(d) : d \in named}
  BY DEF Externs, DependOnMetadata, Linked
<1>6. \A d \in Dependencies(c) : \E f \in Externs(c) : f[1] = d
  <2>1. SUFFICES ASSUME NEW d \in Dependencies(c)
                 PROVE  \E f \in Externs(c) : f[1] = d
    OBVIOUS
  <2>2. d \in named
    BY <1>3
  <2>3. CASE Linked(c)
    <3>1. <<d, "full">> \in Externs(c) /\ <<d, "full">>[1] = d
      BY <1>5, <2>2, <2>3
    <3>2. QED
      BY <3>1
  <2>4. CASE ~Linked(c)
    <3>1. DependOn(d) \in Externs(c)
      BY <1>5, <2>2, <2>4
    <3>2. DependOn(d)[1] = d
      BY <1>3, <1>4, <2>2
    <3>3. QED
      BY <3>1, <3>2
  <2>5. QED
    BY <2>3, <2>4
<1>7. Externs(c) \subseteq Inputs(c)
  BY <1>3, <1>5, InputsAre
<1>8. \A d \in needs[c] : d \in SearchPath(c)
  BY <1>1 DEF SearchPath
<1>9. QED
  BY <1>6, <1>7, <1>8, InputFor DEF FindsCrates

\* Both actions of a target are told to emit the same.
LEMMA EmitByTarget ==
  ASSUME NEW f, NEW g, f[1] = g[1]
  PROVE  Emit(f) = Emit(g)
BY DEF Emit

\* Everybody was compiled against the same variant of a crate (CratesAgree).
LEMMA CratesMatch ==
  ASSUME NEW c
  PROVE  CratesAgree(c)
BY EmitByTarget DEF CratesAgree

-----------------------------------------------------------------------------
(***************************************************************************)
(* Only what is broken fails                                               *)
(*                                                                         *)
(* Where rustc names a metadata file as the rules declare it.  This leaves *)
(* out what always_enable_metadata_output_groups adds for tests, for       *)
(* targets that C++ links and, on Windows, for everything.                 *)
(***************************************************************************)
NamesAgree ==
  \A b \in Builds : b.always =>
    /\ ~b.windows
    /\ b.ccLink = {}
    /\ \A c \in Target : b.kind[c] # "test"

Standing == IInv /\ build \in Builds

LEMMA InitStanding == Init => Standing
BY InitIInv DEF Init, Standing

LEMMA StepStanding == Standing /\ [Next]_vars => Standing'
<1> SUFFICES ASSUME Standing, [Next]_vars PROVE Standing'
  OBVIOUS
<1>1. build' = build
  BY DEF Next, Analyze, Execute, Succeed, Fail, vars
<1>2. QED
  BY <1>1, StepIInv DEF Standing

\* rustc writes the metadata file a registered action declares (WritesOutput).
LEMMA OutputWritten ==
  ASSUME NamesAgree, Standing, NEW a \in Registered
  PROVE  WritesOutput(a)
<1>1. SUFFICES ASSUME a[2] = "metadata"
               PROVE  /\ "metadata" \in Emit(a)
                      /\ DeclaredMetadata(a[1]) = EmittedMetadata(a[1])
  BY DEF WritesOutput
<1> DEFINE c == a[1]
<1>2. /\ c \in Target
      /\ crateInfo[c].metadata
      /\ CanBuildMetadata(c)
  <2>1. c \in Target /\ c \in analyzed /\ crateInfo[c].metadata
    BY <1>1 DEF Registered, File
  <2>2. crateInfo[c] = CrateInfo(c)
    BY <2>1 DEF Standing, IInv, ProvidersExact, ProvidesExact
  <2>3. QED
    BY <2>1, <2>2 DEF CrateInfo
<1>3. build.kind[c] \in Kind
  BY <1>2 DEF Standing, IInv, TypeOK, BuildRecord
<1>4. c \notin build.ccLink /\ build.kind[c] # "test"
  <2>1. CASE build.always
    BY <1>2, <2>1 DEF NamesAgree, Standing
  <2>2. CASE ~build.always
    <3>1. build.kind[c] = "library"
      BY <1>2, <2>2 DEF CanBuildMetadata, CanUseMetadataForPipelining
    <3>2. QED
      BY <3>1 DEF Standing, IInv, TypeOK, WellFormed
  <2>3. QED
    BY <2>1, <2>2
<1>5. "metadata" \in Emit(a)
  BY <1>2, <1>4 DEF Emit
<1>6. CASE build.kind[c] = "binary"
  BY <1>5, <1>6 DEF DeclaredMetadata, EmittedMetadata, OutputHash
<1>7. CASE build.kind[c] # "binary"
  <2>1. build.windows => build.kind[c] = "library"
    BY <1>2 DEF NamesAgree, Standing, CanBuildMetadata, CanUseMetadataForPipelining
  <2>2. QED
    BY <1>4, <1>5, <1>7, <2>1 DEF DeclaredMetadata, EmittedMetadata
<1>8. QED
  BY <1>6, <1>7

\* The one reason left for an action to fail is the source (Fail).
LEMMA FailsForItsSource ==
  ASSUME NamesAgree, Standing, NEW a \in File, Fail(a)
  PROVE  ~SourceCompiles(a)
<1>1. a \in Registered /\ a[1] \in analyzed
  BY DEF Fail, Ready, Registered
<1>2. FindsCrates(a[1])
  BY <1>1, CratesFound DEF Standing
<1>3. CratesAgree(a[1])
  BY CratesMatch
<1>4. WritesOutput(a)
  BY <1>1, OutputWritten
<1>5. QED
  BY <1>2, <1>3, <1>4 DEF Fail

(***************************************************************************)
(* An action fails only for what is wrong in its own target's source, for  *)
(* every workspace whose metadata files are named as declared.             *)
(***************************************************************************)
THEOREM OnlyBrokenFail ==
  ASSUME NamesAgree
  PROVE  Spec => []FailsOnlyWhenBroken
<1>1. Init => Standing /\ FailsOnlyWhenBroken
  BY InitStanding DEF Init, FailsOnlyWhenBroken
<1>2. Standing /\ FailsOnlyWhenBroken /\ [Next]_vars
        => (Standing /\ FailsOnlyWhenBroken)'
  <2> SUFFICES ASSUME Standing, FailsOnlyWhenBroken, [Next]_vars
               PROVE  FailsOnlyWhenBroken'
    BY StepStanding
  <2>1. build' = build
    BY DEF Next, Analyze, Execute, Succeed, Fail, vars
  <2>2. \A a \in File : SourceCompiles(a)' = SourceCompiles(a)
    BY <2>1 DEF SourceCompiles
  <2>3. ASSUME NEW a \in File, verdict'[a] = "failed"
        PROVE  ~SourceCompiles(a)
    <3>1. CASE verdict[a] = "failed"
      BY <3>1 DEF FailsOnlyWhenBroken
    <3>2. CASE verdict[a] # "failed"
      <4>1. Fail(a)
        BY <2>3, <3>2 DEF Next, Analyze, Execute, Succeed, Fail, vars,
                          Standing, IInv, TypeOK
      <4>2. QED
        BY <4>1, FailsForItsSource
    <3>3. QED
      BY <3>1, <3>2
  <2>4. QED
    BY <2>2, <2>3 DEF FailsOnlyWhenBroken
<1>3. QED
  BY <1>1, <1>2, PTL DEF Spec

-----------------------------------------------------------------------------
(***************************************************************************)
(* The actions keep the promise                                            *)
(***************************************************************************)
macrosOf == {c \in Target : IsProcMacro(c)}
linkedOf == {c \in Target : Linked(c)}
checkedOf == {c \in Target : \E f \in File : f[1] = c /\ verdict[f] = "succeeded"}
builtOf == {c \in Target : verdict[<<c, "full">>] = "succeeded"}
rejectedOf == {c \in Target : \E f \in File : f[1] = c /\ verdict[f] = "failed"}

(***************************************************************************)
(* An action whose inputs exist may compile: the one usable file of every  *)
(* crate it needs was made (Ready, InputFor).                              *)
(***************************************************************************)
LEMMA ReadyCanCompile ==
  ASSUME IInv, NEW a \in File, Ready(a)
  PROVE  Promise!CanCompile(a[1])
<1> DEFINE c == a[1]
<1>1. /\ c \in analyzed
      /\ c \in Target
      /\ \A f \in Inputs(c) : verdict[f] = "succeeded"
  BY DEF Ready, Registered, IInv, TypeOK
<1>2. needs[c] \subseteq Target
  BY <1>1 DEF IInv, TypeOK
<1>3. ASSUME NEW d \in needs[c]
      PROVE  /\ d \in checkedOf
             /\ IsProcMacro(d) \/ Linked(c) => d \in builtOf
  <2>1. PICK f \in Inputs(c) : f[1] = d
    BY <1>1, InputFor
  <2>2. /\ f \in File
        /\ verdict[f] = "succeeded"
        /\ MustBeFull(c, d) => f[2] = "full"
    BY <1>1, <2>1, InputFor
  <2>3. MustBeFull(c, d) => f = <<d, "full">>
    BY <2>1, <2>2 DEF File
  <2>4. QED
    BY <1>2, <2>1, <2>2, <2>3 DEF checkedOf, builtOf, MustBeFull
<1>4. /\ needs[c] \subseteq checkedOf
      /\ needs[c] \intersect macrosOf \subseteq builtOf
      /\ c \in linkedOf => needs[c] \subseteq builtOf
  BY <1>3 DEF macrosOf, linkedOf
<1>5. QED
  BY <1>4 DEF Promise!CanCompile, macrosOf, linkedOf, checkedOf, builtOf

\* What the promise takes for granted does not change (Next).
LEMMA SourceFixed ==
  ASSUME [Next]_vars
  PROVE  UNCHANGED Promise!source
<1>1. build' = build /\ needs' = needs
  BY DEF Next, Analyze, Execute, Succeed, Fail, vars
<1>2. \A c \in Target : IsProcMacro(c)' = IsProcMacro(c) /\ Linked(c)' = Linked(c)
  BY <1>1 DEF IsProcMacro, Linked
<1>3. QED
  BY <1>1, <1>2 DEF Promise!source

LEMMA PromisedInit == Init => Promise!Init
<1> SUFFICES ASSUME Init PROVE Promise!Init
  OBVIOUS
<1>1. TypeOK
  BY TypeInit
<1>2. /\ needs \in [Target -> SUBSET Target]
      /\ build.broken \in [Target -> Damage]
  BY <1>1 DEF TypeOK, BuildRecord
<1>3. \A f \in File : verdict[f] = "none"
  BY DEF Init
<1>4. \A c \in Target : <<c, "full">> \in File
  BY DEF File
<1>5. QED
  BY <1>2, <1>3, <1>4 DEF Promise!Init, Damage

\* A step of the actions is a step of the promise or leaves it alone.
LEMMA PromisedStep ==
  NamesAgree /\ Standing /\ [Next]_vars => [Promise!Next]_Promise!vars
<1> SUFFICES ASSUME NamesAgree, Standing, [Next]_vars
             PROVE  [Promise!Next]_Promise!vars
  OBVIOUS
<1>1. UNCHANGED Promise!source
  BY SourceFixed
<1>2. verdict \in [File -> {"none", "succeeded", "failed"}]
  BY DEF Standing, IInv, TypeOK
<1>3. CASE verdict' = verdict
  BY <1>1, <1>3 DEF Promise!vars
<1>4. ASSUME NEW a \in File, Succeed(a)
      PROVE  Promise!Next
  <2> DEFINE c == a[1]
  <2>1. /\ c \in Target
        /\ a = <<c, "full">> \/ a = <<c, "metadata">>
    BY DEF File
  <2>2. Promise!CanCompile(c)
    BY <1>4, ReadyCanCompile DEF Succeed, Standing
  <2>3. verdict' = [verdict EXCEPT ![a] = "succeeded"] /\ verdict[a] = "none"
    BY <1>4 DEF Succeed, Ready
  <2>4. checkedOf' = checkedOf \union {c}
    BY <1>2, <2>1, <2>3 DEF checkedOf
  <2>5. rejectedOf' = rejectedOf
    BY <1>2, <2>3 DEF rejectedOf
  <2>6. CASE a = <<c, "full">>
    <3>1. builtOf' = builtOf \union {c}
      BY <1>2, <2>1, <2>3, <2>6 DEF builtOf, File
    <3>2. build.broken[c] = "never"
      BY <1>4, <2>6 DEF Succeed, SourceCompiles
    <3>3. Promise!Build(c)
      BY <1>1, <2>2, <2>4, <2>5, <3>1, <3>2
         DEF Promise!Build, checkedOf, builtOf, rejectedOf
    <3>4. QED
      BY <2>1, <3>3 DEF Promise!Next
  <2>7. CASE a = <<c, "metadata">>
    <3>1. builtOf' = builtOf
      BY <1>2, <2>1, <2>3, <2>7 DEF builtOf, File
    <3>2. build.broken[c] # "check"
      BY <1>4, <2>7 DEF Succeed, SourceCompiles
    <3>3. Promise!Check(c)
      BY <1>1, <2>2, <2>4, <2>5, <3>1, <3>2
         DEF Promise!Check, checkedOf, builtOf, rejectedOf
    <3>4. QED
      BY <2>1, <3>3 DEF Promise!Next
  <2>8. QED
    BY <2>1, <2>6, <2>7
<1>5. ASSUME NEW a \in File, Fail(a)
      PROVE  Promise!Next
  <2> DEFINE c == a[1]
  <2>1. c \in Target
    BY DEF File
  <2>2. Promise!CanCompile(c)
    BY <1>5, ReadyCanCompile DEF Fail, Standing
  <2>3. verdict' = [verdict EXCEPT ![a] = "failed"] /\ verdict[a] = "none"
    BY <1>5 DEF Fail, Ready
  <2>4. checkedOf' = checkedOf /\ builtOf' = builtOf
    BY <1>2, <2>3 DEF checkedOf, builtOf, File
  <2>5. rejectedOf' = rejectedOf \union {c}
    BY <1>2, <2>1, <2>3 DEF rejectedOf
  <2>6. build.broken[c] # "never"
    BY <1>5, FailsForItsSource DEF SourceCompiles
  <2>7. Promise!Reject(c)
    BY <1>1, <2>2, <2>4, <2>5, <2>6 DEF Promise!Reject, checkedOf, builtOf, rejectedOf
  <2>8. QED
    BY <2>1, <2>7 DEF Promise!Next
<1>6. QED
  BY <1>3, <1>4, <1>5 DEF Next, Analyze, Execute, vars

(***************************************************************************)
(* With or without pipelining, the actions implement the promise of        *)
(* CrateBuild, for every workspace whose metadata files are named as       *)
(* declared.                                                               *)
(***************************************************************************)
THEOREM PromiseKept ==
  ASSUME NamesAgree
  PROVE  Spec => KeepsPromise
<1>1. Standing /\ [Next]_vars => [Promise!Next]_Promise!vars
  BY PromisedStep
<1>2. Spec => Promise!Spec
  BY <1>1, PromisedInit, InitStanding, StepStanding, PTL DEF Spec, Promise!Spec
<1>3. QED
  BY <1>2 DEF KeepsPromise
=============================================================================
