----------------------------- MODULE CargoBazel -----------------------------
(***************************************************************************)
(* How dependencies are pinned: the commands query, splice, generate and   *)
(* vendor of cargo-bazel, as the rules call them, over the files they      *)
(* share with the user: the manifests, Cargo.lock, the Bazel lockfile and  *)
(* the rendered files.                                                     *)
(*                                                                         *)
(* A run reads its inputs one after the other while the user edits them    *)
(* and the registry moves, calls Cargo, which may fail, and writes its     *)
(* results one after the other; it may be cut off between any two steps.   *)
(***************************************************************************)
EXTENDS Naturals, FiniteSets

CONSTANTS
  Crate,       \* external crates
  MaxEdit,     \* how often each input may change
  RootDeps,    \* what each version of the listed manifests leads to
  MemberDeps,  \* what each version of the other members' manifests adds
  Setups,      \* how the rules call the program
  None,        \* no file
  Empty        \* a file without content: as created by hand, or cut off

ASSUME CargoBazelAssumption ==
  /\ MaxEdit \in Nat
  /\ RootDeps \in [0..MaxEdit -> SUBSET Crate]
  /\ MemberDeps \in [0..MaxEdit -> SUBSET Crate]
  /\ \A s \in Setups :
       /\ {s.vendor, s.dryRun, s.lockfile, s.cargoLock, s.skip, s.strip} \subseteq BOOLEAN
       /\ s.skip => s.cargoLock
       /\ s.requests \subseteq {"no", "workspace", "eager"} \union Crate

Version == 0..MaxEdit
Pins == UNION {[S -> Version] : S \in SUBSET Crate}

\* Cargo.lock: the version of each crate, and whether members are listed.
CargoLocks == [pins : Pins, internal : BOOLEAN]

\* What is rendered, with the inputs it was made from.
Contexts == [pins : Pins, manifest : Version, member : Version, settings : Version]

(***************************************************************************)
(* Digest::compute.  settings stands for the configuration, the versions   *)
(* of Cargo and rustc and that of cargo-bazel itself; manifest for the     *)
(* listed manifests and the Cargo configuration.  Neither Cargo.lock nor   *)
(* the other members' manifests are part of it.                            *)
(***************************************************************************)
Digests == [context : Contexts, settings : Version, manifest : Version]

\* Mutant: what was generated is not part of the digest.
DigestOfInputs(context, settings, manifest) ==
  [context |-> [context EXCEPT !.pins = [c \in {} |-> 0]], settings |-> settings, manifest |-> manifest]

Digest(context, settings, manifest) ==
  [context |-> context, settings |-> settings, manifest |-> manifest]

BazelLocks == [context : Contexts, digest : Digests]

\* A lockfile that can be read is neither missing nor empty.
ASSUME NoFileAssumption == {None, Empty} \intersect (CargoLocks \union BazelLocks) = {}

VARIABLES
  setup,      \* how the rules call the program
  world,      \* the inputs as they are now, and the versions in the registry
  cargoLock,  \* the user's Cargo.lock
  bazelLock,  \* cargo-bazel-lock.json
  files,      \* rendered files, by crate and version
  pc,         \* what the run does next
  run,        \* what the run has read and made
  result,     \* how the last run ended
  history     \* what came about since the last run that pinned

vars == <<setup, world, cargoLock, bazelLock, files, pc, run, result, history>>

World == [manifest : Version, member : Version, settings : Version, registry : Version]

NoPins == [c \in {} |-> 0]
NoLock == [pins |-> NoPins, internal |-> FALSE]
NoContext == [pins |-> NoPins, manifest |-> 0, member |-> 0, settings |-> 0]

FilesOf(context) == {<<c, context.pins[c]>> : c \in DOMAIN context.pins}

Needed(manifest, member) == RootDeps[manifest] \union MemberDeps[member]

IdleRun ==
  [request |-> "no", settings |-> 0, manifest |-> 0, lock |-> NoLock, context |-> NoContext,
   checked |-> 0]

Init ==
  /\ setup \in Setups
  /\ world = [manifest |-> 0, member |-> 0, settings |-> 0, registry |-> 0]
  /\ cargoLock \in IF setup.cargoLock
                   THEN {None, [pins |-> [c \in RootDeps[0] |-> 0], internal |-> TRUE]}
                   ELSE {None}
  /\ bazelLock \in IF setup.lockfile THEN {None, Empty} ELSE {None}
  /\ files = {}
  /\ pc = "idle"
  /\ run = IdleRun
  /\ result = "none"
  /\ history = [quiet |-> FALSE, steady |-> FALSE, raced |-> FALSE, merged |-> FALSE, late |-> FALSE]

Goto(next) == pc' = next /\ UNCHANGED result

\* A run that is over keeps nothing but what it has written.
End(how) ==
  /\ pc' = "idle"
  /\ result' = how

\* An error, or the process is killed.  What was written stays written.
Fail ==
  /\ pc # "idle"
  /\ End("failed")
  /\ run' = IdleRun
  /\ UNCHANGED <<setup, world, cargoLock, bazelLock, files, history>>
------------------------------------------------------------------------------
(***************************************************************************)
(* The user and the registry, at any time: also between query, which       *)
(* compares digests, and generate, a second process that reads the         *)
(* lockfile again (history.late).                                          *)
(***************************************************************************)
Disturb == history' = [history EXCEPT !.quiet = FALSE, !.steady = FALSE]

EditManifest ==
  /\ world.manifest < MaxEdit
  /\ world' = [world EXCEPT !.manifest = @ + 1]
  /\ Disturb
  /\ UNCHANGED <<setup, cargoLock, bazelLock, files, pc, run, result>>

EditMember ==
  /\ world.member < MaxEdit
  /\ world' = [world EXCEPT !.member = @ + 1]
  /\ Disturb
  /\ UNCHANGED <<setup, cargoLock, bazelLock, files, pc, run, result>>

ChangeSettings ==
  /\ world.settings < MaxEdit
  /\ world' = [world EXCEPT !.settings = @ + 1]
  /\ Disturb
  /\ UNCHANGED <<setup, cargoLock, bazelLock, files, pc, run, result>>

Publish ==
  /\ world.registry < MaxEdit
  /\ world' = [world EXCEPT !.registry = @ + 1]
  /\ UNCHANGED <<setup, cargoLock, bazelLock, files, pc, run, result, history>>

\* The user's own `cargo update`.
UpdateByHand ==
  /\ cargoLock \notin {None, Empty}
  /\ \E c \in DOMAIN cargoLock.pins :
       /\ cargoLock.pins[c] # world.registry
       /\ cargoLock' = [cargoLock EXCEPT !.pins[c] = world.registry]
  /\ Disturb
  /\ UNCHANGED <<setup, world, bazelLock, files, pc, run, result>>

\* Two versions of the Bazel lockfile are merged by hand.
MergeBazelLock ==
  /\ bazelLock \notin {None, Empty} /\ ~history.merged
  /\ \E c \in DOMAIN bazelLock.context.pins, v \in Version :
       /\ v # bazelLock.context.pins[c]
       /\ bazelLock' = [bazelLock EXCEPT !.context.pins[c] = v]
  /\ history' = [history EXCEPT !.quiet = FALSE, !.steady = FALSE, !.merged = TRUE,
                                !.late = pc = "rendering"]
  /\ UNCHANGED <<setup, world, cargoLock, files, pc, run, result>>
------------------------------------------------------------------------------
(***************************************************************************)
(* A repository rule or module extension is evaluated in a directory that  *)
(* Bazel has emptied; crates_vendor is run over the user's own directory.  *)
(* The configuration is written, and the toolchain found, at the start.    *)
(***************************************************************************)
Start(request) ==
  /\ pc = "idle"
  /\ run' = [IdleRun EXCEPT !.request = request, !.settings = world.settings]
  /\ IF setup.vendor
     THEN pc' = "splicing" /\ UNCHANGED files
     ELSE pc' = "deciding" /\ files' = {}
  /\ result' = "none"
  /\ history' = [history EXCEPT !.steady = TRUE, !.late = FALSE]
  /\ UNCHANGED <<setup, world, cargoLock, bazelLock>>

\* Mutant: a lockfile that can be read is up to date.
UpToDateIfReadable == bazelLock \notin {None, Empty}

\* query: the digest of what is there is the one that was written.
UpToDate ==
  /\ bazelLock \notin {None, Empty}
  /\ bazelLock.digest = Digest(bazelLock.context, run.settings, world.manifest)

(***************************************************************************)
(* determine_repin: when repinning was not asked for, a lockfile that is   *)
(* missing, unreadable or of other inputs fails the build.                 *)
(***************************************************************************)
DetermineRepin ==
  /\ pc = "deciding"
  /\ \/ /\ run.request # "no" \/ ~setup.lockfile
        /\ Goto("splicing")
        /\ UNCHANGED run
     \/ /\ run.request = "no" /\ setup.lockfile /\ UpToDate
        /\ run' = [run EXCEPT !.checked = world.manifest]
        /\ Goto("rendering")
     \/ /\ run.request = "no" /\ setup.lockfile /\ ~UpToDate
        /\ End("out of date")
        /\ run' = IdleRun
  /\ UNCHANGED <<setup, world, cargoLock, bazelLock, files, history>>

\* generate without --repin, another process: the lockfile is read again, its
\* digest is not looked at, and it is rendered as it is.
RenderLocked ==
  /\ pc = "rendering"
  /\ run' = [run EXCEPT !.context = bazelLock.context]
  /\ files' = FilesOf(bazelLock.context)
  /\ End("served")
  /\ UNCHANGED <<setup, world, cargoLock, bazelLock, history>>
------------------------------------------------------------------------------
(***************************************************************************)
(* splice: the listed manifests are copied, the other members linked.      *)
(***************************************************************************)
Splice ==
  /\ pc = "splicing"
  /\ run' = [run EXCEPT !.manifest = world.manifest]
  /\ Goto("locking")
  /\ UNCHANGED <<setup, world, cargoLock, bazelLock, files, history>>

\* The packages `cargo update` may move.
Updated(request) ==
  CASE request = "eager" -> Crate
    [] request \in {"no", "workspace"} -> {}
    [] OTHER -> {request}

\* What Cargo makes of a lockfile: what is pinned stays, what is missing
\* comes from the registry as it is now.
Resolved(lock, request) ==
  LET old == IF lock \in {None, Empty} THEN NoPins ELSE lock.pins
      kept == DOMAIN old \ Updated(request)
  IN  [pins |-> [c \in Needed(run.manifest, world.member) |-> IF c \in kept THEN old[c] ELSE world.registry],
       internal |-> TRUE]

\* Mutant: the existing lockfile is not installed before cargo runs.
GenerateAnew ==
  /\ pc = "locking" /\ ~setup.skip
  /\ setup.cargoLock => cargoLock # None
  /\ run' = [run EXCEPT !.lock = Resolved(None, run.request)]
  /\ Goto("resolving")
  /\ UNCHANGED <<setup, world, cargoLock, bazelLock, files, history>>

(***************************************************************************)
(* generate_lockfile: a copy of the existing Cargo.lock is updated as      *)
(* requested and completed by `cargo fetch`; without one it is generated.  *)
(* A path to a file that does not exist is an error.                       *)
(***************************************************************************)
GenerateLockfile ==
  /\ pc = "locking" /\ ~setup.skip
  /\ setup.cargoLock => cargoLock # None
  /\ run' = [run EXCEPT !.lock = Resolved(IF setup.cargoLock THEN cargoLock ELSE None,
                                          run.request)]
  /\ Goto("resolving")
  /\ UNCHANGED <<setup, world, cargoLock, bazelLock, files, history>>

\* skip_cargo_lockfile_overwrite: the existing Cargo.lock is used as it is.
LoadLockfile ==
  /\ pc = "locking" /\ setup.skip
  /\ cargoLock \notin {None, Empty}
  /\ run' = [run EXCEPT !.lock = cargoLock]
  /\ Goto("resolving")
  /\ UNCHANGED <<setup, world, cargoLock, bazelLock, files, history>>

\* Mutant: without --locked, cargo completes a copy of the lockfile.
FitsAnything(lock) == lock.internal

\* --locked: Cargo refuses to run with a lockfile that is not of the manifests.
Fits(lock) ==
  /\ lock.internal
  /\ DOMAIN lock.pins = Needed(run.manifest, world.member)

\* TreeResolver::generate and write_registry_urls_and_feature_map.
ResolveFeatures ==
  /\ pc = "resolving" /\ Fits(run.lock)
  /\ Goto("describing")
  /\ UNCHANGED <<setup, world, cargoLock, bazelLock, files, run, history>>

(***************************************************************************)
(* `cargo metadata --locked`.  splice does not look at how it ends, and    *)
(* what it left is found to be unreadable by generate.                     *)
(***************************************************************************)
Describe ==
  /\ pc = "describing" /\ Fits(run.lock)
  /\ run' = [run EXCEPT !.context = [pins |-> run.lock.pins, manifest |-> run.manifest,
                                     member |-> world.member, settings |-> run.settings]]
  /\ Goto(IF setup.vendor THEN "removing" ELSE "writing")
  /\ UNCHANGED <<setup, world, cargoLock, bazelLock, files, history>>
------------------------------------------------------------------------------
\* Mutant: crates are vendored over what was vendored before.
KeepVendorDir ==
  /\ pc = "removing"
  /\ history' = [history EXCEPT !.quiet = FALSE]
  /\ Goto(IF setup.cargoLock THEN "cargo lock" ELSE "writing")
  /\ UNCHANGED <<setup, world, cargoLock, bazelLock, files, run>>

\* vendor renders everything before it removes what was vendored before.
RemoveVendorDir ==
  /\ pc = "removing"
  /\ files' = {}
  /\ history' = [history EXCEPT !.quiet = FALSE]
  /\ Goto(IF setup.cargoLock THEN "cargo lock" ELSE "writing")
  /\ UNCHANGED <<setup, world, cargoLock, bazelLock, run>>

\* write_outputs; `cargo vendor` before it, `bazel mod tidy` after it.
WriteOutputs ==
  /\ pc = "writing"
  /\ files' = IF setup.dryRun THEN files ELSE files \union FilesOf(run.context)
  /\ Goto("bazel lock")
  /\ UNCHANGED <<setup, world, cargoLock, bazelLock, run, history>>

Afterwards == IF setup.vendor \/ setup.skip \/ ~setup.cargoLock THEN "done" ELSE "cargo lock"

NoBazelLock ==
  /\ pc = "bazel lock"
  /\ ~setup.lockfile \/ setup.dryRun
  /\ Goto(Afterwards)
  /\ UNCHANGED <<setup, world, cargoLock, bazelLock, files, run, history>>

(***************************************************************************)
(* lock_context: the digest is taken of the manifests as they are now, and *)
(* not as they were spliced.  Writing a file empties it first.             *)
(***************************************************************************)
LockContext ==
  /\ pc = "bazel lock" /\ setup.lockfile /\ ~setup.dryRun
  /\ bazelLock' = Empty
  /\ run' = [run EXCEPT !.checked = world.manifest]
  /\ history' = [history EXCEPT !.quiet = FALSE]
  /\ Goto("bazel lock cut")
  /\ UNCHANGED <<setup, world, cargoLock, files>>

\* Mutant: the checksum that was cleared is not set again.
WriteUnchecked ==
  /\ pc = "bazel lock cut"
  /\ bazelLock' = [context |-> run.context]
  /\ history' = [history EXCEPT !.raced = run.checked # run.manifest, !.merged = FALSE]
  /\ Goto(Afterwards)
  /\ UNCHANGED <<setup, world, cargoLock, files, run>>

WriteBazelLock ==
  /\ pc = "bazel lock cut"
  /\ bazelLock' = [context |-> run.context,
                   digest |-> Digest(run.context, run.settings, run.checked)]
  /\ history' = [history EXCEPT !.raced = run.checked # run.manifest, !.merged = FALSE]
  /\ Goto(Afterwards)
  /\ UNCHANGED <<setup, world, cargoLock, files, run>>

\* remove_internal_dependencies_from_cargo_lockfile; vendor does not know it.
NewCargoLock ==
  IF setup.strip /\ ~setup.vendor THEN [run.lock EXCEPT !.internal = FALSE] ELSE run.lock

\* update_cargo_lockfile does not touch a file it would not change; vendor does.
KeepCargoLock ==
  /\ pc = "cargo lock" /\ ~setup.vendor
  /\ cargoLock = NewCargoLock
  /\ Goto("done")
  /\ UNCHANGED <<setup, world, cargoLock, bazelLock, files, run, history>>

UpdateCargoLock ==
  /\ pc = "cargo lock"
  /\ setup.vendor \/ cargoLock # NewCargoLock
  /\ cargoLock' = Empty
  /\ history' = [history EXCEPT !.quiet = FALSE]
  /\ Goto("cargo lock cut")
  /\ UNCHANGED <<setup, world, bazelLock, files, run>>

WriteCargoLock ==
  /\ pc = "cargo lock cut"
  /\ cargoLock' = NewCargoLock
  /\ Goto(IF setup.vendor THEN "writing" ELSE "done")
  /\ UNCHANGED <<setup, world, bazelLock, files, run, history>>

Done ==
  /\ pc = "done"
  /\ End("pinned")
  /\ history' = [history EXCEPT !.quiet = history.steady]
  /\ UNCHANGED <<setup, world, cargoLock, bazelLock, files, run>>

Pin ==
  \/ Splice \/ GenerateLockfile \/ LoadLockfile \/ ResolveFeatures \/ Describe
  \/ RemoveVendorDir \/ WriteOutputs \/ NoBazelLock \/ LockContext \/ WriteBazelLock
  \/ KeepCargoLock \/ UpdateCargoLock \/ WriteCargoLock \/ Done

Program == DetermineRepin \/ RenderLocked \/ Pin \/ Fail

Environment ==
  EditManifest \/ EditMember \/ ChangeSettings \/ Publish \/ UpdateByHand \/ MergeBazelLock

Next == (\E request \in setup.requests : Start(request)) \/ Program \/ Environment

Spec == Init /\ [][Next]_vars
------------------------------------------------------------------------------
Readable(lock) == lock \notin {None, Empty}

Runs ==
  [request : {"no", "workspace", "eager"} \union Crate, settings : Version, manifest : Version,
   lock : CargoLocks, context : Contexts, checked : Version]

Histories == [quiet : BOOLEAN, steady : BOOLEAN, raced : BOOLEAN, merged : BOOLEAN,
              late : BOOLEAN]

TypeOK ==
  /\ setup \in Setups
  /\ world \in World
  /\ cargoLock \in CargoLocks \union {None, Empty}
  /\ bazelLock \in BazelLocks \union {None, Empty}
  /\ files \subseteq Crate \X Version
  /\ pc \in {"idle", "deciding", "rendering", "splicing", "locking", "resolving", "describing",
            "removing", "writing", "bazel lock", "bazel lock cut", "cargo lock",
            "cargo lock cut", "done"}
  /\ pc = "rendering" => Readable(bazelLock)
  /\ run \in Runs
  /\ result \in {"none", "failed", "out of date", "served", "pinned"}
  /\ history \in Histories

(***************************************************************************)
(* What is rendered without repinning was made from the listed manifests   *)
(* and settings of this very run.  The exception: a manifest edited while  *)
(* its lockfile was being made.  (query and lock_context take the digest   *)
(* of what each reads itself.)                                             *)
(***************************************************************************)
ServedIsCurrent ==
  result = "served" /\ ~history.raced =>
    /\ run.context.manifest = run.checked
    /\ run.context.settings = run.settings

(***************************************************************************)
(* A lockfile merged by hand is served by no run that starts after the     *)
(* merge, nor by one that had yet to compare digests: only one that was    *)
(* between query and generate can serve it (generate does not look at the  *)
(* digest), and the next refuses it.                                       *)
(***************************************************************************)
MergesAreRefused ==
  [][result' = "served" => result = "served" \/ ~history.merged \/ history.late]_vars

(***************************************************************************)
(* From a run that pinned until something is edited or the next is under   *)
(* way, Cargo.lock, the Bazel lockfile and the rendered files are of the   *)
(* same pins, nothing of an earlier run is left in the directory, and the  *)
(* lockfile is found to be up to date.                                     *)
(***************************************************************************)
LocksAgree ==
  history.quiet /\ ~setup.dryRun =>
    /\ setup.lockfile =>
         /\ Readable(bazelLock)
         /\ bazelLock.digest = Digest(bazelLock.context, world.settings, world.manifest)
    /\ setup.lockfile /\ setup.cargoLock => bazelLock.context.pins = cargoLock.pins
    /\ pc = "idle" /\ result \in {"pinned", "served"} =>
         /\ setup.lockfile => files = FilesOf(bazelLock.context)
         /\ setup.cargoLock => files = FilesOf(cargoLock)

(***************************************************************************)
(* Pinning again when nothing was edited changes neither lockfile, though  *)
(* the registry has newer versions by now: the minimal update keeps every  *)
(* pin, members stripped from Cargo.lock come back and go again.           *)
(***************************************************************************)
RepinSettles ==
  history.quiet /\ ~setup.dryRun /\ setup.cargoLock /\ pc \in {"removing", "writing"}
  /\ run.request \in {"no", "workspace"} =>
    /\ setup.vendor \/ ~setup.skip => NewCargoLock = cargoLock
    /\ setup.lockfile => run.context = bazelLock.context

(***************************************************************************)
(* A run that pinned undisturbed has pinned exactly the crates that the    *)
(* manifests of all members ask for, also where the existing Cargo.lock    *)
(* is used as it is.                                                       *)
(***************************************************************************)
PinsAreNeeded ==
  result = "pinned" /\ history.steady =>
    DOMAIN run.context.pins = Needed(world.manifest, world.member)

(***************************************************************************)
(* The lockfiles and the rendered files agree while nobody edits anything, *)
(* and pinning again changes none of them (generate, write_lockfile,       *)
(* update_cargo_lockfile).                                                 *)
(***************************************************************************)
LocksSettled == TypeOK /\ LocksAgree /\ RepinSettles
=============================================================================
