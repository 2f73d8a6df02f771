------------------------- MODULE CargoBazel_proofs -------------------------
(***************************************************************************)
(* Proofs about CargoBazel, for every set of crates and rules, every       *)
(* number of edits and whatever the manifests lead to.                     *)
(***************************************************************************)
EXTENDS CargoBazel, TLAPS

(***************************************************************************)
(* What is known of a lockfile that can be read, and of a run that has     *)
(* come far enough to have read its manifests and made its context.        *)
(***************************************************************************)
LockInv ==
  Readable(bazelLock) =>
    /\ history.merged <=> bazelLock.digest.context # bazelLock.context
    /\ bazelLock.digest.settings = bazelLock.context.settings
    /\ ~history.raced => bazelLock.digest.manifest = bazelLock.context.manifest

Described ==
  pc \in {"removing", "writing", "bazel lock", "bazel lock cut", "cargo lock", "cargo lock cut",
          "done"}

RunInv ==
  /\ pc # "idle" => result = "none"
  /\ pc = "rendering" =>
       /\ Readable(bazelLock) /\ (history.merged => history.late)
       /\ bazelLock.digest.manifest = run.checked
       /\ bazelLock.digest.settings = run.settings
  /\ Described =>
       /\ run.context.manifest = run.manifest
       /\ run.context.settings = run.settings

\* The manifests a run has read are the present ones as long as none is edited.
ManifestsRead ==
  /\ history.steady /\ (Described \/ pc \in {"locking", "resolving", "describing"}) =>
       run.manifest = world.manifest
  /\ history.steady /\ (Described \/ result = "pinned") =>
       DOMAIN run.context.pins = Needed(world.manifest, world.member)

IInv == TypeOK /\ LockInv /\ RunInv /\ ServedIsCurrent
------------------------------------------------------------------------------
\* Helpers about the sets of which the state is made.
LEMMA NeededType ==
  ASSUME NEW m \in Version, NEW n \in Version
  PROVE  Needed(m, n) \subseteq Crate
BY CargoBazelAssumption DEF Needed, Version

LEMMA PinsType ==
  ASSUME NEW S \in SUBSET Crate, NEW p \in [S -> Version]
  PROVE  p \in Pins
BY DEF Pins

LEMMA PinsDomain ==
  ASSUME NEW p \in Pins
  PROVE  p \in [DOMAIN p -> Version] /\ DOMAIN p \subseteq Crate
BY DEF Pins

LEMMA NoPinsType == NoPins \in Pins /\ 0 \in Version
<1>1. 0 \in Version
  BY CargoBazelAssumption DEF Version
<1>2. {} \in SUBSET Crate /\ NoPins \in [{} -> Version]
  BY DEF NoPins
<1>3. QED
  BY <1>1, <1>2 DEF Pins

LEMMA FilesType ==
  ASSUME NEW context \in Contexts
  PROVE  FilesOf(context) \subseteq Crate \X Version
<1>1. context.pins \in Pins
  BY DEF Contexts
<1>2. context.pins \in [DOMAIN context.pins -> Version] /\ DOMAIN context.pins \subseteq Crate
  BY <1>1, PinsDomain
<1>3. QED
  BY <1>2 DEF FilesOf

\* Replacing one pin.
LEMMA ReplacedType ==
  ASSUME NEW p \in Pins, NEW c \in DOMAIN p, NEW v \in Version
  PROVE  [p EXCEPT ![c] = v] \in Pins
<1>1. p \in [DOMAIN p -> Version] /\ DOMAIN p \subseteq Crate
  BY PinsDomain
<1>2. [p EXCEPT ![c] = v] \in [DOMAIN p -> Version]
  BY <1>1
<1>3. QED
  BY <1>1, <1>2, PinsType

LEMMA MergedType ==
  ASSUME NEW b \in BazelLocks, NEW c \in DOMAIN b.context.pins, NEW v \in Version
  PROVE  [b EXCEPT !.context.pins[c] = v] \in BazelLocks
<1>1. b.context \in Contexts /\ b.digest \in Digests
  BY DEF BazelLocks
<1>2. b.context.pins \in Pins
  BY <1>1 DEF Contexts
<1>3. [b.context.pins EXCEPT ![c] = v] \in Pins
  BY <1>2, ReplacedType
<1>4. [b.context EXCEPT !.pins = [b.context.pins EXCEPT ![c] = v]] \in Contexts
  BY <1>1, <1>3 DEF Contexts
<1>5. [b EXCEPT !.context.pins[c] = v]
        = [b EXCEPT !.context = [b.context EXCEPT !.pins = [b.context.pins EXCEPT ![c] = v]]]
  BY <1>1 DEF BazelLocks, Contexts
<1>6. QED
  BY <1>1, <1>4, <1>5 DEF BazelLocks

\* Records keep their types as their fields are replaced.
LEMMA RunType ==
  ASSUME NEW r \in Runs
  PROVE  /\ \A v \in Version : [r EXCEPT !.manifest = v] \in Runs
         /\ \A v \in Version : [r EXCEPT !.checked = v] \in Runs
         /\ \A l \in CargoLocks : [r EXCEPT !.lock = l] \in Runs
         /\ \A c \in Contexts : [r EXCEPT !.context = c] \in Runs
         /\ r.lock \in CargoLocks /\ r.context \in Contexts
         /\ r.settings \in Version /\ r.manifest \in Version /\ r.checked \in Version
BY DEF Runs

LEMMA HistoryType ==
  ASSUME NEW h \in Histories
  PROVE  /\ \A b \in BOOLEAN : [h EXCEPT !.quiet = b] \in Histories
         /\ \A b \in BOOLEAN : [h EXCEPT !.steady = b] \in Histories
         /\ \A b, d \in BOOLEAN : [h EXCEPT !.quiet = b, !.steady = d] \in Histories
         /\ \A b, d \in BOOLEAN : [h EXCEPT !.raced = b, !.merged = d] \in Histories
         /\ \A b, d \in BOOLEAN : [h EXCEPT !.steady = b, !.late = d] \in Histories
         /\ \A b, d, e, f \in BOOLEAN :
              [h EXCEPT !.quiet = b, !.steady = d, !.merged = e, !.late = f] \in Histories
BY DEF Histories

LEMMA WorldType ==
  ASSUME NEW w \in World
  PROVE  /\ \A v \in Version : [w EXCEPT !.manifest = v] \in World
         /\ \A v \in Version : [w EXCEPT !.member = v] \in World
         /\ \A v \in Version : [w EXCEPT !.settings = v] \in World
         /\ \A v \in Version : [w EXCEPT !.registry = v] \in World
         /\ {w.manifest, w.member, w.settings, w.registry} \subseteq Version
BY DEF World

LEMMA IdleRunType == IdleRun \in Runs
BY NoPinsType DEF IdleRun, NoLock, NoContext, CargoLocks, Contexts, Runs

\* What Cargo makes of any lockfile is a lockfile.
LEMMA ResolvedType ==
  ASSUME TypeOK, NEW lock \in CargoLocks \union {None, Empty}, NEW request
  PROVE  Resolved(lock, request) \in CargoLocks
<1> DEFINE old == IF lock \in {None, Empty} THEN NoPins ELSE lock.pins
           kept == DOMAIN old \ Updated(request)
           S == Needed(run.manifest, world.member)
           value(c) == IF c \in kept THEN old[c] ELSE world.registry
<1>1. run.manifest \in Version /\ world.member \in Version /\ world.registry \in Version
  BY RunType, WorldType DEF TypeOK
<1>2. S \in SUBSET Crate
  BY <1>1, NeededType
<1>3. old \in Pins
  BY NoPinsType DEF CargoLocks
<1>4. old \in [DOMAIN old -> Version]
  BY <1>3, PinsDomain
<1>5. \A c \in S : value(c) \in Version
  BY <1>1, <1>4
<1>6. [c \in S |-> value(c)] \in Pins
  <2> HIDE DEF value, S
  <2>1. [c \in S |-> value(c)] \in [S -> Version]
    BY <1>5
  <2>2. QED
    BY <1>2, <2>1, PinsType
<1>7. Resolved(lock, request) = [pins |-> [c \in S |-> value(c)], internal |-> TRUE]
  BY DEF Resolved, value
<1>8. QED
  BY <1>6, <1>7 DEF CargoLocks
------------------------------------------------------------------------------
(* Every part of the state keeps its type, and every run its place.        *)
THEOREM TypeCorrect == Spec => []TypeOK
<1> USE CargoBazelAssumption
<1>1. ASSUME Init PROVE TypeOK
  <2>1. NoLock \in CargoLocks /\ NoContext \in Contexts /\ 0 \in Version
    BY NoPinsType DEF NoLock, NoContext, CargoLocks, Contexts
  <2>2. cargoLock \in CargoLocks \union {None, Empty}
    <3>1. RootDeps[0] \in SUBSET Crate
      BY NoPinsType DEF Version
    <3>2. [c \in RootDeps[0] |-> 0] \in Pins
      BY <2>1, <3>1, PinsType
    <3>3. [pins |-> [c \in RootDeps[0] |-> 0], internal |-> TRUE] \in CargoLocks
      BY <3>2 DEF CargoLocks
    <3>4. QED
      BY <1>1, <3>3 DEF Init
  <2>3. world \in World /\ history \in Histories /\ run \in Runs
    BY <1>1, <2>1, IdleRunType DEF Init, World, Histories
  <2>4. bazelLock \in {None, Empty} /\ files = {} /\ pc = "idle" /\ result = "none" /\ setup \in Setups
    BY <1>1 DEF Init
  <2>5. QED
    BY <2>2, <2>3, <2>4 DEF TypeOK
<1>2. TypeOK /\ [Next]_vars => TypeOK'
  <2> SUFFICES ASSUME TypeOK, [Next]_vars
               PROVE  TypeOK'
    OBVIOUS
  <2>types. run \in Runs /\ history \in Histories /\ world \in World
    BY DEF TypeOK
  <2>next. \A n \in Version : n < MaxEdit => n + 1 \in Version
    BY DEF Version
  <2> USE <2>types, RunType, HistoryType, WorldType, IdleRunType DEF TypeOK, Goto, End
  <2>1. ASSUME NEW request \in setup.requests, Start(request) PROVE TypeOK'
    <3>1. request \in {"no", "workspace", "eager"} \union Crate
      OBVIOUS
    <3>2. run' \in Runs
      BY <2>1, <3>1 DEF Start, Runs
    <3>3. history' \in Histories
      BY <2>1 DEF Start
    <3>4. QED
      BY <2>1, <3>2, <3>3 DEF Start
  <2>2. CASE DetermineRepin
    <3>1. run' \in {run, [run EXCEPT !.checked = world.manifest], IdleRun}
      BY <2>2 DEF DetermineRepin
    <3>2. run' \in Runs
      <4>1. [run EXCEPT !.checked = world.manifest] \in Runs
        OBVIOUS
      <4>2. QED
        BY <3>1, <4>1
    <3>3. pc' \in {"splicing", "rendering", "idle"} /\ result' \in {result, "out of date"}
      BY <2>2 DEF DetermineRepin
    <3>4. UNCHANGED <<setup, world, cargoLock, bazelLock, files, history>>
      BY <2>2 DEF DetermineRepin
    <3>5. pc' = "rendering" => Readable(bazelLock)
      BY <2>2 DEF DetermineRepin, UpToDate, Readable
    <3>6. QED
      BY <3>2, <3>3, <3>4, <3>5 DEF Readable
  <2>3. CASE RenderLocked
    <3>1. bazelLock.context \in Contexts
      BY <2>3 DEF RenderLocked, Readable, BazelLocks
    <3>2. run' \in Runs /\ files' \subseteq Crate \X Version
      BY <2>3, <3>1, FilesType DEF RenderLocked
    <3>3. QED
      BY <2>3, <3>2 DEF RenderLocked
  <2>4. CASE Fail
    BY <2>4 DEF Fail
  <2>5. CASE Splice
    BY <2>5 DEF Splice
  <2>6. CASE GenerateLockfile
    <3>1. PICK lock : run' = [run EXCEPT !.lock = lock] /\ lock \in CargoLocks
      <4>1. Resolved(IF setup.cargoLock THEN cargoLock ELSE None, run.request) \in CargoLocks
        BY ResolvedType
      <4>2. QED
        BY <2>6, <4>1 DEF GenerateLockfile
    <3>2. run' \in Runs
      BY <3>1
    <3>3. pc' = "resolving" /\ result' = result /\ UNCHANGED <<setup, world, cargoLock>>
          /\ UNCHANGED <<bazelLock, files, history>>
      BY <2>6 DEF GenerateLockfile
    <3>4. QED
      BY <3>2, <3>3
  <2>7. CASE LoadLockfile
    BY <2>7 DEF LoadLockfile
  <2>8. CASE ResolveFeatures
    BY <2>8 DEF ResolveFeatures
  <2>9. CASE Describe
    <3> DEFINE context == [pins |-> run.lock.pins, manifest |-> run.manifest,
                           member |-> world.member, settings |-> run.settings]
    <3>1. run.lock.pins \in Pins
      BY DEF CargoLocks
    <3>2. context \in Contexts
      BY <3>1 DEF Contexts
    <3>3. run' = [run EXCEPT !.context = context]
      BY <2>9 DEF Describe
    <3>4. run' \in Runs
      BY <3>2, <3>3
    <3>5. pc' \in {"removing", "writing"}
          /\ UNCHANGED <<setup, world, cargoLock, bazelLock, files, result, history>>
      BY <2>9 DEF Describe
    <3>6. QED
      BY <3>4, <3>5
  <2>10. CASE RemoveVendorDir
    BY <2>10 DEF RemoveVendorDir
  <2>11. CASE WriteOutputs
    <3>1. files' \subseteq Crate \X Version
      BY <2>11, FilesType DEF WriteOutputs
    <3>2. QED
      BY <2>11, <3>1 DEF WriteOutputs
  <2>12. CASE NoBazelLock
    BY <2>12 DEF NoBazelLock, Afterwards
  <2>13. CASE LockContext
    BY <2>13 DEF LockContext
  <2>14. CASE WriteBazelLock
    <3>1. bazelLock' \in BazelLocks
      BY <2>14 DEF WriteBazelLock, BazelLocks, Digest, Digests
    <3>2. history' \in Histories
      BY <2>14 DEF WriteBazelLock
    <3>3. QED
      BY <2>14, <3>1, <3>2 DEF WriteBazelLock, Afterwards
  <2>15. CASE KeepCargoLock
    BY <2>15 DEF KeepCargoLock
  <2>16. CASE UpdateCargoLock
    BY <2>16 DEF UpdateCargoLock
  <2>17. CASE WriteCargoLock
    <3>1. NewCargoLock \in CargoLocks
      <4>1. \A lock \in CargoLocks : [lock EXCEPT !.internal = FALSE] \in CargoLocks
        BY DEF CargoLocks
      <4>2. QED
        BY <4>1 DEF NewCargoLock
    <3>2. QED
      BY <2>17, <3>1 DEF WriteCargoLock
  <2>18. CASE Done
    <3>1. history.steady \in BOOLEAN
      BY DEF Histories
    <3>2. history' \in Histories
      BY <2>18, <3>1 DEF Done
    <3>3. QED
      BY <2>18, <3>2 DEF Done
  <2>19. CASE EditManifest \/ EditMember \/ ChangeSettings \/ Publish
    <3>1. world' \in World
      <4>1. CASE EditManifest
        BY <4>1, <2>next DEF EditManifest
      <4>2. CASE EditMember
        BY <4>2, <2>next DEF EditMember
      <4>3. CASE ChangeSettings
        BY <4>3, <2>next DEF ChangeSettings
      <4>4. CASE Publish
        BY <4>4, <2>next DEF Publish
      <4>5. QED
        BY <2>19, <4>1, <4>2, <4>3, <4>4
    <3>2. history' \in Histories
      BY <2>19 DEF EditManifest, EditMember, ChangeSettings, Publish, Disturb
    <3>3. QED
      BY <2>19, <3>1, <3>2 DEF EditManifest, EditMember, ChangeSettings, Publish
  <2>20. CASE UpdateByHand
    <3>1. PICK c \in DOMAIN cargoLock.pins :
            cargoLock' = [cargoLock EXCEPT !.pins[c] = world.registry]
      BY <2>20 DEF UpdateByHand
    <3>2. cargoLock \in CargoLocks
      BY <2>20 DEF UpdateByHand
    <3>3. cargoLock.pins \in Pins
      BY <3>2 DEF CargoLocks
    <3>4. [cargoLock.pins EXCEPT ![c] = world.registry] \in Pins
      BY <3>1, <3>3, ReplacedType
    <3>5. cargoLock' \in CargoLocks
      BY <3>1, <3>2, <3>4 DEF CargoLocks
    <3>6. history' \in Histories
      BY <2>20 DEF UpdateByHand, Disturb
    <3>7. QED
      BY <2>20, <3>5, <3>6 DEF UpdateByHand
  <2>21. CASE MergeBazelLock
    <3>1. PICK c \in DOMAIN bazelLock.context.pins, v \in Version :
            bazelLock' = [bazelLock EXCEPT !.context.pins[c] = v]
      BY <2>21 DEF MergeBazelLock
    <3>2. bazelLock \in BazelLocks
      BY <2>21 DEF MergeBazelLock
    <3>3. bazelLock' \in BazelLocks
      BY <3>1, <3>2, MergedType
    <3>4. history' \in Histories
      <4>1. /\ history' = [history EXCEPT !.quiet = FALSE, !.steady = FALSE, !.merged = TRUE,
                                         !.late = pc = "rendering"]
            /\ history \in Histories /\ (pc = "rendering") \in BOOLEAN
        BY <2>21 DEF MergeBazelLock
      <4>2. QED
        BY <4>1, HistoryType
    <3>5. bazelLock' \notin {None, Empty}
      BY <3>3, NoFileAssumption
    <3>6. QED
      BY <2>21, <3>3, <3>4, <3>5 DEF MergeBazelLock, Readable
  <2>22. CASE UNCHANGED vars
    BY <2>22 DEF vars
  <2>23. QED
    BY <2>1, <2>2, <2>3, <2>4, <2>5, <2>6, <2>7, <2>8, <2>9, <2>10, <2>11, <2>12, <2>13, <2>14,
       <2>15, <2>16, <2>17, <2>18, <2>19, <2>20, <2>21, <2>22
       DEF Next, Program, Pin, Environment
<1>3. QED
  BY <1>1, <1>2, PTL DEF Spec
------------------------------------------------------------------------------
\* A run has no result before it is over.
LEMMA ResultStep ==
  ASSUME pc # "idle" => result = "none", [Next]_vars
  PROVE  pc' # "idle" => result' = "none"
BY DEF vars, Next, Program, Pin, Environment, Goto, End, Start, DetermineRepin, RenderLocked, Fail,
   Splice, GenerateLockfile, LoadLockfile, ResolveFeatures, Describe, RemoveVendorDir,
   WriteOutputs, NoBazelLock, LockContext, WriteBazelLock, KeepCargoLock, UpdateCargoLock,
   WriteCargoLock, Done, EditManifest, EditMember, ChangeSettings, Publish, UpdateByHand,
   MergeBazelLock

\* Steps that touch neither the Bazel lockfile nor what is known of its making.
LEMMA LockInvStep ==
  ASSUME TypeOK, LockInv, RunInv, [Next]_vars
  PROVE  LockInv'
<1> USE DEF LockInv, Readable
<1>1. CASE MergeBazelLock
  <2>1. PICK c \in DOMAIN bazelLock.context.pins, v \in Version :
          /\ v # bazelLock.context.pins[c]
          /\ bazelLock' = [bazelLock EXCEPT !.context.pins[c] = v]
    BY <1>1 DEF MergeBazelLock
  <2>2. bazelLock \in BazelLocks /\ Readable(bazelLock) /\ ~history.merged
    BY <1>1 DEF MergeBazelLock, TypeOK
  <2>3. bazelLock.context \in Contexts /\ bazelLock.digest \in Digests
    BY <2>2 DEF BazelLocks
  <2>4. bazelLock.context.pins \in [DOMAIN bazelLock.context.pins -> Version]
    BY <2>3, PinsDomain DEF Contexts
  <2>5. bazelLock'.digest = bazelLock.digest
    BY <2>1, <2>2 DEF BazelLocks
  <2>6. /\ bazelLock'.context.settings = bazelLock.context.settings
        /\ bazelLock'.context.manifest = bazelLock.context.manifest
        /\ bazelLock'.context.pins[c] = v
    BY <2>1, <2>2, <2>3, <2>4 DEF BazelLocks, Contexts
  <2>7. history'.merged = TRUE /\ history'.raced = history.raced
    BY <1>1 DEF MergeBazelLock, TypeOK, Histories
  <2>8. bazelLock'.digest.context # bazelLock'.context
    BY <2>1, <2>2, <2>5, <2>6
  <2>9. QED
    BY <2>2, <2>5, <2>6, <2>7, <2>8
<1>2. CASE LockContext
  BY <1>2 DEF LockContext
<1>3. CASE WriteBazelLock
  <2>1. /\ bazelLock'.context = run.context
        /\ bazelLock'.digest = [context |-> run.context, settings |-> run.settings,
                                manifest |-> run.checked]
    BY <1>3 DEF WriteBazelLock, Digest
  <2>2. run.context.manifest = run.manifest /\ run.context.settings = run.settings
    BY <1>3 DEF WriteBazelLock, RunInv, Described
  <2>3. (history'.raced <=> run.checked # run.manifest) /\ ~history'.merged
    BY <1>3 DEF WriteBazelLock, TypeOK, Histories
  <2>4. ~history'.merged /\ bazelLock'.digest.context = bazelLock'.context
    BY <2>1, <2>3
  <2>5. bazelLock'.digest.settings = bazelLock'.context.settings
    BY <2>1, <2>2
  <2>6. ~history'.raced => bazelLock'.digest.manifest = bazelLock'.context.manifest
    BY <2>1, <2>2, <2>3
  <2>7. QED
    BY <2>4, <2>5, <2>6
<1>4. CASE ~(MergeBazelLock \/ LockContext \/ WriteBazelLock)
  <2>1. bazelLock' = bazelLock
    BY <1>4 DEF vars, Next, Program, Pin, Environment, Start, DetermineRepin, RenderLocked, Fail,
       Splice, GenerateLockfile, LoadLockfile, ResolveFeatures, Describe, RemoveVendorDir,
       WriteOutputs, NoBazelLock, KeepCargoLock, UpdateCargoLock, WriteCargoLock, Done,
       EditManifest, EditMember, ChangeSettings, Publish, UpdateByHand
  <2>2. history'.merged = history.merged /\ history'.raced = history.raced
    BY <1>4 DEF vars, Next, Program, Pin, Environment, Start, DetermineRepin, RenderLocked, Fail,
       Splice, GenerateLockfile, LoadLockfile, ResolveFeatures, Describe, RemoveVendorDir,
       WriteOutputs, NoBazelLock, KeepCargoLock, UpdateCargoLock, WriteCargoLock, Done,
       EditManifest, EditMember, ChangeSettings, Publish, UpdateByHand, Disturb, TypeOK, Histories
  <2>3. QED
    BY <2>1, <2>2
<1>5. QED
  BY <1>1, <1>2, <1>3, <1>4

\* A run keeps to what it has read, and what it checked stays as it was.
LEMMA RunInvStep ==
  ASSUME TypeOK, LockInv, RunInv, [Next]_vars
  PROVE  RunInv'
<1>1. pc' # "idle" => result' = "none"
  BY ResultStep DEF RunInv
<1> DEFINE Checked == /\ Readable(bazelLock) /\ ~history.merged
                      /\ bazelLock.digest.manifest = run.checked
                      /\ bazelLock.digest.settings = run.settings
           Made == /\ run.context.manifest = run.manifest
                   /\ run.context.settings = run.settings
<1> run \in Runs /\ history \in Histories
  BY DEF TypeOK
<1>2. CASE DetermineRepin
  <2>1. pc' = "rendering" => Checked'
    <3> SUFFICES ASSUME pc' = "rendering" PROVE Checked'
      OBVIOUS
    <3>1. UpToDate /\ run' = [run EXCEPT !.checked = world.manifest]
      BY <1>2 DEF DetermineRepin, Goto, End
    <3>2. UNCHANGED <<bazelLock, history>>
      BY <1>2 DEF DetermineRepin
    <3>3. run'.checked = world.manifest /\ run'.settings = run.settings
      BY <3>1 DEF Runs
    <3>4. /\ Readable(bazelLock)
          /\ bazelLock.digest.context = bazelLock.context
          /\ bazelLock.digest.settings = run.settings
          /\ bazelLock.digest.manifest = world.manifest
      BY <3>1 DEF UpToDate, Digest, Readable
    <3>5. ~history.merged
      BY <3>4 DEF LockInv
    <3>6. QED
      BY <3>2, <3>3, <3>4, <3>5 DEF Readable
  <2>2. ~Described'
    BY <1>2 DEF DetermineRepin, Goto, End, Described
  <2>3. QED
    BY <1>1, <2>1, <2>2 DEF RunInv
<1>3. CASE Describe
  <2>1. Made'
    BY <1>3 DEF Describe, Runs
  <2>2. pc' # "rendering"
    BY <1>3 DEF Describe, Goto
  <2>3. QED
    BY <1>1, <2>1, <2>2 DEF RunInv
<1>4. CASE LockContext
  <2>1. Made'
    BY <1>4 DEF LockContext, Runs, RunInv, Described
  <2>2. pc' # "rendering"
    BY <1>4 DEF LockContext, Goto
  <2>3. QED
    BY <1>1, <2>1, <2>2 DEF RunInv
<1>5. CASE RemoveVendorDir \/ WriteOutputs \/ NoBazelLock \/ WriteBazelLock \/ KeepCargoLock
           \/ UpdateCargoLock \/ WriteCargoLock
  <2>1. run' = run /\ Described
    BY <1>5 DEF RemoveVendorDir, WriteOutputs, NoBazelLock, WriteBazelLock, KeepCargoLock,
       UpdateCargoLock, WriteCargoLock, Described
  <2>2. pc' # "rendering"
    BY <1>5 DEF RemoveVendorDir, WriteOutputs, NoBazelLock, WriteBazelLock, KeepCargoLock,
       UpdateCargoLock, WriteCargoLock, Goto, Afterwards
  <2>3. QED
    BY <1>1, <2>1, <2>2 DEF RunInv
<1>6. CASE Done \/ RenderLocked \/ Fail \/ Splice \/ GenerateLockfile \/ LoadLockfile
           \/ ResolveFeatures \/ (\E request \in setup.requests : Start(request))
  <2>1. pc' # "rendering" /\ ~Described'
    BY <1>6 DEF Done, RenderLocked, Fail, Splice, GenerateLockfile, LoadLockfile,
       ResolveFeatures, Start, Goto, End, Described
  <2>2. QED
    BY <1>1, <2>1 DEF RunInv
<1>7. CASE Environment
  <2>1. UNCHANGED <<pc, run>>
    BY <1>7 DEF Environment, EditManifest, EditMember, ChangeSettings, Publish, UpdateByHand,
       MergeBazelLock
  <2>2. CASE MergeBazelLock
    <3>1. PICK c \in DOMAIN bazelLock.context.pins, v \in Version :
            bazelLock' = [bazelLock EXCEPT !.context.pins[c] = v]
      BY <2>2 DEF MergeBazelLock
    <3>2. bazelLock \in BazelLocks
      BY <2>2 DEF MergeBazelLock, TypeOK
    <3>3. bazelLock'.digest = bazelLock.digest /\ Readable(bazelLock')
      BY <3>1, <3>2, MergedType, NoFileAssumption DEF BazelLocks, Readable
    <3>4. pc = "rendering" => history'.late
      BY <2>2 DEF MergeBazelLock, Histories, TypeOK
    <3>5. QED
      BY <1>1, <2>1, <3>3, <3>4 DEF RunInv, Described
  <2>3. CASE ~MergeBazelLock
    <3>1. bazelLock' = bazelLock /\ history'.merged = history.merged /\ history'.late = history.late
      BY <1>7, <2>3 DEF Environment, EditManifest, EditMember, ChangeSettings, Publish,
         UpdateByHand, Disturb, Histories, TypeOK
    <3>2. QED
      BY <1>1, <2>1, <3>1 DEF RunInv, Readable, Described
  <2>4. QED
    BY <2>2, <2>3
<1>8. CASE UNCHANGED vars
  BY <1>1, <1>8 DEF RunInv, vars, Readable, Described
<1>9. QED
  BY <1>2, <1>3, <1>4, <1>5, <1>6, <1>7, <1>8 DEF Next, Program, Pin

\* What has been served is left alone until the next run.
LEMMA ServedStep ==
  ASSUME TypeOK, LockInv, RunInv, ServedIsCurrent, [Next]_vars
  PROVE  ServedIsCurrent'
<1> SUFFICES ASSUME result' = "served", ~history'.raced
             PROVE  /\ run'.context.manifest = run'.checked
                    /\ run'.context.settings = run'.settings
  BY DEF ServedIsCurrent
<1>1. CASE RenderLocked
  <2>1. run' = [run EXCEPT !.context = bazelLock.context] /\ history' = history
    BY <1>1 DEF RenderLocked
  <2>2. /\ bazelLock.digest.manifest = run.checked
        /\ bazelLock.digest.settings = run.settings
    BY <1>1 DEF RenderLocked, RunInv
  <2>3. /\ bazelLock.digest.settings = bazelLock.context.settings
        /\ bazelLock.digest.manifest = bazelLock.context.manifest
    BY <1>1, <2>1 DEF RenderLocked, RunInv, LockInv
  <2>4. /\ run'.context = bazelLock.context
        /\ run'.checked = run.checked
        /\ run'.settings = run.settings
    BY <2>1 DEF TypeOK, Runs
  <2>5. QED
    BY <2>2, <2>3, <2>4
<1>2. CASE ~RenderLocked
  <2>1. Environment \/ UNCHANGED vars
    <3>1. ~(\E request \in setup.requests : Start(request)) /\ ~DetermineRepin /\ ~Fail /\ ~Done
      BY DEF Start, DetermineRepin, Fail, Done, Goto, End, RunInv
    <3>2. ~Splice /\ ~GenerateLockfile /\ ~LoadLockfile /\ ~ResolveFeatures /\ ~Describe
      BY DEF Splice, GenerateLockfile, LoadLockfile, ResolveFeatures, Describe, Goto, RunInv
    <3>3. ~RemoveVendorDir /\ ~WriteOutputs /\ ~NoBazelLock /\ ~LockContext /\ ~WriteBazelLock
      BY DEF RemoveVendorDir, WriteOutputs, NoBazelLock, LockContext, WriteBazelLock, Goto, RunInv
    <3>4. ~KeepCargoLock /\ ~UpdateCargoLock /\ ~WriteCargoLock
      BY DEF KeepCargoLock, UpdateCargoLock, WriteCargoLock, Goto, RunInv
    <3>5. QED
      BY <1>2, <3>1, <3>2, <3>3, <3>4 DEF Next, Program, Pin
  <2>served. result = "served"
    BY <2>1 DEF Environment, EditManifest, EditMember, ChangeSettings, Publish, UpdateByHand,
       MergeBazelLock, vars
  <2>2. run' = run /\ history'.raced = history.raced
    BY <2>1 DEF Environment, EditManifest, EditMember, ChangeSettings, Publish, UpdateByHand,
       MergeBazelLock, Disturb, TypeOK, Histories, vars
  <2>3. QED
    BY <2>served, <2>2 DEF ServedIsCurrent
<1>3. QED
  BY <1>1, <1>2

LEMMA IInvInductive == Spec => []IInv
<1>1. Init => LockInv /\ RunInv /\ ServedIsCurrent
  BY DEF Init, LockInv, RunInv, ServedIsCurrent, Readable, Described
<1>2. TypeOK /\ LockInv /\ RunInv /\ ServedIsCurrent /\ [Next]_vars
        => LockInv' /\ RunInv' /\ ServedIsCurrent'
  BY LockInvStep, RunInvStep, ServedStep
<1>3. QED
  BY <1>1, <1>2, TypeCorrect, PTL DEF Spec, IInv

(* What is rendered without repinning was made from the manifests and the  *)
(* settings of the very run that renders it, unless a manifest was edited  *)
(* while its lockfile was being made.                                      *)
THEOREM ServedCurrent == Spec => []ServedIsCurrent
BY IInvInductive, PTL DEF IInv

(* A lockfile that was merged by hand is served only when the merge came   *)
(* between the check of the digest and the second reading of the file, by  *)
(* the two processes of one run.                                           *)
THEOREM MergesRefused == Spec => MergesAreRefused
<1>1. IInv /\ [Next]_vars => [result' = "served" => \/ result = "served"
                                                    \/ ~history.merged
                                                    \/ history.late]_vars
  <2> SUFFICES ASSUME IInv, [Next]_vars, result' = "served", result # "served"
               PROVE  ~history.merged \/ history.late
    OBVIOUS
  <2>1. RenderLocked
    BY DEF vars, Next, Program, Pin, Environment, Goto, End, Start, DetermineRepin, Fail, Splice,
       GenerateLockfile, LoadLockfile, ResolveFeatures, Describe, RemoveVendorDir, WriteOutputs,
       NoBazelLock, LockContext, WriteBazelLock, KeepCargoLock, UpdateCargoLock, WriteCargoLock,
       Done, EditManifest, EditMember, ChangeSettings, Publish, UpdateByHand, MergeBazelLock
  <2>2. QED
    BY <2>1 DEF RenderLocked, IInv, RunInv
<1>2. QED
  BY <1>1, IInvInductive, PTL DEF Spec, MergesAreRefused
------------------------------------------------------------------------------
\* The manifests that a run has read are the present ones until one is edited.
LEMMA ManifestsStep ==
  ASSUME TypeOK, RunInv, ManifestsRead, [Next]_vars
  PROVE  ManifestsRead'
<1> DEFINE Reading == Described \/ pc \in {"locking", "resolving", "describing"}
           Made == Described \/ result = "pinned"
           Present == run.manifest = world.manifest
           Exact == DOMAIN run.context.pins = Needed(world.manifest, world.member)
<1>0. /\ history.steady /\ Reading => Present
      /\ history.steady /\ Made => Exact
  BY DEF ManifestsRead
<1> SUFFICES /\ history'.steady /\ Reading' => Present'
             /\ history'.steady /\ Made' => Exact'
  BY DEF ManifestsRead
<1> run \in Runs /\ history \in Histories /\ world \in World
  BY DEF TypeOK
<1>1. CASE (\E request \in setup.requests : Start(request)) \/ DetermineRepin \/ RenderLocked \/ Fail
  BY <1>1 DEF Start, DetermineRepin, RenderLocked, Fail, Goto, End, RunInv, Described
<1>2. CASE Splice
  <2>1. run'.manifest = world.manifest /\ world' = world /\ pc' = "locking" /\ result' = "none"
    BY <1>2 DEF Splice, Goto, Runs, RunInv
  <2>2. QED
    BY <2>1 DEF Described
<1>3. CASE GenerateLockfile \/ LoadLockfile \/ ResolveFeatures
  <2>1. /\ pc \in {"locking", "resolving"} /\ pc' \in {"resolving", "describing"}
        /\ result' = "none" /\ UNCHANGED <<world, history>>
    BY <1>3 DEF GenerateLockfile, LoadLockfile, ResolveFeatures, Goto, RunInv
  <2>2. run'.manifest = run.manifest
    BY <1>3 DEF GenerateLockfile, LoadLockfile, ResolveFeatures, Runs
  <2>3. QED
    BY <1>0, <2>1, <2>2 DEF Described
<1>4. CASE Describe
  <2>1. /\ pc = "describing" /\ UNCHANGED <<world, history>>
        /\ DOMAIN run.lock.pins = Needed(run.manifest, world.member)
    BY <1>4 DEF Describe, Goto, Fits
  <2>2. run'.manifest = run.manifest /\ run'.context.pins = run.lock.pins
    BY <1>4 DEF Describe, Runs
  <2>3. QED
    BY <1>0, <2>1, <2>2
<1>5. CASE RemoveVendorDir \/ WriteOutputs \/ NoBazelLock \/ LockContext \/ WriteBazelLock
           \/ KeepCargoLock \/ UpdateCargoLock \/ WriteCargoLock \/ Done
  <2>1. Described /\ world' = world
    BY <1>5 DEF RemoveVendorDir, WriteOutputs, NoBazelLock, LockContext, WriteBazelLock,
       KeepCargoLock, UpdateCargoLock, WriteCargoLock, Done, Described
  <2>2. run'.manifest = run.manifest /\ run'.context = run.context
    BY <1>5 DEF RemoveVendorDir, WriteOutputs, NoBazelLock, LockContext, WriteBazelLock,
       KeepCargoLock, UpdateCargoLock, WriteCargoLock, Done, Runs
  <2>3. history'.steady = history.steady
    BY <1>5 DEF RemoveVendorDir, WriteOutputs, NoBazelLock, LockContext, WriteBazelLock,
       KeepCargoLock, UpdateCargoLock, WriteCargoLock, Done, Histories
  <2>4. QED
    BY <1>0, <2>1, <2>2, <2>3
<1>6. CASE EditManifest \/ EditMember \/ ChangeSettings \/ UpdateByHand \/ MergeBazelLock
  <2>1. ~history'.steady
    BY <1>6 DEF EditManifest, EditMember, ChangeSettings, UpdateByHand, MergeBazelLock, Disturb,
       Histories
  <2>2. QED
    BY <2>1
<1>7. CASE Publish
  <2>1. UNCHANGED <<pc, run, result, history>>
    BY <1>7 DEF Publish
  <2>2. world'.manifest = world.manifest /\ world'.member = world.member
    BY <1>7 DEF Publish, World
  <2>3. QED
    BY <1>0, <2>1, <2>2 DEF Described
<1>8. CASE UNCHANGED vars
  BY <1>0, <1>8 DEF vars, Described
<1>9. QED
  BY <1>1, <1>2, <1>3, <1>4, <1>5, <1>6, <1>7, <1>8 DEF Next, Program, Pin, Environment

(* What an undisturbed run has pinned is exactly what the manifests need.  *)
THEOREM PinsNeeded == Spec => []PinsAreNeeded
<1>1. Init => ManifestsRead
  BY DEF Init, ManifestsRead, Described
<1>2. IInv /\ ManifestsRead /\ [Next]_vars => ManifestsRead'
  BY ManifestsStep DEF IInv
<1>3. ManifestsRead => PinsAreNeeded
  BY DEF ManifestsRead, PinsAreNeeded
<1>4. QED
  BY <1>1, <1>2, <1>3, IInvInductive, PTL DEF Spec
------------------------------------------------------------------------------
(***************************************************************************)
(* What the lockfiles and the rendered files are while a run goes on, and  *)
(* while nothing has been edited since the last one that pinned.           *)
(***************************************************************************)
LockWritten == pc = "done" \/ (~setup.vendor /\ pc \in {"cargo lock", "cargo lock cut"})

Rendered == pc \in {"bazel lock", "bazel lock cut"} \/ LockWritten

\* The Cargo.lock there is when a run is done.
LeftLock == IF setup.skip THEN run.lock ELSE NewCargoLock

PlaceInv ==
  /\ pc \in {"deciding", "rendering"} => ~setup.vendor
  /\ pc = "rendering" => setup.lockfile
  /\ pc = "removing" => setup.vendor
  /\ pc \in {"cargo lock", "cargo lock cut"} => setup.cargoLock /\ (setup.vendor \/ ~setup.skip)
  /\ pc \in {"bazel lock cut", "cargo lock cut"} => ~history.quiet
  /\ Described => run.lock.pins = run.context.pins /\ run.lock.internal

\* The inputs a run has read are the present ones as long as none is edited.
InputsRead ==
  history.steady /\ pc # "idle" =>
    /\ run.settings = world.settings
    /\ Described => run.context.member = world.member
    /\ setup.lockfile /\ ~setup.dryRun /\ (pc = "bazel lock cut" \/ LockWritten) =>
         run.checked = world.manifest

\* A run leaves nothing in the directory but the files of its own context.
FilesInv ==
  ~setup.dryRun =>
    /\ \/ pc = "writing"
       \/ setup.vendor /\ pc \in {"cargo lock", "cargo lock cut"}
       \/ ~setup.vendor /\ pc # "idle" /\ ~Rendered
       => files = {}
    /\ Rendered => files = FilesOf(run.context)

CargoLockInv ==
  history.steady /\ setup.cargoLock =>
    /\ setup.skip /\ pc # "cargo lock cut" /\ (Described \/ pc \in {"resolving", "describing"}) =>
         cargoLock = run.lock
    /\ pc = "done" \/ (setup.vendor /\ pc \in {"writing", "bazel lock", "bazel lock cut"}) =>
         cargoLock = LeftLock

BazelLockInv ==
  history.steady /\ setup.lockfile /\ ~setup.dryRun /\ LockWritten =>
    bazelLock = [context |-> run.context,
                 digest |-> Digest(run.context, run.settings, run.checked)]

\* Both lockfiles and the files are of one resolution of the present inputs.
QuietInv ==
  history.quiet /\ ~setup.dryRun =>
    /\ history.steady
    /\ setup.lockfile =>
         /\ Readable(bazelLock)
         /\ bazelLock.digest = Digest(bazelLock.context, world.settings, world.manifest)
         /\ bazelLock.context.manifest = world.manifest
         /\ bazelLock.context.member = world.member
         /\ bazelLock.context.settings = world.settings
    /\ setup.cargoLock =>
         /\ Readable(cargoLock)
         /\ DOMAIN cargoLock.pins = Needed(world.manifest, world.member)
         /\ cargoLock.internal <=> setup.skip \/ setup.vendor \/ ~setup.strip
    /\ setup.lockfile /\ setup.cargoLock => bazelLock.context.pins = cargoLock.pins
    /\ pc = "idle" /\ result \in {"pinned", "served"} =>
         /\ setup.lockfile => files = FilesOf(bazelLock.context)
         /\ setup.cargoLock => files = FilesOf(cargoLock)

\* The lockfile a run works with keeps the pins of the one it found.
RepinInv ==
  /\ history.quiet /\ ~setup.dryRun /\ setup.cargoLock /\ run.request \in {"no", "workspace"}
  /\ Described \/ pc \in {"resolving", "describing"}
  => run.lock.pins = cargoLock.pins

SettledInv ==
  PlaceInv /\ InputsRead /\ FilesInv /\ CargoLockInv /\ BazelLockInv /\ QuietInv /\ RepinInv
------------------------------------------------------------------------------
\* What is pinned and needed stays pinned as it is.
LEMMA ResolvedSame ==
  ASSUME NEW lock \in CargoLocks, Readable(lock),
         DOMAIN lock.pins = Needed(run.manifest, world.member),
         NEW request \in {"no", "workspace"}
  PROVE  Resolved(lock, request).pins = lock.pins
<1>1. Updated(request) = {}
  BY DEF Updated
<1>2. lock.pins \in [DOMAIN lock.pins -> Version]
  BY PinsDomain DEF CargoLocks
<1>3. Resolved(lock, request).pins
        = [c \in DOMAIN lock.pins |-> IF c \in DOMAIN lock.pins THEN lock.pins[c] ELSE world.registry]
  BY <1>1 DEF Resolved, Readable
<1>4. QED
  BY <1>2, <1>3

LEMMA SameFiles ==
  ASSUME NEW a, NEW b, a.pins = b.pins
  PROVE  FilesOf(a) = FilesOf(b)
BY DEF FilesOf

LEMMA NewLockFields ==
  ASSUME TypeOK
  PROVE  /\ NewCargoLock \in CargoLocks
         /\ NewCargoLock.pins = run.lock.pins
         /\ setup.vendor => NewCargoLock = run.lock
         /\ NewCargoLock.internal <=> run.lock.internal /\ (setup.vendor \/ ~setup.strip)
<1>1. run.lock \in CargoLocks
  BY DEF TypeOK, Runs
<1>2. CASE setup.strip /\ ~setup.vendor
  BY <1>1, <1>2 DEF NewCargoLock, CargoLocks
<1>3. CASE ~(setup.strip /\ ~setup.vendor)
  BY <1>1, <1>3 DEF NewCargoLock
<1>4. QED
  BY <1>2, <1>3

\* The user at work: what a run has read and rendered is not touched, and the
\* lockfiles only when the inputs are no longer counted as steady.
LEMMA EnvironmentStep ==
  ASSUME TypeOK, Environment
  PROVE  /\ UNCHANGED <<setup, pc, run, result, files>>
         /\ \/ ~history'.quiet /\ ~history'.steady
            \/ /\ UNCHANGED <<history, cargoLock, bazelLock>>
               /\ world'.manifest = world.manifest
               /\ world'.member = world.member
               /\ world'.settings = world.settings
<1> USE DEF Environment, TypeOK
<1>1. CASE Publish
  BY <1>1 DEF Publish, World
<1>2. CASE ~Publish
  BY <1>2 DEF EditManifest, EditMember, ChangeSettings, UpdateByHand, MergeBazelLock, Disturb,
     Histories
<1>3. QED
  BY <1>1, <1>2

LEMMA PlaceStep ==
  ASSUME TypeOK, PlaceInv, [Next]_vars
  PROVE  PlaceInv'
<1> run \in Runs /\ history \in Histories
  BY DEF TypeOK
<1> USE DEF PlaceInv, Described
<1>1. CASE (\E request \in setup.requests : Start(request)) \/ DetermineRepin \/ RenderLocked \/ Fail
           \/ Done
  BY <1>1 DEF Start, DetermineRepin, RenderLocked, Fail, Done, Goto, End
<1>2. CASE Splice \/ GenerateLockfile \/ LoadLockfile \/ ResolveFeatures
  BY <1>2 DEF Splice, GenerateLockfile, LoadLockfile, ResolveFeatures, Goto
<1>3. CASE Describe
  <2>1. run'.lock = run.lock /\ run'.context.pins = run.lock.pins
    BY <1>3 DEF Describe, Runs
  <2>2. run.lock.internal /\ setup' = setup /\ pc' = IF setup.vendor THEN "removing" ELSE "writing"
    BY <1>3 DEF Describe, Fits, Goto
  <2>3. QED
    BY <2>1, <2>2
<1>4. CASE RemoveVendorDir \/ WriteOutputs \/ NoBazelLock \/ WriteBazelLock \/ KeepCargoLock
           \/ WriteCargoLock
  BY <1>4 DEF RemoveVendorDir, WriteOutputs, NoBazelLock, WriteBazelLock, KeepCargoLock,
     WriteCargoLock, Goto, Afterwards, Histories
<1>5. CASE LockContext \/ UpdateCargoLock
  BY <1>5 DEF LockContext, UpdateCargoLock, Goto, Runs, Histories
<1>6. CASE Environment
  BY <1>6, EnvironmentStep
<1>7. CASE UNCHANGED vars
  BY <1>7 DEF vars
<1>8. QED
  BY <1>1, <1>2, <1>3, <1>4, <1>5, <1>6, <1>7 DEF Next, Program, Pin

LEMMA InputsStep ==
  ASSUME TypeOK, PlaceInv, InputsRead, [Next]_vars
  PROVE  InputsRead'
<1> run \in Runs /\ history \in Histories
  BY DEF TypeOK
<1> USE DEF InputsRead, Described, LockWritten
<1>1. CASE \E request \in setup.requests : Start(request)
  BY <1>1 DEF Start, Runs, IdleRun
<1>2. CASE DetermineRepin \/ RenderLocked \/ Fail \/ Done \/ Splice
  BY <1>2 DEF DetermineRepin, RenderLocked, Fail, Done, Splice, Goto, End, Runs
<1>3. CASE GenerateLockfile \/ LoadLockfile \/ ResolveFeatures
  BY <1>3 DEF GenerateLockfile, LoadLockfile, ResolveFeatures, Goto, Runs
<1>4. CASE Describe
  BY <1>4 DEF Describe, Goto, Runs
<1>5. CASE RemoveVendorDir \/ WriteOutputs \/ NoBazelLock
  BY <1>5 DEF RemoveVendorDir, WriteOutputs, NoBazelLock, Goto, Afterwards, Histories, PlaceInv
<1>6. CASE LockContext
  BY <1>6 DEF LockContext, Goto, Runs, Histories
<1>7. CASE WriteBazelLock
  BY <1>7 DEF WriteBazelLock, Goto, Afterwards, Histories
<1>8. CASE KeepCargoLock \/ UpdateCargoLock \/ WriteCargoLock
  BY <1>8 DEF KeepCargoLock, UpdateCargoLock, WriteCargoLock, Goto, Histories
<1>9. CASE Environment
  BY <1>9, EnvironmentStep
<1>10. CASE UNCHANGED vars
  BY <1>10 DEF vars
<1>11. QED
  BY <1>1, <1>2, <1>3, <1>4, <1>5, <1>6, <1>7, <1>8, <1>9, <1>10 DEF Next, Program, Pin

LEMMA FilesStep ==
  ASSUME TypeOK, PlaceInv, FilesInv, [Next]_vars
  PROVE  FilesInv'
<1> run \in Runs
  BY DEF TypeOK
<1> USE DEF FilesInv, Rendered, LockWritten
<1>1. CASE (\E request \in setup.requests : Start(request)) \/ DetermineRepin \/ RenderLocked \/ Fail
           \/ Done
  BY <1>1 DEF Start, DetermineRepin, RenderLocked, Fail, Done, Goto, End, PlaceInv
<1>2. CASE Splice \/ GenerateLockfile \/ LoadLockfile \/ ResolveFeatures \/ Describe
  BY <1>2 DEF Splice, GenerateLockfile, LoadLockfile, ResolveFeatures, Describe, Goto
<1>3. CASE RemoveVendorDir \/ WriteOutputs
  BY <1>3 DEF RemoveVendorDir, WriteOutputs, Goto, PlaceInv
<1>4. CASE LockContext
  <2>1. run'.context = run.context
    BY <1>4 DEF LockContext, Runs
  <2>2. QED
    BY <1>4, <2>1 DEF LockContext, Goto
<1>5. CASE NoBazelLock \/ WriteBazelLock \/ KeepCargoLock \/ UpdateCargoLock \/ WriteCargoLock
  BY <1>5 DEF NoBazelLock, WriteBazelLock, KeepCargoLock, UpdateCargoLock, WriteCargoLock, Goto,
     Afterwards
<1>6. CASE Environment
  BY <1>6, EnvironmentStep
<1>7. CASE UNCHANGED vars
  BY <1>7 DEF vars
<1>8. QED
  BY <1>1, <1>2, <1>3, <1>4, <1>5, <1>6, <1>7 DEF Next, Program, Pin

\* Inputs that were disturbed count as steady again when the next run starts.
LEMMA SteadyStep ==
  ASSUME TypeOK, [Next]_vars
  PROVE  history'.steady => history.steady \/ pc = "idle"
<1> history \in Histories
  BY DEF TypeOK
<1> USE DEF Histories, Next, Program, Pin, Environment, Disturb, Start, DetermineRepin,
       RenderLocked, Fail, Done, Splice, GenerateLockfile, LoadLockfile, ResolveFeatures, Describe,
       RemoveVendorDir, WriteOutputs, NoBazelLock, LockContext, WriteBazelLock, KeepCargoLock,
       UpdateCargoLock, WriteCargoLock, EditManifest, EditMember, ChangeSettings, Publish,
       UpdateByHand, MergeBazelLock, vars
<1> QED
  OBVIOUS

LEMMA CargoLockStep ==
  ASSUME TypeOK, PlaceInv, CargoLockInv, [Next]_vars
  PROVE  CargoLockInv'
<1> run \in Runs
  BY DEF TypeOK
<1> USE DEF CargoLockInv, Described
<1>0. history'.steady => history.steady \/ pc = "idle"
  BY SteadyStep
<1>1. CASE (\E request \in setup.requests : Start(request)) \/ DetermineRepin \/ RenderLocked \/ Fail
           \/ Done \/ Splice
  BY <1>0, <1>1 DEF Start, DetermineRepin, RenderLocked, Fail, Done, Splice, Goto, End
<1>2. CASE GenerateLockfile \/ LoadLockfile
  BY <1>0, <1>2 DEF GenerateLockfile, LoadLockfile, Goto, Runs
<1>3. CASE ResolveFeatures \/ Describe \/ RemoveVendorDir
  BY <1>0, <1>3 DEF ResolveFeatures, Describe, RemoveVendorDir, Goto, PlaceInv, Runs
<1>4. CASE WriteOutputs \/ LockContext
  <2>1. run'.lock = run.lock /\ UNCHANGED <<setup, cargoLock>>
    BY <1>0, <1>4 DEF WriteOutputs, LockContext, Runs
  <2>2. LeftLock' = LeftLock
    BY <2>1 DEF LeftLock, NewCargoLock
  <2>3. QED
    BY <1>0, <1>4, <2>1, <2>2 DEF WriteOutputs, LockContext, Goto
<1>5. CASE NoBazelLock \/ WriteBazelLock
  BY <1>0, <1>5 DEF NoBazelLock, WriteBazelLock, Goto, Afterwards, LeftLock, NewCargoLock
<1>6. CASE KeepCargoLock \/ UpdateCargoLock \/ WriteCargoLock
  BY <1>0, <1>6 DEF KeepCargoLock, UpdateCargoLock, WriteCargoLock, Goto, PlaceInv, LeftLock, NewCargoLock
<1>7. CASE Environment
  <2>1. /\ UNCHANGED <<setup, pc, run>>
        /\ history'.steady => cargoLock' = cargoLock /\ history' = history
    BY <1>0, <1>7, EnvironmentStep
  <2>2. QED
    BY <2>1 DEF LeftLock, NewCargoLock
<1>8. CASE UNCHANGED vars
  BY <1>0, <1>8 DEF vars, LeftLock, NewCargoLock
<1>9. QED
  BY <1>1, <1>2, <1>3, <1>4, <1>5, <1>6, <1>7, <1>8 DEF Next, Program, Pin

LEMMA BazelLockStep ==
  ASSUME TypeOK, PlaceInv, BazelLockInv, [Next]_vars
  PROVE  BazelLockInv'
<1> USE DEF BazelLockInv, LockWritten
<1>0. history'.steady => history.steady \/ pc = "idle"
  BY SteadyStep
<1>1. CASE (\E request \in setup.requests : Start(request)) \/ DetermineRepin \/ RenderLocked \/ Fail
           \/ Done \/ Splice
  BY <1>0, <1>1 DEF Start, DetermineRepin, RenderLocked, Fail, Done, Splice, Goto, End
<1>2. CASE GenerateLockfile \/ LoadLockfile \/ ResolveFeatures \/ Describe \/ RemoveVendorDir
           \/ WriteOutputs \/ LockContext
  BY <1>0, <1>2 DEF GenerateLockfile, LoadLockfile, ResolveFeatures, Describe, RemoveVendorDir,
     WriteOutputs, LockContext, Goto, PlaceInv
<1>3. CASE NoBazelLock \/ WriteBazelLock \/ KeepCargoLock \/ UpdateCargoLock \/ WriteCargoLock
  BY <1>0, <1>3 DEF NoBazelLock, WriteBazelLock, KeepCargoLock, UpdateCargoLock, WriteCargoLock, Goto
<1>4. CASE Environment
  BY <1>0, <1>4, EnvironmentStep
<1>5. CASE UNCHANGED vars
  BY <1>0, <1>5 DEF vars
<1>6. QED
  BY <1>1, <1>2, <1>3, <1>4, <1>5 DEF Next, Program, Pin

\* An undisturbed run that ends leaves what is of one resolution.
LEMMA DoneIsQuiet ==
  ASSUME TypeOK, RunInv, ManifestsRead, PlaceInv, InputsRead, FilesInv, CargoLockInv, BazelLockInv,
         Done
  PROVE  QuietInv'
<1> SUFFICES ASSUME history.steady, ~setup.dryRun
             PROVE  QuietInv'
  <2>1. (history'.quiet <=> history.steady) /\ setup' = setup
    BY DEF Done, TypeOK, Histories
  <2>2. QED
    BY <2>1 DEF QuietInv
<1>1. pc = "done" /\ history'.steady /\ UNCHANGED <<setup, world, cargoLock, bazelLock, files, run>>
  BY DEF Done, TypeOK, Histories
<1>2. Described /\ LockWritten /\ Rendered
  BY <1>1 DEF Described, LockWritten, Rendered
<1>3. /\ run.context.manifest = world.manifest
      /\ run.context.member = world.member
      /\ run.context.settings = world.settings
      /\ run.settings = world.settings
      /\ DOMAIN run.context.pins = Needed(world.manifest, world.member)
  BY <1>1, <1>2 DEF RunInv, ManifestsRead, InputsRead
<1>4. run.lock.pins = run.context.pins /\ run.lock.internal
  BY <1>2 DEF PlaceInv
<1>5. files = FilesOf(run.context)
  BY <1>2 DEF FilesInv
<1>6. ASSUME setup.lockfile
      PROVE  /\ bazelLock.context = run.context
             /\ bazelLock.digest = Digest(run.context, world.settings, world.manifest)
             /\ Readable(bazelLock)
  <2>1. run.checked = world.manifest
    BY <1>1, <1>2, <1>6 DEF InputsRead
  <2>2. bazelLock = [context |-> run.context,
                     digest |-> Digest(run.context, world.settings, world.manifest)]
    BY <1>2, <1>3, <1>6, <2>1 DEF BazelLockInv
  <2>3. bazelLock \in BazelLocks
    <3>1. run.context \in Contexts /\ world.settings \in Version /\ world.manifest \in Version
      BY DEF TypeOK, Runs, World
    <3>2. QED
      BY <2>2, <3>1 DEF BazelLocks, Digests, Digest
  <2>4. QED
    BY <2>2, <2>3, NoFileAssumption DEF Readable
<1>7. ASSUME setup.cargoLock
      PROVE  /\ cargoLock.pins = run.context.pins
             /\ Readable(cargoLock)
             /\ cargoLock.internal <=> setup.skip \/ setup.vendor \/ ~setup.strip
  <2>1. cargoLock = LeftLock
    BY <1>1, <1>7 DEF CargoLockInv
  <2>2. run.lock \in CargoLocks
    BY DEF TypeOK, Runs
  <2>3. cargoLock \in CargoLocks
    BY <2>1, <2>2, NewLockFields DEF LeftLock
  <2>4. cargoLock.pins = run.context.pins
    BY <1>4, <2>1, NewLockFields DEF LeftLock
  <2>5. cargoLock.internal <=> setup.skip \/ setup.vendor \/ ~setup.strip
    BY <1>4, <2>1, NewLockFields DEF LeftLock
  <2>6. QED
    BY <2>3, <2>4, <2>5, NoFileAssumption DEF Readable
<1>8. /\ setup.lockfile => files = FilesOf(bazelLock.context)
      /\ setup.cargoLock => files = FilesOf(cargoLock)
  BY <1>5, <1>6, <1>7, SameFiles
<1>9. QED
  BY <1>1, <1>3, <1>6, <1>7, <1>8 DEF QuietInv, Readable

LEMMA QuietStep ==
  ASSUME TypeOK, RunInv, ManifestsRead, SettledInv, [Next]_vars
  PROVE  QuietInv'
<1> history \in Histories
  BY DEF TypeOK
<1> USE DEF SettledInv
<1>1. CASE RemoveVendorDir \/ LockContext \/ UpdateCargoLock \/ WriteBazelLock \/ WriteCargoLock
  <2>1. ~history'.quiet
    BY <1>1 DEF RemoveVendorDir, LockContext, UpdateCargoLock, WriteBazelLock, WriteCargoLock,
       Histories, PlaceInv
  <2>2. QED
    BY <2>1 DEF QuietInv
<1>2. CASE Done
  BY <1>2, DoneIsQuiet
<1>3. CASE RenderLocked
  <2>1. /\ UNCHANGED <<setup, world, cargoLock, bazelLock, history>>
        /\ files' = FilesOf(bazelLock.context)
        /\ setup.lockfile
    BY <1>3 DEF RenderLocked, PlaceInv
  <2>2. QED
    BY <2>1, SameFiles DEF QuietInv, Readable
<1>4. CASE \/ \E request \in setup.requests : Start(request)
           \/ DetermineRepin \/ Fail \/ Splice \/ GenerateLockfile \/ LoadLockfile
           \/ ResolveFeatures \/ Describe \/ WriteOutputs \/ NoBazelLock \/ KeepCargoLock
  <2>1. /\ UNCHANGED <<setup, world, cargoLock, bazelLock>>
        /\ history'.quiet = history.quiet
        /\ history.steady => history'.steady
    BY <1>4 DEF Start, DetermineRepin, Fail, Splice, GenerateLockfile, LoadLockfile,
       ResolveFeatures, Describe, WriteOutputs, NoBazelLock, KeepCargoLock, Histories
  <2>2. ~(pc' = "idle" /\ result' \in {"pinned", "served"})
    BY <1>4 DEF Start, DetermineRepin, Fail, Splice, GenerateLockfile, LoadLockfile,
       ResolveFeatures, Describe, WriteOutputs, NoBazelLock, KeepCargoLock, Goto, End, Afterwards
  <2>3. QED
    BY <2>1, <2>2 DEF QuietInv, Readable
<1>5. CASE Environment
  BY <1>5, EnvironmentStep DEF QuietInv, Readable
<1>6. CASE UNCHANGED vars
  BY <1>6 DEF vars, QuietInv, Readable
<1>7. QED
  BY <1>1, <1>2, <1>3, <1>4, <1>5, <1>6 DEF Next, Program, Pin

LEMMA RepinStep ==
  ASSUME TypeOK, ManifestsRead, SettledInv, [Next]_vars
  PROVE  RepinInv'
<1> run \in Runs /\ history \in Histories
  BY DEF TypeOK
<1> USE DEF SettledInv, Described
<1>1. CASE (\E request \in setup.requests : Start(request)) \/ DetermineRepin \/ RenderLocked \/ Fail
           \/ Done \/ Splice
  BY <1>1 DEF Start, DetermineRepin, RenderLocked, Fail, Done, Splice, Goto, End, RepinInv
<1>2. CASE RemoveVendorDir \/ LockContext \/ UpdateCargoLock \/ WriteBazelLock \/ WriteCargoLock
  BY <1>2 DEF RemoveVendorDir, LockContext, UpdateCargoLock, WriteBazelLock, WriteCargoLock,
     Histories, PlaceInv, RepinInv
<1>3. CASE GenerateLockfile
  <2> SUFFICES ASSUME history.quiet, ~setup.dryRun, setup.cargoLock,
                      run.request \in {"no", "workspace"}
               PROVE  run'.lock.pins = cargoLock'.pins
    BY <1>3 DEF GenerateLockfile, Runs, RepinInv
  <2>1. Readable(cargoLock) /\ DOMAIN cargoLock.pins = Needed(run.manifest, world.member)
    BY <1>3 DEF GenerateLockfile, QuietInv, ManifestsRead
  <2>2. cargoLock \in CargoLocks
    BY <2>1 DEF Readable, TypeOK
  <2>3. Resolved(cargoLock, run.request).pins = cargoLock.pins
    BY <2>1, <2>2, ResolvedSame
  <2>4. run'.lock = Resolved(cargoLock, run.request) /\ cargoLock' = cargoLock
    BY <1>3 DEF GenerateLockfile, Runs
  <2>5. QED
    BY <2>3, <2>4
<1>4. CASE LoadLockfile
  BY <1>4 DEF LoadLockfile, Runs, RepinInv
<1>5. CASE ResolveFeatures \/ Describe \/ WriteOutputs \/ NoBazelLock \/ KeepCargoLock
  BY <1>5 DEF ResolveFeatures, Describe, WriteOutputs, NoBazelLock, KeepCargoLock, Goto, Runs,
     RepinInv
<1>6. CASE Environment
  BY <1>6, EnvironmentStep DEF RepinInv
<1>7. CASE UNCHANGED vars
  BY <1>7 DEF vars, RepinInv
<1>8. QED
  BY <1>1, <1>2, <1>3, <1>4, <1>5, <1>6, <1>7 DEF Next, Program, Pin

\* Pinning once more finds the context that was pinned before.
LEMMA RepinsAlike ==
  ASSUME TypeOK, RunInv, ManifestsRead, SettledInv
  PROVE  RepinSettles
<1> SUFFICES ASSUME history.quiet, ~setup.dryRun, setup.cargoLock, pc \in {"removing", "writing"},
                    run.request \in {"no", "workspace"}
             PROVE  /\ setup.vendor \/ ~setup.skip => NewCargoLock = cargoLock
                    /\ setup.lockfile => run.context = bazelLock.context
  BY DEF RepinSettles
<1> USE DEF SettledInv
<1>1. Described
  BY DEF Described
<1>2. run.lock.pins = cargoLock.pins /\ run.lock.pins = run.context.pins /\ run.lock.internal
  BY <1>1 DEF RepinInv, PlaceInv
<1>3. ASSUME setup.vendor \/ ~setup.skip
      PROVE  NewCargoLock = cargoLock
  <2>1. cargoLock \in CargoLocks
    BY DEF QuietInv, Readable, TypeOK
  <2>2. NewCargoLock.internal <=> cargoLock.internal
    <3>1. CASE setup.vendor
      BY <1>2, <3>1, NewLockFields DEF QuietInv
    <3>2. CASE ~setup.skip
      BY <1>2, <3>2, NewLockFields DEF QuietInv
    <3>3. QED
      BY <1>3, <3>1, <3>2
  <2>3. NewCargoLock \in CargoLocks /\ NewCargoLock.pins = cargoLock.pins
    BY <1>2, NewLockFields
  <2>4. \A a, b \in CargoLocks : a.pins = b.pins /\ (a.internal <=> b.internal) => a = b
    BY DEF CargoLocks
  <2>5. QED
    BY <2>1, <2>2, <2>3, <2>4
<1>4. ASSUME setup.lockfile
      PROVE  run.context = bazelLock.context
  <2>1. run.context \in Contexts /\ bazelLock.context \in Contexts
    BY <1>4 DEF QuietInv, Readable, TypeOK, Runs, BazelLocks
  <2>2. run.context.pins = bazelLock.context.pins
    BY <1>2, <1>4 DEF QuietInv
  <2>3. /\ run.context.manifest = bazelLock.context.manifest
        /\ run.context.member = bazelLock.context.member
        /\ run.context.settings = bazelLock.context.settings
    BY <1>1, <1>4 DEF QuietInv, RunInv, ManifestsRead, InputsRead
  <2>4. \A a, b \in Contexts : a.pins = b.pins /\ a.manifest = b.manifest /\ a.member = b.member
                                 /\ a.settings = b.settings => a = b
    BY DEF Contexts
  <2>5. QED
    BY <2>1, <2>2, <2>3, <2>4
<1>5. QED
  BY <1>3, <1>4

(* While nobody edits anything, Cargo.lock, the Bazel lockfile and the     *)
(* rendered files are of the same pins, whatever runs come and fail, and   *)
(* pinning again finds what is there (generate, update_cargo_lockfile,     *)
(* write_lockfile).                                                        *)
THEOREM LocksAreSettled == Spec => []LocksSettled
<1>1. Init => ManifestsRead /\ SettledInv
  <2>1. ASSUME Init PROVE pc = "idle" /\ result = "none" /\ ~history.quiet /\ ~history.steady
    BY <2>1 DEF Init
  <2>2. QED
    BY <2>1 DEF ManifestsRead, SettledInv, PlaceInv, InputsRead, FilesInv, CargoLockInv,
       BazelLockInv, QuietInv, RepinInv, Described, LockWritten, Rendered
<1>2. IInv /\ ManifestsRead /\ SettledInv /\ [Next]_vars => ManifestsRead' /\ SettledInv'
  <2> SUFFICES ASSUME TypeOK, RunInv, ManifestsRead, SettledInv, [Next]_vars
               PROVE  ManifestsRead' /\ SettledInv'
    BY DEF IInv
  <2>1. PlaceInv' /\ InputsRead' /\ FilesInv' /\ CargoLockInv' /\ BazelLockInv'
    BY PlaceStep, InputsStep, FilesStep, CargoLockStep, BazelLockStep DEF SettledInv
  <2>2. ManifestsRead' /\ QuietInv' /\ RepinInv'
    BY ManifestsStep, QuietStep, RepinStep
  <2>3. QED
    BY <2>1, <2>2 DEF SettledInv
<1>3. IInv /\ ManifestsRead /\ SettledInv => LocksSettled
  <2>1. SettledInv => LocksAgree
    BY DEF SettledInv, QuietInv, LocksAgree
  <2>2. QED
    BY <2>1, RepinsAlike DEF IInv, LocksSettled
<1>4. QED
  BY <1>1, <1>2, <1>3, IInvInductive, PTL DEF Spec
=============================================================================
