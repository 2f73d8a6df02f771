-------------------------- MODULE Generators_proofs --------------------------
(***************************************************************************)
(* Proofs about the two programs that generate sources while a crate is    *)
(* built.  The runner of build scripts, for any paths, runfiles, entries   *)
(* of the exec root and scripts: what is captured, what the runner fails   *)
(* for, and that what a script printed reaches those it is for.  And the   *)
(* wrapper of protoc, for any targets built in any order: that lib.rs has  *)
(* what protoc generated, all of it and nothing else.                      *)
(***************************************************************************)
EXTENDS BuildScriptRunner, ProtocWrapper, FiniteSetTheorems, NaturalsInduction, SequenceTheorems,
        WellFoundedInduction, TLAPS

(***************************************************************************)
(* What is at a path after each stage, as a function of the action alone.  *)
(***************************************************************************)
LaidOut == IF action.symlinks THEN "link" ELSE "copy"
Base(p) == IF p \in action.runfiles THEN LaidOut ELSE IF p \in Laid THEN "dir" ELSE "absent"
WithLinks(p, done) == IF p \in done \ Laid THEN "exec_link" ELSE Base(p)
Standing == {Top} \union Dirs \union Made
Scripted(p) ==
  IF p \in Dirs \/ Parent[p] \notin Standing THEN WithLinks(p, Linked)
  ELSE IF p \in action.script.makes THEN "dir"
  ELSE IF p \in action.script.writes THEN "file"
  ELSE IF p \in action.script.deletes THEN "absent" ELSE WithLinks(p, Linked)
Unlinked(p) == IF p \in Linked THEN "absent" ELSE Scripted(p)
Drained(p) ==
  IF action.symlinks THEN IF p \in action.retain THEN "copy" ELSE "absent"
  ELSE IF p \in action.retain THEN "absent" ELSE Unlinked(p)

(***************************************************************************)
(* The stages.                                                             *)
(***************************************************************************)
LayoutInv ==
  pc = "layout" =>
    /\ todo \subseteq action.runfiles /\ execLinks = {}
    /\ \A p \in Path :
         tree[p] = IF p \in action.runfiles THEN IF p \in todo THEN "absent" ELSE LaidOut
                   ELSE IF \E r \in action.runfiles \ todo : p \in Ancestors(r) THEN "dir" ELSE "absent"

ExecLinksInv ==
  pc = "exec_links" =>
    /\ todo \subseteq Linked /\ execLinks = Linked \ todo
    /\ \A p \in Path : tree[p] = WithLinks(p, execLinks)
    /\ \A e \in execLinks \ Laid : Manifest \in Laid /\ action.symlinks

Late == {"replace", "sweep", "mark"}
Running == {"script", "write", "unlink", "drain"} \union Late
ReadyInv ==
  /\ pc \in Running \union {"environment"} => execLinks = Linked /\ ~NowhereToLink
  /\ pc \in {"environment", "script"} => \A p \in Path : tree[p] = WithLinks(p, Linked)
  /\ pc \in Running => action.rundir # "invalid" /\ action.depEnv = "good"
  /\ pc \in Running \ {"script"} => action.script.succeeds /\ ~NowhereToRun
  /\ pc \in {"write", "unlink", "drain"} => out = action.script.out

Gone(what) == what \in {"absent", "dir"}
UnlinkInv ==
  /\ pc = "write" => \A p \in Path : tree[p] = Scripted(p)
  /\ pc = "unlink" =>
       /\ todo \subseteq Linked
       /\ \A p \in Path : tree[p] = IF p \in Linked \ todo THEN "absent" ELSE Scripted(p)
       /\ \A e \in Linked \ todo : ~Gone(Scripted(e))
  /\ pc \in {"drain"} \union Late => \A e \in Linked : ~Gone(Scripted(e))

\* Where runfiles are links, a directory that is left is the script's, or has in it
\* one of the script's, a file, or a runfile that is to be drained.
Held(d) ==
  \/ d \in Made
  \/ \E p \in Path : d \in Ancestors(p) /\ (p \in todo \/ p \in Made \/ tree[p] \in {"copy", "file"})
DrainInv ==
  pc = "drain" =>
    /\ todo \subseteq action.runfiles
    /\ \A p \in Path : IF p \in Dirs THEN Gone(tree[p])
                       ELSE tree[p] = IF p \in action.runfiles \ todo THEN Drained(p) ELSE Unlinked(p)
    /\ \A p \in Path : tree[p] # "absent" => \A d \in Ancestors(p) \ {Top} : tree[d] = "dir"
    /\ action.symlinks => \A d \in Path : tree[d] = "dir" => Held(d)
RunfilesLeft ==
  \A p \in action.runfiles \ (IF pc = "drain" THEN todo ELSE {}) :
    Gone(Unlinked(p)) => ~action.symlinks /\ p \notin action.retain

Occupied(d) ==
  d \in Made \/ \E p \in Path : d \in Ancestors(p) /\ (p \in Made \/ tree[p] \in {"copy", "file"})

DrainedInv ==
  pc \in Late =>
    /\ \A p \in Path : ~Gone(tree[p]) <=> OutlivesDraining(p)
    /\ \A p \in Path : tree[p] \in {"absent", "dir", "copy", "file"}
    /\ \E p \in Path : ~Gone(tree[p])
    /\ ~NowhereToMark
    /\ action.symlinks =>
         /\ \A p \in action.runfiles : tree[p] = IF p \in action.retain THEN "copy" ELSE "absent"
         /\ \A d \in Path : tree[d] = "dir" <=> Occupied(d)

\* What is left of what the script left, if the file system refuses to remove some of it.
Swept(o, from) ==
  LET left == Plain(action.script.out[o])
  IN  IF left.is = "file" /\ o \in Volatile \ from THEN Is("absent") ELSE left

ReplaceInv ==
  /\ pc = "replace" =>
       /\ todo = {o \in OutPath : out[o].is \in AbsoluteLink}
       /\ \A o \in OutPath : \/ out[o] = action.script.out[o]
                             \/ out[o] = Is("file") /\ LeadsToFile(action.script.out[o])
  /\ pc = "sweep" => \A o \in OutPath : out[o] = Plain(action.script.out[o])
  /\ pc = "mark" => \A o \in OutPath : out[o] = Swept(o, refused)
  /\ pc \in {"sweep", "mark"} => ~LeavesDeadLink

IInv ==
  /\ TypeOK
  /\ LayoutInv /\ ExecLinksInv /\ ReadyInv /\ UnlinkInv
  /\ DrainInv /\ (pc \in {"drain"} \union Late => RunfilesLeft) /\ DrainedInv /\ ReplaceInv
  /\ FailsForCause /\ RunfilesCaptured /\ OutDirCaptured

(***************************************************************************)
(* Facts about an action alone.                                            *)
(***************************************************************************)
LEMMA ActionFacts ==
  ASSUME action \in Actions
  PROVE  /\ action.runfiles \subseteq Path /\ action.runfiles # {}
         /\ action.retain \subseteq action.runfiles
         /\ action.execRoot \subseteq Path
         /\ action.linkExecRoot \in BOOLEAN /\ action.symlinks \in BOOLEAN
         /\ action.script.succeeds \in BOOLEAN
         /\ action.script.out \in [OutPath -> OutNode] /\ action.script.writes \subseteq Path
         /\ action.script.makes \subseteq Path
         /\ WellFormed(action)
<1>1. action \in ActionRecord /\ WellFormed(action)
  BY RunnerAssumption
<1>2. QED
  BY <1>1 DEF ActionRecord, WellFormed

LEMMA PathFacts ==
  ASSUME action \in Actions
  PROVE  /\ Linked \subseteq Path /\ \A e \in Linked : Parent[e] = Manifest
         /\ action.runfiles \subseteq Laid /\ Laid \subseteq Path \union {Top}
         /\ \A p \in Laid \intersect Path : Ancestors(p) \subseteq Dirs
         /\ \A p \in Path : Parent[p] \in Ancestors(p) /\ Ancestors(p) \subseteq Path \union {Top}
         /\ Manifest \in Path /\ (Manifest \in Laid <=> Manifest \in Dirs)
         /\ \A e \in Linked \intersect Laid : Manifest \in Laid
         /\ EmptyMarker \in Path /\ EmptyMarker \notin Laid \union Linked
<1> USE ActionFacts
<1>1. Linked \subseteq Path /\ \A e \in Linked : Parent[e] = Manifest
  BY DEF Linked, WellFormed
<1>2. \A p \in Path : Parent[p] \in Ancestors(p) /\ Ancestors(p) \subseteq Path \union {Top}
  BY RunnerAssumption DEF PathsNest
<1>3. action.runfiles \subseteq Laid /\ Laid \subseteq Path \union {Top}
  BY <1>2 DEF Laid
<1>4. ASSUME NEW p \in Laid \intersect Path PROVE Ancestors(p) \subseteq Dirs
  <2>1. PICK r \in action.runfiles : p = r \/ p \in Ancestors(r)
    BY DEF Laid
  <2>2. Ancestors(p) \subseteq Ancestors(r)
    BY <2>1, RunnerAssumption DEF PathsNest
  <2>3. Ancestors(r) \subseteq Dirs
    BY DEF Dirs, Laid, WellFormed
  <2>4. QED
    BY <2>2, <2>3
<1>5. Manifest \in Path /\ (Manifest \in Laid <=> Manifest \in Dirs)
  BY RunnerAssumption DEF WellFormed, Dirs
<1>6. \A e \in Linked \intersect Laid : Manifest \in Laid
  BY <1>1, <1>2, <1>4 DEF Dirs
<1>7. EmptyMarker \in Path /\ EmptyMarker \notin Laid \union Linked
  BY RunnerAssumption DEF WellFormed, Laid, Linked
<1>8. QED
  BY <1>1, <1>2, <1>3, <1>4, <1>5, <1>6, <1>7

\* The directories the script made are in directories, the layout's or the script's.
LEMMA MadeNest ==
  ASSUME action \in Actions
  PROVE  /\ Made \subseteq Path /\ Made \intersect Dirs = {} /\ Made \subseteq action.script.makes
         /\ \A d \in Dirs \union Made : Ancestors(d) \subseteq Standing
         /\ \A p \in action.script.makes \ Dirs : Parent[p] \in Standing => p \in Made
         /\ \A p \in Made : Parent[p] \in Standing
<1> USE ActionFacts
<1>1. Made \subseteq Path /\ Made \intersect Dirs = {} /\ Made \subseteq action.script.makes
  BY DEF Made
<1>2. ASSUME NEW d \in Dirs PROVE Ancestors(d) \subseteq Standing
  <2>1. CASE d = Top
    BY <2>1, RunnerAssumption DEF PathsNest
  <2>2. CASE d # Top
    BY <2>2, PathFacts DEF Dirs, Standing
  <2>3. QED
    BY <2>1, <2>2
<1>3. ASSUME NEW d \in Made PROVE Ancestors(d) \subseteq Standing
  <2>1. SUFFICES ASSUME NEW a \in Ancestors(d), a \notin {Top} \union Dirs PROVE a \in Made
    BY DEF Standing
  <2>2. a \in action.script.makes \ Dirs /\ d \in Path
    BY <2>1, <1>1 DEF Made
  <2>3. Ancestors(a) \subseteq Ancestors(d)
    BY <2>1, <2>2, RunnerAssumption DEF PathsNest
  <2>4. QED
    BY <2>2, <2>3 DEF Made
<1>4. ASSUME NEW p \in action.script.makes \ Dirs, Parent[p] \in Standing PROVE p \in Made
  <2>1. Ancestors(p) = {Parent[p]} \union Ancestors(Parent[p])
    BY RunnerAssumption DEF PathsNest
  <2>2. Ancestors(Parent[p]) \subseteq Standing
    BY <1>2, <1>3, <1>4, RunnerAssumption DEF Standing, PathsNest
  <2>3. QED
    BY <1>1, <1>4, <2>1, <2>2 DEF Made, Standing
<1>5. \A p \in Made : Parent[p] \in Standing
  BY <1>1, <1>3, PathFacts
<1>6. QED
  BY <1>1, <1>2, <1>3, <1>4, <1>5

LEMMA NodeFacts ==
  ASSUME action \in Actions, NEW p \in Path
  PROVE  /\ Base(p) \in Node /\ WithLinks(p, Linked) \in Node /\ Scripted(p) \in Node
         /\ Unlinked(p) \in Node /\ Drained(p) \in Node
         /\ Base(p) = "dir" <=> p \in Dirs
         /\ WithLinks(p, Linked) = "dir" <=> p \in Dirs
         /\ Scripted(p) = "dir" <=> p \in Dirs \union Made
<1>1. /\ Base(p) \in Node /\ WithLinks(p, Linked) \in Node /\ Scripted(p) \in Node
      /\ Unlinked(p) \in Node /\ Drained(p) \in Node
      /\ Base(p) = "dir" <=> p \in Dirs
      /\ WithLinks(p, Linked) = "dir" <=> p \in Dirs
  BY PathFacts DEF Base, LaidOut, WithLinks, Scripted, Unlinked, Drained, Node, Dirs
<1>2. Scripted(p) = "dir" <=> p \in Dirs \union Made
  BY <1>1, MadeNest DEF Scripted
<1>3. QED
  BY <1>1, <1>2

(***************************************************************************)
(* Types.                                                                  *)
(***************************************************************************)
LEMMA TypeStep ==
  ASSUME TypeOK, [Next]_vars
  PROVE  TypeOK'
<1> USE DEF TypeOK
<1>1. action' = action /\ action \in Actions
  BY DEF Next, CreateRunfile, LinkExecEntry, RemoveExecLink, DrainRunfile, ReplaceLink, LayoutDone,
         ExecLinksDone, PrepareEnvironment, RunScript, WriteOutputs, UnlinkDone, DrainDone,
         ReplaceDone, Sweep, MarkOutDir, InputOutputFails, Ended, vars
<1>2. /\ pc' \in Stages /\ result' \in {"none", "failed", "io", "success"}
      /\ pc' = "ended" <=> result' # "none"
  BY DEF Next, CreateRunfile, LinkExecEntry, RemoveExecLink, DrainRunfile, ReplaceLink, LayoutDone,
         ExecLinksDone, PrepareEnvironment, RunScript, WriteOutputs, UnlinkDone, DrainDone,
         ReplaceDone, Sweep, MarkOutDir, InputOutputFails, Ended, vars, Fail, Stages
<1>3. todo' \subseteq Path \union OutPath /\ execLinks' \subseteq Path
  BY ActionFacts
     DEF Next, CreateRunfile, LinkExecEntry, RemoveExecLink, DrainRunfile, ReplaceLink, LayoutDone,
         ExecLinksDone, PrepareEnvironment, RunScript, WriteOutputs, UnlinkDone, DrainDone,
         ReplaceDone, Sweep, MarkOutDir, InputOutputFails, Ended, vars, Fail
<1>4. DOMAIN written' = Files
  BY DEF Next, CreateRunfile, LinkExecEntry, RemoveExecLink, DrainRunfile, ReplaceLink, LayoutDone,
         ExecLinksDone, PrepareEnvironment, RunScript, WriteOutputs, UnlinkDone, DrainDone,
         ReplaceDone, Sweep, MarkOutDir, InputOutputFails, Ended, vars, Files
<1>5. tree' \in [Path -> Node]
  <2>1. ASSUME NEW p \in Path, CreateRunfile(p) PROVE tree' \in [Path -> Node]
    BY <2>1 DEF CreateRunfile, Node
  <2>2. ASSUME NEW p \in Path, LinkExecEntry(p) PROVE tree' \in [Path -> Node]
    BY <2>2 DEF LinkExecEntry, Node
  <2>3. ASSUME NEW p \in Path, RemoveExecLink(p) PROVE tree' \in [Path -> Node]
    BY <2>3 DEF RemoveExecLink, Node
  <2>4. ASSUME NEW p \in Path, DrainRunfile(p) PROVE tree' \in [Path -> Node]
    BY <2>4 DEF DrainRunfile, Pruned, Node
  <2>5. CASE RunScript
    BY <2>5 DEF RunScript, Node
  <2>6. CASE DrainDone
    BY <2>6 DEF DrainDone, Node
  <2>7. CASE UNCHANGED tree
    BY <2>7
  <2>8. QED
    BY <2>1, <2>2, <2>3, <2>4, <2>5, <2>6, <2>7
       DEF Next, ReplaceLink, LayoutDone, ExecLinksDone, PrepareEnvironment, WriteOutputs,
           UnlinkDone, ReplaceDone, Sweep, MarkOutDir, InputOutputFails, Ended, vars
<1>6. out' \in [OutPath -> OutNode]
  <2>1. Is("file") \in OutNode /\ Is("absent") \in OutNode
    BY DEF OutNode, Elsewhere
  <2>2. ASSUME NEW o \in OutPath, ReplaceLink(o) PROVE out' \in [OutPath -> OutNode]
    BY <2>1, <2>2 DEF ReplaceLink
  <2>3. CASE RunScript
    BY <2>3, ActionFacts DEF RunScript
  <2>4. CASE Sweep \/ MarkOutDir
    BY <2>1, <2>4 DEF Sweep, MarkOutDir
  <2>5. CASE UNCHANGED out
    BY <2>5
  <2>6. QED
    BY <2>2, <2>3, <2>4, <2>5
       DEF Next, CreateRunfile, LinkExecEntry, RemoveExecLink, DrainRunfile, LayoutDone, ExecLinksDone,
           PrepareEnvironment, WriteOutputs, UnlinkDone, DrainDone, ReplaceDone, InputOutputFails,
           Ended, vars
<1>7. refused' \subseteq OutPath \union {Top}
  <2>1. CASE Sweep
    BY <2>1 DEF Sweep
  <2>2. CASE MarkOutDir
    BY <2>2 DEF MarkOutDir
  <2>3. CASE UNCHANGED refused
    BY <2>3
  <2>4. QED
    BY <2>1, <2>2, <2>3
       DEF Next, CreateRunfile, LinkExecEntry, RemoveExecLink, DrainRunfile, ReplaceLink, LayoutDone,
           ExecLinksDone, PrepareEnvironment, RunScript, WriteOutputs, UnlinkDone, DrainDone,
           ReplaceDone, InputOutputFails, Ended, vars
<1>8. QED
  BY <1>1, <1>2, <1>3, <1>4, <1>5, <1>6, <1>7

(***************************************************************************)
(* What does not change, and steps that end the run or go on.              *)
(***************************************************************************)
LEMMA SameAction ==
  ASSUME action' = action
  PROVE  /\ Dirs' = Dirs /\ Laid' = Laid /\ Linked' = Linked /\ LaidOut' = LaidOut
         /\ Made' = Made /\ NowhereToMark' = NowhereToMark
         /\ NowhereToLink' = NowhereToLink /\ NowhereToRun' = NowhereToRun
         /\ \A p \in Path : /\ Base(p)' = Base(p) /\ Scripted(p)' = Scripted(p)
                            /\ WithLinks(p, Linked)' = WithLinks(p, Linked)
                            /\ Unlinked(p)' = Unlinked(p) /\ Drained(p)' = Drained(p)
                            /\ OutlivesDraining(p)' = OutlivesDraining(p)
         /\ LeavesDeadLink' = LeavesDeadLink /\ Cause' = Cause
<1>1. /\ Dirs' = Dirs /\ Laid' = Laid /\ Linked' = Linked /\ LaidOut' = LaidOut
      /\ Made' = Made /\ Standing' = Standing
  BY DEF Dirs, Laid, Linked, LaidOut, Made, Standing
<1>2. NowhereToLink' = NowhereToLink /\ NowhereToRun' = NowhereToRun
  BY <1>1 DEF NowhereToLink, NowhereToRun
<1>3. ASSUME NEW p \in Path
      PROVE  Base(p)' = Base(p) /\ WithLinks(p, Linked)' = WithLinks(p, Linked)
  BY <1>1 DEF Base, WithLinks
<1>4. ASSUME NEW p \in Path
      PROVE  Scripted(p)' = Scripted(p) /\ Unlinked(p)' = Unlinked(p) /\ Drained(p)' = Drained(p)
  BY <1>1, <1>3 DEF Scripted, Unlinked, Drained
<1>5. Survivors' = Survivors
  BY <1>1 DEF Survivors, Adds
<1>6. NowhereToMark' = NowhereToMark /\ \A p : OutlivesDraining(p)' = OutlivesDraining(p)
  BY <1>1, <1>5 DEF OutlivesDraining, NowhereToMark
<1>7. LeavesDeadLink' = LeavesDeadLink
  BY <1>5 DEF LeavesDeadLink, OutlivesDraining
<1>8. Cause' = Cause
  BY <1>1, <1>2, <1>6, <1>7 DEF Cause, Collides, Deletes
<1>9. QED
  BY <1>1, <1>2, <1>3, <1>4, <1>6, <1>7, <1>8

LEMMA EndedStep ==
  ASSUME TypeOK', action' = action, pc' = "ended", result' \in {"failed", "io"},
         result' = "failed" => Cause
  PROVE  IInv'
<1>1. FailsForCause'
  BY SameAction DEF FailsForCause
<1>2. QED
  BY <1>1 DEF IInv, LayoutInv, ExecLinksInv, ReadyInv, Running, Late, UnlinkInv, DrainInv, DrainedInv,
              ReplaceInv, RunfilesCaptured, OutDirCaptured

LEMMA GoingOn ==
  ASSUME TypeOK', pc' # "ended"
  PROVE  FailsForCause' /\ RunfilesCaptured' /\ OutDirCaptured'
BY DEF TypeOK, FailsForCause, RunfilesCaptured, OutDirCaptured

(***************************************************************************)
(* The layout and the links to the exec root.                              *)
(***************************************************************************)
LEMMA InitIInv == Init => IInv
<1> SUFFICES ASSUME Init PROVE IInv
  OBVIOUS
<1>1. TypeOK
  <2>1. Is("absent") \in OutNode
    BY DEF OutNode, Elsewhere
  <2>2. action.runfiles \subseteq Path
    BY ActionFacts DEF Init
  <2>3. QED
    BY <2>1, <2>2 DEF Init, TypeOK, Node, Stages, Files, Nothing
<1>2. LayoutInv
  BY DEF Init, LayoutInv
<1>3. QED
  BY <1>1, <1>2
     DEF Init, IInv, ExecLinksInv, ReadyInv, Running, Late, UnlinkInv, DrainInv, DrainedInv, ReplaceInv,
         FailsForCause, RunfilesCaptured, OutDirCaptured

LEMMA CreateRunfileStep ==
  ASSUME IInv, TypeOK', NEW p \in Path, CreateRunfile(p)
  PROVE  IInv'
<1>1. /\ pc = "layout" /\ p \in todo /\ todo' = todo \ {p} /\ action' = action
      /\ pc' = pc /\ execLinks' = execLinks /\ result' = result
      /\ todo \subseteq action.runfiles /\ execLinks = {} /\ action \in Actions
  BY DEF CreateRunfile, IInv, LayoutInv, TypeOK
<1>2. ASSUME NEW q \in Path
      PROVE  tree'[q] = IF q \in action.runfiles THEN IF q \in todo' THEN "absent" ELSE LaidOut
                        ELSE IF \E r \in action.runfiles \ todo' : q \in Ancestors(r) THEN "dir" ELSE "absent"
  <2>1. tree'[q] = IF q = p THEN LaidOut ELSE IF q \in Ancestors(p) THEN "dir" ELSE tree[q]
    BY DEF CreateRunfile, LaidOut
  <2>2. q \in action.runfiles => q \notin Ancestors(p)
    BY <1>1, ActionFacts DEF WellFormed
  <2>3. tree[q] = IF q \in action.runfiles THEN IF q \in todo THEN "absent" ELSE LaidOut
                  ELSE IF \E r \in action.runfiles \ todo : q \in Ancestors(r) THEN "dir" ELSE "absent"
    BY <1>1 DEF IInv, LayoutInv
  <2>4. action.runfiles \ todo' = (action.runfiles \ todo) \union {p}
    BY <1>1
  <2>5. QED
    BY <1>1, <2>1, <2>2, <2>3, <2>4
<1>3. LayoutInv'
  BY <1>1, <1>2, SameAction DEF LayoutInv
<1>4. QED
  BY <1>1, <1>3, GoingOn
     DEF IInv, ExecLinksInv, ReadyInv, Running, Late, UnlinkInv, DrainInv, DrainedInv, ReplaceInv

LEMMA LayoutDoneStep ==
  ASSUME IInv, TypeOK', LayoutDone
  PROVE  IInv'
<1>1. /\ pc = "layout" /\ todo = {} /\ action' = action /\ tree' = tree
      /\ execLinks' = execLinks /\ execLinks = {} /\ action \in Actions
      /\ IF action.linkExecRoot
         THEN pc' = "exec_links" /\ todo' = action.execRoot ELSE pc' = "environment" /\ todo' = {}
  BY DEF LayoutDone, IInv, LayoutInv, TypeOK
<1>2. \A p \in Path : tree[p] = Base(p)
  BY <1>1, PathFacts DEF IInv, LayoutInv, Base, Laid
<1>3. CASE action.linkExecRoot
  <2>1. todo' = Linked /\ pc' = "exec_links"
    BY <1>1, <1>3 DEF Linked
  <2>2. ExecLinksInv'
    BY <1>1, <1>2, <2>1, SameAction DEF ExecLinksInv, WithLinks
  <2>3. QED
    BY <1>1, <2>1, <2>2, GoingOn
       DEF IInv, LayoutInv, ReadyInv, Running, Late, UnlinkInv, DrainInv, DrainedInv, ReplaceInv
<1>4. CASE ~action.linkExecRoot
  <2>1. Linked = {} /\ pc' = "environment"
    BY <1>1, <1>4 DEF Linked
  <2>2. ReadyInv'
    BY <1>1, <1>2, <2>1, SameAction DEF ReadyInv, Running, Late, WithLinks, NowhereToLink
  <2>3. QED
    BY <1>1, <2>1, <2>2, GoingOn
       DEF IInv, LayoutInv, ExecLinksInv, UnlinkInv, DrainInv, DrainedInv, ReplaceInv, Late
<1>5. QED
  BY <1>3, <1>4

LEMMA LinkExecEntryStep ==
  ASSUME IInv, TypeOK', NEW e \in Path, LinkExecEntry(e)
  PROVE  IInv'
<1>1. /\ pc = "exec_links" /\ e \in todo /\ action' = action /\ action \in Actions
      /\ todo \subseteq Linked /\ execLinks = Linked \ todo /\ tree \in [Path -> Node]
      /\ \A p \in Path : tree[p] = WithLinks(p, execLinks)
      /\ \A d \in execLinks \ Laid : Manifest \in Laid /\ action.symlinks
  BY DEF LinkExecEntry, IInv, ExecLinksInv, TypeOK
<1>2. e \in Linked /\ e \notin execLinks /\ Manifest \in Path /\ Manifest # Top
  BY <1>1, PathFacts, RunnerAssumption
<1>3. /\ tree[e] = Base(e)
      /\ Base(e) = "absent" <=> e \notin Laid
  BY <1>1, <1>2, PathFacts DEF WithLinks, Base, LaidOut
<1>4. IsDir(Manifest) <=> Manifest \in Laid
  <2>1. Manifest \notin Linked
    BY <1>1, PathFacts, RunnerAssumption DEF PathsNest
  <2>2. tree[Manifest] = Base(Manifest)
    BY <1>1, <1>2, <2>1 DEF WithLinks
  <2>3. QED
    BY <1>1, <1>2, <2>2, NodeFacts, PathFacts DEF IsDir
<1>5. CASE tree[e] # "absent" \/ (IsDir(Manifest) /\ action.symlinks)
  <2>1. /\ tree' = [tree EXCEPT ![e] = IF @ = "absent" THEN "exec_link" ELSE @]
        /\ execLinks' = execLinks \union {e} /\ todo' = todo \ {e} /\ pc' = pc /\ result' = result
    BY <1>5 DEF LinkExecEntry
  <2>2. ASSUME NEW p \in Path PROVE tree'[p] = WithLinks(p, execLinks')
    BY <1>1, <1>2, <1>3, <2>1 DEF WithLinks
  <2>3. \A d \in execLinks' \ Laid : Manifest \in Laid /\ action.symlinks
    BY <1>1, <1>3, <1>4, <1>5, <2>1
  <2>4. ExecLinksInv'
    BY <1>1, <1>2, <2>1, <2>2, <2>3, SameAction DEF ExecLinksInv, WithLinks
  <2>5. QED
    BY <1>1, <2>1, <2>4, GoingOn
       DEF IInv, LayoutInv, ReadyInv, Running, Late, UnlinkInv, DrainInv, DrainedInv, ReplaceInv
<1>6. CASE ~(tree[e] # "absent" \/ (IsDir(Manifest) /\ action.symlinks))
  <2>1. pc' = "ended" /\ result' = "failed"
    BY <1>6 DEF LinkExecEntry, Fail
  <2>2. NowhereToLink
    BY <1>2, <1>3, <1>4, <1>6 DEF NowhereToLink
  <2>3. QED
    BY <1>1, <2>1, <2>2, EndedStep DEF Cause
<1>7. QED
  BY <1>5, <1>6

LEMMA ExecLinksDoneStep ==
  ASSUME IInv, TypeOK', ExecLinksDone
  PROVE  IInv'
<1>1. /\ pc = "exec_links" /\ todo = {} /\ action' = action /\ action \in Actions /\ tree' = tree
      /\ execLinks' = execLinks /\ pc' = "environment"
      /\ execLinks = Linked /\ \A p \in Path : tree[p] = WithLinks(p, Linked)
      /\ \A d \in Linked \ Laid : Manifest \in Laid /\ action.symlinks
  BY DEF ExecLinksDone, IInv, ExecLinksInv, TypeOK
<1>2. ReadyInv'
  BY <1>1, SameAction DEF ReadyInv, Running, Late, NowhereToLink
<1>3. QED
  BY <1>1, <1>2, GoingOn
     DEF IInv, LayoutInv, ExecLinksInv, UnlinkInv, DrainInv, DrainedInv, ReplaceInv, Late

LEMMA PrepareEnvironmentStep ==
  ASSUME IInv, TypeOK', PrepareEnvironment
  PROVE  IInv'
<1>1. /\ pc = "environment" /\ action' = action /\ tree' = tree /\ execLinks' = execLinks
      /\ execLinks = Linked /\ ~NowhereToLink /\ \A p \in Path : tree[p] = WithLinks(p, Linked)
  BY DEF PrepareEnvironment, IInv, ReadyInv
<1>2. CASE action.rundir = "invalid" \/ action.depEnv # "good"
  BY <1>1, <1>2, EndedStep DEF PrepareEnvironment, Fail, Cause
<1>3. CASE ~(action.rundir = "invalid" \/ action.depEnv # "good")
  <2>1. pc' = "script"
    BY <1>3 DEF PrepareEnvironment
  <2>2. ReadyInv'
    BY <1>1, <1>3, <2>1, SameAction DEF ReadyInv, Running, Late
  <2>3. QED
    BY <1>1, <2>1, <2>2, GoingOn
       DEF IInv, LayoutInv, ExecLinksInv, UnlinkInv, DrainInv, DrainedInv, ReplaceInv, Late
<1>4. QED
  BY <1>2, <1>3

(***************************************************************************)
(* The script, and what it printed.                                        *)
(***************************************************************************)
LEMMA RunScriptStep ==
  ASSUME IInv, TypeOK', RunScript
  PROVE  IInv'
<1>1. /\ pc = "script" /\ action' = action /\ execLinks' = execLinks /\ action \in Actions
      /\ execLinks = Linked /\ ~NowhereToLink /\ action.rundir # "invalid" /\ action.depEnv = "good"
      /\ \A p \in Path : tree[p] = WithLinks(p, Linked)
  BY DEF RunScript, IInv, ReadyInv, Running, Late, TypeOK
<1>2. \A p \in Path : tree[p] = "dir" <=> p \in Dirs
  BY <1>1, NodeFacts
<1>3. IsDir(Manifest) <=> Manifest \in Laid
  BY <1>1, <1>2, PathFacts, RunnerAssumption DEF IsDir
<1>4. CASE action.rundir = "manifest" /\ ~IsDir(Manifest)
  <2>1. pc' = "ended" /\ result' = "failed"
    BY <1>4 DEF RunScript, Fail
  <2>2. NowhereToRun
    BY <1>3, <1>4 DEF NowhereToRun
  <2>3. QED
    BY <1>1, <2>1, <2>2, EndedStep DEF Cause
<1>5. CASE ~(action.rundir = "manifest" /\ ~IsDir(Manifest))
  <2>1. ~NowhereToRun
    BY <1>3, <1>5 DEF NowhereToRun
  <2>2. CASE ~action.script.succeeds
    <3>1. pc' = "ended" /\ result' = "failed"
      BY <1>5, <2>2 DEF RunScript, Fail
    <3>2. QED
      BY <1>1, <2>2, <3>1, EndedStep DEF Cause
  <2>3. CASE action.script.succeeds
    <3>1. pc' = "write" /\ out' = action.script.out
      BY <1>5, <2>3 DEF RunScript
    <3>2. ASSUME NEW p \in Path PROVE tree'[p] = Scripted(p)
      <4>1. tree'[p] = IF tree[p] = "dir" \/ ~Stands(Parent[p]) THEN tree[p]
                       ELSE IF p \in action.script.makes THEN "dir"
                       ELSE IF p \in action.script.writes THEN "file"
                       ELSE IF p \in action.script.deletes THEN "absent" ELSE tree[p]
        BY <1>5 DEF RunScript
      <4>2. Parent[p] \in Path \union {Top}
        BY <1>1, PathFacts
      <4>3. \A a \in Path \union {Top} : IsDir(a) <=> a \in {Top} \union Dirs
        BY <1>1, <1>2, PathFacts DEF IsDir, Dirs
      <4>4. Stands(Parent[p]) <=> Parent[p] \in Standing
        <5>1. \A a \in Ancestors(Parent[p]) : a \in Path \union {Top}
          BY <1>1, <4>2, PathFacts, RunnerAssumption DEF PathsNest
        <5>2. (\A a \in Ancestors(Parent[p]) : IsDir(a) \/ a \in action.script.makes) <=>
              Ancestors(Parent[p]) \subseteq {Top} \union Dirs \union action.script.makes
          BY <4>3, <5>1
        <5>3. QED
          BY <4>2, <4>3, <5>2 DEF Stands, Standing, Made
      <4>5. CASE p \in Dirs \/ Parent[p] \notin Standing
        BY <1>1, <1>2, <4>1, <4>4, <4>5 DEF Scripted
      <4>6. CASE ~(p \in Dirs \/ Parent[p] \notin Standing)
        <5>1. ~(tree[p] = "dir" \/ ~Stands(Parent[p]))
          BY <1>2, <4>4, <4>6
        <5>2. tree'[p] = IF p \in action.script.makes THEN "dir"
                         ELSE IF p \in action.script.writes THEN "file"
                         ELSE IF p \in action.script.deletes THEN "absent" ELSE tree[p]
          BY <4>1, <5>1
        <5>3. QED
          BY <1>1, <4>6, <5>2 DEF Scripted
      <4>7. QED
        BY <4>5, <4>6
    <3>3. ReadyInv' /\ UnlinkInv'
      BY <1>1, <2>1, <2>3, <3>1, <3>2, SameAction DEF ReadyInv, Running, Late, UnlinkInv
    <3>4. QED
      BY <1>1, <3>1, <3>3, GoingOn
         DEF IInv, LayoutInv, ExecLinksInv, DrainInv, DrainedInv, ReplaceInv, Late
  <2>4. QED
    BY <1>1, <2>2, <2>3, ActionFacts
<1>6. QED
  BY <1>4, <1>5

LEMMA WriteOutputsStep ==
  ASSUME IInv, TypeOK', WriteOutputs
  PROVE  IInv'
<1>1. /\ pc = "write" /\ pc' = "unlink" /\ action' = action /\ execLinks' = execLinks
      /\ tree' = tree /\ out' = out /\ todo' = execLinks /\ execLinks = Linked
      /\ \A p \in Path : tree[p] = Scripted(p)
  BY DEF WriteOutputs, IInv, ReadyInv, Running, Late, UnlinkInv
<1>2. ReadyInv'
  BY <1>1, SameAction DEF IInv, ReadyInv, Running, Late
<1>3. UnlinkInv'
  BY <1>1, SameAction DEF UnlinkInv, Late
<1>4. QED
  BY <1>1, <1>2, <1>3, GoingOn
     DEF IInv, LayoutInv, ExecLinksInv, DrainInv, DrainedInv, ReplaceInv, Late

LEMMA RemoveExecLinkStep ==
  ASSUME IInv, TypeOK', NEW e \in Path, RemoveExecLink(e)
  PROVE  IInv'
<1>1. /\ pc = "unlink" /\ e \in todo /\ action' = action /\ execLinks' = execLinks /\ out' = out
      /\ todo \subseteq Linked /\ action \in Actions /\ tree \in [Path -> Node]
      /\ \A p \in Path : tree[p] = IF p \in Linked \ todo THEN "absent" ELSE Scripted(p)
      /\ \A d \in Linked \ todo : ~Gone(Scripted(d))
      /\ execLinks = Linked /\ ~NowhereToLink
  BY DEF RemoveExecLink, IInv, ReadyInv, Running, Late, UnlinkInv, TypeOK
<1>2. e \in Linked /\ tree[e] = Scripted(e)
  BY <1>1
<1>3. CASE tree[e] \in {"absent", "dir"}
  <2>1. pc' = "ended" /\ result' = "failed"
    BY <1>3 DEF RemoveExecLink, Fail
  <2>2. CASE tree[e] = "dir"
    <3>1. e \in Dirs \/ e \in action.script.makes
      BY <1>1, <1>2, <2>2, NodeFacts, MadeNest
    <3>2. Collides \/ Deletes
      BY <1>2, <3>1 DEF Collides, Deletes
    <3>3. QED
      BY <1>1, <2>1, <3>2, EndedStep DEF Cause
  <2>3. CASE tree[e] = "absent"
    <3>1. WithLinks(e, Linked) # "absent"
      BY <1>2 DEF WithLinks, Base, LaidOut
    <3>2. e \in action.script.deletes \ action.script.writes
      BY <1>2, <2>3, <3>1 DEF Scripted
    <3>3. QED
      BY <1>1, <1>2, <2>1, <3>2, EndedStep DEF Deletes, Cause
  <2>4. QED
    BY <1>3, <2>2, <2>3
<1>4. CASE tree[e] \notin {"absent", "dir"}
  <2>1. tree' = [tree EXCEPT ![e] = "absent"] /\ todo' = todo \ {e} /\ pc' = pc
    BY <1>4 DEF RemoveExecLink
  <2>2. \A p \in Path : tree'[p] = IF p \in Linked \ todo' THEN "absent" ELSE Scripted(p)
    BY <1>1, <1>2, <2>1
  <2>3. \A d \in Linked \ todo' : ~Gone(Scripted(d))
    BY <1>1, <1>2, <1>4, <2>1 DEF Gone
  <2>4. UnlinkInv'
    BY <1>1, <2>1, <2>2, <2>3, SameAction, PathFacts DEF UnlinkInv, Late, Gone
  <2>5. ReadyInv'
    BY <1>1, <2>1, SameAction DEF IInv, ReadyInv, Running, Late
  <2>6. QED
    BY <1>1, <2>1, <2>4, <2>5, GoingOn
       DEF IInv, LayoutInv, ExecLinksInv, DrainInv, DrainedInv, ReplaceInv, Late
<1>5. QED
  BY <1>3, <1>4

(***************************************************************************)
(* Draining.                                                               *)
(***************************************************************************)
\* What is in the runfiles directory without the links to the exec root is in
\* directories of the layout.
LEMMA UnlinkedNest ==
  ASSUME action \in Actions, \A e \in Linked : ~Gone(Scripted(e)),
         NEW p \in Path, Unlinked(p) # "absent", NEW d \in Ancestors(p) \ {Top}
  PROVE  d \in Path /\ Unlinked(d) = "dir"
<1>1. \A q \in (Dirs \union Made) \intersect Path : Unlinked(q) = "dir"
  BY NodeFacts DEF Unlinked, Gone
<1>2. d \in Path /\ d # Top
  BY PathFacts, RunnerAssumption
<1>3. CASE p \in Laid
  BY <1>1, <1>2, <1>3, PathFacts
<1>4. CASE p \notin Laid
  <2>1. p \notin Linked /\ WithLinks(p, Linked) = "absent" /\ Scripted(p) # "absent"
    BY <1>4, PathFacts DEF Unlinked, WithLinks, Base
  <2>2. Parent[p] \in Standing
    BY <2>1 DEF Scripted
  <2>3. Ancestors(p) = {Parent[p]} \union Ancestors(Parent[p]) /\ Ancestors(Top) = {}
    BY RunnerAssumption DEF PathsNest
  <2>4. Ancestors(p) \subseteq Standing
    BY <2>2, <2>3, MadeNest DEF Standing
  <2>5. QED
    BY <1>1, <1>2, <2>4 DEF Standing
<1>5. QED
  BY <1>3, <1>4

LEMMA UnlinkDoneStep ==
  ASSUME IInv, TypeOK', UnlinkDone
  PROVE  IInv'
<1>1. /\ pc = "unlink" /\ pc' = "drain" /\ todo = {} /\ todo' = action.runfiles /\ action' = action
      /\ execLinks' = execLinks /\ out' = out /\ tree' = tree /\ action \in Actions
      /\ \A p \in Path : tree[p] = Unlinked(p)
      /\ \A e \in Linked : ~Gone(Scripted(e))
  BY DEF UnlinkDone, IInv, UnlinkInv, TypeOK, Unlinked
<1>2. \A p \in Path : Unlinked(p) = "dir" <=> p \in Dirs \union Made
  BY <1>1, NodeFacts DEF Unlinked, Gone
<1>3. \A p \in Path : tree'[p] # "absent" => \A d \in Ancestors(p) \ {Top} : tree'[d] = "dir"
  BY <1>1, UnlinkedNest
<1>4. \A d \in Path : tree'[d] = "dir" =>
        d \in Made \/ \E p \in Path : d \in Ancestors(p) /\ p \in todo'
  BY <1>1, <1>2, ActionFacts DEF Dirs, Laid
<1>5. DrainInv'
  <2>1. \A p \in Path : IF p \in Dirs THEN Gone(tree'[p]) ELSE tree'[p] = Unlinked(p)
    BY <1>1, <1>2 DEF Gone
  <2>2. action'.runfiles \ todo' = {}
    BY <1>1
  <2>3. QED
    BY <1>1, <1>3, <1>4, <2>1, <2>2, SameAction DEF DrainInv, Held, Gone
<1>6. ReadyInv' /\ UnlinkInv' /\ RunfilesLeft'
  BY <1>1, SameAction, PathFacts DEF IInv, ReadyInv, Running, Late, UnlinkInv, RunfilesLeft, Gone
<1>7. QED
  BY <1>1, <1>5, <1>6, GoingOn
     DEF IInv, LayoutInv, ExecLinksInv, DrainedInv, ReplaceInv, Late

LEMMA DrainedNodes ==
  ASSUME IInv, pc = "drain", action.symlinks, NEW q \in Path, tree[q] \notin {"absent", "dir"}
  PROVE  q \notin Dirs /\ (tree[q] \in {"copy", "file"} \/ q \in todo)
<1>1. /\ action \in Actions /\ tree[q] \in Node
      /\ IF q \in Dirs THEN Gone(tree[q])
         ELSE tree[q] = IF q \in action.runfiles \ todo THEN Drained(q) ELSE Unlinked(q)
  BY DEF IInv, TypeOK, DrainInv
<1>2. q \notin Dirs
  BY <1>1 DEF Gone
<1>3. CASE q \in action.runfiles \ todo
  BY <1>1, <1>2, <1>3 DEF Drained
<1>4. CASE q \notin action.runfiles
  <2>1. q \notin Laid
    BY <1>2, <1>4 DEF Dirs
  <2>2. q \notin Linked /\ tree[q] = Scripted(q)
    BY <1>1, <1>2, <1>4 DEF Unlinked
  <2>3. WithLinks(q, Linked) = "absent"
    BY <1>4, <2>1, <2>2 DEF WithLinks, Base
  <2>4. QED
    BY <2>2, <2>3 DEF Scripted
<1>5. QED
  BY <1>2, <1>3, <1>4

\* Removing a runfile and the directories that hold nothing else leaves the others
\* in directories, each with something to hold.
LEMMA PrunedStep ==
  ASSUME IInv, pc = "drain", NEW p \in todo, p \in Path, action.symlinks, p \notin action.retain,
         tree[p] \notin {"absent", "dir"},
         tree' = Pruned([tree EXCEPT ![p] = "absent"], p), todo' = todo \ {p}, action' = action
  PROVE  /\ \A q \in Path : tree'[q] = IF q \in Dirs THEN tree'[q] ELSE IF q = p THEN "absent" ELSE tree[q]
         /\ \A q \in Dirs \intersect Path : Gone(tree'[q])
         /\ \A q \in Path : tree'[q] # "absent" => \A d \in Ancestors(q) \ {Top} : tree'[d] = "dir"
         /\ \A d \in Path : tree'[d] = "dir" => Held(d)'
<1> DEFINE c == [tree EXCEPT ![p] = "absent"]
           Empty(d) == \A q \in Path : d \in Ancestors(q) =>
                         c[q] = "absent" \/ (c[q] = "dir" /\ q \in Ancestors(p))
<1>1. /\ action \in Actions /\ tree \in [Path -> Node] /\ todo \subseteq action.runfiles
      /\ \A q \in Path : IF q \in Dirs THEN Gone(tree[q])
                         ELSE tree[q] = IF q \in action.runfiles \ todo THEN Drained(q) ELSE Unlinked(q)
      /\ \A q \in Path : tree[q] # "absent" => \A d \in Ancestors(q) \ {Top} : tree[d] = "dir"
      /\ \A d \in Path : tree[d] = "dir" => Held(d)
  BY DEF IInv, TypeOK, DrainInv
<1>2. p \in action.runfiles /\ p \notin Dirs /\ Ancestors(p) \subseteq Dirs
  BY <1>1, PathFacts DEF Dirs
<1>3. /\ \A q \in Path : tree'[q] = IF q \in Ancestors(p) /\ Empty(q) THEN "absent" ELSE c[q]
      /\ \A q \in Path : c[q] = IF q = p THEN "absent" ELSE tree[q]
  BY <1>1 DEF Pruned
<1>4. \A q \in Path : \A d \in Ancestors(q) : Ancestors(d) \subseteq Ancestors(q)
  BY RunnerAssumption DEF PathsNest
<1>5. \A q \in Path : Ancestors(q) \ {Top} \subseteq Path
  BY <1>1, PathFacts
<1> HIDE DEF c, Empty
<1>6. \A q \in Path : q \notin Dirs => tree'[q] = IF q = p THEN "absent" ELSE tree[q]
  BY <1>2, <1>3
<1>7. \A q \in Dirs \intersect Path : Gone(tree'[q])
  BY <1>1, <1>2, <1>3 DEF Gone
<1>8. ASSUME NEW q \in Path, tree'[q] # "absent", NEW d \in Ancestors(q) \ {Top}
      PROVE  tree'[d] = "dir"
  <2>1. c[q] # "absent" /\ q # p /\ tree[q] = c[q] /\ ~(q \in Ancestors(p) /\ Empty(q))
    BY <1>3, <1>8
  <2>2. d \in Path /\ tree[d] = "dir" /\ d # p /\ c[d] = "dir"
    BY <1>1, <1>3, <1>5, <2>1
  <2>3. ASSUME d \in Ancestors(p), Empty(d) PROVE FALSE
    <3>1. c[q] = "dir" /\ q \in Ancestors(p)
      BY <2>1, <2>3 DEF Empty
    <3>2. \A r \in Path : q \in Ancestors(r) => d \in Ancestors(r)
      BY <1>4
    <3>3. Empty(q)
      BY <2>3, <3>2 DEF Empty
    <3>4. QED
      BY <2>1, <3>1, <3>3
  <2>4. QED
    BY <1>3, <2>2, <2>3
<1>9. ASSUME NEW d \in Path, tree'[d] = "dir" PROVE Held(d)'
  <2>1. d # p /\ tree[d] = "dir" /\ ~(d \in Ancestors(p) /\ Empty(d))
    BY <1>3, <1>9
  <2>2. ASSUME NEW r \in Path, r # p, d \in Ancestors(r),
               r \in todo \/ r \in Made \/ tree[r] \in {"copy", "file"}
        PROVE  Held(d)'
    <3>1. tree[r] \in {"copy", "file"} => tree'[r] = tree[r]
      BY <1>1, <1>6, <2>2 DEF Gone
    <3>2. QED
      BY <2>2, <3>1, SameAction DEF Held
  <2>3. CASE d \notin Ancestors(p)
    BY <1>1, <2>1, <2>2, <2>3, SameAction DEF Held
  <2>4. CASE d \in Ancestors(p)
    <3>1. PICK q \in Path : /\ d \in Ancestors(q) /\ c[q] # "absent"
                            /\ ~(c[q] = "dir" /\ q \in Ancestors(p))
      BY <2>1, <2>4 DEF Empty
    <3>2. q # p /\ tree[q] = c[q]
      BY <1>3, <3>1
    <3>3. CASE tree[q] = "dir"
      <4>1. CASE q \in Made
        BY <2>2, <3>1, <3>2, <4>1
      <4>2. CASE q \notin Made
        <5>1. PICK r \in Path : q \in Ancestors(r) /\ (r \in todo \/ r \in Made \/ tree[r] \in {"copy", "file"})
          BY <1>1, <3>3, <4>2 DEF Held
        <5>2. r # p /\ d \in Ancestors(r)
          BY <1>4, <3>1, <3>2, <3>3, <5>1
        <5>3. QED
          BY <2>2, <5>1, <5>2
      <4>3. QED
        BY <4>1, <4>2
    <3>4. CASE tree[q] # "dir"
      BY <2>2, <3>1, <3>2, <3>4, DrainedNodes
    <3>5. QED
      BY <3>3, <3>4
  <2>5. QED
    BY <2>3, <2>4
<1>10. QED
  BY <1>6, <1>7, <1>8, <1>9

LEMMA DrainRunfileStep ==
  ASSUME IInv, TypeOK', NEW p \in Path, DrainRunfile(p)
  PROVE  IInv'
<1>1. /\ pc = "drain" /\ p \in todo /\ action' = action /\ execLinks' = execLinks /\ out' = out
      /\ todo \subseteq action.runfiles /\ action \in Actions /\ tree \in [Path -> Node] /\ RunfilesLeft
      /\ \A q \in Path : IF q \in Dirs THEN Gone(tree[q])
                         ELSE tree[q] = IF q \in action.runfiles \ todo THEN Drained(q) ELSE Unlinked(q)
      /\ \A q \in Path : tree[q] # "absent" => \A d \in Ancestors(q) \ {Top} : tree[d] = "dir"
      /\ action.symlinks => \A d \in Path : tree[d] = "dir" => Held(d)
  BY DEF DrainRunfile, IInv, DrainInv, TypeOK
<1>2. p \in action.runfiles /\ p \notin Dirs /\ tree[p] = Unlinked(p)
  BY <1>1 DEF Dirs
<1>3. CASE tree[p] \in {"absent", "dir"} /\ (action.symlinks \/ p \in action.retain)
  <2>1. pc' = "ended" /\ result' = "failed"
    BY <1>3 DEF DrainRunfile, Fail
  <2>2. CASE p \in Linked
    BY <1>1, <1>2, <1>3, <2>1, <2>2, EndedStep DEF Collides, Cause
  <2>3. CASE p \notin Linked
    <3>1. Scripted(p) \in {"absent", "dir"} /\ WithLinks(p, Linked) \notin {"absent", "dir"}
      BY <1>2, <1>3, <2>3 DEF Unlinked, WithLinks, Base, LaidOut
    <3>2. p \in (action.script.deletes \ action.script.writes) \union action.script.makes
      BY <3>1 DEF Scripted
    <3>3. QED
      BY <1>1, <1>2, <1>3, <2>1, <3>2, EndedStep DEF Deletes, Cause
  <2>4. QED
    BY <2>2, <2>3
<1>4. CASE ~(tree[p] \in {"absent", "dir"} /\ (action.symlinks \/ p \in action.retain))
  <2>1. /\ pc' = pc /\ todo' = todo \ {p}
        /\ tree' = IF action.symlinks
                   THEN IF p \in action.retain THEN [tree EXCEPT ![p] = "copy"]
                        ELSE Pruned([tree EXCEPT ![p] = "absent"], p)
                   ELSE IF p \in action.retain THEN [tree EXCEPT ![p] = "absent"] ELSE tree
    BY <1>4 DEF DrainRunfile
  <2>2. RunfilesLeft'
    <3>1. Gone(Unlinked(p)) => ~action.symlinks /\ p \notin action.retain
      BY <1>2, <1>4 DEF Gone
    <3>2. ASSUME NEW r \in action.runfiles \ todo', Gone(Unlinked(r))
          PROVE  ~action.symlinks /\ r \notin action.retain
      BY <1>1, <2>1, <3>1, <3>2 DEF RunfilesLeft
    <3>3. \A r \in action.runfiles : Unlinked(r)' = Unlinked(r)
      BY <1>1, SameAction, ActionFacts
    <3>4. QED
      BY <1>1, <2>1, <3>2, <3>3 DEF RunfilesLeft, Gone
  <2>3. /\ \A q \in Path : IF q \in Dirs THEN Gone(tree'[q])
                           ELSE tree'[q] = IF q \in action.runfiles \ todo' THEN Drained(q) ELSE Unlinked(q)
        /\ \A q \in Path : tree'[q] # "absent" => \A d \in Ancestors(q) \ {Top} : tree'[d] = "dir"
        /\ action.symlinks => \A d \in Path : tree'[d] = "dir" => Held(d)'
    <3>1. CASE action.symlinks /\ p \in action.retain
      <4>1. \A q \in Path : tree'[q] = IF q = p THEN "copy" ELSE tree[q]
        BY <1>1, <2>1, <3>1
      <4>2. Drained(p) = "copy" /\ tree[p] \notin {"absent", "dir"}
        BY <1>4, <3>1 DEF Drained
      <4>3. \A q \in Path : Ancestors(q) \ {Top} \subseteq Path
        BY <1>1, PathFacts
      <4>4. ASSUME NEW d \in Path, tree'[d] = "dir" PROVE Held(d)'
        <5>1. d # p /\ Held(d)
          BY <1>1, <3>1, <4>1, <4>4
        <5>2. ASSUME NEW r \in Path, d \in Ancestors(r), r \in todo \/ r \in Made \/ tree[r] \in {"copy", "file"}
              PROVE  r \in todo' \/ r \in Made \/ tree'[r] \in {"copy", "file"}
          BY <2>1, <4>1, <5>2
        <5>3. Made' = Made
          BY <1>1, SameAction
        <5>4. QED
          BY <5>1, <5>2, <5>3 DEF Held
      <4>5. QED
        BY <1>1, <1>2, <2>1, <4>1, <4>2, <4>3, <4>4
    <3>2. CASE action.symlinks /\ p \notin action.retain
      <4>1. /\ \A q \in Path : q \notin Dirs => tree'[q] = IF q = p THEN "absent" ELSE tree[q]
            /\ \A q \in Dirs \intersect Path : Gone(tree'[q])
            /\ \A q \in Path : tree'[q] # "absent" => \A d \in Ancestors(q) \ {Top} : tree'[d] = "dir"
            /\ \A d \in Path : tree'[d] = "dir" => Held(d)'
        BY <1>1, <1>4, <2>1, <3>2, PrunedStep
      <4>2. Drained(p) = "absent"
        BY <3>2 DEF Drained
      <4>3. QED
        BY <1>1, <1>2, <2>1, <4>1, <4>2
    <3>3. CASE ~action.symlinks /\ p \in action.retain
      <4>1. \A q \in Path : tree'[q] = IF q = p THEN "absent" ELSE tree[q]
        BY <1>1, <2>1, <3>3
      <4>2. Drained(p) = "absent"
        BY <3>3 DEF Drained
      <4>3. \A q \in Path : Ancestors(q) \ {Top} \subseteq Path
        BY <1>1, PathFacts
      <4>4. tree[p] \notin {"absent", "dir"}
        BY <1>4, <3>3
      <4>5. QED
        BY <1>1, <1>2, <2>1, <3>3, <4>1, <4>2, <4>3, <4>4
    <3>4. CASE ~action.symlinks /\ p \notin action.retain
      BY <1>1, <1>2, <2>1, <3>4 DEF Drained
    <3>5. QED
      BY <1>1, <3>1, <3>2, <3>3, <3>4, ActionFacts
  <2>4. DrainInv'
    <3>1. todo' \subseteq action'.runfiles
      BY <1>1, <2>1
    <3>2. /\ Dirs' = Dirs
          /\ \A q \in Path : Drained(q)' = Drained(q) /\ Unlinked(q)' = Unlinked(q)
      BY <1>1, SameAction
    <3>3. QED
      BY <1>1, <2>3, <3>1, <3>2 DEF DrainInv, Gone
  <2>5. ReadyInv' /\ UnlinkInv'
    BY <1>1, <2>1, SameAction, PathFacts DEF IInv, ReadyInv, Running, Late, UnlinkInv, Gone
  <2>6. QED
    BY <1>1, <2>1, <2>2, <2>4, <2>5, GoingOn
       DEF IInv, LayoutInv, ExecLinksInv, DrainedInv, ReplaceInv, Late
<1>5. QED
  BY <1>3, <1>4

\* What is left of the runfiles directory is what FailsForCause counts on.
LEMMA SurvivorsAre ==
  ASSUME action \in Actions, NEW p \in Path, NEW what,
         IF p \in Dirs THEN Gone(what)
         ELSE what = IF p \in action.runfiles THEN Drained(p) ELSE Unlinked(p)
  PROVE  /\ ~Gone(what) <=> p \in Survivors
         /\ what \in {"absent", "dir", "copy", "file"}
<1>1. /\ action.retain \subseteq action.runfiles /\ action.runfiles \subseteq Laid
      /\ p \in Laid => Parent[p] \in Dirs
      /\ p \in Path /\ action.script.makes \intersect action.script.writes = {}
  BY ActionFacts, PathFacts DEF WellFormed
<1>2. CASE p \in Dirs
  BY <1>1, <1>2 DEF Dirs, Survivors, Adds, Gone
<1>3. CASE p \in action.runfiles
  <2>1. p \notin Adds /\ p \notin Dirs /\ what = Drained(p)
    BY <1>1, <1>3 DEF Adds, Dirs
  <2>2. CASE action.symlinks
    BY <2>1, <2>2 DEF Survivors, Drained, Gone
  <2>3. CASE ~action.symlinks
    <3>1. Scripted(p) = IF p \in action.script.makes THEN "dir"
                        ELSE IF p \in action.script.writes THEN "file"
                        ELSE IF p \in action.script.deletes THEN "absent"
                        ELSE WithLinks(p, Linked)
      BY <1>1, <1>3, <2>1 DEF Scripted, Standing
    <3>2. WithLinks(p, Linked) = "copy"
      BY <1>1, <1>3, <2>3 DEF WithLinks, Base, LaidOut
    <3>3. QED
      BY <1>1, <1>3, <2>1, <2>3, <3>1, <3>2 DEF Survivors, Drained, Unlinked, Gone
  <2>4. QED
    BY <2>2, <2>3, ActionFacts
<1>4. CASE p \notin Laid
  <2>1. p \notin Dirs /\ p \notin action.runfiles /\ what = Unlinked(p)
    BY <1>1, <1>4 DEF Dirs
  <2>2. p \in Survivors <=> p \in Adds /\ p \notin Linked
    BY <1>1, <2>1 DEF Survivors
  <2>3. CASE p \in Linked
    BY <2>1, <2>2, <2>3 DEF Unlinked, Gone
  <2>4. CASE p \notin Linked
    <3>1. WithLinks(p, Linked) = "absent" /\ what = Scripted(p)
      BY <1>4, <2>1, <2>4 DEF WithLinks, Base, Unlinked
    <3>2. p \in Adds <=> p \in action.script.writes /\ Parent[p] \in Standing
      BY <1>4 DEF Adds, Standing
    <3>3. QED
      BY <1>1, <2>1, <2>2, <2>4, <3>1, <3>2 DEF Scripted, Gone
  <2>5. QED
    BY <2>3, <2>4
<1>5. QED
  BY <1>2, <1>3, <1>4 DEF Dirs

\* Once all runfiles are drained, the directories that are left are the occupied ones.
LEMMA OccupiedAre ==
  ASSUME IInv, pc = "drain", todo = {}, action.symlinks, NEW d \in Path
  PROVE  tree[d] = "dir" <=> Occupied(d)
<1>1. /\ action \in Actions /\ RunfilesLeft /\ \A e \in Linked : ~Gone(Scripted(e))
      /\ \A q \in Path : IF q \in Dirs THEN Gone(tree[q])
                         ELSE tree[q] = IF q \in action.runfiles THEN Drained(q) ELSE Unlinked(q)
      /\ \A q \in Path : tree[q] # "absent" => \A a \in Ancestors(q) \ {Top} : tree[a] = "dir"
      /\ tree[d] = "dir" => Held(d)
  BY DEF IInv, DrainInv, UnlinkInv, TypeOK
<1>2. ASSUME NEW q \in Made PROVE q \in Path /\ tree[q] = "dir"
  <2>1. q \in Path /\ q \notin Dirs /\ Scripted(q) = "dir"
    BY <1>1, MadeNest, NodeFacts
  <2>2. q \notin Linked /\ Unlinked(q) = "dir"
    BY <1>1, <2>1 DEF Unlinked, Gone
  <2>3. q \notin action.runfiles
    BY <1>1, <2>2 DEF RunfilesLeft, Gone
  <2>4. QED
    BY <1>1, <2>1, <2>2, <2>3
<1>3. tree[d] = "dir" => Occupied(d)
  BY <1>1 DEF Held, Occupied
<1>4. ASSUME NEW p \in Path, d \in Ancestors(p), p \in Made \/ tree[p] \in {"copy", "file"}
      PROVE  tree[d] = "dir"
  <2>1. tree[p] # "absent"
    BY <1>2, <1>4
  <2>2. d # Top
    BY RunnerAssumption
  <2>3. QED
    BY <1>1, <1>4, <2>1, <2>2
<1>5. QED
  BY <1>2, <1>3, <1>4 DEF Occupied

LEMMA DrainDoneStep ==
  ASSUME IInv, TypeOK', DrainDone
  PROVE  IInv'
<1> DEFINE bare == \A p \in Path : tree[p] \in {"absent", "dir"}
<1>1. /\ pc = "drain" /\ todo = {} /\ action' = action /\ execLinks' = execLinks
      /\ out' = out /\ out = action.script.out /\ action \in Actions /\ tree \in [Path -> Node]
      /\ \A q \in Path : IF q \in Dirs THEN Gone(tree[q])
                         ELSE tree[q] = IF q \in action.runfiles THEN Drained(q) ELSE Unlinked(q)
      /\ \A e \in Linked : ~Gone(Scripted(e))
  BY DEF DrainDone, IInv, DrainInv, ReadyInv, UnlinkInv, Running, Late, TypeOK
<1>2. /\ \A p \in Path : ~Gone(tree[p]) <=> p \in Survivors
      /\ \A p \in Path : tree[p] \in {"absent", "dir", "copy", "file"}
  BY <1>1, SurvivorsAre
<1>3. Survivors \subseteq Path /\ (bare <=> Survivors = {})
  <2>1. Survivors \subseteq Path
    BY <1>1, ActionFacts DEF Survivors, Adds
  <2>2. QED
    BY <1>2, <2>1 DEF Gone
<1>4. /\ EmptyMarker \in Path /\ EmptyMarker \notin action.runfiles
      /\ EmptyMarker \notin Dirs /\ EmptyMarker \notin Linked
      /\ action.runfiles \subseteq Path /\ action.runfiles \intersect Dirs = {}
  BY <1>1, PathFacts, ActionFacts DEF Dirs
<1>5. tree[EmptyMarker] = "dir" <=> EmptyMarker \in Made
  BY <1>1, <1>4, NodeFacts DEF Unlinked
<1>6. CASE bare /\ tree[EmptyMarker] = "dir"
  <2>1. pc' = "ended" /\ result' = "failed"
    BY <1>6 DEF DrainDone, Fail
  <2>2. NowhereToMark
    BY <1>3, <1>5, <1>6 DEF NowhereToMark
  <2>3. QED
    BY <1>1, <2>1, <2>2, EndedStep DEF Cause
<1>7. CASE ~(bare /\ tree[EmptyMarker] = "dir")
  <2>1. /\ pc' = "replace" /\ todo' = {o \in OutPath : out[o].is \in AbsoluteLink}
        /\ tree' = IF bare THEN [tree EXCEPT ![EmptyMarker] = "file"] ELSE tree
    BY <1>7 DEF DrainDone
  <2>2. ~NowhereToMark
    BY <1>3, <1>5, <1>7 DEF NowhereToMark
  <2>3. action.symlinks => \A p \in action.runfiles : tree[p] = IF p \in action.retain THEN "copy" ELSE "absent"
    BY <1>1, <1>4 DEF Drained
  <2>4. action.symlinks => \A d \in Path : tree[d] = "dir" <=> Occupied(d)
    BY <1>1, OccupiedAre
  <2>5. /\ \A p \in Path : ~Gone(tree'[p]) <=> OutlivesDraining(p)
        /\ \A p \in Path : tree'[p] \in {"absent", "dir", "copy", "file"}
        /\ \E p \in Path : ~Gone(tree'[p])
        /\ action.symlinks =>
             /\ \A p \in action.runfiles : tree'[p] = IF p \in action.retain THEN "copy" ELSE "absent"
             /\ \A d \in Path : tree'[d] = "dir" <=> Occupied(d)'
    <3>1. CASE bare
      <4>1. \A p \in Path : tree'[p] = IF p = EmptyMarker THEN "file" ELSE tree[p]
        BY <1>1, <2>1, <3>1
      <4>2. Survivors = {} /\ \A p \in Path : Gone(tree[p])
        BY <1>3, <3>1 DEF Gone
      <4>3. \A p \in Path : ~Gone(tree'[p]) <=> p = EmptyMarker
        BY <4>1, <4>2 DEF Gone
      <4>4. \A d \in Path : d \notin Ancestors(EmptyMarker) /\ \A p \in Path : EmptyMarker \notin Ancestors(p)
        BY RunnerAssumption DEF PathsNest
      <4>5. ASSUME NEW d \in Path PROVE Occupied(d)' <=> Occupied(d)
        BY <1>1, <1>4, <4>1, <4>4, SameAction DEF Occupied
      <4>6. ~Occupied(EmptyMarker)
        BY <1>5, <1>7, <3>1, <4>4 DEF Occupied
      <4>7. action.symlinks => \A d \in Path : tree'[d] = "dir" <=> Occupied(d)'
        BY <2>4, <4>1, <4>5, <4>6
      <4>8. \A p \in Path : tree'[p] \in {"absent", "dir", "copy", "file"}
        BY <1>2, <4>1
      <4>9. \A p \in Path : OutlivesDraining(p) <=> p = EmptyMarker
        BY <4>2 DEF OutlivesDraining
      <4>10. QED
        BY <1>4, <2>3, <4>1, <4>3, <4>7, <4>8, <4>9
    <3>2. CASE ~bare
      <4>1. tree' = tree /\ Survivors # {} /\ \E p \in Path : ~Gone(tree[p])
        BY <1>3, <2>1, <3>2 DEF Gone
      <4>2. \A d \in Path : Occupied(d)' <=> Occupied(d)
        BY <1>1, <4>1, SameAction DEF Occupied
      <4>3. \A p \in Path : ~Gone(tree[p]) <=> OutlivesDraining(p)
        BY <1>2, <4>1 DEF OutlivesDraining
      <4>4. QED
        BY <1>2, <2>3, <2>4, <4>1, <4>2, <4>3
    <3>3. QED
      BY <3>1, <3>2
  <2>6. DrainedInv'
    BY <1>1, <2>1, <2>2, <2>5, SameAction DEF DrainedInv, Occupied, Late, Gone
  <2>7. ReplaceInv'
    BY <1>1, <2>1 DEF ReplaceInv
  <2>8. ReadyInv' /\ UnlinkInv' /\ RunfilesLeft'
    <3>1. \A p \in action.runfiles : Unlinked(p)' = Unlinked(p)
      BY <1>1, <1>4, SameAction
    <3>2. RunfilesLeft'
      BY <1>1, <2>1, <3>1 DEF IInv, RunfilesLeft, Late, Gone
    <3>3. ReadyInv' /\ UnlinkInv'
      BY <1>1, <2>1, SameAction, PathFacts DEF IInv, ReadyInv, Running, Late, UnlinkInv, Gone
    <3>4. QED
      BY <3>2, <3>3
  <2>9. QED
    BY <1>1, <2>1, <2>6, <2>7, <2>8, GoingOn
       DEF IInv, LayoutInv, ExecLinksInv, DrainInv
<1>8. QED
  BY <1>6, <1>7

(***************************************************************************)
(* The links of OUT_DIR, and the sweep.                                    *)
(***************************************************************************)
LEMMA DeadLinks ==
  ASSUME IInv, pc = "replace"
  PROVE  LeavesDeadLink <=>
           \E o \in OutPath : /\ action.script.out[o].is \in AbsoluteLink
                              /\ ~LeadsToFile(action.script.out[o])
<1>1. /\ action \in Actions /\ \A p \in Path : ~Gone(tree[p]) <=> OutlivesDraining(p)
      /\ \A p \in Path : tree[p] \in {"absent", "dir", "copy", "file"}
  BY DEF IInv, TypeOK, DrainedInv, Late
<1>2. ASSUME NEW o \in OutPath, NEW node, node = action.script.out[o]
      PROVE  (node.is = "link_dir" \/ (node.is = "link_path" /\ ~OutlivesDraining(node.to))) <=>
             (node.is \in AbsoluteLink /\ ~LeadsToFile(node))
  <2>1. node \in OutNode
    BY <1>1, <1>2, ActionFacts
  <2>2. CASE node.is = "link_path"
    <3>1. node.to \in Path
      BY <2>1, <2>2 DEF OutNode, Elsewhere, Is, Through
    <3>2. LeadsToFile(node) <=> OutlivesDraining(node.to)
      BY <1>1, <2>2, <3>1 DEF LeadsToFile, Gone
    <3>3. QED
      BY <2>2, <3>2 DEF AbsoluteLink
  <2>3. CASE node.is # "link_path"
    BY <2>3 DEF LeadsToFile, AbsoluteLink
  <2>4. QED
    BY <2>2, <2>3
<1> DEFINE Dead(o) == /\ action.script.out[o].is \in AbsoluteLink
                      /\ ~LeadsToFile(action.script.out[o])
<1>3. \A o \in OutPath :
        (\/ action.script.out[o].is = "link_dir"
         \/ action.script.out[o].is = "link_path" /\ ~OutlivesDraining(action.script.out[o].to)) <=> Dead(o)
  BY <1>2
<1>4. LeavesDeadLink <=>
        \E o \in OutPath :
          \/ action.script.out[o].is = "link_dir"
          \/ action.script.out[o].is = "link_path" /\ ~OutlivesDraining(action.script.out[o].to)
  BY DEF LeavesDeadLink
<1> HIDE DEF Dead
<1>5. LeavesDeadLink <=> \E o \in OutPath : Dead(o)
  BY <1>3, <1>4
<1>6. QED
  BY <1>5 DEF Dead

LEMMA ReplaceLinkStep ==
  ASSUME IInv, TypeOK', NEW o \in OutPath, ReplaceLink(o)
  PROVE  IInv'
<1>1. /\ pc = "replace" /\ o \in todo /\ action' = action /\ tree' = tree /\ execLinks' = execLinks
      /\ action \in Actions /\ out \in [OutPath -> OutNode]
      /\ todo = {x \in OutPath : out[x].is \in AbsoluteLink}
      /\ \A x \in OutPath : \/ out[x] = action.script.out[x]
                            \/ out[x] = Is("file") /\ LeadsToFile(action.script.out[x])
  BY DEF ReplaceLink, IInv, ReplaceInv, TypeOK
<1>2. Is("file").is \notin AbsoluteLink
  BY DEF Is, AbsoluteLink
<1>3. out[o].is \in AbsoluteLink /\ out[o] = action.script.out[o]
  BY <1>1, <1>2
<1>4. CASE LeadsToFile(out[o])
  <2>1. out' = [out EXCEPT ![o] = Is("file")] /\ todo' = todo \ {o} /\ pc' = pc
    BY <1>4 DEF ReplaceLink
  <2>2. ReplaceInv'
    <3>1. todo' = {x \in OutPath : out'[x].is \in AbsoluteLink}
      BY <1>1, <1>2, <2>1
    <3>2. \A x \in OutPath : LeadsToFile(action.script.out[x])' = LeadsToFile(action.script.out[x])
      BY <1>1 DEF LeadsToFile
    <3>3. \A x \in OutPath : \/ out'[x] = action.script.out[x]
                             \/ out'[x] = Is("file") /\ LeadsToFile(action.script.out[x])
      BY <1>1, <1>3, <1>4, <2>1
    <3>4. QED
      BY <1>1, <2>1, <3>1, <3>2, <3>3 DEF ReplaceInv, LeadsToFile, Is
  <2>3. DrainedInv'
    BY <1>1, <2>1, SameAction DEF IInv, DrainedInv, Occupied, Late, Gone
  <2>4. RunfilesLeft'
    <3>1. \A p \in action.runfiles : Unlinked(p)' = Unlinked(p)
      BY <1>1, ActionFacts, SameAction
    <3>2. QED
      BY <1>1, <2>1, <3>1 DEF IInv, RunfilesLeft, Gone, Late
  <2>5. ReadyInv' /\ UnlinkInv'
    BY <1>1, <2>1, SameAction, PathFacts DEF IInv, ReadyInv, Running, Late, UnlinkInv, Gone
  <2>6. QED
    BY <1>1, <2>1, <2>2, <2>3, <2>4, <2>5, GoingOn
       DEF IInv, LayoutInv, ExecLinksInv, DrainInv
<1>5. CASE ~LeadsToFile(out[o])
  <2>1. pc' = "ended" /\ result' = "failed"
    BY <1>5 DEF ReplaceLink, Fail
  <2>2. LeavesDeadLink
    BY <1>1, <1>3, <1>5, DeadLinks
  <2>3. QED
    BY <1>1, <2>1, <2>2, EndedStep DEF Cause
<1>6. QED
  BY <1>4, <1>5

LEMMA ReplaceDoneStep ==
  ASSUME IInv, TypeOK', ReplaceDone
  PROVE  IInv'
<1>1. /\ pc = "replace" /\ pc' = "sweep" /\ todo = {} /\ action' = action /\ tree' = tree
      /\ execLinks' = execLinks /\ out' = out /\ action \in Actions
      /\ \A x \in OutPath : out[x].is \notin AbsoluteLink
      /\ \A x \in OutPath : \/ out[x] = action.script.out[x]
                            \/ out[x] = Is("file") /\ LeadsToFile(action.script.out[x])
  BY DEF ReplaceDone, IInv, ReplaceInv, TypeOK
<1>2. ~LeavesDeadLink
  BY <1>1, DeadLinks
<1>3. ReplaceInv'
  <2>1. ASSUME NEW x \in OutPath PROVE out[x] = Plain(action.script.out[x])
    BY <1>1, <2>1 DEF Plain, LeadsToFile, AbsoluteLink
  <2>2. QED
    BY <1>1, <1>2, <2>1, SameAction DEF ReplaceInv, Plain, AbsoluteLink, Is
<1>4. DrainedInv'
  BY <1>1, SameAction DEF IInv, DrainedInv, Occupied, Late, Gone
<1>5. RunfilesLeft'
  <2>1. \A p \in action.runfiles : Unlinked(p)' = Unlinked(p)
    BY <1>1, ActionFacts, SameAction
  <2>2. QED
    BY <1>1, <2>1 DEF IInv, RunfilesLeft, Gone, Late
<1>6. ReadyInv' /\ UnlinkInv'
  BY <1>1, SameAction, PathFacts DEF IInv, ReadyInv, Running, Late, UnlinkInv, Gone
<1>7. QED
  BY <1>1, <1>3, <1>4, <1>5, <1>6, GoingOn
     DEF IInv, LayoutInv, ExecLinksInv, DrainInv

\* A runner that comes to the sweep has met no cause to fail.
LEMMA NoCause ==
  ASSUME IInv, pc = "mark"
  PROVE  ~Cause
<1>1. /\ action \in Actions /\ action.script.succeeds /\ action.rundir # "invalid"
      /\ action.depEnv = "good" /\ ~NowhereToLink /\ ~NowhereToRun /\ ~LeavesDeadLink
      /\ ~NowhereToMark /\ \A e \in Linked : ~Gone(Scripted(e))
      /\ \A p \in action.runfiles : Gone(Unlinked(p)) => ~action.symlinks /\ p \notin action.retain
  BY DEF IInv, TypeOK, ReadyInv, Running, Late, ReplaceInv, UnlinkInv, DrainedInv, RunfilesLeft
<1>2. Linked \subseteq Path /\ action.runfiles \subseteq Laid /\ action.runfiles \subseteq Path
  BY <1>1, PathFacts, ActionFacts
<1>3. ~Collides
  <2>1. ASSUME NEW e \in Linked PROVE e \notin Dirs
    BY <1>1, <1>2, <2>1, NodeFacts DEF Gone
  <2>2. ASSUME NEW e \in Linked, e \in action.runfiles PROVE ~action.symlinks /\ e \notin action.retain
    BY <1>1, <2>2 DEF Unlinked, Gone
  <2>3. QED
    BY <2>1, <2>2 DEF Collides, Dirs
<1>4. ~Deletes
  <2>1. SUFFICES ASSUME NEW p \in (action.script.deletes \ action.script.writes)
                                    \union action.script.makes,
                        \/ p \in Linked
                        \/ p \in action.runfiles /\ (action.symlinks \/ p \in action.retain)
                 PROVE  FALSE
    BY DEF Deletes
  <2>2. p \in Path /\ p \notin Dirs
    BY <1>1, <1>2, <1>3, <2>1 DEF Dirs, Collides
  <2>3. Parent[p] \in {Top} \union Dirs
    <3>1. CASE p \in Laid
      BY <1>1, <2>2, <3>1, PathFacts
    <3>2. CASE p \notin Laid
      <4>1. p \in Linked /\ Manifest \in Laid
        BY <1>1, <1>2, <2>1, <3>2 DEF NowhereToLink
      <4>2. QED
        BY <1>1, <4>1, PathFacts
    <3>3. QED
      BY <3>1, <3>2
  <2>4. Scripted(p) \in {"absent", "dir"}
    <3>1. action.script.makes \intersect action.script.writes = {}
      BY <1>1, ActionFacts DEF WellFormed
    <3>2. QED
      BY <2>1, <2>2, <2>3, <3>1 DEF Scripted, Standing
  <2>5. QED
    BY <1>1, <2>1, <2>4 DEF Unlinked, Gone
<1>5. QED
  BY <1>1, <1>3, <1>4 DEF Cause

LEMMA SweepStep ==
  ASSUME IInv, TypeOK', Sweep
  PROVE  IInv'
<1>1. /\ pc = "sweep" /\ pc' = "mark" /\ action' = action /\ tree' = tree /\ todo' = todo
      /\ execLinks' = execLinks /\ action \in Actions
      /\ \A o \in OutPath : out[o] = Plain(action.script.out[o])
      /\ ~LeavesDeadLink
  BY DEF Sweep, IInv, ReplaceInv, TypeOK
<1>2. \A o \in OutPath : out'[o] = Swept(o, refused')
  <2>1. PICK kept \in SUBSET {o \in OutPath : SweptFile(o)} :
          /\ refused' = kept
          /\ out' = [o \in OutPath |-> IF SweptFile(o) /\ o \notin kept THEN Is("absent") ELSE out[o]]
    BY DEF Sweep
  <2>2. ASSUME NEW o \in OutPath PROVE out'[o] = Swept(o, refused')
    <3>1. SweptFile(o) <=> o \in Volatile /\ Plain(action.script.out[o]).is = "file"
      BY <1>1 DEF SweptFile
    <3>2. out'[o] = IF SweptFile(o) /\ o \notin kept THEN Is("absent") ELSE Plain(action.script.out[o])
      BY <1>1, <2>1
    <3>3. QED
      BY <2>1, <3>1, <3>2 DEF Swept
  <2>3. QED
    BY <2>2
<1>3. ReplaceInv'
  <2>1. \A o \in OutPath : Swept(o, refused)' = Swept(o, refused')
    BY <1>1 DEF Swept, Plain, AbsoluteLink, Is
  <2>2. QED
    BY <1>1, <1>2, <2>1, SameAction DEF ReplaceInv
<1>4. DrainedInv'
  BY <1>1, SameAction DEF IInv, DrainedInv, Occupied, Gone, Late
<1>5. RunfilesLeft'
  <2>1. \A p \in action.runfiles : Unlinked(p)' = Unlinked(p)
    BY <1>1, ActionFacts, SameAction
  <2>2. QED
    BY <1>1, <2>1 DEF IInv, RunfilesLeft, Late, Gone
<1>6. ReadyInv' /\ UnlinkInv'
  BY <1>1, SameAction, PathFacts DEF IInv, ReadyInv, Running, Late, UnlinkInv, Gone
<1>7. QED
  BY <1>1, <1>3, <1>4, <1>5, <1>6, GoingOn
     DEF IInv, LayoutInv, ExecLinksInv, DrainInv

LEMMA MarkOutDirStep ==
  ASSUME IInv, TypeOK', MarkOutDir
  PROVE  IInv'
<1>1. /\ pc = "mark" /\ pc' = "ended" /\ result' = "success" /\ action' = action /\ tree' = tree
      /\ action \in Actions /\ out \in [OutPath -> OutNode] /\ tree \in [Path -> Node]
      /\ \A o \in OutPath : out[o] = Swept(o, refused)
  BY DEF MarkOutDir, IInv, ReplaceInv, TypeOK
<1>2. FailsForCause'
  BY <1>1, NoCause, SameAction DEF FailsForCause
<1>3. RunfilesCaptured'
  <2>1. /\ action'.runfiles = action.runfiles /\ action'.retain = action.retain
        /\ action'.symlinks = action.symlinks /\ Made' = Made
    BY <1>1, SameAction
  <2>2. /\ \A p \in Path : tree[p] \in {"absent", "dir", "copy", "file"}
        /\ \E p \in Path : ~Gone(tree[p])
        /\ action.symlinks =>
             /\ \A p \in action.runfiles : tree[p] = IF p \in action.retain THEN "copy" ELSE "absent"
             /\ \A d \in Path : tree[d] = "dir" <=> Occupied(d)
    BY <1>1 DEF IInv, DrainedInv, Late
  <2>3. \A p \in Path : ~Gone(tree[p]) => tree[p] \in {"copy", "file"}
    BY <2>2 DEF Gone
  <2>4. QED
    BY <1>1, <2>1, <2>2, <2>3 DEF RunfilesCaptured, Occupied
<1>4. OutDirCaptured'
  <2> DEFINE Bare == \A o \in OutPath : Parent[o] = Top => out[o].is = "absent"
             Mark(listed) == ~listed \/ Bare
  <2>1. PICK listed \in BOOLEAN :
          /\ out' = IF Mark(listed) /\ out[EmptyMarker].is # "relative"
                    THEN [out EXCEPT ![EmptyMarker] = Is("file")] ELSE out
          /\ refused' = refused \union IF listed THEN {} ELSE {Top}
    BY DEF MarkOutDir
  <2>2. /\ Is("file").is = "file" /\ Is("absent").is = "absent" /\ EmptyMarker \in OutPath
        /\ Volatile \subseteq OutPath /\ Top \notin OutPath /\ Parent[EmptyMarker] = Top
    BY RunnerAssumption DEF Is
  <2>3. \A o \in OutPath : out'[o] = IF /\ o = EmptyMarker /\ Mark(listed)
                                        /\ out[EmptyMarker].is # "relative"
                                     THEN Is("file") ELSE out[o]
    BY <1>1, <2>1
  <2> HIDE DEF Bare, Mark
  <2>4. ASSUME NEW o \in OutPath \ {EmptyMarker}
        PROVE  LET left == Plain(action.script.out[o])
               IN  out'[o] = IF left.is = "file" /\ o \in Volatile \ refused' THEN Is("absent") ELSE left
    <3>1. o \in Volatile \ refused' <=> o \in Volatile \ refused
      BY <2>1, <2>2
    <3>2. out'[o] = Swept(o, refused)
      BY <1>1, <2>3
    <3>3. QED
      BY <3>1, <3>2 DEF Swept
  <2>5. \A node : Plain(node).is \notin AbsoluteLink
    BY <2>2 DEF Plain, AbsoluteLink
  <2>6. out'[EmptyMarker].is \notin AbsoluteLink
    <3>1. out[EmptyMarker].is \notin AbsoluteLink
      BY <1>1, <2>2, <2>5 DEF Swept, AbsoluteLink
    <3>2. QED
      BY <2>2, <2>3, <3>1 DEF AbsoluteLink
  <2>7. \E o \in OutPath : out'[o].is # "absent"
    <3>1. CASE Mark(listed)
      <4>1. out'[EmptyMarker].is # "absent"
        BY <2>2, <2>3, <3>1
      <4>2. QED
        BY <2>2, <4>1
    <3>2. CASE ~Mark(listed)
      BY <2>3, <3>2 DEF Mark, Bare
    <3>3. QED
      BY <3>1, <3>2
  <2>8. ASSUME out'[EmptyMarker].is # "absent", action.script.out[EmptyMarker].is = "absent",
               Top \notin refused', NEW o \in OutPath \ {EmptyMarker}, Parent[o] = Top
        PROVE  out'[o].is = "absent"
    <3>1. out[EmptyMarker].is = "absent"
      BY <1>1, <2>2, <2>8 DEF Swept, Plain, AbsoluteLink
    <3>2. Mark(listed) /\ listed
      BY <2>1, <2>2, <2>3, <2>8, <3>1
    <3>3. QED
      BY <2>3, <2>8, <3>2 DEF Mark, Bare
  <2>9. action' = action
    BY <1>1
  <2>10. /\ \A o \in OutPath \ {EmptyMarker} :
              LET left == Plain(action'.script.out[o])
              IN  out'[o] = IF left.is = "file" /\ o \in Volatile \ refused' THEN Is("absent") ELSE left
         /\ out'[EmptyMarker].is # "absent" =>
              \/ action'.script.out[EmptyMarker].is # "absent" \/ Top \in refused'
              \/ \A o \in OutPath \ {EmptyMarker} : Parent[o] = Top => out'[o].is = "absent"
    BY <2>4, <2>8, <2>9
  <2>11. QED
    BY <2>6, <2>7, <2>10 DEF OutDirCaptured, Plain, AbsoluteLink, Is
<1>5. QED
  BY <1>1, <1>2, <1>3, <1>4
     DEF IInv, LayoutInv, ExecLinksInv, ReadyInv, Running, Late, UnlinkInv, DrainInv, DrainedInv, ReplaceInv

(***************************************************************************)
(* The theorems.                                                           *)
(***************************************************************************)
LEMMA NextIInv == IInv /\ [Next]_vars => IInv'
<1> SUFFICES ASSUME IInv, [Next]_vars PROVE IInv'
  OBVIOUS
<1>1. TypeOK'
  BY TypeStep DEF IInv
<1>2. CASE UNCHANGED vars
  <2>1. /\ action' = action /\ pc' = pc /\ todo' = todo /\ tree' = tree /\ out' = out
        /\ refused' = refused /\ execLinks' = execLinks /\ result' = result /\ action \in Actions
    BY <1>2 DEF IInv, TypeOK, vars
  <2>2. LayoutInv' /\ ExecLinksInv' /\ ReadyInv' /\ UnlinkInv'
    BY <2>1, SameAction, PathFacts
       DEF IInv, LayoutInv, ExecLinksInv, ReadyInv, Running, Late, UnlinkInv, Gone, WithLinks, Base
  <2>3. DrainInv' /\ (pc' \in {"drain"} \union Late => RunfilesLeft')
    BY <2>1, SameAction, ActionFacts DEF IInv, DrainInv, Held, RunfilesLeft, Late, Gone
  <2>4. DrainedInv' /\ ReplaceInv'
    BY <2>1, SameAction
       DEF IInv, DrainedInv, Occupied, ReplaceInv, LeadsToFile, Swept, Plain, AbsoluteLink, Late, Gone, Is
  <2>5. FailsForCause' /\ RunfilesCaptured' /\ OutDirCaptured'
    BY <2>1, SameAction
       DEF IInv, FailsForCause, RunfilesCaptured, OutDirCaptured, Plain, AbsoluteLink, Is
  <2>6. QED
    BY <1>1, <2>2, <2>3, <2>4, <2>5 DEF IInv
<1>3. CASE InputOutputFails
  <2>1. action' = action /\ pc' = "ended" /\ result' = "io"
    BY <1>3 DEF InputOutputFails
  <2>2. QED
    BY <1>1, <2>1, EndedStep
<1>4. QED
  BY <1>1, <1>2, <1>3, CreateRunfileStep, LinkExecEntryStep, RemoveExecLinkStep, DrainRunfileStep,
     ReplaceLinkStep, LayoutDoneStep, ExecLinksDoneStep, PrepareEnvironmentStep, RunScriptStep,
     WriteOutputsStep, UnlinkDoneStep, DrainDoneStep, ReplaceDoneStep, SweepStep, MarkOutDirStep
     DEF Next, Ended

LEMMA AlwaysIInv == Spec => []IInv
BY InitIInv, NextIInv, PTL DEF Spec

\* What Bazel captures after a success: in the runfiles directory the runfiles to
\* retain, as files of their own, no link of the runner's, and of directories only those
\* that hold something and those the script made; in OUT_DIR all the script left, with
\* absolute links as files, less the volatile files the file system lets the sweep
\* remove; and something in each (drain_runfiles_dir_unix, replace_symlinks_in_out_dir,
\* remove_nondeterministic_out_dir_files, run_buildrs), for any layout, exec root and script.
THEOREM RunnerCaptures == Spec => []Captured
<1>1. IInv => Captured
  BY DEF IInv, Captured
<1>2. QED
  BY <1>1, AlwaysIInv, PTL

\* The runner fails, but for an error of the file system, exactly for the causes the
\* package, the exec root and the script give it before it starts: it never succeeds
\* over one of them, and has no other (create_runfiles_dir, run_buildrs).
THEOREM RunnerFailsForCause == Spec => []FailsForCause
<1>1. IInv => FailsForCause
  BY DEF IInv
<1>2. QED
  BY <1>1, AlwaysIInv, PTL
-----------------------------------------------------------------------------
(***************************************************************************)
(* Induction, for a set instead of a predicate, and the recursion that it  *)
(* justifies: a function on 0..N that each value makes of the one before.  *)
(***************************************************************************)
Less == {pair \in Nat \X Nat : pair[1] < pair[2]}

LEMMA Induct ==
  ASSUME NEW S, 0 \in S, \A n \in Nat : n \in S => n + 1 \in S
  PROVE  Nat \subseteq S
<1> SUFFICES ASSUME Nat \ S # {} PROVE FALSE
  OBVIOUS
<1>1. IsWellFoundedOn(Less, Nat)
  BY NatLessThanWellFounded DEF OpToRel, Less
<1>2. PICK n \in Nat \ S : \A m \in Nat \ S : ~(<<m, n>> \in Less)
  BY <1>1, WFMin
<1>3. n # 0 /\ n - 1 \in Nat /\ n - 1 + 1 = n
  BY <1>2
<1>4. n - 1 \in S
  <2> SUFFICES ASSUME n - 1 \in Nat \ S PROVE FALSE
    BY <1>3
  <2>1. <<n - 1, n>> \in Nat \X Nat /\ <<n - 1, n>>[1] = n - 1 /\ <<n - 1, n>>[2] = n
    BY <1>2, <1>3
  <2>2. <<n - 1, n>> \in Less
    BY <1>2, <2>1 DEF Less
  <2>3. QED
    BY <1>2, <2>2
<1>5. QED
  BY <1>2, <1>3, <1>4

Recurs(f, N, base, step) == f = [n \in 0..N |-> IF n = 0 THEN base ELSE step[n][f[n - 1]]]

LEMMA Recursion ==
  ASSUME NEW V, NEW base \in V, NEW N \in Nat, NEW step \in [1..N -> [V -> V]]
  PROVE  \E f \in [0..N -> V] : Recurs(f, N, base, step)
<1> DEFINE S == {n \in Nat : n <= N => \E f \in [0..n -> V] : Recurs(f, n, base, step)}
<1>1. 0 \in S
  <2> DEFINE f == [n \in 0..0 |-> base]
  <2>1. f \in [0..0 -> V]
    OBVIOUS
  <2>2. Recurs(f, 0, base, step)
    BY DEF Recurs
  <2>3. QED
    BY <2>1, <2>2
<1>2. ASSUME NEW n \in Nat, n \in S PROVE n + 1 \in S
  <2> SUFFICES ASSUME n + 1 <= N
               PROVE  \E f \in [0..(n + 1) -> V] : Recurs(f, n + 1, base, step)
    OBVIOUS
  <2>1. PICK f \in [0..n -> V] : Recurs(f, n, base, step)
    BY <1>2
  <2> DEFINE g == [k \in 0..(n + 1) |-> IF k = n + 1 THEN step[n + 1][f[n]] ELSE f[k]]
  <2>2. step[n + 1][f[n]] \in V
    BY <2>1
  <2>3. g \in [0..(n + 1) -> V]
    BY <2>1, <2>2
  <2>4. ASSUME NEW k \in 0..(n + 1)
        PROVE  g[k] = IF k = 0 THEN base ELSE step[k][g[k - 1]]
    <3>1. CASE k = n + 1
      BY <3>1
    <3>2. CASE k # n + 1
      <4>1. k \in 0..n /\ g[k] = f[k] /\ (k # 0 => k - 1 \in 0..n /\ g[k - 1] = f[k - 1])
        BY <3>2
      <4>2. QED
        BY <2>1, <4>1 DEF Recurs
    <3>3. QED
      BY <3>1, <3>2
  <2>5. Recurs(g, n + 1, base, step)
    <3>1. g = [k \in 0..(n + 1) |-> g[k]]
      OBVIOUS
    <3> HIDE DEF g
    <3>2. QED
      BY <2>4, <3>1 DEF Recurs
  <2>6. QED
    BY <2>3, <2>5
<1> HIDE DEF S
<1>3. N \in S /\ N <= N
  BY <1>1, <1>2, Induct
<1>4. QED
  BY <1>3 DEF S
-----------------------------------------------------------------------------
(***************************************************************************)
(* Choosing lines by their kind.                                           *)
(***************************************************************************)
Picks(f, lines, kinds) ==
  f = [n \in 0..Len(lines) |->
        IF n = 0 THEN <<>>
        ELSE IF lines[n].kind \in kinds THEN Append(f[n - 1], lines[n]) ELSE f[n - 1]]

LEMMA ChosenUnfolds ==
  ASSUME NEW lines \in Seq(Directive), NEW kinds
  PROVE  \E f \in [0..Len(lines) -> Seq(Directive)] :
           Picks(f, lines, kinds) /\ Chosen(lines, kinds) = f[Len(lines)]
<1> DEFINE N == Len(lines)
           V == Seq(Directive)
           step == [n \in 1..N |-> [v \in V |->
                     IF lines[n].kind \in kinds THEN Append(v, lines[n]) ELSE v]]
           chosen[n \in 0..Len(lines)] ==
             IF n = 0 THEN <<>>
             ELSE IF lines[n].kind \in kinds THEN Append(chosen[n - 1], lines[n]) ELSE chosen[n - 1]
           IsChosen(f) == Picks(f, lines, kinds)
           c == CHOOSE f : IsChosen(f)
<1>1. Chosen(lines, kinds) = chosen[N]
  BY DEF Chosen
<1>2. chosen = c
  BY Zenon DEF Picks
<1> HIDE DEF chosen, IsChosen
<1>3. \A g : IsChosen(g) => IsChosen(c)
  BY Zenon
<1> HIDE DEF c
<1>4. N \in Nat /\ <<>> \in V /\ step \in [1..N -> [V -> V]]
  <2>1. \A n \in 1..N : lines[n] \in Directive
    OBVIOUS
  <2>2. \A v \in V, d \in Directive : Append(v, d) \in V
    OBVIOUS
  <2> HIDE DEF V
  <2>3. \A n \in 1..N : step[n] \in [V -> V]
    BY <2>1, <2>2
  <2>4. QED
    BY <2>3 DEF V
<1>5. PICK f \in [0..N -> V] : Recurs(f, N, <<>>, step)
  BY <1>4, Recursion
<1>6. \A g \in [0..N -> V] : Recurs(g, N, <<>>, step) <=> IsChosen(g)
  <2> SUFFICES ASSUME NEW g \in [0..N -> V]
               PROVE  Recurs(g, N, <<>>, step) <=> IsChosen(g)
    OBVIOUS
  <2>1. \A n \in 1..N : step[n][g[n - 1]] =
          IF lines[n].kind \in kinds THEN Append(g[n - 1], lines[n]) ELSE g[n - 1]
    <3> HIDE DEF V
    <3>1. \A n \in 1..N : n - 1 \in 0..N
      BY <1>4
    <3>2. QED
      BY <3>1
  <2>2. [n \in 0..N |-> IF n = 0 THEN <<>> ELSE step[n][g[n - 1]]]
          = [n \in 0..Len(lines) |->
              IF n = 0 THEN <<>>
              ELSE IF lines[n].kind \in kinds THEN Append(g[n - 1], lines[n]) ELSE g[n - 1]]
    <3> HIDE DEF step
    <3>1. QED
      BY <1>4, <2>1
  <2>3. QED
    BY <2>2, Zenon DEF Recurs, IsChosen, Picks
<1>7. IsChosen(f) /\ IsChosen(c)
  BY <1>3, <1>5, <1>6
<1>8. c = f
  <2> DEFINE S == {n \in Nat : n <= N => c[n] = f[n]}
             Step(g, n) == IF n = 0 THEN <<>>
                           ELSE IF lines[n].kind \in kinds THEN Append(g[n - 1], lines[n]) ELSE g[n - 1]
  <2>1. /\ c = [n \in 0..N |-> Step(c, n)] /\ f = [n \in 0..N |-> Step(f, n)]
    BY <1>7, Zenon DEF IsChosen, Picks
  <2>2. \A n \in 0..N : c[n] = Step(c, n) /\ f[n] = Step(f, n)
    <3> HIDE DEF Step
    <3>1. QED
      BY <2>1
  <2>3. 0 \in S
    BY <1>4, <2>2
  <2>4. ASSUME NEW n \in Nat, n \in S PROVE n + 1 \in S
    <3> SUFFICES ASSUME n + 1 <= N PROVE c[n + 1] = f[n + 1]
      OBVIOUS
    <3>1. n + 1 \in 0..N /\ n + 1 # 0 /\ (n + 1) - 1 = n /\ c[n] = f[n]
      BY <1>4, <2>4
    <3>2. QED
      BY <2>2, <3>1
  <2> HIDE DEF S
  <2>5. Nat \subseteq S
    BY <2>3, <2>4, Induct
  <2>6. \A n \in 0..N : c[n] = f[n]
    BY <1>4, <2>5 DEF S
  <2>7. DOMAIN c = 0..N /\ DOMAIN f = 0..N /\ c = [n \in 0..N |-> c[n]] /\ f = [n \in 0..N |-> f[n]]
    <3> HIDE DEF Step
    <3>1. QED
      BY <2>1
  <2>8. QED
    BY <2>6, <2>7
<1>9. QED
  BY <1>1, <1>2, <1>7, <1>8 DEF IsChosen

LEMMA ChosenLines ==
  ASSUME NEW lines \in Seq(Directive), NEW kinds
  PROVE  Chosen(lines, kinds) \in Seq(Directive)
<1>1. PICK f \in [0..Len(lines) -> Seq(Directive)] : Chosen(lines, kinds) = f[Len(lines)]
  BY ChosenUnfolds
<1>2. Len(lines) \in 0..Len(lines)
  OBVIOUS
<1>3. QED
  BY <1>1, <1>2

LEMMA ChosenEmpty == ASSUME NEW kinds PROVE Chosen(<<>>, kinds) = <<>>
<1>1. <<>> \in Seq(Directive) /\ Len(<<>>) = 0
  OBVIOUS
<1>2. PICK f \in [0..0 -> Seq(Directive)] : Picks(f, <<>>, kinds) /\ Chosen(<<>>, kinds) = f[0]
  BY <1>1, ChosenUnfolds
<1>3. 0 \in 0..Len(<<>>)
  BY <1>1
<1>4. QED
  BY <1>2, <1>3 DEF Picks

(* One line more. *)
LEMMA ChosenAppend ==
  ASSUME NEW lines \in Seq(Directive), NEW line \in Directive, NEW kinds
  PROVE  Chosen(Append(lines, line), kinds)
           = IF line.kind \in kinds THEN Append(Chosen(lines, kinds), line) ELSE Chosen(lines, kinds)
<1> DEFINE all == Append(lines, line)
           N == Len(lines)
<1>1. all \in Seq(Directive) /\ Len(all) = N + 1 /\ N \in Nat
  OBVIOUS
<1>2. all[N + 1] = line /\ \A n \in 1..N : all[n] = lines[n]
  OBVIOUS
<1>3. PICK f \in [0..N -> Seq(Directive)] : Picks(f, lines, kinds) /\ Chosen(lines, kinds) = f[N]
  BY ChosenUnfolds
<1>4. PICK g \in [0..(N + 1) -> Seq(Directive)] : Picks(g, all, kinds) /\ Chosen(all, kinds) = g[N + 1]
  BY <1>1, ChosenUnfolds
<1> HIDE DEF all
<1>5. \A n \in 0..N :
        f[n] = IF n = 0 THEN <<>>
               ELSE IF lines[n].kind \in kinds THEN Append(f[n - 1], lines[n]) ELSE f[n - 1]
  BY <1>3 DEF Picks
<1>6. \A n \in 0..(N + 1) :
        g[n] = IF n = 0 THEN <<>>
               ELSE IF all[n].kind \in kinds THEN Append(g[n - 1], all[n]) ELSE g[n - 1]
  BY <1>1, <1>4 DEF Picks
<1> DEFINE S == {n \in Nat : n <= N => f[n] = g[n]}
<1>7. 0 \in S
  BY <1>1, <1>5, <1>6
<1>8. ASSUME NEW n \in Nat, n \in S PROVE n + 1 \in S
  <2> SUFFICES ASSUME n + 1 <= N PROVE f[n + 1] = g[n + 1]
    OBVIOUS
  <2>1. /\ n + 1 \in 1..N /\ n + 1 \in 0..N /\ n + 1 \in 0..(N + 1) /\ n + 1 # 0 /\ (n + 1) - 1 = n
        /\ f[n] = g[n]
    BY <1>1, <1>8
  <2>2. QED
    BY <1>2, <1>5, <1>6, <2>1
<1> HIDE DEF S
<1>9. Nat \subseteq S
  BY <1>7, <1>8, Induct
<1>10. f[N] = g[N]
  <2>1. N \in S /\ N <= N
    BY <1>1, <1>9
  <2>2. QED
    BY <2>1 DEF S
<1>11. N + 1 \in 0..(N + 1) /\ N + 1 # 0 /\ (N + 1) - 1 = N
  BY <1>1
<1>12. g[N + 1] = IF line.kind \in kinds THEN Append(g[N], line) ELSE g[N]
  BY <1>2, <1>6, <1>11
<1>13. QED
  BY <1>3, <1>4, <1>10, <1>12 DEF all

(* The outputs are kept for all of their readers. *)
LEMMA ChosenOfChosen ==
  ASSUME NEW lines \in Seq(Directive), NEW all, NEW kinds, kinds \subseteq all
  PROVE  Chosen(Chosen(lines, all), kinds) = Chosen(lines, kinds)
<1> DEFINE N == Len(lines)
<1>1. N \in Nat
  OBVIOUS
<1>2. PICK f \in [0..N -> Seq(Directive)] : Picks(f, lines, all) /\ Chosen(lines, all) = f[N]
  BY ChosenUnfolds
<1>3. PICK g \in [0..N -> Seq(Directive)] : Picks(g, lines, kinds) /\ Chosen(lines, kinds) = g[N]
  BY ChosenUnfolds
<1>4. \A n \in 0..N :
        f[n] = IF n = 0 THEN <<>>
               ELSE IF lines[n].kind \in all THEN Append(f[n - 1], lines[n]) ELSE f[n - 1]
  BY <1>2 DEF Picks
<1>5. \A n \in 0..N :
        g[n] = IF n = 0 THEN <<>>
               ELSE IF lines[n].kind \in kinds THEN Append(g[n - 1], lines[n]) ELSE g[n - 1]
  BY <1>3 DEF Picks
<1> DEFINE S == {n \in Nat : n <= N => Chosen(f[n], kinds) = g[n]}
<1>6. 0 \in S
  BY <1>1, <1>4, <1>5, ChosenEmpty
<1>7. ASSUME NEW n \in Nat, n \in S PROVE n + 1 \in S
  <2> SUFFICES ASSUME n + 1 <= N PROVE Chosen(f[n + 1], kinds) = g[n + 1]
    OBVIOUS
  <2>1. /\ n + 1 \in 1..N /\ n + 1 \in 0..N /\ n \in 0..N /\ n + 1 # 0 /\ (n + 1) - 1 = n
        /\ Chosen(f[n], kinds) = g[n]
    BY <1>1, <1>7
  <2>2. f[n] \in Seq(Directive) /\ lines[n + 1] \in Directive
    BY <2>1
  <2>3. f[n + 1] = IF lines[n + 1].kind \in all THEN Append(f[n], lines[n + 1]) ELSE f[n]
    BY <1>4, <2>1
  <2>4. g[n + 1] = IF lines[n + 1].kind \in kinds THEN Append(g[n], lines[n + 1]) ELSE g[n]
    BY <1>5, <2>1
  <2> DEFINE line == lines[n + 1]
  <2>5. Chosen(Append(f[n], line), kinds)
          = IF line.kind \in kinds THEN Append(Chosen(f[n], kinds), line) ELSE Chosen(f[n], kinds)
    <3>1. \A chosen \in Seq(Directive), d \in Directive :
            Chosen(Append(chosen, d), kinds)
              = IF d.kind \in kinds THEN Append(Chosen(chosen, kinds), d) ELSE Chosen(chosen, kinds)
      BY ChosenAppend
    <3>2. QED
      BY <2>2, <3>1
  <2>6. QED
    BY <2>1, <2>3, <2>4, <2>5
<1> HIDE DEF S
<1>8. N \in S /\ N <= N
  BY <1>1, <1>6, <1>7, Induct
<1>9. QED
  BY <1>2, <1>3, <1>8 DEF S

(* What is chosen has its kind and comes from the lines. *)
LEMMA ChosenFrom ==
  ASSUME NEW lines \in Seq(Directive), NEW kinds
  PROVE  \A i \in DOMAIN Chosen(lines, kinds) :
           \E n \in DOMAIN lines : Chosen(lines, kinds)[i] = lines[n]
<1> DEFINE N == Len(lines)
<1>1. N \in Nat /\ DOMAIN lines = 1..N
  OBVIOUS
<1>2. PICK f \in [0..N -> Seq(Directive)] : Picks(f, lines, kinds) /\ Chosen(lines, kinds) = f[N]
  BY ChosenUnfolds
<1>3. \A n \in 0..N :
        f[n] = IF n = 0 THEN <<>>
               ELSE IF lines[n].kind \in kinds THEN Append(f[n - 1], lines[n]) ELSE f[n - 1]
  BY <1>2 DEF Picks
<1> DEFINE From(chosen) == \A i \in DOMAIN chosen : \E n \in DOMAIN lines : chosen[i] = lines[n]
           S == {n \in Nat : n <= N => From(f[n])}
<1>4. 0 \in S
  <2>1. 0 \in 0..N /\ f[0] = <<>> /\ DOMAIN <<>> = {}
    BY <1>1, <1>3
  <2>2. QED
    BY <2>1
<1>5. ASSUME NEW n \in Nat, n \in S PROVE n + 1 \in S
  <2> SUFFICES ASSUME n + 1 <= N PROVE From(f[n + 1])
    OBVIOUS
  <2>1. /\ n + 1 \in 1..N /\ n + 1 \in 0..N /\ n \in 0..N /\ n + 1 # 0 /\ (n + 1) - 1 = n
        /\ From(f[n])
    BY <1>1, <1>5
  <2>2. f[n + 1] = IF lines[n + 1].kind \in kinds THEN Append(f[n], lines[n + 1]) ELSE f[n]
    BY <1>3, <2>1
  <2>3. From(Append(f[n], lines[n + 1]))
    <3>1. f[n] \in Seq(Directive) /\ lines[n + 1] \in Directive
      BY <2>1
    <3>2. ASSUME NEW i \in DOMAIN Append(f[n], lines[n + 1])
          PROVE  \E k \in DOMAIN lines : Append(f[n], lines[n + 1])[i] = lines[k]
      <4>1. \/ i \in DOMAIN f[n] /\ Append(f[n], lines[n + 1])[i] = f[n][i]
            \/ Append(f[n], lines[n + 1])[i] = lines[n + 1]
        BY <3>1
      <4>2. QED
        BY <1>1, <2>1, <4>1
    <3>3. QED
      BY <3>2
  <2> HIDE DEF From
  <2>4. QED
    BY <2>1, <2>2, <2>3
<1> HIDE DEF S, From
<1>6. N \in S /\ N <= N
  BY <1>1, <1>4, <1>5, Induct
<1>7. From(f[N])
  BY <1>6 DEF S
<1>8. QED
  BY <1>2, <1>7 DEF From
-----------------------------------------------------------------------------
(***************************************************************************)
(* Reading back a file of values none of which joins its line to the next. *)
(***************************************************************************)
Halved(value) == [value EXCEPT !.slashes = @ \div 2]
Reads(f, values) ==
  f = [n \in 0..Len(values) |->
        IF n = 0 THEN [done |-> <<>>, open |-> <<>>] ELSE ReadLineOf(f[n - 1], values[n])]

(* A value with one thing changed. *)
LEMMA Changed ==
  ASSUME NEW value \in Value
  PROVE  /\ value = [id |-> value.id, root |-> value.root, slashes |-> value.slashes]
         /\ \A s \in Nat : /\ [value EXCEPT !.slashes = s]
                                = [id |-> value.id, root |-> value.root, slashes |-> s]
                           /\ [value EXCEPT !.slashes = s] \in Value
         /\ \A r : [value EXCEPT !.root = r]
                     = [id |-> value.id, root |-> r, slashes |-> value.slashes]
BY DEF Value

LEMMA ReadsEach ==
  ASSUME NEW values \in Seq(Value), \A i \in DOMAIN values : values[i].slashes \in {0, 2}
  PROVE  ReadFileToArray(values) = [i \in DOMAIN values |-> <<Halved(values[i])>>]
<1> DEFINE N == Len(values)
           Upto(n) == [i \in 1..n |-> <<Halved(values[i])>>]
           w == [n \in 0..N |-> [done |-> Upto(n), open |-> <<>>]]
           read[n \in 0..Len(values)] ==
             IF n = 0 THEN [done |-> <<>>, open |-> <<>>] ELSE ReadLineOf(read[n - 1], values[n])
           IsRead(f) == Reads(f, values)
           c == CHOOSE f : IsRead(f)
<1>1. ReadFileToArray(values) = read[N].done
  BY DEF ReadFileToArray
<1>2. read = c
  BY Zenon DEF Reads
<1> HIDE DEF read
<1>3. N \in Nat /\ DOMAIN values = 1..N
  OBVIOUS
<1>4. \A n \in 1..N : values[n] \in Value /\ values[n].slashes \in {0, 2} /\ Halved(values[n]) \in Value
  <2> TAKE n \in 1..N
  <2>1. values[n] \in Value /\ values[n].slashes \in {0, 2}
    BY <1>3
  <2>2. values[n].slashes \div 2 \in Nat
    BY <2>1
  <2> DEFINE s == values[n].slashes \div 2
  <2>3. [values[n] EXCEPT !.slashes = s] \in Value
    <3> HIDE DEF s
    <3>1. s \in Nat
      BY <2>2 DEF s
    <3>2. QED
      BY <2>1, <3>1, Changed
  <2>4. QED
    BY <2>1, <2>3 DEF Halved
<1>5. Upto(0) = <<>>
  OBVIOUS
<1>6. ASSUME NEW n \in 1..N
      PROVE  ReadLineOf(w[n - 1], values[n]) = [done |-> Upto(n), open |-> <<>>]
  <2>1. w[n - 1] = [done |-> Upto(n - 1), open |-> <<>>]
    <3> HIDE DEF Upto
    <3>1. n - 1 \in 0..N
      BY <1>3
    <3>2. QED
      BY <3>1
  <2>2. values[n].slashes % 2 = 0
    BY <1>4
  <2>3. Append(<<>>, Halved(values[n])) = <<Halved(values[n])>>
    OBVIOUS
  <2>4. Append(Upto(n - 1), <<Halved(values[n])>>) = Upto(n)
    <3>1. \A i \in 1..N : <<Halved(values[i])>> \in Seq(Value)
      BY <1>4
    <3> DEFINE line == [i \in 1..N |-> <<Halved(values[i])>>]
    <3>2. /\ Upto(n - 1) = [i \in 1..(n - 1) |-> line[i]] /\ Upto(n) = [i \in 1..n |-> line[i]]
          /\ line[n] = <<Halved(values[n])>> /\ \A i \in 1..N : line[i] \in Seq(Value)
      BY <1>3, <3>1
    <3> HIDE DEF line, Upto
    <3>3. Upto(n - 1) \in Seq(Seq(Value)) /\ Len(Upto(n - 1)) = n - 1
      BY <1>3, <3>2
    <3>4. Append(Upto(n - 1), line[n]) = Upto(n)
      BY <1>3, <3>2, <3>3
    <3>5. QED
      BY <3>2, <3>4
  <2>5. ReadLineOf([done |-> Upto(n - 1), open |-> <<>>], values[n])
          = [done |-> Append(Upto(n - 1), <<Halved(values[n])>>), open |-> <<>>]
    <3> DEFINE done == Upto(n - 1)
               state == [done |-> done, open |-> <<>>]
               line == <<Halved(values[n])>>
    <3> HIDE DEF done
    <3>1. state.done = done /\ state.open = <<>>
      OBVIOUS
    <3>2. Append(state.open, [values[n] EXCEPT !.slashes = @ \div 2]) = line
      BY <2>3, <3>1 DEF Halved
    <3> HIDE DEF state, line
    <3>3. values[n].slashes % 2 # 1
      BY <2>2
    <3>4. ReadLineOf(state, values[n])
            = [done |-> Append(state.done,
                               Append(state.open, [values[n] EXCEPT !.slashes = @ \div 2])),
               open |-> <<>>]
      BY <3>3, Zenon DEF ReadLineOf
    <3>5. ReadLineOf(state, values[n]) = [done |-> Append(done, line), open |-> <<>>]
      BY <3>1, <3>2, <3>4
    <3>6. QED
      BY <3>5 DEF state, line, done
  <2> HIDE DEF Upto, w
  <2>6. QED
    BY <2>1, <2>4, <2>5
<1>7. IsRead(w)
  <2>1. w = [n \in 0..N |-> IF n = 0 THEN [done |-> <<>>, open |-> <<>>]
                             ELSE ReadLineOf(w[n - 1], values[n])]
    <3> DEFINE state(n) == [done |-> Upto(n), open |-> <<>>]
               next(n) == ReadLineOf(w[n - 1], values[n])
    <3>1. state(0) = [done |-> <<>>, open |-> <<>>] /\ \A n \in 1..N : next(n) = state(n)
      BY <1>5, <1>6
    <3>2. w = [n \in 0..N |-> state(n)]
      OBVIOUS
    <3> HIDE DEF state, next, w
    <3>3. w = [n \in 0..N |-> IF n = 0 THEN [done |-> <<>>, open |-> <<>>] ELSE next(n)]
      BY <1>3, <3>1, <3>2
    <3>4. QED
      BY <3>3 DEF next
  <2>2. QED
    BY <2>1, Zenon DEF IsRead, Reads
<1> HIDE DEF IsRead
<1>8. IsRead(c)
  BY <1>7, Zenon
<1> HIDE DEF c
<1>9. c = [n \in 0..N |-> IF n = 0 THEN [done |-> <<>>, open |-> <<>>]
                          ELSE ReadLineOf(c[n - 1], values[n])]
  BY <1>8, Zenon DEF IsRead, Reads
<1> DEFINE S == {n \in Nat : n <= N => c[n] = w[n]}
<1>10. 0 \in S
  <2> HIDE DEF Upto
  <2>1. QED
    BY <1>3, <1>5, <1>9
<1>11. ASSUME NEW n \in Nat, n \in S PROVE n + 1 \in S
  <2> SUFFICES ASSUME n + 1 <= N PROVE c[n + 1] = w[n + 1]
    OBVIOUS
  <2>1. n + 1 \in 1..N /\ n + 1 \in 0..N /\ n + 1 # 0 /\ (n + 1) - 1 = n /\ c[n] = w[n]
    <3> HIDE DEF w
    <3>1. QED
      BY <1>3, <1>11
  <2>2. c[n + 1] = ReadLineOf(w[n], values[n + 1])
    <3> HIDE DEF w
    <3>1. QED
      BY <1>9, <2>1
  <2>3. ReadLineOf(w[n], values[n + 1]) = [done |-> Upto(n + 1), open |-> <<>>]
    BY <1>6, <2>1
  <2>4. w[n + 1] = [done |-> Upto(n + 1), open |-> <<>>]
    BY <2>1
  <2>5. QED
    BY <2>2, <2>3, <2>4
<1> HIDE DEF S
<1>12. N \in S /\ N <= N
  BY <1>3, <1>10, <1>11, Induct
<1>13. c[N] = w[N]
  BY <1>12 DEF S
<1>14. w[N].done = Upto(N)
  BY <1>3
<1>15. QED
  BY <1>1, <1>2, <1>3, <1>13, <1>14

(***************************************************************************)
(* One value, from the script to its reader.                               *)
(***************************************************************************)
Printed == {value \in Value : value.root # "pwd"}

LEMMA Roots ==
  ASSUME NEW value \in Printed
  PROVE  /\ Redact(value) \in Value /\ Redact(value).slashes = value.slashes
         /\ Substituted(Redact(value)) = value
         /\ Substituted(value) = Moved(value)
<1>1. value \in Value /\ value.root \in {"none", "here", "stale"}
  BY DEF Printed, Value
<1>2. CASE value.root = "here"
  <2> DEFINE redacted == [id |-> value.id, root |-> "pwd", slashes |-> value.slashes]
  <2>1. Redact(value) = redacted
    BY <1>1, <1>2, Changed DEF Redact
  <2>2. redacted \in Value
    BY <1>1 DEF Value
  <2>3. Substituted(redacted) = [id |-> value.id, root |-> "here", slashes |-> value.slashes]
    BY DEF Substituted
  <2>4. Substituted(value) = [id |-> value.id, root |-> "stale", slashes |-> value.slashes]
    BY <1>1, <1>2, Changed DEF Substituted
  <2>5. Moved(value) = [id |-> value.id, root |-> "stale", slashes |-> value.slashes]
    BY <1>1, <1>2, Changed DEF Moved
  <2>6. QED
    BY <1>1, <1>2, <2>1, <2>2, <2>3, <2>4, <2>5, Changed
<1>3. CASE value.root \in {"none", "stale"}
  <2>1. Redact(value) = value /\ Moved(value) = value
    BY <1>3 DEF Redact, Moved
  <2>2. Substituted(value) = value
    BY <1>1, <1>3, Changed DEF Substituted
  <2>3. QED
    BY <1>1, <2>1, <2>2
<1>4. QED
  BY <1>1, <1>2, <1>3

LEMMA Unescaped ==
  ASSUME NEW value \in Value
  PROVE  value.slashes = 0 => Halved(value) = value /\ EscapeForSerializing(value) = value
<1>1. HAVE value.slashes = 0
<1>2. Halved(value) = value
  BY <1>1, Changed DEF Halved
<1>3. EscapeForSerializing(value) = value
  BY <1>1 DEF EscapeForSerializing
<1>4. QED
  BY <1>2, <1>3

(* Two backslashes for one at the end of a line, and back. *)
LEMMA EscapedFields ==
  ASSUME NEW value \in Printed, value.slashes <= 1
  PROVE  /\ Serialize(value) \in Value /\ Serialize(value).slashes \in {0, 2}
         /\ Substituted(Halved(Serialize(value))) = value
         /\ value.slashes = 0 => Substituted(Serialize(value)) = value
<1> DEFINE redacted == Redact(value)
<1>1. /\ redacted \in Value /\ redacted.slashes = value.slashes /\ Substituted(redacted) = value
      /\ value.slashes \in {0, 1}
  BY Roots DEF Printed, Value
<1>2. Serialize(value) = EscapeForSerializing(redacted)
  BY DEF Serialize
<1> HIDE DEF redacted
<1>3. CASE value.slashes = 0
  BY <1>1, <1>2, <1>3, Unescaped
<1>4. CASE value.slashes = 1
  <2> DEFINE escaped == [id |-> redacted.id, root |-> redacted.root, slashes |-> 2]
  <2>1. EscapeForSerializing(redacted) = [redacted EXCEPT !.slashes = 2]
    BY <1>1, <1>4, Changed DEF EscapeForSerializing
  <2>2. escaped = [redacted EXCEPT !.slashes = 2] /\ escaped \in Value
    BY <1>1, Changed
  <2>3. Halved(escaped) = [id |-> redacted.id, root |-> redacted.root, slashes |-> 1]
    BY DEF Halved
  <2>4. redacted = [id |-> redacted.id, root |-> redacted.root, slashes |-> 1]
    BY <1>1, <1>4, Changed
  <2>5. QED
    BY <1>1, <1>2, <1>4, <2>1, <2>2, <2>3, <2>4
<1>5. QED
  BY <1>1, <1>3, <1>4

(***************************************************************************)
(* The files, from the script to their readers.                            *)
(***************************************************************************)
LEMMA OutputsFor ==
  ASSUME NEW lines \in Seq(Directive), NEW kinds, kinds \subseteq Kept,
         \A n \in DOMAIN lines : lines[n].value.root # "pwd"
  PROVE  /\ OfKind(Outputs(lines), kinds) = OfKind(lines, kinds)
         /\ OfKind(lines, kinds) \in Seq(Printed)
<1>1. Chosen(Outputs(lines), kinds) = Chosen(lines, kinds)
  BY ChosenOfChosen DEF Outputs
<1> DEFINE chosen == Chosen(lines, kinds)
<1>2. chosen \in Seq(Directive)
  BY ChosenLines
<1>3. \A i \in DOMAIN chosen : \E n \in DOMAIN lines : chosen[i] = lines[n]
  BY ChosenFrom
<1>4. \A n \in DOMAIN lines : lines[n].value \in Printed
  <2> TAKE n \in DOMAIN lines
  <2>1. lines[n] \in Directive
    OBVIOUS
  <2>2. lines[n].value \in Value
    BY <2>1 DEF Directive
  <2>3. QED
    BY <2>2 DEF Printed
<1> HIDE DEF chosen
<1>5. \A i \in DOMAIN chosen : chosen[i].value \in Printed
  BY <1>3, <1>4
<1>6. DOMAIN chosen = 1..Len(chosen) /\ Len(chosen) \in Nat
  BY <1>2
<1>7. [i \in DOMAIN chosen |-> chosen[i].value] \in Seq(Printed)
  BY <1>5, <1>6
<1>8. QED
  BY <1>1, <1>7 DEF OfKind, chosen

\* A file whose values end in no odd backslash, read by the process wrapper.
LEMMA WrapperReads ==
  ASSUME NEW values \in Seq(Value), \A i \in DOMAIN values : values[i].slashes \in {0, 2}
  PROVE  ReadByWrapper(values) = [i \in DOMAIN values |-> <<Substituted(Halved(values[i]))>>]
<1> DEFINE lines == ReadFileToArray(values)
           Line(i) == <<Halved(values[i])>>
<1>1. lines = [i \in DOMAIN values |-> Line(i)]
  BY ReadsEach
<1>2. \A i \in DOMAIN values : Each(Substituted, Line(i)) = <<Substituted(Halved(values[i]))>>
  <2> TAKE i \in DOMAIN values
  <2> DEFINE value == Halved(values[i])
             line == <<value>>
  <2>1. Line(i) = line /\ DOMAIN line = {1} /\ line[1] = value
    OBVIOUS
  <2> HIDE DEF value
  <2>2. [k \in DOMAIN line |-> Substituted(line[k])] = <<Substituted(value)>>
    <3> DEFINE sub == Substituted(value)
    <3>1. sub = Substituted(value)
      OBVIOUS
    <3> HIDE DEF sub
    <3>2. [k \in DOMAIN line |-> Substituted(line[k])] = [k \in {1} |-> sub]
      BY <2>1, <3>1
    <3>3. [k \in {1} |-> sub] = <<sub>>
      OBVIOUS
    <3>4. QED
      BY <3>1, <3>2, <3>3
  <2>3. QED
    BY <2>1, <2>2 DEF Each, value
<1> HIDE DEF Line, lines
<1>3. [i \in DOMAIN lines |-> Each(Substituted, lines[i])]
        = [i \in DOMAIN values |-> <<Substituted(Halved(values[i]))>>]
  BY <1>1, <1>2
<1>4. QED
  BY <1>3 DEF ReadByWrapper, lines

(***************************************************************************)
(* From the time they are written the files are what the output makes them.*)
(***************************************************************************)
WrittenFor(prints) ==
  LET outputs == Outputs(prints)
  IN  [env |-> OutputsToEnv(outputs), dep_env |-> OutputsToDepEnv(outputs),
       compile_flags |-> CompileFlags(outputs), link_flags |-> LinkFlags(outputs),
       link_search_paths |-> LinkSearchPaths(outputs)]
AfterWriting == {"unlink", "drain"} \union Late
WrittenInv ==
  pc \in AfterWriting \/ result = "success" => written = WrittenFor(action.script.prints)

LEMMA NextWrittenInv == TypeOK /\ WrittenInv /\ [Next]_vars => WrittenInv'
<1> SUFFICES ASSUME TypeOK, WrittenInv, [Next]_vars PROVE WrittenInv'
  OBVIOUS
<1> USE DEF WrittenInv, AfterWriting, Late
<1>1. CASE UNCHANGED vars
  BY <1>1 DEF vars
<1>2. CASE \E p \in Path : \/ CreateRunfile(p) \/ LinkExecEntry(p)
                           \/ RemoveExecLink(p) \/ DrainRunfile(p)
  BY <1>2 DEF CreateRunfile, LinkExecEntry, RemoveExecLink, DrainRunfile, Fail, TypeOK
<1>3. CASE \E o \in OutPath : ReplaceLink(o)
  BY <1>3 DEF ReplaceLink, Fail, TypeOK
<1>4. CASE LayoutDone \/ ExecLinksDone \/ PrepareEnvironment \/ RunScript \/ InputOutputFails
  BY <1>4 DEF LayoutDone, ExecLinksDone, PrepareEnvironment, RunScript, InputOutputFails, Fail, TypeOK
<1>5. CASE WriteOutputs
  <2> HIDE DEF WrittenInv
  <2>1. written' = WrittenFor(action.script.prints) /\ action' = action
    BY <1>5, Zenon DEF WriteOutputs, WrittenFor
  <2>2. QED
    BY <2>1 DEF WrittenInv
<1>6. CASE UnlinkDone \/ DrainDone \/ ReplaceDone \/ Sweep \/ MarkOutDir
  BY <1>6 DEF UnlinkDone, DrainDone, ReplaceDone, Sweep, MarkOutDir, Fail, TypeOK
<1>7. CASE Ended
  BY <1>7 DEF Ended, vars
<1>8. QED
  BY <1>1, <1>2, <1>3, <1>4, <1>5, <1>6, <1>7, Zenon DEF Next

LEMMA Arrives ==
  ASSUME NEW prints \in Seq(Directive), \A n \in DOMAIN prints : prints[n].value.root # "pwd"
  PROVE  LET files == WrittenFor(prints)
             env == OfKind(prints, {"env"})
             dep == OfKind(prints, {"dep_env", "metadata"})
             link == OfKind(prints, {"link_lib"})
             search == OfKind(prints, {"link_search"})
             flags == OfKind(prints, {"cfg", "flags", "link_arg"})
         IN  /\ EndIn(env, 1) => ReadByWrapper(files.env) = Singly(env)
             /\ EndIn(dep, 0) => ReadByRunner(files.dep_env) = dep
             /\ EndIn(link, 0) => ReadByWrapper(files.link_flags) = Singly(link)
             /\ EndIn(search, 0) => ReadByWrapper(files.link_search_paths) = Singly(search)
             /\ EndIn(flags, 0) => ReadByWrapper(files.compile_flags) = Singly(Each(Moved, flags))
<1>1. \A kinds : kinds \subseteq Kept =>
        /\ OfKind(Outputs(prints), kinds) = OfKind(prints, kinds)
        /\ OfKind(prints, kinds) \in Seq(Printed)
  BY OutputsFor
<1>2. ASSUME NEW said \in Seq(Printed)
      PROVE  \A i \in DOMAIN said : said[i] \in Printed
  OBVIOUS
<1>3. ASSUME NEW said \in Seq(Printed), EndIn(said, 1)
      PROVE  ReadByWrapper(Each(Serialize, said)) = Singly(said)
  <2> DEFINE values == [i \in DOMAIN said |-> Serialize(said[i])]
  <2>1. \A i \in DOMAIN said : /\ Serialize(said[i]) \in Value /\ Serialize(said[i]).slashes \in {0, 2}
                               /\ Substituted(Halved(Serialize(said[i]))) = said[i]
    BY <1>2, <1>3, EscapedFields DEF EndIn
  <2>2. values \in Seq(Value) /\ DOMAIN values = DOMAIN said
        /\ \A i \in DOMAIN values : values[i] = Serialize(said[i])
    <3>1. DOMAIN said = 1..Len(said) /\ Len(said) \in Nat
      OBVIOUS
    <3>2. QED
      BY <2>1, <3>1
  <2> HIDE DEF values
  <2>3. ReadByWrapper(values) = [i \in DOMAIN values |-> <<Substituted(Halved(values[i]))>>]
    BY <2>1, <2>2, WrapperReads
  <2>4. [i \in DOMAIN values |-> <<Substituted(Halved(values[i]))>>] = [i \in DOMAIN said |-> <<said[i]>>]
    BY <2>1, <2>2
  <2>5. QED
    BY <2>3, <2>4 DEF Each, Singly, values
<1>4. ASSUME NEW said \in Seq(Printed), EndIn(said, 0)
      PROVE  /\ ReadByRunner(Each(Serialize, said)) = said
             /\ ReadByWrapper(Each(Redact, said)) = Singly(said)
             /\ ReadByWrapper(said) = Singly(Each(Moved, said))
  <2>1. \A i \in DOMAIN said : said[i] \in Printed /\ said[i].slashes = 0
    BY <1>2, <1>4 DEF EndIn, Printed, Value
  <2>2. DOMAIN said = 1..Len(said) /\ Len(said) \in Nat /\ said = [i \in DOMAIN said |-> said[i]]
    OBVIOUS
  <2>3. ReadByRunner(Each(Serialize, said)) = said
    <3> DEFINE values == [i \in DOMAIN said |-> Serialize(said[i])]
    <3>1. \A i \in DOMAIN said : Substituted(Serialize(said[i])) = said[i]
      BY <2>1, EscapedFields
    <3>2. [i \in DOMAIN values |-> Substituted(values[i])] = [i \in DOMAIN said |-> said[i]]
      BY <3>1
    <3>3. QED
      BY <2>2, <3>2 DEF ReadByRunner, Each
  <2>4. ReadByWrapper(Each(Redact, said)) = Singly(said)
    <3> DEFINE values == [i \in DOMAIN said |-> Redact(said[i])]
    <3>1. \A i \in DOMAIN said : /\ Redact(said[i]) \in Value /\ Redact(said[i]).slashes = 0
                                 /\ Substituted(Halved(Redact(said[i]))) = said[i]
      BY <2>1, Roots, Unescaped
    <3>2. values \in Seq(Value) /\ DOMAIN values = DOMAIN said
          /\ \A i \in DOMAIN values : values[i] = Redact(said[i])
      BY <2>2, <3>1
    <3> HIDE DEF values
    <3>3. ReadByWrapper(values) = [i \in DOMAIN values |-> <<Substituted(Halved(values[i]))>>]
      BY <3>1, <3>2, WrapperReads
    <3>4. [i \in DOMAIN values |-> <<Substituted(Halved(values[i]))>>] = [i \in DOMAIN said |-> <<said[i]>>]
      BY <3>1, <3>2
    <3>5. QED
      BY <3>3, <3>4 DEF Each, Singly, values
  <2>5. ReadByWrapper(said) = Singly(Each(Moved, said))
    <3>1. said \in Seq(Value)
      <4>1. \A i \in DOMAIN said : said[i] \in Value
        BY <2>1 DEF Printed
      <4>2. QED
        BY <2>2, <4>1
    <3>2. ReadByWrapper(said) = [i \in DOMAIN said |-> <<Substituted(Halved(said[i]))>>]
      BY <2>1, <3>1, WrapperReads
    <3>3. \A i \in DOMAIN said : Substituted(Halved(said[i])) = Moved(said[i])
      BY <2>1, Roots, Unescaped DEF Printed
    <3> DEFINE moved == [i \in DOMAIN said |-> Moved(said[i])]
    <3>4. [i \in DOMAIN said |-> <<Substituted(Halved(said[i]))>>] = [i \in DOMAIN moved |-> <<moved[i]>>]
      BY <3>3
    <3>5. QED
      BY <3>2, <3>4 DEF Each, Singly
  <2>6. QED
    BY <2>3, <2>4, <2>5
<1> DEFINE files == WrittenFor(prints)
           PrintedAs(kinds) == OfKind(prints, kinds)
<1>5. /\ files.env = Each(Serialize, PrintedAs({"env"}))
      /\ files.dep_env = Each(Serialize, PrintedAs({"dep_env", "metadata"}))
      /\ files.link_flags = Each(Redact, PrintedAs({"link_lib"}))
      /\ files.link_search_paths = Each(Redact, PrintedAs({"link_search"}))
      /\ files.compile_flags = PrintedAs({"cfg", "flags", "link_arg"})
  <2>1. \A kinds : kinds \subseteq Kept => OfKind(Outputs(prints), kinds) = OfKind(prints, kinds)
    BY <1>1
  <2>2. QED
    BY <2>1 DEF WrittenFor, OutputsToEnv, OutputsToDepEnv, CompileFlags, LinkFlags, LinkSearchPaths, Kept, Each
<1>6. \A kinds : kinds \subseteq Kept => PrintedAs(kinds) \in Seq(Printed)
  BY <1>1
<1>7. /\ {"env"} \subseteq Kept /\ {"dep_env", "metadata"} \subseteq Kept /\ {"link_lib"} \subseteq Kept
      /\ {"link_search"} \subseteq Kept /\ {"cfg", "flags", "link_arg"} \subseteq Kept
  BY DEF Kept
<1> HIDE DEF files, PrintedAs
<1>8. QED
  BY <1>3, <1>4, <1>5, <1>6, <1>7 DEF files, PrintedAs

LEMMA InitWrittenInv == Init => WrittenInv
BY DEF Init, WrittenInv, AfterWriting, Late

\* What the script printed is read back from the files as it was printed, each value
\* once and in order, by the process wrapper and by the runners of dependents, for any
\* output (outputs_to_env, outputs_to_dep_env, outputs_to_flags, read_file_to_array).
THEOREM OutputIsRead == Spec => []OutputArrives
<1>1. IInv => TypeOK
  BY DEF IInv
<1>2. Spec => []WrittenInv
  BY <1>1, AlwaysIInv, InitWrittenInv, NextWrittenInv, PTL DEF Spec
<1>3. IInv /\ WrittenInv => OutputArrives
  <2> SUFFICES ASSUME IInv, WrittenInv, result = "success" PROVE OutputArrives
    BY DEF OutputArrives
  <2>1. written = WrittenFor(action.script.prints)
    BY DEF WrittenInv
  <2>2. action \in ActionRecord /\ WellFormed(action)
    BY RunnerAssumption DEF IInv, TypeOK
  <2>3. /\ action.script.prints \in Seq(Directive)
        /\ \A n \in DOMAIN action.script.prints : action.script.prints[n].value.root # "pwd"
    BY <2>2 DEF ActionRecord, WellFormed
  <2> DEFINE prints == action.script.prints
  <2>4. written = WrittenFor(prints) /\ prints \in Seq(Directive)
        /\ \A n \in DOMAIN prints : prints[n].value.root # "pwd"
    BY <2>1, <2>3
  <2>5. \A kinds : Said(kinds) = OfKind(prints, kinds)
    BY DEF Said
  <2> HIDE DEF prints
  <2>6. QED
    BY <2>4, <2>5, Arrives DEF OutputArrives
<1>4. QED
  BY <1>2, <1>3, AlwaysIInv, PTL

(***************************************************************************)
(* The wrapper of protoc.  First the names of the files the plugins write: *)
(* no two packages share one, unless a package is named like tonic's files. *)
(***************************************************************************)
Words == DOMAIN Snake \union {"_", "rs", "tonic"}
PackageNames == Seq(DOMAIN Snake)
ProstFile(p) == Append(Stem(p), "rs")
TonicFile(p) == Stem(p) \o <<"tonic", "rs">>
NamedApart(P) == \A p \in P : p # <<>> => Last(p) # "tonic"

LEMMA Widen ==
  ASSUME NEW S, NEW T, S \subseteq T, NEW p \in Seq(S)
  PROVE  p \in Seq(T)
  OBVIOUS

\* Sequences of two.
LEMMA PairIs ==
  ASSUME NEW S, NEW s \in Seq(S), NEW x, NEW y
  PROVE  s = <<x, y>> <=> Len(s) = 2 /\ s[1] = x /\ s[2] = y
<1>1. ASSUME Len(s) = 2, s[1] = x, s[2] = y PROVE s = <<x, y>>
  BY <1>1
<1>2. ASSUME s = <<x, y>> PROVE Len(s) = 2 /\ s[1] = x /\ s[2] = y
  BY <1>2
<1>3. QED
  BY <1>1, <1>2

LEMMA StemIs ==
  ASSUME BuildsOK, NEW p \in PackageNames
  PROVE  /\ Stem(p) \in Seq(Words) /\ Len(Stem(p)) \in Nat \ {0}
         /\ p = <<>> <=> Stem(p) = <<"_">>
         /\ p # <<>> => Stem(p) = p
<1>1. CASE p = <<>>
  BY <1>1 DEF Stem, Words
<1>2. CASE p # <<>>
  <2>1. p \in Seq(DOMAIN Snake) /\ Len(p) \in Nat \ {0} /\ p[1] \in DOMAIN Snake
    BY <1>2 DEF PackageNames
  <2>2. p # <<"_">>
    <3>1. "_" \notin DOMAIN Snake /\ <<"_">>[1] = "_"
      BY DEF BuildsOK
    <3>2. QED
      BY <2>1, <3>1
  <2>4. DOMAIN Snake \subseteq Words
    BY DEF Words
  <2>5. p \in Seq(Words)
    BY <2>1, <2>4, Widen
  <2>3. QED
    BY <1>2, <2>1, <2>2, <2>5 DEF Stem
<1>3. QED
  BY <1>1, <1>2

LEMMA StemsApart ==
  ASSUME BuildsOK, NEW p \in PackageNames, NEW q \in PackageNames, Stem(p) = Stem(q)
  PROVE  p = q
  BY StemIs

LEMMA ProstFileIs ==
  ASSUME BuildsOK, NEW p \in PackageNames
  PROVE  /\ ProstFile(p) \in Seq(Words) /\ Len(ProstFile(p)) = Len(Stem(p)) + 1
         /\ \A k \in 1..Len(Stem(p)) : ProstFile(p)[k] = Stem(p)[k]
         /\ ProstFile(p)[Len(ProstFile(p))] = "rs"
         /\ IsRust(ProstFile(p)) /\ Front(ProstFile(p)) = Stem(p)
         /\ Sibling(ProstFile(p)) = IF IsTonic(ProstFile(p)) THEN Append(Front(Front(ProstFile(p))), "rs") ELSE TonicFile(p)
<1> DEFINE s == Stem(p)
           a == Append(s, "rs")
<1>1. s \in Seq(Words) /\ Len(s) \in Nat \ {0} /\ "rs" \in Words
  BY StemIs DEF Words
<1> HIDE DEF s
<1>2. a \in Seq(Words) /\ Len(a) = Len(s) + 1 /\ a[Len(a)] = "rs" /\ \A k \in 1..Len(s) : a[k] = s[k]
  BY <1>1
<1>3. Front(a) = s
  <2>1. Front(a) = SubSeq(a, 1, Len(s))
    BY <1>1, <1>2 DEF Front
  <2>2. QED
    BY <1>1, <1>2, <2>1
<1>4. IsRust(a)
  BY <1>1, <1>2 DEF IsRust, Last
<1>5. ProstFile(p) = a
  BY DEF ProstFile, s
<1>6. Sibling(a) = IF IsTonic(a) THEN Append(Front(Front(a)), "rs") ELSE TonicFile(p)
  BY <1>3, Zenon DEF Sibling, TonicFile, s
<1>7. QED
  BY <1>1, <1>2, <1>3, <1>4, <1>5, <1>6, Zenon DEF s

LEMMA TonicFileIs ==
  ASSUME BuildsOK, NEW p \in PackageNames
  PROVE  /\ TonicFile(p) \in Seq(Words) /\ Len(TonicFile(p)) = Len(Stem(p)) + 2
         /\ \A k \in 1..Len(Stem(p)) : TonicFile(p)[k] = Stem(p)[k]
         /\ TonicFile(p)[Len(Stem(p)) + 1] = "tonic" /\ TonicFile(p)[Len(Stem(p)) + 2] = "rs"
         /\ IsRust(TonicFile(p)) /\ IsTonic(TonicFile(p)) /\ Front(Front(TonicFile(p))) = Stem(p)
         /\ Sibling(TonicFile(p)) = ProstFile(p)
<1> DEFINE s == Stem(p)
           a == s \o <<"tonic", "rs">>
<1>1. s \in Seq(Words) /\ Len(s) \in Nat \ {0}
  BY StemIs
<1>0. <<"tonic", "rs">> \in Seq(Words)
  BY DEF Words
<1> HIDE DEF s
<1>2. /\ a \in Seq(Words) /\ Len(a) = Len(s) + 2 /\ a[Len(s) + 1] = "tonic" /\ a[Len(s) + 2] = "rs"
      /\ \A k \in 1..Len(s) : a[k] = s[k]
  BY <1>0, <1>1
<1> HIDE DEF a
<1>3. Front(Front(a)) = s
  <2>1. Front(a) = SubSeq(a, 1, Len(s) + 1)
    BY <1>1, <1>2 DEF Front
  <2> DEFINE f == Front(a)
  <2>2. f \in Seq(Words) /\ Len(f) = Len(s) + 1 /\ \A k \in 1..Len(s) : f[k] = s[k]
    BY <1>1, <1>2, <2>1
  <2> HIDE DEF f
  <2>3. Front(f) = SubSeq(f, 1, Len(s))
    BY <1>1, <2>2 DEF Front
  <2>4. Front(f) = s
    BY <1>1, <2>2, <2>3
  <2>5. QED
    BY <2>4 DEF f
<1>4. IsRust(a)
  BY <1>1, <1>2 DEF IsRust, Last
<1>5. IsTonic(a)
  <2> DEFINE e == SubSeq(a, Len(a) - 1, Len(a))
  <2>1. e \in Seq(Words) /\ Len(e) = 2 /\ e[1] = "tonic" /\ e[2] = "rs"
    BY <1>1, <1>2
  <2> HIDE DEF e
  <2>2. e = <<"tonic", "rs">>
    BY <2>1, PairIs
  <2>3. QED
    BY <1>1, <1>2, <2>2 DEF IsTonic, e
<1>6. TonicFile(p) = a
  BY DEF TonicFile, s, a
<1>7. Sibling(a) = ProstFile(p)
  BY <1>3, <1>5, Zenon DEF Sibling, ProstFile, s
<1>8. QED
  BY <1>1, <1>2, <1>3, <1>4, <1>5, <1>6, <1>7, Zenon DEF s

LEMMA NotTonic ==
  ASSUME BuildsOK, NEW p \in PackageNames, p # <<>> => Last(p) # "tonic"
  PROVE  ~IsTonic(ProstFile(p)) /\ Sibling(ProstFile(p)) = TonicFile(p)
<1> DEFINE a == ProstFile(p)
           s == Stem(p)
<1>1. /\ a \in Seq(Words) /\ Len(a) = Len(s) + 1 /\ s \in Seq(Words) /\ Len(s) \in Nat \ {0}
      /\ \A k \in 1..Len(s) : a[k] = s[k]
  BY ProstFileIs, StemIs
<1>2. s[Len(s)] # "tonic"
  <2>1. CASE p = <<>>
    BY <2>1 DEF Stem
  <2>2. CASE p # <<>>
    BY <2>2, StemIs DEF Last
  <2>3. QED
    BY <2>1, <2>2
<1> HIDE DEF a, s
<1>3. ~IsTonic(a)
  <2> SUFFICES ASSUME IsTonic(a) PROVE FALSE
    OBVIOUS
  <2>1. SubSeq(a, Len(a) - 1, Len(a)) = <<"tonic", "rs">> /\ Len(a) > 2
    BY DEF IsTonic
  <2> DEFINE e == SubSeq(a, Len(a) - 1, Len(a))
  <2>2. e \in Seq(Words) /\ e[1] = a[Len(s)]
    BY <1>1, <2>1
  <2>0. e = <<"tonic", "rs">>
    BY <2>1 DEF e
  <2> HIDE DEF e
  <2>3. e[1] = "tonic"
    BY <2>0
  <2>4. Len(s) \in 1..Len(s)
    BY <1>1
  <2>5. a[Len(s)] = s[Len(s)]
    BY <1>1, <2>4, Zenon
  <2>6. QED
    BY <1>2, <2>2, <2>3, <2>5, Zenon
<1>4. QED
  BY <1>3, ProstFileIs DEF a

LEMMA FilesApart ==
  ASSUME BuildsOK, NEW p \in PackageNames, NEW q \in PackageNames
  PROVE  /\ ProstFile(p) = ProstFile(q) => p = q
         /\ TonicFile(p) = TonicFile(q) => p = q
         /\ (p # <<>> => Last(p) # "tonic") => ProstFile(p) # TonicFile(q)
<1>1. ProstFile(p) = ProstFile(q) => p = q
  BY ProstFileIs, StemsApart, Zenon
<1>2. TonicFile(p) = TonicFile(q) => p = q
  <2>1. Front(Front(TonicFile(p))) = Stem(p) /\ Front(Front(TonicFile(q))) = Stem(q)
    BY TonicFileIs
  <2>2. QED
    BY <2>1, StemsApart, Zenon
<1>3. (p # <<>> => Last(p) # "tonic") => ProstFile(p) # TonicFile(q)
  BY NotTonic, TonicFileIs, Zenon
<1>4. QED
  BY <1>1, <1>2, <1>3

(***************************************************************************)
(* lib.rs, for files that are named for their packages: the contents of a  *)
(* package's file are in its module, and nothing is in any other.          *)
(***************************************************************************)
Mod(p) == IF p = <<>> THEN <<"_">> ELSE Mapped(Snake, p)
FileOf(p, tonic) == IF tonic THEN TonicFile(p) ELSE ProstFile(p)
Filed(found, tonic, S) == DOMAIN found = {FileOf(p, tonic) : p \in S}
PathsApart(S) == \A p, q \in S : ModulePath(p) = ModulePath(q) => p = q

\* LibModules, by names of its parts.
Paths(found, tonic) ==
  {<<>>} \union
    UNION {{SubSeq(path, 1, n) : n \in 1..Len(path)} : path \in {ModuleOf(name, tonic) : name \in RustFiles(found)}}
FilesAt(found, tonic, path) ==
  {name \in RustFiles(found) : ModuleOf(name, tonic) = (IF path = <<>> THEN <<"_">> ELSE path)}
ContentsAt(found, tonic, path) ==
  IF FilesAt(found, tonic, path) = {} THEN <<>> ELSE found[CHOOSE name \in FilesAt(found, tonic, path) : TRUE]

LEMMA LibIs ==
  ASSUME NEW found, NEW tonic
  PROVE  LibModules(found, tonic)
           = [path \in {Escaped(p) : p \in Paths(found, tonic) \ {<<"_">>}} |->
                ContentsAt(found, tonic, CHOOSE p \in Paths(found, tonic) : Escaped(p) = path)]
  BY Zenon DEF LibModules, Paths, FilesAt, ContentsAt

LEMMA EscapedIs ==
  ASSUME BuildsOK, NEW s \in Seq(Names), NEW t \in Seq(Names), Escaped(s) = Escaped(t)
  PROVE  s = t
<1>1. DOMAIN s = DOMAIN t
  BY DEF Escaped
<1>2. ASSUME NEW n \in DOMAIN s PROVE s[n] = t[n]
  <2>1. Escaped(s)[n] = Escape(s[n]) /\ Escaped(t)[n] = Escape(t[n])
    BY <1>1 DEF Escaped
  <2>2. s[n] \in Names /\ t[n] \in Names
    BY <1>1
  <2>3. QED
    BY <2>1, <2>2, Zenon DEF BuildsOK
<1>3. Len(s) = Len(t) /\ \A n \in 1..Len(s) : s[n] = t[n]
  BY <1>1, <1>2
<1>4. QED
  BY <1>3

LEMMA SingleIs ==
  ASSUME NEW S, NEW x \in S
  PROVE  <<x>> \in Seq(S) /\ Len(<<x>>) = 1
  OBVIOUS

LEMMA ModIs ==
  ASSUME BuildsOK, NEW p \in PackageNames
  PROVE  /\ Mod(p) \in Seq(Names) /\ Len(Mod(p)) \in Nat \ {0}
         /\ Mod(p) = <<"_">> <=> p = <<>>
         /\ ModulePath(p) = IF p = <<>> THEN <<>> ELSE Escaped(Mod(p))
<1>1. CASE p = <<>>
  <2>1. Mod(p) = <<"_">> /\ "_" \in Names
    BY <1>1 DEF Mod, Names
  <2>2. Mapped(Snake, p) = <<>>
    BY <1>1 DEF Mapped
  <2>3. Escaped(<<>>) = <<>>
    BY DEF Escaped
  <2>4. ModulePath(p) = <<>>
    BY <2>2, <2>3, Zenon DEF ModulePath
  <2>5. QED
    <3>1. Mod(p) \in Seq(Names) /\ Len(Mod(p)) = 1
      BY <2>1, SingleIs, Zenon
    <3>2. 1 \in Nat \ {0}
      OBVIOUS
    <3>3. QED
      BY <1>1, <2>1, <2>4, <3>1, <3>2, Zenon
<1>2. CASE p # <<>>
  <2>1. p \in Seq(DOMAIN Snake) /\ Len(p) \in Nat \ {0} /\ p[1] \in DOMAIN Snake
    BY <1>2 DEF PackageNames
  <2>2. Mod(p) = [n \in 1..Len(p) |-> Snake[p[n]]]
    BY <1>2, <2>1 DEF Mod, Mapped
  <2>3. \A n \in 1..Len(p) : Snake[p[n]] \in Names
    <3>1. \A n \in 1..Len(p) : p[n] \in DOMAIN Snake
      BY <2>1
    <3>2. QED
      BY <3>1, Zenon DEF Names
  <2>4. Mod(p) \in Seq(Names) /\ Len(Mod(p)) = Len(p) /\ Mod(p)[1] = Snake[p[1]]
    BY <2>1, <2>2, <2>3
  <2>5. Snake[p[1]] # "_"
    BY <2>1 DEF BuildsOK
  <2>6. Mod(p) # <<"_">>
    <3>1. <<"_">>[1] = "_"
      OBVIOUS
    <3>2. QED
      BY <2>4, <2>5, <3>1, Zenon
  <2>7. ModulePath(p) = Escaped(Mod(p))
    BY <1>2, Zenon DEF ModulePath, Mod
  <2>8. QED
    BY <1>2, <2>1, <2>4, <2>6, <2>7
<1>3. QED
  BY <1>1, <1>2

LEMMA ModsApart ==
  ASSUME BuildsOK, NEW p \in PackageNames, NEW q \in PackageNames, Mod(p) = Mod(q)
  PROVE  ModulePath(p) = ModulePath(q)
  BY ModIs, Zenon

LEMMA FileOfIs ==
  ASSUME BuildsOK, NEW tonic, NEW p \in PackageNames
  PROVE  IsRust(FileOf(p, tonic)) /\ ModuleOf(FileOf(p, tonic), tonic) = Mod(p)
<1>1. IsRust(FileOf(p, tonic))
  BY ProstFileIs, TonicFileIs, Zenon DEF FileOf
<1>2. (IF tonic THEN Front(Front(FileOf(p, tonic))) ELSE Front(FileOf(p, tonic))) = Stem(p)
  <2>1. CASE tonic
    BY <2>1, TonicFileIs, Zenon DEF FileOf
  <2>2. CASE ~tonic
    BY <2>2, ProstFileIs, Zenon DEF FileOf
  <2>3. QED
    BY <2>1, <2>2
<1>3. ModuleOf(FileOf(p, tonic), tonic) = IF Stem(p) = <<"_">> THEN Stem(p) ELSE Mapped(Snake, Stem(p))
  BY <1>2, Zenon DEF ModuleOf
<1>4. QED
  BY <1>1, <1>3, StemIs, Zenon DEF Mod

LEMMA FileOfApart ==
  ASSUME BuildsOK, NEW tonic, NEW p \in PackageNames, NEW q \in PackageNames, FileOf(p, tonic) = FileOf(q, tonic)
  PROVE  p = q
  BY FilesApart, Zenon DEF FileOf

LEMMA PathsIn ==
  ASSUME NEW found, NEW tonic, NEW x
  PROVE  x \in Paths(found, tonic) <=>
           \/ x = <<>>
           \/ \E name \in RustFiles(found) :
                \E n \in 1..Len(ModuleOf(name, tonic)) : x = SubSeq(ModuleOf(name, tonic), 1, n)
  BY DEF Paths

\* The paths are the parts in front of those of the packages.
LEMMA PathsAre ==
  ASSUME BuildsOK, NEW found, NEW tonic, NEW S \in SUBSET PackageNames, Filed(found, tonic, S)
  PROVE  /\ RustFiles(found) = {FileOf(p, tonic) : p \in S}
         /\ Paths(found, tonic) \subseteq Seq(Names) /\ <<>> \in Paths(found, tonic)
         /\ \A p \in S : Mod(p) \in Paths(found, tonic)
<1>1. RustFiles(found) = {FileOf(p, tonic) : p \in S}
  BY FileOfIs, Zenon DEF RustFiles, Filed
<1>4. ASSUME NEW x \in Paths(found, tonic) PROVE x \in Seq(Names)
  <2>1. CASE x = <<>>
    BY <2>1
  <2>2. CASE x # <<>>
    <3>1. PICK name \in RustFiles(found) :
            \E n \in 1..Len(ModuleOf(name, tonic)) : x = SubSeq(ModuleOf(name, tonic), 1, n)
      <4>1. \A y : y \in Paths(found, tonic) <=>
                 \/ y = <<>>
                 \/ \E name \in RustFiles(found) :
                      \E n \in 1..Len(ModuleOf(name, tonic)) : y = SubSeq(ModuleOf(name, tonic), 1, n)
        BY PathsIn
      <4>2. QED
        BY <2>2, <4>1, Zenon
    <3> DEFINE m == ModuleOf(name, tonic)
    <3>5. PICK p \in S : name = FileOf(p, tonic)
      BY <1>1, Zenon
    <3>2. m \in Seq(Names)
      BY <3>5, FileOfIs, ModIs, Zenon
    <3> HIDE DEF m
    <3>3. PICK n \in 1..Len(m) : x = SubSeq(m, 1, n)
      BY <3>1, Zenon DEF m
    <3>4. QED
      BY <3>2, <3>3
  <2>3. QED
    BY <2>1, <2>2
<1>5. ASSUME NEW p \in S PROVE Mod(p) \in Paths(found, tonic)
  <2> DEFINE m == Mod(p)
  <2>1. m \in Seq(Names) /\ Len(m) \in Nat \ {0}
    BY ModIs
  <2> HIDE DEF m
  <2>2. m = SubSeq(m, 1, Len(m)) /\ Len(m) \in 1..Len(m)
    BY <2>1
  <2>3. FileOf(p, tonic) \in RustFiles(found) /\ ModuleOf(FileOf(p, tonic), tonic) = m
    BY <1>1, FileOfIs, Zenon DEF m
  <2>4. \E n \in 1..Len(m) : m = SubSeq(m, 1, n)
    BY <2>2, Zenon
  <2>5. m \in Paths(found, tonic)
    BY <2>3, <2>4, PathsIn, Zenon
  <2>6. QED
    BY <2>5 DEF m
<1>6. <<>> \in Paths(found, tonic)
  BY PathsIn, Zenon
<1>7. QED
  BY <1>1, <1>4, <1>5, <1>6, Zenon

LEMMA LibRight ==
  ASSUME BuildsOK, NEW found, NEW tonic, NEW S \in SUBSET PackageNames, Filed(found, tonic, S), PathsApart(S)
  PROVE  LET modules == LibModules(found, tonic)
         IN  /\ \A p \in S : ModulePath(p) \in DOMAIN modules /\ modules[ModulePath(p)] = found[FileOf(p, tonic)]
             /\ \A path \in DOMAIN modules :
                  modules[path] = <<>> \/ \E p \in S : path = ModulePath(p) /\ modules[path] = found[FileOf(p, tonic)]
<1> DEFINE modules == LibModules(found, tonic)
           all == Paths(found, tonic)
           Of(path) == CHOOSE p \in all : Escaped(p) = path
<1>1. /\ RustFiles(found) = {FileOf(p, tonic) : p \in S}
      /\ all \subseteq Seq(Names) /\ <<>> \in all /\ \A p \in S : Mod(p) \in all
  BY PathsAre, Zenon
<1>2. /\ DOMAIN modules = {Escaped(p) : p \in all \ {<<"_">>}}
      /\ \A path \in DOMAIN modules : modules[path] = ContentsAt(found, tonic, Of(path))
  BY LibIs, Zenon
<1> HIDE DEF modules
<1>3. ASSUME NEW q \in all PROVE Of(Escaped(q)) = q
  <2>1. Of(Escaped(q)) \in all /\ Escaped(Of(Escaped(q))) = Escaped(q)
    BY Zenon
  <2> DEFINE r == Of(Escaped(q))
  <2> HIDE DEF r
  <2>2. r \in Seq(Names) /\ q \in Seq(Names) /\ Escaped(r) = Escaped(q)
    BY <1>1, <2>1 DEF r
  <2>3. r = q
    BY <2>2, EscapedIs
  <2>4. QED
    BY <2>3 DEF r
<1> HIDE DEF Of
\* Where a package's contents are looked for.
<1>4. ASSUME NEW q \in all, NEW p \in S, Mod(p) = IF q = <<>> THEN <<"_">> ELSE q
      PROVE  ContentsAt(found, tonic, q) = found[FileOf(p, tonic)]
  <2>1. FilesAt(found, tonic, q) = {FileOf(p, tonic)}
    <3>1. ASSUME NEW r \in S, Mod(r) = Mod(p) PROVE r = p
      <4>1. ModulePath(r) = ModulePath(p)
        BY <3>1, ModsApart
      <4>2. QED
        BY <4>1, Zenon DEF PathsApart
    <3>2. FilesAt(found, tonic, q) = {name \in RustFiles(found) : ModuleOf(name, tonic) = Mod(p)}
      BY <1>4, Zenon DEF FilesAt
    <3>3. ASSUME NEW name \in RustFiles(found), ModuleOf(name, tonic) = Mod(p) PROVE name = FileOf(p, tonic)
      <4>1. PICK r \in S : name = FileOf(r, tonic)
        BY <1>1, Zenon
      <4>2. Mod(r) = Mod(p)
        BY <3>3, <4>1, FileOfIs, Zenon
      <4>3. QED
        BY <3>1, <4>1, <4>2, Zenon
    <3>4. FileOf(p, tonic) \in RustFiles(found) /\ ModuleOf(FileOf(p, tonic), tonic) = Mod(p)
      BY <1>1, FileOfIs, Zenon
    <3>5. QED
      BY <3>2, <3>3, <3>4, Zenon
  <2>2. (CHOOSE name \in FilesAt(found, tonic, q) : TRUE) = FileOf(p, tonic)
    BY <2>1, Zenon
  <2>3. QED
    BY <2>1, <2>2, Zenon DEF ContentsAt
<1>5. ASSUME NEW p \in S
      PROVE  ModulePath(p) \in DOMAIN modules /\ modules[ModulePath(p)] = found[FileOf(p, tonic)]
  <2> DEFINE q == IF p = <<>> THEN <<>> ELSE Mod(p)
  <2>1. q \in all /\ Mod(p) = (IF q = <<>> THEN <<"_">> ELSE q) /\ ModulePath(p) = Escaped(q) /\ q # <<"_">>
    <3>1. CASE p = <<>>
      <4>1. Escaped(<<>>) = <<>> /\ <<>> # <<"_">>
        BY DEF Escaped
      <4>2. QED
        BY <1>1, <3>1, <4>1, ModIs, Zenon
    <3>2. CASE p # <<>>
      <4>1. Mod(p) # <<>>
        BY ModIs
      <4>2. QED
        BY <1>1, <3>2, <4>1, ModIs, Zenon
    <3>3. QED
      BY <3>1, <3>2
  <2> HIDE DEF q
  <2>2. ModulePath(p) \in DOMAIN modules /\ Of(ModulePath(p)) = q
    BY <1>2, <1>3, <2>1, Zenon
  <2>3. ContentsAt(found, tonic, q) = found[FileOf(p, tonic)]
    BY <1>4, <2>1
  <2>4. QED
    BY <1>2, <2>2, <2>3, Zenon
<1>6. ASSUME NEW path \in DOMAIN modules
      PROVE  modules[path] = <<>> \/ \E p \in S : path = ModulePath(p) /\ modules[path] = found[FileOf(p, tonic)]
  <2>1. PICK q \in all : q # <<"_">> /\ path = Escaped(q)
    BY <1>2, Zenon
  <2>2. modules[path] = ContentsAt(found, tonic, q)
    BY <1>2, <1>3, <2>1, Zenon
  <2>3. CASE FilesAt(found, tonic, q) = {}
    BY <2>2, <2>3, Zenon DEF ContentsAt
  <2>4. CASE FilesAt(found, tonic, q) # {}
    <3>1. PICK name \in RustFiles(found) : ModuleOf(name, tonic) = IF q = <<>> THEN <<"_">> ELSE q
      BY <2>4, Zenon DEF FilesAt
    <3>2. PICK p \in S : name = FileOf(p, tonic)
      BY <1>1, <3>1, Zenon
    <3>3. Mod(p) = IF q = <<>> THEN <<"_">> ELSE q
      BY <3>1, <3>2, FileOfIs, Zenon
    <3>4. path = ModulePath(p)
      <4>1. CASE q = <<>>
        <5>1. p = <<>>
          BY <3>3, <4>1, ModIs, Zenon
        <5>2. Escaped(<<>>) = <<>>
          BY DEF Escaped
        <5>3. QED
          BY <2>1, <4>1, <5>1, <5>2, ModIs, Zenon
      <4>2. CASE q # <<>>
        <5>1. p # <<>> /\ Mod(p) = q
          BY <2>1, <3>3, <4>2, ModIs, Zenon
        <5>2. QED
          BY <2>1, <5>1, ModIs, Zenon
      <4>3. QED
        BY <4>1, <4>2
    <3>5. ContentsAt(found, tonic, q) = found[FileOf(p, tonic)]
      BY <1>4, <3>3
    <3>6. QED
      BY <2>2, <3>4, <3>5, Zenon
  <2>5. QED
    BY <2>3, <2>4
<1>7. QED
  BY <1>5, <1>6, Zenon DEF modules

LEMMA LibEmpty ==
  ASSUME NEW found, NEW tonic, \A name \in DOMAIN found : found[name] = <<>>
  PROVE  \A path \in DOMAIN LibModules(found, tonic) : LibModules(found, tonic)[path] = <<>>
<1>1. ASSUME NEW path PROVE ContentsAt(found, tonic, path) = <<>>
  <2>1. CASE FilesAt(found, tonic, path) = {}
    BY <2>1, Zenon DEF ContentsAt
  <2>2. CASE FilesAt(found, tonic, path) # {}
    <3>1. (CHOOSE name \in FilesAt(found, tonic, path) : TRUE) \in DOMAIN found
      BY <2>2, Zenon DEF FilesAt, RustFiles
    <3>2. QED
      BY <2>2, <3>1, Zenon DEF ContentsAt
  <2>3. QED
    BY <2>1, <2>2
<1>2. QED
  BY <1>1, LibIs, Zenon

(***************************************************************************)
(* Args::parse: whether tonic is asked for, wherever the flag comes.       *)
(***************************************************************************)
ParsedBy(up, arguments) ==
  /\ up[0] = NothingParsed
  /\ \A n \in 1..Len(arguments) : up[n] = Handle(up[n - 1], arguments[n])
UpTo(f, N, arguments) == f = [n \in 0..N |-> IF n = 0 THEN NothingParsed ELSE Handle(f[n - 1], arguments[n])]

\* The function by which Parse is defined exists.
LEMMA ParseExists ==
  ASSUME NEW arguments, NEW N \in Nat
  PROVE  \E f : UpTo(f, N, arguments)
<1> DEFINE S == {n \in Nat : \E f : UpTo(f, n, arguments)}
<1>1. 0 \in S
  <2> DEFINE f == [n \in 0..0 |-> NothingParsed]
  <2>1. UpTo(f, 0, arguments)
    BY DEF UpTo
  <2>2. QED
    BY <2>1
<1>2. ASSUME NEW n \in Nat, n \in S PROVE n + 1 \in S
  <2>1. PICK f : UpTo(f, n, arguments)
    BY <1>2
  <2> DEFINE g == [k \in 0..(n + 1) |-> IF k = n + 1 THEN Handle(f[n], arguments[n + 1]) ELSE f[k]]
  <2>2. ASSUME NEW k \in 0..(n + 1)
        PROVE  g[k] = IF k = 0 THEN NothingParsed ELSE Handle(g[k - 1], arguments[k])
    <3>1. CASE k = n + 1
      <4>1. g[k] = Handle(f[n], arguments[n + 1]) /\ g[n] = f[n] /\ k - 1 = n /\ k # 0
        BY <3>1
      <4> HIDE DEF g
      <4>2. QED
        BY <3>1, <4>1, Zenon
    <3>2. CASE k # n + 1
      <4>1. k \in 0..n /\ g[k] = f[k] /\ (k # 0 => g[k - 1] = f[k - 1])
        BY <3>2
      <4>2. f[k] = IF k = 0 THEN NothingParsed ELSE Handle(f[k - 1], arguments[k])
        BY <2>1, <4>1, Zenon DEF UpTo
      <4> HIDE DEF g
      <4>3. QED
        BY <4>1, <4>2, Zenon
    <3>3. QED
      BY <3>1, <3>2
  <2>3. DOMAIN g = 0..(n + 1)
    OBVIOUS
  <2>4. g = [k \in 0..(n + 1) |-> g[k]]
    OBVIOUS
  <2> HIDE DEF g
  <2>5. [k \in 0..(n + 1) |-> g[k]]
          = [k \in 0..(n + 1) |-> IF k = 0 THEN NothingParsed ELSE Handle(g[k - 1], arguments[k])]
    BY <2>2, Zenon
  <2>6. UpTo(g, n + 1, arguments)
    BY <2>4, <2>5, Zenon DEF UpTo
  <2>7. QED
    BY <2>6
<1> HIDE DEF S
<1>3. Nat \subseteq S
  BY <1>1, <1>2, Induct
<1>4. QED
  BY <1>3 DEF S

\* The options of the first n of the lines.
ToldBy(parsed, f, N) == f = [n \in 0..N |-> IF n = 0 THEN parsed.extra ELSE f[n - 1] \o Both(parsed, parsed.externs[n])]

LEMMA ParseUnfolds ==
  ASSUME NEW arguments, Len(arguments) \in Nat
  PROVE  \E up : /\ ParsedBy(up, arguments)
                 /\ \E told : /\ Parse(arguments) = [up[Len(arguments)] EXCEPT !.extra = told[Len(up[Len(arguments)].externs)]]
                              /\ told = CHOOSE f : ToldBy(up[Len(arguments)], f, Len(up[Len(arguments)].externs))
<1> DEFINE N == Len(arguments)
           up == CHOOSE f : f = [n \in 0..N |-> IF n = 0 THEN NothingParsed ELSE Handle(f[n - 1], arguments[n])]
           told == CHOOSE f : f = [n \in 0..Len(up[N].externs) |->
                     IF n = 0 THEN up[N].extra ELSE f[n - 1] \o Both(up[N], up[N].externs[n])]
<1>1. Parse(arguments) = [up[N] EXCEPT !.extra = told[Len(up[N].externs)]]
  BY Zenon DEF Parse
<1>2. UpTo(up, N, arguments)
  BY ParseExists, Zenon DEF UpTo
<1>3. told = CHOOSE f : ToldBy(up[N], f, Len(up[N].externs))
  BY Zenon DEF ToldBy
<1> HIDE DEF up, told
<1>4. \A n \in 0..N : up[n] = IF n = 0 THEN NothingParsed ELSE Handle(up[n - 1], arguments[n])
  BY <1>2, Zenon DEF UpTo
<1>5. 0 \in 0..N /\ \A n \in 1..N : n \in 0..N /\ n # 0
  OBVIOUS
<1>6. ParsedBy(up, arguments)
  BY <1>4, <1>5, Zenon DEF ParsedBy
<1>7. QED
  BY <1>1, <1>3, <1>6, Zenon

Asked(arguments, flag) == \E n \in 1..Len(arguments) : arguments[n].flag = flag

\* The flags that may come anywhere.
LEMMA HandleFlags ==
  ASSUME NEW parsed, NEW arg
  PROVE  /\ DOMAIN Handle(parsed, arg) = DOMAIN NothingParsed
         /\ Handle(parsed, arg).tonic = (parsed.tonic \/ arg.flag = "--is_tonic")
         /\ Handle(parsed, arg).wellKnown = (parsed.wellKnown \/ arg.flag = "--compile_well_known_types")
<1>1. DOMAIN Handle(parsed, arg) = DOMAIN NothingParsed
  BY DEF Handle, NothingParsed
<1>2. Handle(parsed, arg).tonic = (parsed.tonic \/ arg.flag = "--is_tonic")
  BY Zenon DEF Handle
<1>3. Handle(parsed, arg).wellKnown = (parsed.wellKnown \/ arg.flag = "--compile_well_known_types")
  BY Zenon DEF Handle
<1>4. QED
  BY <1>1, <1>2, <1>3

LEMMA FieldsAre ==
  /\ "tonic" \in DOMAIN NothingParsed /\ "wellKnown" \in DOMAIN NothingParsed /\ "extra" \in DOMAIN NothingParsed
  /\ "externs" \in DOMAIN NothingParsed /\ "paths" \in DOMAIN NothingParsed /\ "includes" \in DOMAIN NothingParsed
  BY DEF NothingParsed

LEMMA FlagsAre ==
  ASSUME NEW arguments, Len(arguments) \in Nat
  PROVE  /\ Parse(arguments).tonic = Asked(arguments, "--is_tonic")
         /\ Parse(arguments).wellKnown = Asked(arguments, "--compile_well_known_types")
<1> DEFINE N == Len(arguments)
<1>1. PICK up : /\ ParsedBy(up, arguments)
                /\ \E told : Parse(arguments) = [up[N] EXCEPT !.extra = told[Len(up[N].externs)]]
  BY ParseUnfolds, Zenon
<1>0. up[0] = NothingParsed /\ \A n \in 1..N : up[n] = Handle(up[n - 1], arguments[n])
  BY <1>1, Zenon DEF ParsedBy
<1> DEFINE Some(n, flag) == \E k \in 1..n : arguments[k].flag = flag
           Right(n) == /\ DOMAIN up[n] = DOMAIN NothingParsed
                       /\ up[n].tonic = Some(n, "--is_tonic")
                       /\ up[n].wellKnown = Some(n, "--compile_well_known_types")
           S == {n \in Nat : n <= N => Right(n)}
<1>2. 0 \in S
  <2>1. NothingParsed.tonic = FALSE /\ NothingParsed.wellKnown = FALSE
    BY DEF NothingParsed
  <2>2. up[0].tonic = FALSE /\ up[0].wellKnown = FALSE
    BY <1>0, <2>1, Zenon
  <2>3. Some(0, "--is_tonic") = FALSE /\ Some(0, "--compile_well_known_types") = FALSE
    OBVIOUS
  <2> HIDE DEF Some
  <2>4. Right(0)
    BY <1>0, <2>2, <2>3, Zenon
  <2> HIDE DEF Right
  <2>5. QED
    BY <2>4
<1>3. ASSUME NEW n \in Nat, n \in S PROVE n + 1 \in S
  <2> HIDE DEF Right, Some
  <2> SUFFICES ASSUME n + 1 <= N PROVE Right(n + 1)
    BY DEF S
  <2>1. Right(n)
    BY <1>3 DEF S
  <2> DEFINE next == n + 1
  <2>2. next \in 1..N /\ next - 1 = n
    OBVIOUS
  <2>3. \A k : k \in 1..next <=> k \in 1..n \/ k = next
    OBVIOUS
  <2>4. QED
    <3> HIDE DEF next
    <3>1. up[next] = Handle(up[n], arguments[next])
      BY <1>0, <2>2, Zenon
    <3>2. ASSUME NEW flag PROVE Some(next, flag) = (Some(n, flag) \/ arguments[next].flag = flag)
      BY <2>3, Zenon DEF Some
    <3>3. /\ DOMAIN Handle(up[n], arguments[next]) = DOMAIN NothingParsed
          /\ Handle(up[n], arguments[next]).tonic = (up[n].tonic \/ arguments[next].flag = "--is_tonic")
          /\ Handle(up[n], arguments[next]).wellKnown
               = (up[n].wellKnown \/ arguments[next].flag = "--compile_well_known_types")
      BY HandleFlags
    <3>4. /\ up[n].tonic = Some(n, "--is_tonic")
          /\ up[n].wellKnown = Some(n, "--compile_well_known_types")
      BY <2>1, Zenon DEF Right
    <3>5. /\ up[next].tonic = Some(next, "--is_tonic")
          /\ up[next].wellKnown = Some(next, "--compile_well_known_types")
      BY <3>1, <3>2, <3>3, <3>4, Zenon
    <3>6. Right(next)
      BY <3>1, <3>3, <3>5, Zenon DEF Right
    <3>7. QED
      BY <3>6 DEF next
<1> HIDE DEF S, Right, Some
<1>4. Nat \subseteq S
  BY <1>2, <1>3, Induct
<1>5. Right(N)
  <2>1. N \in Nat /\ N <= N
    OBVIOUS
  <2>2. QED
    BY <1>4, <2>1 DEF S
<1>6. Parse(arguments).tonic = up[N].tonic /\ Parse(arguments).wellKnown = up[N].wellKnown
  <2>1. PICK told : Parse(arguments) = [up[N] EXCEPT !.extra = told[Len(up[N].externs)]]
    BY <1>1
  <2>2. "tonic" \in DOMAIN up[N] /\ "wellKnown" \in DOMAIN up[N]
    BY <1>5, FieldsAre, Zenon DEF Right
  <2>3. QED
    BY <2>1, <2>2, Zenon
<1>7. QED
  BY <1>5, <1>6, Zenon DEF Asked, Right, Some

(***************************************************************************)
(* What protoc writes, and how it is named when it is looked for.          *)
(***************************************************************************)
RawFile(p) == IF p = <<>> THEN <<"_">> ELSE Append(p, "rs")
Packages(files) == {files[n].package : n \in DOMAIN files}
Prosted(files) == {p \in Packages(files) : Expected({file \in ToSet(files) : file.package = p})}
Served(files, tonic) ==
  {p \in Packages(files) : tonic /\ \E file \in {file \in ToSet(files) : file.package = p} : file.services}
ProstPiece(p) == <<<<"prost", p>>>>
TonicPiece(p) == <<<<"tonic", p>>>>
PieceSet == {"prost", "tonic"} \X PackageNames

\* What is in the module of a package, if prost wrote for P and tonic for V.
Whole(P, V, p) == (IF p \in P THEN ProstPiece(p) ELSE <<>>) \o (IF p \in V THEN TonicPiece(p) ELSE <<>>)


GenProst(files) ==
  [name \in {RawFile(p) : p \in Prosted(files)} |->
     <<<<"prost", IF name = <<"_">> THEN <<>> ELSE Front(name)>>>>]
GenTonic(files, tonic) ==
  [name \in {TonicFile(p) : p \in Served(files, tonic)} |->
     <<<<"tonic", IF Front(Front(name)) = <<"_">> THEN <<>> ELSE Front(Front(name))>>>>]

LEMMA PackagesAre ==
  ASSUME NEW files \in Seq(ProtoFiles)
  PROVE  Packages(files) \subseteq PackageNames
<1>1. \A n \in DOMAIN files : files[n] \in ProtoFiles
  OBVIOUS
<1>2. \A file \in ProtoFiles : file.package \in PackageNames
  BY DEF ProtoFiles, PackageNames
<1>3. QED
  BY <1>1, <1>2, Zenon DEF Packages

LEMMA PluginsAre ==
  ASSUME NEW files \in Seq(ProtoFiles), NEW tonic
  PROVE  /\ Prosted(files) \subseteq Packages(files) /\ Served(files, tonic) \subseteq Packages(files)
         /\ Prosted(files) \subseteq PackageNames /\ Served(files, tonic) \subseteq PackageNames
         /\ ~tonic => Served(files, tonic) = {}
  BY PackagesAre, Zenon DEF Prosted, Served

LEMMA GeneratedIs ==
  ASSUME NEW files, NEW tonic
  PROVE  Generated(files, tonic) = Over(GenProst(files), GenTonic(files, tonic))
  BY Zenon DEF Generated, GenProst, GenTonic, RawFile, TonicFile, Prosted, Served, Packages

LEMMA RawFileIs ==
  ASSUME BuildsOK, NEW p \in PackageNames
  PROVE  /\ RawFile(p) = <<"_">> <=> p = <<>>
         /\ p # <<>> => RawFile(p) = ProstFile(p) /\ Front(RawFile(p)) = p
<1>1. CASE p = <<>>
  BY <1>1, Zenon DEF RawFile
<1>2. CASE p # <<>>
  <2>1. RawFile(p) = ProstFile(p) /\ Stem(p) = p
    BY <1>2, Zenon DEF RawFile, ProstFile, Stem
  <2>2. Front(ProstFile(p)) = p /\ IsRust(ProstFile(p))
    BY <2>1, ProstFileIs, Zenon
  <2>3. ~IsRust(<<"_">>)
    BY DEF IsRust
  <2>4. QED
    BY <1>2, <2>1, <2>2, <2>3, Zenon
<1>3. QED
  BY <1>1, <1>2

LEMMA RawFilesApart ==
  ASSUME BuildsOK, NEW p \in PackageNames, NEW q \in PackageNames
  PROVE  /\ RawFile(p) = RawFile(q) => p = q
         /\ (p # <<>> => Last(p) # "tonic") => RawFile(p) # TonicFile(q)
<1>1. IsRust(TonicFile(q))
  BY TonicFileIs
<1>2. ~IsRust(<<"_">>)
  BY DEF IsRust
<1>3. QED
  BY <1>1, <1>2, RawFileIs, FilesApart, Zenon

LEMMA GenProstIs ==
  ASSUME BuildsOK, NEW files \in Seq(ProtoFiles)
  PROVE  /\ DOMAIN GenProst(files) = {RawFile(p) : p \in Prosted(files)}
         /\ \A p \in Prosted(files) : GenProst(files)[RawFile(p)] = ProstPiece(p)
<1>1. DOMAIN GenProst(files) = {RawFile(p) : p \in Prosted(files)}
  BY Zenon DEF GenProst
<1>2. ASSUME NEW p \in Prosted(files) PROVE GenProst(files)[RawFile(p)] = ProstPiece(p)
  <2>1. p \in PackageNames
    BY PluginsAre
  <2>2. GenProst(files)[RawFile(p)] = <<<<"prost", IF RawFile(p) = <<"_">> THEN <<>> ELSE Front(RawFile(p))>>>>
    BY <1>2, Zenon DEF GenProst
  <2>3. (IF RawFile(p) = <<"_">> THEN <<>> ELSE Front(RawFile(p))) = p
    BY <2>1, RawFileIs, Zenon
  <2>4. QED
    BY <2>2, <2>3, Zenon DEF ProstPiece
<1>3. QED
  BY <1>1, <1>2

LEMMA GenTonicIs ==
  ASSUME BuildsOK, NEW files \in Seq(ProtoFiles), NEW tonic
  PROVE  /\ DOMAIN GenTonic(files, tonic) = {TonicFile(p) : p \in Served(files, tonic)}
         /\ \A p \in Served(files, tonic) : GenTonic(files, tonic)[TonicFile(p)] = TonicPiece(p)
<1>1. DOMAIN GenTonic(files, tonic) = {TonicFile(p) : p \in Served(files, tonic)}
  BY Zenon DEF GenTonic
<1>2. ASSUME NEW p \in Served(files, tonic) PROVE GenTonic(files, tonic)[TonicFile(p)] = TonicPiece(p)
  <2>1. p \in PackageNames
    BY PluginsAre
  <2> DEFINE front == Front(Front(TonicFile(p)))
  <2>2. GenTonic(files, tonic)[TonicFile(p)] = <<<<"tonic", IF front = <<"_">> THEN <<>> ELSE front>>>>
    BY <1>2, Zenon DEF GenTonic
  <2>3. front = Stem(p)
    BY <2>1, TonicFileIs
  <2> HIDE DEF front
  <2>4. (IF front = <<"_">> THEN <<>> ELSE front) = p
    BY <2>1, <2>3, StemIs, Zenon
  <2>5. QED
    BY <2>2, <2>4, Zenon DEF TonicPiece
<1>3. QED
  BY <1>1, <1>2

\* What protoc writes: a file of each plugin for each package.
LEMMA GeneratedFiles ==
  ASSUME BuildsOK, NEW files \in Seq(ProtoFiles), NEW tonic
  PROVE  LET G == Generated(files, tonic)
         IN  /\ DOMAIN G = {RawFile(p) : p \in Prosted(files)} \union {TonicFile(p) : p \in Served(files, tonic)}
             /\ \A p \in Prosted(files) : G[RawFile(p)] = ProstPiece(p)
             /\ NamedApart(Packages(files)) => \A p \in Served(files, tonic) : G[TonicFile(p)] = TonicPiece(p)
             /\ \A name \in DOMAIN G : G[name] \in Seq(PieceSet)
<1> DEFINE G == Generated(files, tonic)
           A == GenProst(files)
           B == GenTonic(files, tonic)
<1>1. G = [x \in DOMAIN A \union DOMAIN B |-> IF x \in DOMAIN A THEN A[x] ELSE B[x]]
  BY GeneratedIs, Zenon DEF Over
<1>2. /\ DOMAIN A = {RawFile(p) : p \in Prosted(files)} /\ \A p \in Prosted(files) : A[RawFile(p)] = ProstPiece(p)
      /\ DOMAIN B = {TonicFile(p) : p \in Served(files, tonic)} /\ \A p \in Served(files, tonic) : B[TonicFile(p)] = TonicPiece(p)
  BY GenProstIs, GenTonicIs
<1> HIDE DEF G, A, B
<1>3. DOMAIN G = DOMAIN A \union DOMAIN B
  BY <1>1, Zenon
<1>4. \A p \in Prosted(files) : G[RawFile(p)] = ProstPiece(p)
  BY <1>1, <1>2, Zenon
<1>5. ASSUME NamedApart(Packages(files)), NEW p \in Served(files, tonic) PROVE G[TonicFile(p)] = TonicPiece(p)
  <2>1. TonicFile(p) \notin DOMAIN A
    <3>1. ASSUME NEW q \in Prosted(files) PROVE RawFile(q) # TonicFile(p)
      <4>1. q \in Packages(files) /\ q \in PackageNames /\ p \in PackageNames
        BY PluginsAre
      <4>2. QED
        BY <1>5, <4>1, RawFilesApart, Zenon DEF NamedApart
    <3>2. QED
      BY <1>2, <3>1, Zenon
  <2>2. QED
    BY <1>1, <1>2, <2>1, Zenon
<1>6. ASSUME NEW name \in DOMAIN G PROVE G[name] \in Seq(PieceSet)
  <2>1. G[name] \in {ProstPiece(p) : p \in Prosted(files)} \union {TonicPiece(p) : p \in Served(files, tonic)}
    BY <1>1, <1>2, <1>3, Zenon
  <2>2. \A p \in PackageNames : ProstPiece(p) \in Seq(PieceSet) /\ TonicPiece(p) \in Seq(PieceSet)
    BY DEF ProstPiece, TonicPiece, PieceSet
  <2>3. QED
    BY <2>1, <2>2, PluginsAre, Zenon
<1>7. QED
  BY <1>2, <1>3, <1>4, <1>5, <1>6, Zenon DEF G

LEMMA PiecesAre ==
  ASSUME BuildsOK, NEW files \in Seq(ProtoFiles), NEW tonic, NamedApart(Packages(files))
  PROVE  Pieces(files, tonic)
           = {<<"prost", p>> : p \in Prosted(files)} \union {<<"tonic", p>> : p \in Served(files, tonic)}
<1> DEFINE G == Generated(files, tonic)
<1>1. /\ DOMAIN G = {RawFile(p) : p \in Prosted(files)} \union {TonicFile(p) : p \in Served(files, tonic)}
      /\ \A p \in Prosted(files) : G[RawFile(p)] = ProstPiece(p)
      /\ \A p \in Served(files, tonic) : G[TonicFile(p)] = TonicPiece(p)
  BY GeneratedFiles
<1>2. Pieces(files, tonic) = {G[name][1] : name \in DOMAIN G}
  BY Zenon DEF Pieces
<1> HIDE DEF G
<1>3. \A p : ProstPiece(p)[1] = <<"prost", p>> /\ TonicPiece(p)[1] = <<"tonic", p>>
  BY DEF ProstPiece, TonicPiece
<1>4. ASSUME NEW x \in Pieces(files, tonic)
      PROVE  x \in {<<"prost", p>> : p \in Prosted(files)} \union {<<"tonic", p>> : p \in Served(files, tonic)}
  <2>1. PICK name \in DOMAIN G : x = G[name][1]
    BY <1>2, Zenon
  <2>2. CASE name \in {RawFile(p) : p \in Prosted(files)}
    <3>1. PICK p \in Prosted(files) : name = RawFile(p)
      BY <2>2, Zenon
    <3>2. QED
      BY <1>1, <1>3, <2>1, <3>1, Zenon
  <2>3. CASE name \in {TonicFile(p) : p \in Served(files, tonic)}
    <3>1. PICK p \in Served(files, tonic) : name = TonicFile(p)
      BY <2>3, Zenon
    <3>2. QED
      BY <1>1, <1>3, <2>1, <3>1, Zenon
  <2>4. QED
    BY <1>1, <2>2, <2>3, Zenon
<1>5. \A p \in Prosted(files) : <<"prost", p>> \in Pieces(files, tonic)
  BY <1>1, <1>2, <1>3, Zenon
<1>6. \A p \in Served(files, tonic) : <<"tonic", p>> \in Pieces(files, tonic)
  BY <1>1, <1>2, <1>3, Zenon
<1>7. QED
  BY <1>4, <1>5, <1>6, Zenon

LEMMA AppendAt ==
  ASSUME NEW S, NEW y \in S, NEW s \in Seq(S)
  PROVE  /\ Append(s, y) \in Seq(S) /\ Len(Append(s, y)) = Len(s) + 1 /\ Append(s, y)[Len(s) + 1] = y
         /\ \A k \in 1..Len(s) : Append(s, y)[k] = s[k]
<1>1. Append(s, y) \in Seq(S)
  OBVIOUS
<1>2. Len(Append(s, y)) = Len(s) + 1
  OBVIOUS
<1>3. Append(s, y)[Len(s) + 1] = y
  OBVIOUS
<1>4. \A k \in 1..Len(s) : Append(s, y)[k] = s[k]
  OBVIOUS
<1>5. QED
  BY <1>1, <1>2, <1>3, <1>4

LEMMA AppendToOne ==
  ASSUME NEW S, NEW y \in S, NEW s \in Seq(S)
  PROVE  Len(s) = 1 => Append(s, y) = <<s[1], y>>
<1> DEFINE t == Append(s, y)
<1>1. /\ t \in Seq(S) /\ Len(t) = Len(s) + 1 /\ t[Len(s) + 1] = y
      /\ \A k \in 1..Len(s) : t[k] = s[k]
  BY AppendAt
<1> HIDE DEF t
<1>2. ASSUME Len(s) = 1 PROVE t = <<s[1], y>>
  <2>1. Len(s) + 1 = 2 /\ 1 \in 1..Len(s)
    BY <1>2
  <2>2. t \in Seq(S) /\ Len(t) = 2 /\ t[2] = y /\ t[1] = s[1]
    BY <1>1, <2>1, Zenon
  <2>3. QED
    BY <2>2, PairIs
<1>3. QED
  BY <1>2, Zenon DEF t

LEMMA AppendIs ==
  ASSUME NEW S, NEW x \in S, NEW y \in S
  PROVE  Append(<<x>>, y) = <<x, y>>
<1>1. <<x>> \in Seq(S) /\ Len(<<x>>) = 1
  BY SingleIs, Zenon
<1>2. <<x>>[1] = x
  OBVIOUS
<1>3. QED
  BY <1>1, <1>2, AppendToOne, Zenon

\* The file of no package has its extension.
LEMMA RenamedIs ==
  ASSUME BuildsOK, NEW P \in SUBSET PackageNames, NEW V \in SUBSET PackageNames, NamedApart(P), NEW found,
         DOMAIN found = {RawFile(p) : p \in P} \union {TonicFile(p) : p \in V}
  PROVE  LET R == Renamed(found)
         IN  /\ DOMAIN R = {ProstFile(p) : p \in P} \union {TonicFile(p) : p \in V}
             /\ \A p \in P : R[ProstFile(p)] = found[RawFile(p)]
             /\ \A p \in V : R[TonicFile(p)] = found[TonicFile(p)]
             /\ RustFiles(R) = DOMAIN R
<1> DEFINE R == Renamed(found)
<1>1. \A p \in V : TonicFile(p) # <<"_">> /\ TonicFile(p) # <<"_", "rs">>
  <2>1. ~IsTonic(<<"_">>) /\ ~IsTonic(<<"_", "rs">>)
    BY DEF IsTonic
  <2>2. QED
    BY <2>1, TonicFileIs, Zenon
<1>2. \A p \in P : (RawFile(p) = <<"_">> <=> p = <<>>) /\ (p # <<>> => RawFile(p) = ProstFile(p))
  BY RawFileIs
<1>3. ProstFile(<<>>) = <<"_", "rs">>
  <2>1. Append(<<"_">>, "rs") = <<"_", "rs">>
    <3>1. "_" \in Words /\ "rs" \in Words
      BY DEF Words
    <3>2. QED
      BY <3>1, AppendIs, Zenon
  <2>2. ProstFile(<<>>) = Append(<<"_">>, "rs")
    BY Zenon DEF ProstFile, Stem
  <2>3. QED
    BY <2>1, <2>2, Zenon
<1>4. <<>> \in PackageNames
  BY DEF PackageNames
<1>5. \A p \in P : ProstFile(p) = <<"_", "rs">> <=> p = <<>>
  BY <1>3, <1>4, FilesApart, Zenon
<1>6. <<"_">> \in DOMAIN found <=> <<>> \in P
  BY <1>1, <1>2, Zenon
<1>7. /\ DOMAIN R = {ProstFile(p) : p \in P} \union {TonicFile(p) : p \in V}
      /\ \A p \in P : R[ProstFile(p)] = found[RawFile(p)]
      /\ \A p \in V : R[TonicFile(p)] = found[TonicFile(p)]
  <2>1. CASE <<>> \notin P
    <3>1. R = found
      BY <1>6, <2>1, Zenon DEF Renamed
    <3>2. \A p \in P : RawFile(p) = ProstFile(p)
      BY <1>2, <2>1, Zenon
    <3>3. {RawFile(p) : p \in P} = {ProstFile(p) : p \in P}
      BY <3>2, Zenon
    <3>4. QED
      BY <3>1, <3>2, <3>3, Zenon
  <2>2. CASE <<>> \in P
    <3> DEFINE old == <<"_">>
               new == <<"_", "rs">>
               rest == [name \in DOMAIN found \ {old, new} |-> found[name]]
    <3>1. R = With(rest, new, found[old])
      BY <1>6, <2>2, Zenon DEF Renamed
    <3> DEFINE one == [x \in {new} |-> found[old]]
    <3>20. R = [x \in DOMAIN one \union DOMAIN rest |-> IF x \in DOMAIN one THEN one[x] ELSE rest[x]]
      BY <3>1, Zenon DEF Over, With
    <3>21. DOMAIN one = {new} /\ DOMAIN rest = DOMAIN found \ {old, new} /\ one[new] = found[old]
      BY Zenon
    <3>22. \A name \in DOMAIN found \ {old, new} : rest[name] = found[name]
      BY Zenon
    <3>2. /\ DOMAIN R = {new} \union (DOMAIN found \ {old, new}) /\ R[new] = found[old]
          /\ \A x \in DOMAIN found \ {old, new} : R[x] = found[x]
      <4> HIDE DEF one, rest, R, old, new
      <4>1. R[new] = found[old]
        BY <3>20, <3>21, Zenon
      <4>2. \A x \in DOMAIN found \ {old, new} : R[x] = found[x]
        BY <3>20, <3>21, <3>22, Zenon
      <4>3. QED
        BY <3>20, <3>21, <4>1, <4>2, Zenon
    <3>0. \A p \in P : RawFile(p) # new
      <4>1. IsRust(new)
        BY <1>3, <1>4, ProstFileIs, Zenon DEF new
      <4>3. ~IsRust(old)
        BY DEF IsRust
      <4>2. QED
        BY <1>2, <1>5, <4>1, <4>3, Zenon
    <3>3. RawFile(<<>>) = old
      BY <1>2, <2>2, Zenon
    <3> HIDE DEF old, new, R
    <3>4. DOMAIN R = {new} \union (DOMAIN found \ {old, new})
      BY <3>2, Zenon
    <3>5. \A p \in P : p # <<>> => RawFile(p) # old /\ RawFile(p) = ProstFile(p) /\ ProstFile(p) # new
      BY <1>2, <1>5, Zenon DEF old, new
    <3>6. \A p \in V : TonicFile(p) # old /\ TonicFile(p) # new
      BY <1>1, Zenon DEF old, new
    <3>7. ProstFile(<<>>) = new
      BY <1>3, Zenon DEF new
    <3>8. DOMAIN R = {ProstFile(p) : p \in P} \union {TonicFile(p) : p \in V}
      <4>1. ASSUME NEW x \in DOMAIN R PROVE x \in {ProstFile(p) : p \in P} \union {TonicFile(p) : p \in V}
        BY <2>2, <3>3, <3>4, <3>5, <3>7, Zenon
      <4>2. ASSUME NEW p \in P PROVE ProstFile(p) \in DOMAIN R
        BY <3>4, <3>5, <3>7, Zenon
      <4>3. ASSUME NEW p \in V PROVE TonicFile(p) \in DOMAIN R
        BY <3>4, <3>6, Zenon
      <4>4. QED
        BY <4>1, <4>2, <4>3, Zenon
    <3>9. \A p \in P : R[ProstFile(p)] = found[RawFile(p)]
      <4>1. ASSUME NEW p \in P PROVE R[ProstFile(p)] = found[RawFile(p)]
        <5>1. CASE p = <<>>
          BY <3>2, <3>3, <3>7, <5>1, Zenon
        <5>2. CASE p # <<>>
          BY <3>2, <3>5, <5>2, Zenon
        <5>3. QED
          BY <5>1, <5>2
      <4>2. QED
        BY <4>1
    <3>10. \A p \in V : R[TonicFile(p)] = found[TonicFile(p)]
      BY <3>2, <3>6, Zenon
    <3>11. QED
      BY <3>8, <3>9, <3>10
  <2>3. QED
    BY <2>1, <2>2
<1>8. RustFiles(R) = DOMAIN R
  <2>1. \A p \in PackageNames : IsRust(ProstFile(p)) /\ IsRust(TonicFile(p))
    BY ProstFileIs, TonicFileIs
  <2>2. QED
    BY <1>7, <2>1, Zenon DEF RustFiles
<1>9. QED
  BY <1>7, <1>8, Zenon

(***************************************************************************)
(* Combining the files of the plugins: for each package either nothing was *)
(* done yet and its files are still to come, or tonic's file has it all.   *)
(***************************************************************************)
\* The two files of a package: none was combined yet, or tonic's has it all.
Apart(P, V, found, pend, p) ==
  /\ p \in P /\ ProstFile(p) \in DOMAIN found /\ found[ProstFile(p)] = ProstPiece(p)
  /\ IF p \in V THEN /\ TonicFile(p) \in DOMAIN found /\ found[TonicFile(p)] = TonicPiece(p) /\ TonicFile(p) \in pend
     ELSE TonicFile(p) \notin DOMAIN found /\ ProstFile(p) \in pend
Together(P, V, found, p) ==
  ProstFile(p) \notin DOMAIN found /\ TonicFile(p) \in DOMAIN found /\ found[TonicFile(p)] = Whole(P, V, p)

AtCombine(P, V, found, pend) ==
  /\ \A p \in P \union V : Apart(P, V, found, pend, p) \/ Together(P, V, found, p)
  /\ pend \subseteq {ProstFile(p) : p \in P} \union {TonicFile(p) : p \in V}
  /\ DOMAIN found \subseteq {ProstFile(p) : p \in P \union V} \union {TonicFile(p) : p \in P \union V}
AtGather(P, V, found, tonic) ==
  IF tonic THEN Filed(found, TRUE, P \union V) /\ \A p \in P \union V : found[TonicFile(p)] = Whole(P, V, p)
  ELSE V = {} /\ DOMAIN found = {RawFile(p) : p \in P} /\ \A p \in P : found[RawFile(p)] = Whole(P, V, p)
AtLib(P, V, found, tonic) ==
  \/ P \union V = {} /\ \A name \in DOMAIN found : found[name] = <<>>
  \/ Filed(found, tonic, P \union V) /\ \A p \in P \union V : found[FileOf(p, tonic)] = Whole(P, V, p)
AtInfo(P, V, modules) ==
  /\ \A p \in P \union V : ModulePath(p) \in DOMAIN modules /\ modules[ModulePath(p)] = Whole(P, V, p)
  /\ \A path \in DOMAIN modules :
       modules[path] = <<>> \/ \E p \in P \union V : path = ModulePath(p) /\ modules[path] = Whole(P, V, p)


LEMMA WholeIs ==
  ASSUME NEW P, NEW V, NEW p
  PROVE  /\ p \in P /\ p \notin V => Whole(P, V, p) = ProstPiece(p)
         /\ p \notin P /\ p \in V => Whole(P, V, p) = TonicPiece(p)
         /\ p \in P /\ p \in V => Whole(P, V, p) = ProstPiece(p) \o TonicPiece(p)
<1>1. ProstPiece(p) \in Seq({<<"prost", p>>}) /\ TonicPiece(p) \in Seq({<<"tonic", p>>})
  BY DEF ProstPiece, TonicPiece
<1>2. ProstPiece(p) \o <<>> = ProstPiece(p) /\ <<>> \o TonicPiece(p) = TonicPiece(p)
  BY <1>1, ConcatEmptySeq
<1>3. QED
  BY <1>2, Zenon DEF Whole

LEMMA CombineStarts ==
  ASSUME BuildsOK, NEW P \in SUBSET PackageNames, NEW V \in SUBSET PackageNames, NamedApart(P \union V), NEW found,
         DOMAIN found = {ProstFile(p) : p \in P} \union {TonicFile(p) : p \in V},
         \A p \in P : found[ProstFile(p)] = ProstPiece(p), \A p \in V : found[TonicFile(p)] = TonicPiece(p)
  PROVE  AtCombine(P, V, found, DOMAIN found)
<1>1. ASSUME NEW p \in P \union V PROVE Apart(P, V, found, DOMAIN found, p) \/ Together(P, V, found, p)
  <2>1. /\ TonicFile(p) \in DOMAIN found <=> p \in V
        /\ ProstFile(p) \in DOMAIN found <=> p \in P
    <3>1. \A q \in P \union V : /\ q \in PackageNames /\ p \in PackageNames
                                /\ (q # <<>> => Last(q) # "tonic") /\ (p # <<>> => Last(p) # "tonic")
      BY Zenon DEF NamedApart
    <3>2. \A q \in P \union V : /\ ProstFile(q) = ProstFile(p) => q = p
                                /\ TonicFile(q) = TonicFile(p) => q = p
                                /\ ProstFile(q) # TonicFile(p) /\ ProstFile(p) # TonicFile(q)
      BY <3>1, FilesApart, Zenon
    <3>3. QED
      BY <3>2, Zenon
  <2>2. CASE p \in P
    BY <2>1, <2>2, Zenon DEF Apart
  <2>3. CASE p \notin P
    <3>1. p \in V
      BY <2>3
    <3>2. found[TonicFile(p)] = Whole(P, V, p)
      BY <2>3, <3>1, WholeIs, Zenon
    <3>3. QED
      BY <2>1, <2>3, <3>1, <3>2, Zenon DEF Together
  <2>4. QED
    BY <2>2, <2>3
<1>2. DOMAIN found \subseteq {ProstFile(p) : p \in P \union V} \union {TonicFile(p) : p \in P \union V}
  BY Zenon
<1>3. QED
  BY <1>1, <1>2, Zenon DEF AtCombine

LEMMA CombineEnds ==
  ASSUME NEW P, NEW V, NEW found, AtCombine(P, V, found, {})
  PROVE  AtGather(P, V, found, TRUE)
<1>1. \A p \in P \union V : Together(P, V, found, p)
  BY Zenon DEF AtCombine, Apart
<1>2. DOMAIN found = {TonicFile(p) : p \in P \union V}
  <2>1. \A x \in DOMAIN found : x \in {TonicFile(p) : p \in P \union V}
    <3>1. \A x \in DOMAIN found : x \in {ProstFile(p) : p \in P \union V} \union {TonicFile(p) : p \in P \union V}
      BY Zenon DEF AtCombine
    <3>2. \A p \in P \union V : ProstFile(p) \notin DOMAIN found
      BY <1>1, Zenon DEF Together
    <3>3. QED
      BY <3>1, <3>2, Zenon
  <2>2. \A p \in P \union V : TonicFile(p) \in DOMAIN found
    BY <1>1, Zenon DEF Together
  <2>3. QED
    BY <2>1, <2>2, Zenon
<1>3. \A p \in P \union V : found[TonicFile(p)] = Whole(P, V, p)
  BY <1>1, Zenon DEF Together
<1>4. Filed(found, TRUE, P \union V)
  BY <1>2, Zenon DEF Filed, FileOf
<1>5. QED
  BY <1>3, <1>4, Zenon DEF AtGather

\* Combining what concerns one package leaves all others as they are.
LEMMA CombineStep ==
  ASSUME BuildsOK, NEW P \in SUBSET PackageNames, NEW V \in SUBSET PackageNames, NamedApart(P \union V),
         NEW found, NEW pend, AtCombine(P, V, found, pend), NEW p \in P \union V, NEW name \in {ProstFile(p), TonicFile(p)},
         NEW next,
         DOMAIN next \subseteq DOMAIN found \union {TonicFile(p)},
         \A other \in DOMAIN found \ {ProstFile(p), TonicFile(p)} : other \in DOMAIN next /\ next[other] = found[other],
         Apart(P, V, next, pend \ {name}, p) \/ Together(P, V, next, p)
  PROVE  AtCombine(P, V, next, pend \ {name})
<1>1. \A q \in P \union V : Apart(P, V, found, pend, q) \/ Together(P, V, found, q)
  BY Zenon DEF AtCombine
<1>2. ASSUME NEW q \in P \union V, q # p
      PROVE  Apart(P, V, next, pend \ {name}, q) \/ Together(P, V, next, q)
  <2>0. /\ q \in PackageNames /\ p \in PackageNames
        /\ (q # <<>> => Last(q) # "tonic") /\ (p # <<>> => Last(p) # "tonic")
    BY Zenon DEF NamedApart
  <2>1. /\ ProstFile(q) # ProstFile(p) /\ ProstFile(q) # TonicFile(p)
        /\ TonicFile(q) # ProstFile(p) /\ TonicFile(q) # TonicFile(p)
    BY <1>2, <2>0, FilesApart, Zenon
  <2>2. /\ ProstFile(q) \in DOMAIN next <=> ProstFile(q) \in DOMAIN found
        /\ TonicFile(q) \in DOMAIN next <=> TonicFile(q) \in DOMAIN found
        /\ ProstFile(q) \in DOMAIN found => next[ProstFile(q)] = found[ProstFile(q)]
        /\ TonicFile(q) \in DOMAIN found => next[TonicFile(q)] = found[TonicFile(q)]
        /\ ProstFile(q) # name /\ TonicFile(q) # name
    BY <2>1, Zenon
  <2>3. CASE Apart(P, V, found, pend, q)
    BY <2>2, <2>3, Zenon DEF Apart
  <2>4. CASE Together(P, V, found, q)
    BY <2>2, <2>4, Zenon DEF Together
  <2>5. QED
    BY <1>1, <2>3, <2>4
<1>3. pend \ {name} \subseteq {ProstFile(q) : q \in P} \union {TonicFile(q) : q \in V}
  BY Zenon DEF AtCombine
<1>4. DOMAIN next \subseteq {ProstFile(q) : q \in P \union V} \union {TonicFile(q) : q \in P \union V}
  BY Zenon DEF AtCombine
<1>5. QED
  BY <1>2, <1>3, <1>4, Zenon DEF AtCombine

LEMMA WithDomain ==
  ASSUME NEW g, NEW key, NEW value, NEW h, h = With(g, key, value)
  PROVE  DOMAIN h = DOMAIN g \union {key}
  BY Zenon DEF With, Over

LEMMA WithAt ==
  ASSUME NEW g, NEW key, NEW value, NEW h, h = With(g, key, value)
  PROVE  h[key] = value
  BY Zenon DEF With, Over

LEMMA WithElse ==
  ASSUME NEW g, NEW key, NEW value, NEW h, h = With(g, key, value), NEW x \in DOMAIN g, x # key
  PROVE  h[x] = g[x]
  BY Zenon DEF With, Over

\* Combine, by what it makes of the files that were found.
CombinedFile(found, name) ==
  IF IsTonic(name)
  THEN IF Sibling(name) \notin DOMAIN found THEN found
       ELSE [other \in DOMAIN found \ {Sibling(name)} |->
               IF other = name THEN found[Sibling(name)] \o found[name] ELSE found[other]]
  ELSE IF Sibling(name) \in DOMAIN found THEN found
       ELSE With([other \in DOMAIN found \ {name} |-> found[other]], Sibling(name), found[name])

LEMMA CombineOne ==
  ASSUME BuildsOK, NEW P \in SUBSET PackageNames, NEW V \in SUBSET PackageNames, NamedApart(P \union V),
         NEW found, NEW pend, AtCombine(P, V, found, pend), NEW name \in pend
  PROVE  AtCombine(P, V, CombinedFile(found, name), pend \ {name})
<1> DEFINE next == CombinedFile(found, name)
<1>1. \A q \in P \union V : Apart(P, V, found, pend, q) \/ Together(P, V, found, q)
  BY Zenon DEF AtCombine
<1>2. name \in {ProstFile(p) : p \in P} \union {TonicFile(p) : p \in V}
  BY Zenon DEF AtCombine
<1>0. \A p \in P \union V : p \in PackageNames /\ (p # <<>> => Last(p) # "tonic")
  BY Zenon DEF NamedApart
<1>3. CASE \E p \in P : name = ProstFile(p)
  <2>1. PICK p \in P : name = ProstFile(p)
    BY <1>3
  <2>2. ~IsTonic(name) /\ Sibling(name) = TonicFile(p)
    BY <1>0, <2>1, NotTonic, Zenon
  <2>3. TonicFile(p) # ProstFile(p)
    BY <1>0, FilesApart, Zenon
  <2>4. CASE TonicFile(p) \in DOMAIN found
    <3>1. next = found
      BY <2>2, <2>4, Zenon DEF CombinedFile
    <3>2. Apart(P, V, next, pend \ {name}, p) \/ Together(P, V, next, p)
      BY <1>1, <2>1, <2>3, <2>4, <3>1, Zenon DEF Apart, Together
    <3>3. QED
      <4> HIDE DEF next
      <4>1. /\ DOMAIN next \subseteq DOMAIN found \union {TonicFile(p)}
            /\ \A other \in DOMAIN found \ {ProstFile(p), TonicFile(p)} : other \in DOMAIN next /\ next[other] = found[other]
            /\ p \in P \union V /\ name \in {ProstFile(p), TonicFile(p)}
        BY <2>1, <3>1, Zenon
      <4>2. AtCombine(P, V, next, pend \ {name})
        BY <3>2, <4>1, CombineStep
      <4>3. QED
        BY <4>2 DEF next
  <2>5. CASE TonicFile(p) \notin DOMAIN found
    <3> DEFINE rest == [other \in DOMAIN found \ {name} |-> found[other]]
    <3>1. next = With(rest, TonicFile(p), found[name])
      BY <2>2, <2>5, Zenon DEF CombinedFile
    <3>2. /\ DOMAIN rest = DOMAIN found \ {name}
          /\ \A other \in DOMAIN found \ {name} : rest[other] = found[other]
      BY Zenon
    <3> HIDE DEF rest, next
    <3>3. /\ DOMAIN next = (DOMAIN found \ {name}) \union {TonicFile(p)} /\ next[TonicFile(p)] = found[name]
          /\ \A other \in DOMAIN found \ {name} : other # TonicFile(p) => next[other] = found[other]
      <4>1. /\ DOMAIN next = DOMAIN rest \union {TonicFile(p)} /\ next[TonicFile(p)] = found[name]
            /\ \A other \in DOMAIN rest : other # TonicFile(p) => next[other] = rest[other]
        <5> DEFINE key == TonicFile(p)
                   value == found[name]
        <5>1. next = With(rest, key, value)
          BY <3>1
        <5> HIDE DEF key, value
        <5>2. /\ DOMAIN next = DOMAIN rest \union {key} /\ next[key] = value
              /\ \A other \in DOMAIN rest : other # key => next[other] = rest[other]
          <6>1. DOMAIN next = DOMAIN rest \union {key}
            BY <5>1, WithDomain
          <6>2. next[key] = value
            BY <5>1, WithAt
          <6>3. \A other \in DOMAIN rest : other # key => next[other] = rest[other]
            BY <5>1, WithElse
          <6>4. QED
            BY <6>1, <6>2, <6>3
        <5>3. QED
          BY <5>2, Zenon DEF key, value
      <4>2. QED
        BY <3>2, <4>1, Zenon
    <3>4. Apart(P, V, found, pend, p)
      BY <1>1, <2>5, Zenon DEF Together
    <3>5. p \notin V /\ found[name] = ProstPiece(p)
      BY <2>1, <2>5, <3>4, Zenon DEF Apart
    <3>6. Together(P, V, next, p)
      <4>1. ProstFile(p) \notin DOMAIN next
        BY <2>1, <2>3, <3>3, Zenon
      <4>2. Whole(P, V, p) = ProstPiece(p)
        BY <3>5, WholeIs, Zenon
      <4>3. QED
        BY <3>3, <3>5, <4>1, <4>2, Zenon DEF Together
    <3>7. /\ DOMAIN next \subseteq DOMAIN found \union {TonicFile(p)}
          /\ \A other \in DOMAIN found \ {ProstFile(p), TonicFile(p)} : other \in DOMAIN next /\ next[other] = found[other]
          /\ p \in P \union V /\ name \in {ProstFile(p), TonicFile(p)}
      BY <2>1, <3>3, Zenon
    <3>8. AtCombine(P, V, next, pend \ {name})
      BY <3>6, <3>7, CombineStep
    <3>9. QED
      BY <3>8 DEF next
  <2>6. QED
    BY <2>4, <2>5
<1>4. CASE \E p \in V : name = TonicFile(p)
  <2>1. PICK p \in V : name = TonicFile(p)
    BY <1>4
  <2>2. IsTonic(name) /\ Sibling(name) = ProstFile(p)
    BY <1>0, <2>1, TonicFileIs, Zenon
  <2>3. TonicFile(p) # ProstFile(p)
    BY <1>0, FilesApart, Zenon
  <2>4. CASE ProstFile(p) \notin DOMAIN found
    <3>1. next = found
      BY <2>2, <2>4, Zenon DEF CombinedFile
    <3>2. Together(P, V, next, p)
      BY <1>1, <2>4, <3>1, Zenon DEF Apart
    <3>3. QED
      <4> HIDE DEF next
      <4>1. /\ DOMAIN next \subseteq DOMAIN found \union {TonicFile(p)}
            /\ \A other \in DOMAIN found \ {ProstFile(p), TonicFile(p)} : other \in DOMAIN next /\ next[other] = found[other]
            /\ p \in P \union V /\ name \in {ProstFile(p), TonicFile(p)}
        BY <2>1, <3>1, Zenon
      <4>2. AtCombine(P, V, next, pend \ {name})
        BY <3>2, <4>1, CombineStep
      <4>3. QED
        BY <4>2 DEF next
  <2>5. CASE ProstFile(p) \in DOMAIN found
    <3>1. next = [other \in DOMAIN found \ {ProstFile(p)} |->
                    IF other = name THEN found[ProstFile(p)] \o found[name] ELSE found[other]]
      BY <2>2, <2>5, Zenon DEF CombinedFile
    <3> HIDE DEF next
    <3>2. Apart(P, V, found, pend, p)
      BY <1>1, <2>5, Zenon DEF Together
    <3>3. /\ p \in P /\ found[ProstFile(p)] = ProstPiece(p)
          /\ name \in DOMAIN found /\ found[name] = TonicPiece(p)
      BY <2>1, <3>2, Zenon DEF Apart
    <3>4. Together(P, V, next, p)
      <4>1. ProstFile(p) \notin DOMAIN next /\ TonicFile(p) \in DOMAIN next
        BY <2>1, <2>3, <3>1, <3>3, Zenon
      <4>2. next[TonicFile(p)] = ProstPiece(p) \o TonicPiece(p)
        BY <2>1, <2>3, <3>1, <3>3, Zenon
      <4>3. Whole(P, V, p) = ProstPiece(p) \o TonicPiece(p)
        BY <3>3, WholeIs, Zenon
      <4>4. QED
        BY <4>1, <4>2, <4>3, Zenon DEF Together
    <3>5. /\ DOMAIN next \subseteq DOMAIN found \union {TonicFile(p)}
          /\ \A other \in DOMAIN found \ {ProstFile(p), TonicFile(p)} : other \in DOMAIN next /\ next[other] = found[other]
          /\ p \in P \union V /\ name \in {ProstFile(p), TonicFile(p)}
      BY <2>1, <3>1, Zenon
    <3>6. AtCombine(P, V, next, pend \ {name})
      BY <3>4, <3>5, CombineStep
    <3>7. QED
      BY <3>6 DEF next
  <2>6. QED
    BY <2>4, <2>5
<1>5. QED
  BY <1>2, <1>3, <1>4, Zenon

\* What is gathered is named for its package, as lib.rs needs it.
LEMMA GatherRenamed ==
  ASSUME BuildsOK, NEW P \in SUBSET PackageNames, NEW V \in SUBSET PackageNames, NamedApart(P \union V),
         NEW found, NEW tonic, AtGather(P, V, found, tonic)
  PROVE  LET R == Renamed(found)
         IN  /\ Filed(R, tonic, P \union V) /\ \A p \in P \union V : R[FileOf(p, tonic)] = Whole(P, V, p)
             /\ RustFiles(R) = DOMAIN R
<1> DEFINE R == Renamed(found)
<1>1. CASE tonic
  <2>1. DOMAIN found = {TonicFile(p) : p \in P \union V} /\ \A p \in P \union V : found[TonicFile(p)] = Whole(P, V, p)
    BY <1>1, Zenon DEF AtGather, Filed, FileOf
  <2>2. DOMAIN found = {RawFile(p) : p \in {}} \union {TonicFile(p) : p \in P \union V}
    BY <2>1, Zenon
  <2>3. NamedApart({}) /\ {} \in SUBSET PackageNames /\ P \union V \in SUBSET PackageNames
    BY Zenon DEF NamedApart
  <2>4. /\ DOMAIN R = {ProstFile(p) : p \in {}} \union {TonicFile(p) : p \in P \union V}
        /\ \A p \in P \union V : R[TonicFile(p)] = found[TonicFile(p)]
        /\ RustFiles(R) = DOMAIN R
    <3> DEFINE W == P \union V
               E == {}
    <3>1. DOMAIN found = {RawFile(p) : p \in E} \union {TonicFile(p) : p \in W}
      BY <2>2
    <3>2. NamedApart(E) /\ E \in SUBSET PackageNames /\ W \in SUBSET PackageNames
      BY <2>3
    <3> HIDE DEF W, E
    <3>3. /\ DOMAIN R = {ProstFile(p) : p \in E} \union {TonicFile(p) : p \in W}
          /\ \A p \in E : R[ProstFile(p)] = found[RawFile(p)]
          /\ \A p \in W : R[TonicFile(p)] = found[TonicFile(p)]
          /\ RustFiles(R) = DOMAIN R
      BY <3>1, <3>2, RenamedIs
    <3>4. QED
      BY <3>3, Zenon DEF W, E
  <2> HIDE DEF R
  <2>5. DOMAIN R = {TonicFile(p) : p \in P \union V}
    BY <2>4, Zenon
  <2>6. Filed(R, tonic, P \union V)
    BY <1>1, <2>5, Zenon DEF Filed, FileOf
  <2>7. \A p \in P \union V : R[FileOf(p, tonic)] = Whole(P, V, p)
    BY <1>1, <2>1, <2>4, Zenon DEF FileOf
  <2>8. QED
    BY <2>4, <2>6, <2>7, Zenon DEF R
<1>2. CASE ~tonic
  <2>1. V = {} /\ DOMAIN found = {RawFile(p) : p \in P} /\ \A p \in P : found[RawFile(p)] = Whole(P, V, p)
    BY <1>2, Zenon DEF AtGather
  <2>2. DOMAIN found = {RawFile(p) : p \in P} \union {TonicFile(p) : p \in V} /\ NamedApart(P) /\ P \union V = P
    BY <2>1, Zenon DEF NamedApart
  <2>3. /\ DOMAIN R = {ProstFile(p) : p \in P} \union {TonicFile(p) : p \in V}
        /\ \A p \in P : R[ProstFile(p)] = found[RawFile(p)]
        /\ \A p \in V : R[TonicFile(p)] = found[TonicFile(p)]
        /\ RustFiles(R) = DOMAIN R
    BY <2>2, RenamedIs
  <2> HIDE DEF R
  <2>4. DOMAIN R = {ProstFile(p) : p \in P}
    BY <2>1, <2>3, Zenon
  <2>5. Filed(R, tonic, P \union V)
    BY <1>2, <2>2, <2>4, Zenon DEF Filed, FileOf
  <2>6. \A p \in P \union V : R[FileOf(p, tonic)] = Whole(P, V, p)
    BY <1>2, <2>1, <2>2, <2>3, Zenon DEF FileOf
  <2>7. QED
    BY <2>3, <2>5, <2>6, Zenon DEF R
<1>3. QED
  BY <1>1, <1>2

LEMMA LibStarts ==
  ASSUME BuildsOK, NEW P \in SUBSET PackageNames, NEW V \in SUBSET PackageNames, NamedApart(P \union V),
         NEW found, NEW tonic, AtGather(P, V, found, tonic)
  PROVE  /\ RustFiles(Renamed(found)) # {} => AtLib(P, V, Renamed(found), tonic)
         /\ RustFiles(Renamed(found)) = {} => \A name : AtLib(P, V, With(Renamed(found), name, <<>>), tonic)
<1> DEFINE R == Renamed(found)
<1>1. /\ Filed(R, tonic, P \union V) /\ \A p \in P \union V : R[FileOf(p, tonic)] = Whole(P, V, p)
      /\ RustFiles(R) = DOMAIN R
  BY GatherRenamed
<1> HIDE DEF R
<1>2. AtLib(P, V, R, tonic)
  BY <1>1, Zenon DEF AtLib
<1>3. ASSUME RustFiles(R) = {}, NEW name PROVE AtLib(P, V, With(R, name, <<>>), tonic)
  <2>1. P \union V = {}
    BY <1>1, <1>3, Zenon DEF Filed
  <2> DEFINE W == With(R, name, <<>>)
  <2> DEFINE none == <<>>
  <2>0. W = With(R, name, none)
    OBVIOUS
  <2> HIDE DEF none
  <2>2. DOMAIN W = DOMAIN R \union {name} /\ W[name] = none
    <3> HIDE DEF W
    <3>1. DOMAIN W = DOMAIN R \union {name}
      BY <2>0, WithDomain
    <3>2. W[name] = none
      BY <2>0, WithAt
    <3>3. QED
      BY <3>1, <3>2
  <2> HIDE DEF W
  <2>3. \A other \in DOMAIN W : W[other] = <<>>
    BY <1>1, <1>3, <2>2, Zenon DEF none
  <2>4. AtLib(P, V, W, tonic)
    BY <2>1, <2>3, Zenon DEF AtLib
  <2>6. QED
    BY <2>4 DEF W
<1>4. QED
  BY <1>2, <1>3, Zenon DEF R

LEMMA InfoStarts ==
  ASSUME BuildsOK, NEW P \in SUBSET PackageNames, NEW V \in SUBSET PackageNames, PathsApart(P \union V),
         NEW found, NEW tonic, AtLib(P, V, found, tonic)
  PROVE  AtInfo(P, V, LibModules(found, tonic))
<1> DEFINE M == LibModules(found, tonic)
           W == P \union V
<1>1. CASE W = {} /\ \A name \in DOMAIN found : found[name] = <<>>
  <2>1. \A path \in DOMAIN M : M[path] = <<>>
    BY <1>1, LibEmpty
  <2> HIDE DEF M
  <2>2. AtInfo(P, V, M)
    BY <1>1, <2>1, Zenon DEF AtInfo
  <2>3. QED
    BY <2>2 DEF M
<1>2. CASE Filed(found, tonic, W) /\ \A p \in W : found[FileOf(p, tonic)] = Whole(P, V, p)
  <2>0. W \in SUBSET PackageNames /\ PathsApart(W)
    OBVIOUS
  <2>1. /\ \A p \in W : ModulePath(p) \in DOMAIN M /\ M[ModulePath(p)] = found[FileOf(p, tonic)]
        /\ \A path \in DOMAIN M :
             M[path] = <<>> \/ \E p \in W : path = ModulePath(p) /\ M[path] = found[FileOf(p, tonic)]
    <3> HIDE DEF W
    <3>1. QED
      BY <1>2, <2>0, LibRight
  <2> HIDE DEF M
  <2>2. AtInfo(P, V, M)
    <3>1. \A p \in W : ModulePath(p) \in DOMAIN M /\ M[ModulePath(p)] = Whole(P, V, p)
      BY <1>2, <2>1, Zenon
    <3>2. \A path \in DOMAIN M :
            M[path] = <<>> \/ \E p \in W : path = ModulePath(p) /\ M[path] = Whole(P, V, p)
      BY <1>2, <2>1, Zenon
    <3>3. QED
      BY <3>1, <3>2, Zenon DEF AtInfo
  <2>3. QED
    BY <2>2 DEF M
<1>3. QED
  BY <1>1, <1>2, Zenon DEF AtLib

LEMMA WholePieces ==
  ASSUME NEW P, NEW V, NEW p
  PROVE  /\ p \in P => <<"prost", p>> \in ToSet(Whole(P, V, p))
         /\ p \in V => <<"tonic", p>> \in ToSet(Whole(P, V, p))
         /\ \A m \in DOMAIN Whole(P, V, p) :
              \/ p \in P /\ Whole(P, V, p)[m] = <<"prost", p>>
              \/ p \in V /\ Whole(P, V, p)[m] = <<"tonic", p>>
         /\ \A m, n \in DOMAIN Whole(P, V, p) : Whole(P, V, p)[m] = Whole(P, V, p)[n] => m = n
<1> DEFINE a == <<"prost", p>>
           b == <<"tonic", p>>
           w == Whole(P, V, p)
<1>1. a[1] = "prost" /\ b[1] = "tonic"
  OBVIOUS
<1>2. a # b
  BY <1>1
<1>3. /\ p \in P /\ p \notin V => w = <<a>>
      /\ p \notin P /\ p \in V => w = <<b>>
      /\ p \in P /\ p \in V => w = <<a>> \o <<b>>
      /\ p \notin P /\ p \notin V => w = <<>> \o <<>>
  <2>1. p \notin P /\ p \notin V => w = <<>> \o <<>>
    BY Zenon DEF Whole
  <2>2. QED
    BY <2>1, WholeIs, Zenon DEF ProstPiece, TonicPiece
<1>6. ProstPiece(p) = <<a>> /\ TonicPiece(p) = <<b>>
  BY Zenon DEF ProstPiece, TonicPiece
<1> HIDE DEF a, b, w
<1>4. <<a>> \o <<b>> = <<a, b>> /\ <<>> \o <<>> = <<>>
  <2> DEFINE S == {a, b}
             s == <<a>>
             t == <<b>>
             c == s \o t
  <2>1. a \in S /\ b \in S
    OBVIOUS
  <2> HIDE DEF S
  <2>2. s \in Seq(S) /\ t \in Seq(S) /\ Len(s) = 1 /\ Len(t) = 1 /\ s[1] = a /\ t[1] = b
    BY <2>1
  <2> HIDE DEF s, t
  <2>3. c \in Seq(S) /\ Len(c) = Len(s) + Len(t) /\ (1 <= Len(s) => c[1] = s[1]) /\ c[Len(s) + 1] = t[Len(s) + 1 - Len(s)]
    BY <2>2, ConcatProperties
  <2> HIDE DEF c
  <2>4. Len(c) = 2 /\ c[1] = a /\ c[2] = b
    <3>1. Len(s) + Len(t) = 2 /\ 1 <= Len(s) /\ Len(s) + 1 = 2 /\ Len(s) + 1 - Len(s) = 1
      BY <2>2
    <3>2. QED
      BY <2>2, <2>3, <3>1, Zenon
  <2>5. c = <<a, b>>
    <3>1. c \in Seq(S)
      BY <2>3
    <3>2. QED
      BY <2>4, <3>1, PairIs, Zenon
  <2>6. <<>> \in Seq({})
    OBVIOUS
  <2>7. <<>> \o <<>> = <<>>
    BY <2>6, ConcatEmptySeq
  <2>8. QED
    BY <2>5, <2>7, Zenon DEF c, s, t
<1>5. /\ p \in P => \E m \in DOMAIN w : w[m] = a
      /\ p \in V => \E m \in DOMAIN w : w[m] = b
      /\ \A m \in DOMAIN w : (p \in P /\ w[m] = a) \/ (p \in V /\ w[m] = b)
      /\ \A m, n \in DOMAIN w : w[m] = w[n] => m = n
  <2>1. CASE p \in P /\ p \notin V
    <3>1. w = <<a>>
      BY <1>3, <2>1, Zenon
    <3>2. DOMAIN w = {1} /\ w[1] = a
      BY <3>1
    <3>3. QED
      BY <2>1, <3>2, Zenon
  <2>2. CASE p \notin P /\ p \in V
    <3>1. w = <<b>>
      BY <1>3, <2>2, Zenon
    <3>2. DOMAIN w = {1} /\ w[1] = b
      BY <3>1
    <3>3. QED
      BY <2>2, <3>2, Zenon
  <2>3. CASE p \in P /\ p \in V
    <3>1. w = <<a, b>>
      BY <1>3, <1>4, <2>3, Zenon
    <3>2. DOMAIN w = {1, 2} /\ w[1] = a /\ w[2] = b
      BY <3>1
    <3>3. QED
      BY <1>2, <2>3, <3>2, Zenon
  <2>4. CASE p \notin P /\ p \notin V
    <3>1. w = <<>>
      BY <1>3, <1>4, <2>4, Zenon
    <3>2. DOMAIN w = {}
      BY <3>1
    <3>3. QED
      BY <2>4, <3>2, Zenon
  <2>5. QED
    BY <2>1, <2>2, <2>3, <2>4
<1>7. ToSet(w) = {w[m] : m \in DOMAIN w}
  BY Zenon DEF ToSet, Range
<1>8. QED
  BY <1>5, <1>7, Zenon DEF a, b, w

(***************************************************************************)
(* The invariant: what is in the output directory at each stage.           *)
(***************************************************************************)
\* A file is a sequence of pieces.
Typed(files) == \A name \in DOMAIN files : files[name] \in Seq(PieceSet)

WithTonic == Asked(Target.args, "--is_tonic")
OfProst == Prosted(Target.files)
OfTonic == Served(Target.files, WithTonic)

OutputsTyped ==
  /\ builds \in Seq(Targets) /\ builds # <<>>
  /\ stage \in ProtocStages
  /\ pending # {} => stage = "combine"
  /\ \A dir \in DOMAIN dirs : Typed(dirs[dir])
  /\ stage \in {"protoc", "combine", "gather", "lib", "info", "format", "done"} => Target.dir \in DOMAIN dirs
  /\ stage \in {"info", "format", "done"} /\ WithTonic => \A name \in RustFiles(Found) : IsTonic(name)
OutputsRight ==
  ~Ambiguous =>
    /\ stage = "protoc" => DOMAIN Found = {}
    /\ stage = "combine" => WithTonic /\ AtCombine(OfProst, OfTonic, Found, pending)
    /\ stage = "gather" => AtGather(OfProst, OfTonic, Found, WithTonic)
    /\ stage = "lib" => AtLib(OfProst, OfTonic, Found, WithTonic)
    /\ stage \in {"info", "format", "done"} => Target.crate \in DOMAIN libs /\ AtInfo(OfProst, OfTonic, libs[Target.crate].modules)

LEMMA TargetIs ==
  ASSUME BuildsOK, builds \in Seq(Targets), builds # <<>>
  PROVE  /\ Target \in Targets /\ Target.files \in Seq(ProtoFiles)
         /\ Parsed.tonic = WithTonic
         /\ OfProst \in SUBSET PackageNames /\ OfTonic \in SUBSET PackageNames
         /\ ~WithTonic => OfTonic = {}
         /\ ~Ambiguous => /\ NamedApart(OfProst \union OfTonic) /\ PathsApart(OfProst \union OfTonic)
                          /\ NamedApart(Packages(Target.files))
<1>1. Target \in Targets
  BY DEF Target
<1>2. TargetOK(Target)
  BY <1>1, Zenon DEF BuildsOK
<1>3. Target.files \in Seq(ProtoFiles)
  BY <1>2, Zenon DEF TargetOK
<1>4. Len(Target.args) \in Nat
  <2>1. Target.args \in Seq(ToSet(Target.args))
    BY <1>2, Zenon DEF TargetOK
  <2> DEFINE a == Target.args
             S == ToSet(a)
  <2>2. a \in Seq(S)
    BY <2>1
  <2> HIDE DEF a, S
  <2>3. Len(a) \in Nat
    BY <2>2
  <2>4. QED
    BY <2>3 DEF a
<1>5. Parsed.tonic = WithTonic
  BY <1>4, FlagsAre DEF Parsed, WithTonic
<1>6. /\ OfProst \subseteq Packages(Target.files) /\ OfTonic \subseteq Packages(Target.files)
      /\ OfProst \subseteq PackageNames /\ OfTonic \subseteq PackageNames
      /\ ~WithTonic => OfTonic = {}
  <2> DEFINE f == Target.files
             w == WithTonic
  <2>1. f \in Seq(ProtoFiles)
    BY <1>3
  <2> HIDE DEF f, w
  <2>2. /\ Prosted(f) \subseteq Packages(f) /\ Served(f, w) \subseteq Packages(f)
        /\ Prosted(f) \subseteq PackageNames /\ Served(f, w) \subseteq PackageNames
        /\ ~w => Served(f, w) = {}
    BY <2>1, PluginsAre
  <2>3. QED
    BY <2>2 DEF f, w, OfProst, OfTonic
<1>7. ASSUME ~Ambiguous
      PROVE  /\ NamedApart(Packages(Target.files))
             /\ \A p, q \in Packages(Target.files) : ModulePath(p) = ModulePath(q) => p = q
  <2>1. /\ ~\E p \in Packages(Target.files) : p # <<>> /\ Last(p) = "tonic"
        /\ ~\E p \in Packages(Target.files) : \E q \in Packages(Target.files) \ {p} : ModulePath(p) = ModulePath(q)
    BY <1>7, Zenon DEF Ambiguous, Packages
  <2>2. QED
    BY <2>1, Zenon DEF NamedApart
<1>8. ASSUME ~Ambiguous
      PROVE  NamedApart(OfProst \union OfTonic) /\ PathsApart(OfProst \union OfTonic)
  BY <1>6, <1>7, <1>8, Zenon DEF NamedApart, PathsApart
<1>9. QED
  BY <1>1, <1>3, <1>5, <1>6, <1>7, <1>8

\* What is written to the output directory is what is found there.
LEMMA PutIs ==
  ASSUME builds' = builds, NEW files, Put(files)
  PROVE  /\ Target' = Target /\ Target.dir \in DOMAIN dirs' /\ Found' = files
         /\ (\A dir \in DOMAIN dirs : Typed(dirs[dir])) /\ Typed(files) => \A dir \in DOMAIN dirs' : Typed(dirs'[dir])
<1>1. Target' = Target
  BY Zenon DEF Target
<1> DEFINE d == Target.dir
<1>2. dirs' = With(dirs, d, files)
  BY Zenon DEF Put
<1> HIDE DEF d
<1>3. DOMAIN dirs' = DOMAIN dirs \union {d}
  BY <1>2, WithDomain
<1>4. dirs'[d] = files
  BY <1>2, WithAt
<1>5. \A dir \in DOMAIN dirs : dir # d => dirs'[dir] = dirs[dir]
  BY <1>2, WithElse
<1>6. Found' = files
  BY <1>1, <1>4, Zenon DEF Found, d
<1>7. ASSUME \A dir \in DOMAIN dirs : Typed(dirs[dir]), Typed(files), NEW dir \in DOMAIN dirs'
      PROVE  Typed(dirs'[dir])
  BY <1>3, <1>4, <1>5, <1>7, Zenon
<1>8. (\A dir \in DOMAIN dirs : Typed(dirs[dir])) /\ Typed(files) => \A dir \in DOMAIN dirs' : Typed(dirs'[dir])
  BY <1>7, Zenon
<1>9. QED
  BY <1>1, <1>3, <1>6, <1>8, Zenon DEF d

OutputsInv == BuildsOK /\ OutputsTyped /\ OutputsRight

LEMMA OutputsInit == ProtocInit => OutputsInv
<1> SUFFICES ASSUME ProtocInit PROVE OutputsInv
  OBVIOUS
<1>1. BuildsOK
  BY BuildsAssumption
<1>2. builds \in Seq(Targets) /\ builds # <<>>
  <2>1. builds \in UNION Builds
    BY Zenon DEF ProtocInit
  <2>2. QED
    BY <1>1, <2>1, Zenon DEF BuildsOK
<1>3. DOMAIN dirs = {} /\ pending = {} /\ stage = "parse"
  BY DEF ProtocInit
<1>4. OutputsTyped
  BY <1>2, <1>3 DEF OutputsTyped, ProtocStages
<1>5. OutputsRight
  BY <1>3 DEF OutputsRight
<1>6. QED
  BY <1>1, <1>4, <1>5 DEF OutputsInv

Unclear(packages) ==
  \/ \E p \in packages : p # <<>> /\ Last(p) = "tonic"
  \/ \E p \in packages : \E q \in packages \ {p} : ModulePath(p) = ModulePath(q)

LEMMA SameTarget ==
  ASSUME builds' = builds
  PROVE  /\ Target' = Target /\ WithTonic' = WithTonic /\ Ambiguous' = Ambiguous
         /\ OfProst' = OfProst /\ OfTonic' = OfTonic
<1>1. Target' = Target
  BY Zenon DEF Target
<1>2. WithTonic' = WithTonic
  BY <1>1, Zenon DEF WithTonic
<1>3. OfProst' = OfProst
  BY <1>1, Zenon DEF OfProst
<1>4. OfTonic' = OfTonic
  BY <1>1, <1>2, Zenon DEF OfTonic
<1>5. Ambiguous' = Ambiguous
  <2>1. Ambiguous = Unclear({Target.files[n].package : n \in DOMAIN Target.files})
    BY DEF Ambiguous, Unclear
  <2>2. Ambiguous' = Unclear({Target'.files[n].package : n \in DOMAIN Target'.files})
    BY DEF Ambiguous, Unclear
  <2>3. QED
    BY <1>1, <2>1, <2>2, Zenon
<1>6. QED
  BY <1>1, <1>2, <1>3, <1>4, <1>5

\* A stage of which the invariant says nothing but the types.
LEMMA ReachesEarly ==
  ASSUME OutputsInv, stage' \in {"parse", "dirs", "failed"}, pending' = {}, UNCHANGED dirs,
         builds' = builds \/ (builds' = Tail(builds) /\ Len(builds) > 1)
  PROVE  OutputsInv'
<1>1. builds' \in Seq(Targets) /\ builds' # <<>>
  BY DEF OutputsInv, OutputsTyped
<1>2. \A dir \in DOMAIN dirs' : Typed(dirs'[dir])
  BY Zenon DEF OutputsInv, OutputsTyped
<1>3. /\ stage' \in ProtocStages
      /\ stage' \notin {"protoc", "combine", "gather", "lib", "info", "format", "done"}
      /\ stage' # "protoc" /\ stage' # "combine" /\ stage' # "gather" /\ stage' # "lib"
      /\ stage' \notin {"info", "format", "done"}
  BY DEF ProtocStages
<1>4. OutputsTyped'
  BY <1>1, <1>2, <1>3, Zenon DEF OutputsTyped
<1>5. OutputsRight'
  BY <1>3, Zenon DEF OutputsRight
<1>6. QED
  BY <1>4, <1>5, Zenon DEF OutputsInv

LEMMA KeepsTypes ==
  ASSUME OutputsInv, builds' = builds, stage' \in {"protoc", "combine", "gather", "lib"}, pending' # {} => stage' = "combine",
         Target.dir \in DOMAIN dirs', \A dir \in DOMAIN dirs' : Typed(dirs'[dir])
  PROVE  OutputsTyped'
<1>1. builds' \in Seq(Targets) /\ builds' # <<>>
  BY DEF OutputsInv, OutputsTyped
<1>2. stage' \in ProtocStages /\ stage' \notin {"info", "format", "done"}
  BY DEF ProtocStages
<1>3. Target' = Target
  BY SameTarget
<1>4. QED
  BY <1>1, <1>2, <1>3, Zenon DEF OutputsTyped

LEMMA MakesOutputDir == OutputsInv /\ MakeOutputDir => OutputsInv'
<1> SUFFICES ASSUME OutputsInv, MakeOutputDir PROVE OutputsInv'
  OBVIOUS
<1>1. stage = "dirs" /\ Put(<<>>) /\ stage' = "protoc" /\ builds' = builds /\ pending' = pending
  BY Zenon DEF MakeOutputDir, Goto
<1> DEFINE none == <<>>
<1>2. Put(none) /\ DOMAIN none = {} /\ Typed(none)
  BY <1>1 DEF Typed
<1> HIDE DEF none
<1>3. Target.dir \in DOMAIN dirs' /\ Found' = none /\ \A dir \in DOMAIN dirs' : Typed(dirs'[dir])
  <2>1. \A dir \in DOMAIN dirs : Typed(dirs[dir])
    BY Zenon DEF OutputsInv, OutputsTyped
  <2>2. QED
    BY <1>1, <1>2, <2>1, PutIs
<1>4. pending' = {}
  BY <1>1 DEF OutputsInv, OutputsTyped
<1>5. OutputsTyped'
  BY <1>1, <1>3, <1>4, KeepsTypes
<1>6. OutputsRight'
  BY <1>1, <1>2, <1>3 DEF OutputsRight
<1>7. QED
  BY <1>5, <1>6, Zenon DEF OutputsInv

LEMMA OverDomain ==
  ASSUME NEW f, NEW g, NEW h, h = Over(f, g)
  PROVE  DOMAIN h = DOMAIN f \union DOMAIN g
  BY Zenon DEF Over

LEMMA OverAt ==
  ASSUME NEW f, NEW g, NEW h, h = Over(f, g), NEW x \in DOMAIN f
  PROVE  h[x] = f[x]
  BY Zenon DEF Over

LEMMA OverElse ==
  ASSUME NEW f, NEW g, NEW h, h = Over(f, g), NEW x \in DOMAIN g, x \notin DOMAIN f
  PROVE  h[x] = g[x]
  BY Zenon DEF Over

LEMMA RenamedTyped ==
  ASSUME NEW files, Typed(files)
  PROVE  Typed(Renamed(files))
<1>1. CASE <<"_">> \notin DOMAIN files
  BY <1>1, Zenon DEF Renamed
<1>2. CASE <<"_">> \in DOMAIN files
  <2> DEFINE old == <<"_">>
             new == <<"_", "rs">>
             rest == [name \in DOMAIN files \ {old, new} |-> files[name]]
             R == Renamed(files)
             value == files[old]
  <2>1. R = With(rest, new, value)
    BY <1>2, Zenon DEF Renamed
  <2>2. /\ DOMAIN rest = DOMAIN files \ {old, new}
        /\ \A name \in DOMAIN files \ {old, new} : rest[name] = files[name]
    BY Zenon
  <2>3. value \in Seq(PieceSet)
    BY <1>2, Zenon DEF Typed
  <2> HIDE DEF old, new, rest, R, value
  <2>4. DOMAIN R = DOMAIN rest \union {new}
    BY <2>1, WithDomain
  <2>5. R[new] = value
    BY <2>1, WithAt
  <2>6. \A x \in DOMAIN rest : x # new => R[x] = rest[x]
    BY <2>1, WithElse
  <2>7. \A x \in DOMAIN R : R[x] \in Seq(PieceSet)
    BY <2>2, <2>3, <2>4, <2>5, <2>6, Zenon DEF Typed
  <2>8. QED
    BY <2>7, Zenon DEF Typed, R
<1>3. QED
  BY <1>1, <1>2

LEMMA RunsProtoc == OutputsInv /\ Protoc => OutputsInv'
<1> SUFFICES ASSUME OutputsInv, Protoc PROVE OutputsInv'
  OBVIOUS
<1> DEFINE G == Generated(Target.files, Parsed.tonic)
           found == Over(G, Found)
           P == OfProst
           V == OfTonic
<1>1. /\ stage = "protoc"
      /\ IF Parsed.tonic THEN Put(Renamed(found)) /\ pending' = RustFiles(Renamed(found)) /\ Goto("combine")
         ELSE Put(found) /\ UNCHANGED pending /\ Goto("gather")
  BY Zenon DEF Protoc
<1>2. builds' = builds
  BY <1>1, Zenon DEF Goto
<1>3. /\ BuildsOK /\ builds \in Seq(Targets) /\ builds # <<>> /\ \A dir \in DOMAIN dirs : Typed(dirs[dir])
      /\ pending = {} /\ Target.dir \in DOMAIN dirs
  BY <1>1 DEF OutputsInv, OutputsTyped
<1>4. /\ Target.files \in Seq(ProtoFiles) /\ Parsed.tonic = WithTonic
      /\ P \in SUBSET PackageNames /\ V \in SUBSET PackageNames /\ (~WithTonic => V = {})
      /\ ~Ambiguous => NamedApart(P \union V) /\ NamedApart(Packages(Target.files))
  BY <1>3, TargetIs
<1>5. /\ DOMAIN G = {RawFile(p) : p \in P} \union {TonicFile(p) : p \in V}
      /\ \A p \in P : G[RawFile(p)] = ProstPiece(p)
      /\ NamedApart(Packages(Target.files)) => \A p \in V : G[TonicFile(p)] = TonicPiece(p)
      /\ \A name \in DOMAIN G : G[name] \in Seq(PieceSet)
  <2> DEFINE f == Target.files
             w == WithTonic
             H == Generated(f, w)
  <2>1. f \in Seq(ProtoFiles) /\ BuildsOK
    BY <1>3, <1>4
  <2> HIDE DEF f, w
  <2>2. /\ DOMAIN H = {RawFile(p) : p \in Prosted(f)} \union {TonicFile(p) : p \in Served(f, w)}
        /\ \A p \in Prosted(f) : H[RawFile(p)] = ProstPiece(p)
        /\ NamedApart(Packages(f)) => \A p \in Served(f, w) : H[TonicFile(p)] = TonicPiece(p)
        /\ \A name \in DOMAIN H : H[name] \in Seq(PieceSet)
    BY <2>1, GeneratedFiles
  <2>3. H = G /\ Prosted(f) = P /\ Served(f, w) = V
    BY <1>4, Zenon DEF f, w, OfProst, OfTonic
  <2> HIDE DEF H, G, P, V
  <2>4. QED
    BY <2>2, <2>3, Zenon DEF f
<1> HIDE DEF G
<1>6. DOMAIN found = DOMAIN G \union DOMAIN Found /\ \A x \in DOMAIN G : found[x] = G[x]
  <2> DEFINE old == Found
  <2>1. found = Over(G, old)
    OBVIOUS
  <2> HIDE DEF old, found
  <2>2. DOMAIN found = DOMAIN G \union DOMAIN old
    BY <2>1, OverDomain
  <2>3. \A x \in DOMAIN G : found[x] = G[x]
    BY <2>1, OverAt
  <2>4. QED
    BY <2>2, <2>3 DEF old
<1>7. \A x \in DOMAIN Found : x \notin DOMAIN G => found[x] = Found[x]
  <2> DEFINE old == Found
  <2>1. found = Over(G, old)
    OBVIOUS
  <2> HIDE DEF old, found
  <2>2. \A x \in DOMAIN old : x \notin DOMAIN G => found[x] = old[x]
    BY <2>1, OverElse
  <2>3. QED
    BY <2>2 DEF old
<1> HIDE DEF found
<1>8. Typed(found)
  <2>1. Typed(Found)
    BY <1>3, Zenon DEF Found
  <2>2. QED
    BY <1>5, <1>6, <1>7, <2>1, Zenon DEF Typed
<1>9. ~Ambiguous => DOMAIN Found = {}
  BY <1>1, Zenon DEF OutputsInv, OutputsRight
<1> HIDE DEF P, V
<1>10. ASSUME ~Ambiguous
       PROVE  /\ DOMAIN found = {RawFile(p) : p \in P} \union {TonicFile(p) : p \in V}
              /\ \A p \in P : found[RawFile(p)] = ProstPiece(p)
              /\ \A p \in V : found[TonicFile(p)] = TonicPiece(p)
  BY <1>4, <1>5, <1>6, <1>9, <1>10, Zenon
<1>11. CASE Parsed.tonic
  <2> DEFINE R == Renamed(found)
  <2>1. Put(R) /\ pending' = RustFiles(R) /\ stage' = "combine"
    BY <1>1, <1>11, Zenon DEF Goto
  <2>2. Typed(R)
    BY <1>8, RenamedTyped
  <2>3. ASSUME ~Ambiguous PROVE AtCombine(P, V, R, RustFiles(R))
    <3>0. NamedApart(P)
      BY <1>4, <2>3, Zenon DEF NamedApart
    <3>1. /\ DOMAIN R = {ProstFile(p) : p \in P} \union {TonicFile(p) : p \in V}
          /\ \A p \in P : R[ProstFile(p)] = found[RawFile(p)]
          /\ \A p \in V : R[TonicFile(p)] = found[TonicFile(p)]
          /\ RustFiles(R) = DOMAIN R
      BY <1>3, <1>4, <1>10, <2>3, <3>0, RenamedIs
    <3> HIDE DEF R
    <3>2. /\ \A p \in P : R[ProstFile(p)] = ProstPiece(p)
          /\ \A p \in V : R[TonicFile(p)] = TonicPiece(p)
      BY <1>10, <2>3, <3>1, Zenon
    <3>3. AtCombine(P, V, R, DOMAIN R)
      BY <1>3, <1>4, <2>3, <3>1, <3>2, CombineStarts
    <3>4. QED
      BY <3>1, <3>3, Zenon
  <2> HIDE DEF R
  <2>4. Target.dir \in DOMAIN dirs' /\ Found' = R /\ \A dir \in DOMAIN dirs' : Typed(dirs'[dir])
    BY <1>2, <1>3, <2>1, <2>2, PutIs
  <2>5. OutputsTyped'
    BY <1>2, <2>1, <2>4, KeepsTypes
  <2>6. ASSUME ~Ambiguous'
        PROVE  WithTonic' /\ AtCombine(OfProst', OfTonic', Found', pending')
    <3>1. WithTonic' = WithTonic /\ Ambiguous' = Ambiguous /\ OfProst' = P /\ OfTonic' = V
      BY <1>2, SameTarget DEF P, V
    <3>2. AtCombine(P, V, R, RustFiles(R))
      BY <2>3, <2>6, <3>1
    <3>3. WithTonic'
      BY <1>4, <1>11, <3>1, Zenon
    <3>4. QED
      BY <2>1, <2>4, <3>1, <3>2, <3>3, Zenon
  <2>7. OutputsRight'
    <3>1. stage' # "protoc" /\ stage' # "gather" /\ stage' # "lib" /\ stage' \notin {"info", "format", "done"}
      BY <2>1
    <3>2. QED
      BY <2>6, <3>1, Zenon DEF OutputsRight
  <2>8. QED
    BY <2>5, <2>7, Zenon DEF OutputsInv
<1>12. CASE ~Parsed.tonic
  <2>1. Put(found) /\ pending' = pending /\ stage' = "gather"
    BY <1>1, <1>12, Zenon DEF Goto
  <2>4. Target.dir \in DOMAIN dirs' /\ Found' = found /\ \A dir \in DOMAIN dirs' : Typed(dirs'[dir])
    BY <1>2, <1>3, <1>8, <2>1, PutIs
  <2>5. OutputsTyped'
    BY <1>2, <1>3, <2>1, <2>4, KeepsTypes
  <2>6. ASSUME ~Ambiguous'
        PROVE  AtGather(OfProst', OfTonic', Found', WithTonic')
    <3>1. WithTonic' = WithTonic /\ Ambiguous' = Ambiguous /\ OfProst' = P /\ OfTonic' = V
      BY <1>2, SameTarget DEF P, V
    <3>2. ~WithTonic /\ V = {}
      BY <1>4, <1>12, Zenon
    <3>3. /\ DOMAIN found = {RawFile(p) : p \in P} \union {TonicFile(p) : p \in V}
          /\ \A p \in P : found[RawFile(p)] = ProstPiece(p)
      BY <1>10, <2>6, <3>1
    <3>4. DOMAIN found = {RawFile(p) : p \in P}
      BY <3>2, <3>3, Zenon
    <3>5. \A p \in P : found[RawFile(p)] = Whole(P, V, p)
      BY <3>2, <3>3, WholeIs, Zenon
    <3>6. AtGather(P, V, found, WithTonic)
      BY <3>2, <3>4, <3>5, Zenon DEF AtGather
    <3>7. QED
      BY <2>4, <3>1, <3>6, Zenon
  <2>7. OutputsRight'
    <3>1. stage' # "protoc" /\ stage' # "combine" /\ stage' # "lib" /\ stage' \notin {"info", "format", "done"}
      BY <2>1
    <3>2. QED
      BY <2>6, <3>1, Zenon DEF OutputsRight
  <2>8. QED
    BY <2>5, <2>7, Zenon DEF OutputsInv
<1>13. QED
  BY <1>11, <1>12

LEMMA FailsEarly ==
  ASSUME OutputsInv, ProtocFails
  PROVE  OutputsInv'
<1>1. stage' = "failed" /\ pending' = {} /\ dirs' = dirs /\ builds' = builds
  BY Zenon DEF ProtocFails
<1>2. stage' \in {"parse", "dirs", "failed"}
  BY <1>1
<1>3. builds' = builds \/ (builds' = Tail(builds) /\ Len(builds) > 1)
  BY <1>1
<1>4. QED
  BY <1>1, <1>2, <1>3, ReachesEarly

\* Only what the files to be combined are is looked at.
LEMMA CombinesFile == OutputsInv /\ Combine => OutputsInv'
<1> SUFFICES ASSUME OutputsInv, Combine PROVE OutputsInv'
  OBVIOUS
<1> DEFINE D == DOMAIN Found
           Taken(name) ==
             LET other == Sibling(name)
                 skipped == IsTonic(name) <=> other \notin DOMAIN Found
             IN  IF ~skipped /\ name \notin DOMAIN Found THEN ProtocFails
                 ELSE /\ pending' = pending \ {name}
                      /\ IF skipped THEN UNCHANGED dirs
                         ELSE IF IsTonic(name)
                         THEN Put([file \in DOMAIN Found \ {other} |->
                                     IF file = name THEN Found[other] \o Found[name] ELSE Found[file]])
                         ELSE Put(With([file \in DOMAIN Found \ {name} |-> Found[file]], other, Found[name]))
                      /\ UNCHANGED <<builds, stage, args, libs, infos>>
<1>1. stage = "combine"
  BY Zenon DEF Combine
<1>2. PICK name \in pending : Taken(name)
  BY Zenon DEF Combine
<1> DEFINE other == Sibling(name)
           skipped == IsTonic(name) <=> other \notin DOMAIN Found
           next == CombinedFile(Found, name)
<1>3. CASE ProtocFails
  BY <1>3, FailsEarly
<1>4. CASE ~ProtocFails
  <2>1. /\ pending' = pending \ {name} /\ builds' = builds /\ stage' = "combine"
        /\ skipped \/ name \in DOMAIN Found
    BY <1>1, <1>2, <1>4, Zenon
  <2>2. (skipped /\ dirs' = dirs /\ next = Found) \/ Put(next)
    <3>1. CASE skipped
      <4>1. next = Found
        BY <3>1, Zenon DEF CombinedFile
      <4>2. dirs' = dirs
        BY <1>2, <1>4, <3>1, Zenon
      <4>3. QED
        BY <3>1, <4>1, <4>2
    <3>2. CASE ~skipped /\ IsTonic(name)
      <4>1. other \in DOMAIN Found
        BY <3>2, Zenon
      <4>2. next = [file \in DOMAIN Found \ {other} |->
                      IF file = name THEN Found[other] \o Found[name] ELSE Found[file]]
        BY <3>2, <4>1, Zenon DEF CombinedFile
      <4>3. Put([file \in DOMAIN Found \ {other} |->
                   IF file = name THEN Found[other] \o Found[name] ELSE Found[file]])
        BY <1>2, <1>4, <3>2, Zenon
      <4> HIDE DEF next
      <4>4. QED
        BY <4>2, <4>3, Zenon
    <3>3. CASE ~skipped /\ ~IsTonic(name)
      <4>1. other \notin DOMAIN Found
        BY <3>3, Zenon
      <4>2. next = With([file \in DOMAIN Found \ {name} |-> Found[file]], other, Found[name])
        BY <3>3, <4>1, Zenon DEF CombinedFile
      <4>3. Put(With([file \in DOMAIN Found \ {name} |-> Found[file]], other, Found[name]))
        BY <1>2, <1>4, <3>3, Zenon
      <4> HIDE DEF next
      <4>4. QED
        BY <4>2, <4>3, Zenon
    <3>4. QED
      BY <3>1, <3>2, <3>3, Zenon
  <2>3. /\ BuildsOK /\ builds \in Seq(Targets) /\ builds # <<>> /\ \A dir \in DOMAIN dirs : Typed(dirs[dir])
        /\ Target.dir \in DOMAIN dirs
    BY <1>1 DEF OutputsInv, OutputsTyped
  <2>4. Typed(Found)
    BY <2>3, Zenon DEF Found
  <2>5. Typed(next)
    <3>1. CASE skipped
      BY <2>4, <3>1, Zenon DEF CombinedFile
    <3>2. CASE ~skipped /\ IsTonic(name)
      <4>1. other \in DOMAIN Found /\ name \in DOMAIN Found
        BY <2>1, <3>2, Zenon
      <4>2. next = [file \in DOMAIN Found \ {other} |->
                      IF file = name THEN Found[other] \o Found[name] ELSE Found[file]]
        BY <3>2, <4>1, Zenon DEF CombinedFile
      <4>3. Found[other] \o Found[name] \in Seq(PieceSet)
        <5> DEFINE a == Found[other]
                   b == Found[name]
        <5>1. a \in Seq(PieceSet) /\ b \in Seq(PieceSet)
          BY <2>4, <4>1, Zenon DEF Typed
        <5> HIDE DEF a, b
        <5>2. a \o b \in Seq(PieceSet)
          BY <5>1
        <5>3. QED
          BY <5>2 DEF a, b
      <4> DEFINE both == Found[other] \o Found[name]
      <4> HIDE DEF next, both, other
      <4>4. DOMAIN next = DOMAIN Found \ {other} /\ \A file \in DOMAIN next : next[file] = both \/ next[file] = Found[file]
        BY <4>2, Zenon DEF both
      <4>5. QED
        BY <2>4, <4>3, <4>4, Zenon DEF Typed, both
    <3>3. CASE ~skipped /\ ~IsTonic(name)
      <4>1. other \notin DOMAIN Found /\ name \in DOMAIN Found
        BY <2>1, <3>3, Zenon
      <4> DEFINE rest == [file \in DOMAIN Found \ {name} |-> Found[file]]
                 value == Found[name]
      <4>2. next = With(rest, other, value)
        BY <3>3, <4>1, Zenon DEF CombinedFile
      <4>3. DOMAIN rest = DOMAIN Found \ {name} /\ \A file \in DOMAIN rest : rest[file] = Found[file]
        BY Zenon
      <4>4. value \in Seq(PieceSet)
        BY <2>4, <4>1, Zenon DEF Typed
      <4> HIDE DEF next, rest, value, other
      <4>5. DOMAIN next = DOMAIN rest \union {other}
        BY <4>2, WithDomain
      <4>6. next[other] = value
        BY <4>2, WithAt
      <4>7. \A x \in DOMAIN rest : x # other => next[x] = rest[x]
        BY <4>2, WithElse
      <4>8. \A x \in DOMAIN next : next[x] \in Seq(PieceSet)
        BY <2>4, <4>3, <4>4, <4>5, <4>6, <4>7, Zenon DEF Typed
      <4>9. QED
        BY <4>8, Zenon DEF Typed
    <3>4. QED
      BY <3>1, <3>2, <3>3, Zenon
  <2> HIDE DEF next, skipped
  <2>6. Target.dir \in DOMAIN dirs' /\ Found' = next /\ \A dir \in DOMAIN dirs' : Typed(dirs'[dir])
    <3>1. CASE Put(next)
      BY <2>1, <2>3, <2>5, <3>1, PutIs
    <3>2. CASE dirs' = dirs /\ next = Found
      <4>1. Target' = Target
        BY <2>1, SameTarget
      <4>2. QED
        BY <2>3, <3>2, <4>1, Zenon DEF Found
    <3>3. QED
      BY <2>2, <3>1, <3>2
  <2>7. OutputsTyped'
    BY <2>1, <2>6, KeepsTypes
  <2>8. ASSUME ~Ambiguous'
        PROVE  WithTonic' /\ AtCombine(OfProst', OfTonic', Found', pending')
    <3> DEFINE P == OfProst
               V == OfTonic
               F == Found
    <3>1. WithTonic' = WithTonic /\ Ambiguous' = Ambiguous /\ OfProst' = P /\ OfTonic' = V
      BY <2>1, SameTarget
    <3>2. WithTonic /\ AtCombine(P, V, F, pending)
      BY <1>1, <2>8, <3>1, Zenon DEF OutputsInv, OutputsRight
    <3>3. P \in SUBSET PackageNames /\ V \in SUBSET PackageNames /\ NamedApart(P \union V)
      BY <2>3, <2>8, <3>1, TargetIs
    <3> HIDE DEF P, V, F
    <3>4. AtCombine(P, V, CombinedFile(F, name), pending \ {name})
      BY <2>3, <3>2, <3>3, CombineOne
    <3>5. next = CombinedFile(F, name)
      BY Zenon DEF next, F
    <3>6. WithTonic'
      BY <3>1, <3>2, Zenon
    <3>7. QED
      BY <2>1, <2>6, <3>1, <3>4, <3>5, <3>6, Zenon
  <2>9. OutputsRight'
    <3>1. stage' # "protoc" /\ stage' # "gather" /\ stage' # "lib" /\ stage' \notin {"info", "format", "done"}
      BY <2>1
    <3>2. QED
      BY <2>8, <3>1, Zenon DEF OutputsRight
  <2>10. QED
    BY <2>3, <2>7, <2>9, Zenon DEF OutputsInv
<1>5. QED
  BY <1>3, <1>4

LEMMA EndsCombining == OutputsInv /\ Combined => OutputsInv'
<1> SUFFICES ASSUME OutputsInv, Combined PROVE OutputsInv'
  OBVIOUS
<1>1. stage = "combine" /\ pending = {} /\ stage' = "gather" /\ builds' = builds /\ dirs' = dirs /\ pending' = pending
  BY Zenon DEF Combined, Goto
<1>2. Target.dir \in DOMAIN dirs' /\ \A dir \in DOMAIN dirs' : Typed(dirs'[dir])
  BY <1>1 DEF OutputsInv, OutputsTyped
<1>3. OutputsTyped'
  BY <1>1, <1>2, KeepsTypes
<1>4. Found' = Found
  <2>1. Target' = Target
    BY <1>1, SameTarget
  <2>2. QED
    BY <1>1, <2>1, Zenon DEF Found
<1>5. ASSUME ~Ambiguous' PROVE AtGather(OfProst', OfTonic', Found', WithTonic')
  <2> DEFINE P == OfProst
             V == OfTonic
             F == Found
  <2>1. WithTonic' = WithTonic /\ Ambiguous' = Ambiguous /\ OfProst' = P /\ OfTonic' = V
    BY <1>1, SameTarget
  <2>2. WithTonic /\ AtCombine(P, V, F, {})
    BY <1>1, <1>5, <2>1, Zenon DEF OutputsInv, OutputsRight
  <2> HIDE DEF P, V, F
  <2>3. AtGather(P, V, F, TRUE)
    BY <2>2, CombineEnds
  <2>4. AtGather(P, V, F, WithTonic)
    BY <2>2, <2>3, Zenon DEF AtGather
  <2>5. Found' = F
    BY <1>4 DEF F
  <2>6. QED
    BY <2>1, <2>4, <2>5, Zenon
<1>6. OutputsRight'
  <2>1. stage' # "protoc" /\ stage' # "combine" /\ stage' # "lib" /\ stage' \notin {"info", "format", "done"}
    BY <1>1
  <2>2. QED
    BY <1>5, <2>1, Zenon DEF OutputsRight
<1>7. QED
  BY <1>3, <1>6, Zenon DEF OutputsInv

LEMMA GathersFiles == OutputsInv /\ Gather => OutputsInv'
<1> SUFFICES ASSUME OutputsInv, Gather PROVE OutputsInv'
  OBVIOUS
<1> DEFINE found == Renamed(Found)
           name == EmptyName
           none == <<>>
           empty == With(found, name, none)
<1>1. /\ stage = "gather"
      /\ \/ /\ RustFiles(found) # {} /\ Put(found) /\ stage' = "lib" /\ builds' = builds /\ pending' = pending
         \/ ProtocFails
         \/ /\ RustFiles(found) = {} /\ Put(empty) /\ stage' = "lib" /\ builds' = builds /\ pending' = pending
  BY Zenon DEF Gather, Goto
<1>2. CASE ProtocFails
  BY <1>2, FailsEarly
<1>3. CASE ~ProtocFails
  <2> DEFINE made == IF RustFiles(found) # {} THEN found ELSE empty
  <2>1. Put(made) /\ stage' = "lib" /\ builds' = builds /\ pending' = pending
    BY <1>1, <1>3, Zenon
  <2>2. /\ BuildsOK /\ builds \in Seq(Targets) /\ builds # <<>> /\ \A dir \in DOMAIN dirs : Typed(dirs[dir])
        /\ Target.dir \in DOMAIN dirs /\ pending = {}
    BY <1>1 DEF OutputsInv, OutputsTyped
  <2>3. Typed(found)
    <3>1. Typed(Found)
      BY <2>2, Zenon DEF Found
    <3>2. QED
      BY <3>1, RenamedTyped
  <2> HIDE DEF found, name
  <2>4. Typed(empty)
    <3>1. none \in Seq(PieceSet)
      OBVIOUS
    <3> HIDE DEF none
    <3>2. empty = With(found, name, none)
      OBVIOUS
    <3> HIDE DEF empty
    <3>3. DOMAIN empty = DOMAIN found \union {name}
      BY <3>2, WithDomain
    <3>4. empty[name] = none
      BY <3>2, WithAt
    <3>5. \A x \in DOMAIN found : x # name => empty[x] = found[x]
      BY <3>2, WithElse
    <3>6. \A x \in DOMAIN empty : empty[x] \in Seq(PieceSet)
      BY <2>3, <3>1, <3>3, <3>4, <3>5, Zenon DEF Typed
    <3>7. QED
      BY <3>6, Zenon DEF Typed
  <2> HIDE DEF empty
  <2>5. Typed(made)
    BY <2>3, <2>4, Zenon
  <2> HIDE DEF made
  <2>6. Target.dir \in DOMAIN dirs' /\ Found' = made /\ \A dir \in DOMAIN dirs' : Typed(dirs'[dir])
    BY <2>1, <2>2, <2>5, PutIs
  <2>7. OutputsTyped'
    BY <2>1, <2>2, <2>6, KeepsTypes
  <2>8. ASSUME ~Ambiguous' PROVE AtLib(OfProst', OfTonic', Found', WithTonic')
    <3> DEFINE P == OfProst
               V == OfTonic
               F == Found
               T == WithTonic
    <3>1. WithTonic' = T /\ Ambiguous' = Ambiguous /\ OfProst' = P /\ OfTonic' = V
      BY <2>1, SameTarget
    <3>2. AtGather(P, V, F, T)
      BY <1>1, <2>8, <3>1, Zenon DEF OutputsInv, OutputsRight
    <3>3. P \in SUBSET PackageNames /\ V \in SUBSET PackageNames /\ NamedApart(P \union V)
      BY <2>2, <2>8, <3>1, TargetIs
    <3>4. found = Renamed(F)
      BY DEF found
    <3> HIDE DEF P, V, F, T
    <3>5. /\ RustFiles(Renamed(F)) # {} => AtLib(P, V, Renamed(F), T)
          /\ RustFiles(Renamed(F)) = {} => \A x : AtLib(P, V, With(Renamed(F), x, <<>>), T)
      BY <2>2, <3>2, <3>3, LibStarts
    <3>6. AtLib(P, V, made, T)
      BY <3>4, <3>5, Zenon DEF made, empty
    <3>7. QED
      BY <2>6, <3>1, <3>6, Zenon
  <2>9. OutputsRight'
    <3>1. stage' # "protoc" /\ stage' # "combine" /\ stage' # "gather" /\ stage' \notin {"info", "format", "done"}
      BY <2>1
    <3>2. QED
      BY <2>8, <3>1, Zenon DEF OutputsRight
  <2>10. QED
    BY <2>2, <2>7, <2>9, Zenon DEF OutputsInv
<1>4. QED
  BY <1>2, <1>3

\* Once lib.rs was written.
LEMMA KeepsLib ==
  ASSUME OutputsInv, stage \in {"info", "format", "done"}, stage' \in {"info", "format", "done"},
         UNCHANGED <<builds, dirs, pending, libs>>
  PROVE  OutputsInv'
<1>1. builds' = builds /\ dirs' = dirs /\ pending' = pending /\ libs' = libs
  OBVIOUS
<1>2. /\ Target' = Target /\ WithTonic' = WithTonic /\ Ambiguous' = Ambiguous
      /\ OfProst' = OfProst /\ OfTonic' = OfTonic
  BY <1>1, SameTarget
<1>3. Found' = Found
  BY <1>1, <1>2, Zenon DEF Found
<1>4. /\ builds \in Seq(Targets) /\ builds # <<>> /\ pending = {} /\ Target.dir \in DOMAIN dirs
      /\ \A dir \in DOMAIN dirs : Typed(dirs[dir])
  BY DEF OutputsInv, OutputsTyped
<1>5. stage' \in ProtocStages
  BY DEF ProtocStages
<1>6. WithTonic => \A name \in RustFiles(Found) : IsTonic(name)
  BY Zenon DEF OutputsInv, OutputsTyped
<1>7. OutputsTyped'
  BY <1>1, <1>2, <1>3, <1>4, <1>5, <1>6, Zenon DEF OutputsTyped
<1>8. ~Ambiguous => Target.crate \in DOMAIN libs /\ AtInfo(OfProst, OfTonic, libs[Target.crate].modules)
  BY Zenon DEF OutputsInv, OutputsRight
<1>9. stage' # "protoc" /\ stage' # "combine" /\ stage' # "gather" /\ stage' # "lib"
  OBVIOUS
<1>10. ~Ambiguous' => Target'.crate \in DOMAIN libs' /\ AtInfo(OfProst', OfTonic', libs'[Target'.crate].modules)
  BY <1>1, <1>2, <1>8, Zenon
<1>11. OutputsRight'
  BY <1>9, <1>10, Zenon DEF OutputsRight
<1>12. QED
  BY <1>7, <1>11, Zenon DEF OutputsInv

LEMMA WritesLib == OutputsInv /\ WriteLib => OutputsInv'
<1> SUFFICES ASSUME OutputsInv, WriteLib PROVE OutputsInv'
  OBVIOUS
<1>1. CASE ProtocFails
  BY <1>1, FailsEarly
<1>2. CASE ~ProtocFails
  <2> DEFINE lib == [modules |-> LibModules(Found, Parsed.tonic), uses |-> Parsed.uses,
                     additional |-> Target.additional]
             crate == Target.crate
  <2>1. /\ stage = "lib" /\ ~(Parsed.tonic /\ \E name \in RustFiles(Found) : ~IsTonic(name))
        /\ libs' = With(libs, crate, lib) /\ stage' = "info"
        /\ builds' = builds /\ dirs' = dirs /\ pending' = pending
    BY <1>2, Zenon DEF WriteLib, Goto
  <2>2. lib.modules = LibModules(Found, Parsed.tonic)
    OBVIOUS
  <2> HIDE DEF lib, crate
  <2>3. DOMAIN libs' = DOMAIN libs \union {crate}
    BY <2>1, WithDomain
  <2>4. libs'[crate] = lib
    BY <2>1, WithAt
  <2>5. /\ Target' = Target /\ WithTonic' = WithTonic /\ Ambiguous' = Ambiguous
        /\ OfProst' = OfProst /\ OfTonic' = OfTonic
    BY <2>1, SameTarget
  <2>6. Found' = Found
    BY <2>1, <2>5, Zenon DEF Found
  <2>7. /\ BuildsOK /\ builds \in Seq(Targets) /\ builds # <<>> /\ pending = {} /\ Target.dir \in DOMAIN dirs
        /\ \A dir \in DOMAIN dirs : Typed(dirs[dir])
    BY <2>1 DEF OutputsInv, OutputsTyped
  <2>8. Parsed.tonic = WithTonic
    BY <2>7, TargetIs
  <2>9. WithTonic => \A name \in RustFiles(Found) : IsTonic(name)
    BY <2>1, <2>8, Zenon
  <2>10. stage' \in ProtocStages /\ stage' # "combine"
    BY <2>1 DEF ProtocStages
  <2>11. OutputsTyped'
    BY <2>1, <2>5, <2>6, <2>7, <2>9, <2>10, Zenon DEF OutputsTyped
  <2>12. ASSUME ~Ambiguous PROVE AtInfo(OfProst, OfTonic, lib.modules)
    <3> DEFINE P == OfProst
               V == OfTonic
               F == Found
               T == WithTonic
    <3>1. P \in SUBSET PackageNames /\ V \in SUBSET PackageNames /\ PathsApart(P \union V)
      BY <2>7, <2>12, TargetIs
    <3>2. AtLib(P, V, F, T)
      BY <2>1, <2>12, Zenon DEF OutputsInv, OutputsRight
    <3>3. lib.modules = LibModules(F, T)
      BY <2>2, <2>8, Zenon
    <3> HIDE DEF P, V, F, T
    <3>4. AtInfo(P, V, LibModules(F, T))
      BY <2>7, <3>1, <3>2, InfoStarts
    <3>5. QED
      BY <3>3, <3>4, Zenon DEF P, V
  <2>13. ~Ambiguous' => Target'.crate \in DOMAIN libs' /\ AtInfo(OfProst', OfTonic', libs'[Target'.crate].modules)
    BY <2>3, <2>4, <2>5, <2>12, Zenon DEF crate
  <2>14. stage' # "protoc" /\ stage' # "combine" /\ stage' # "gather" /\ stage' # "lib"
    BY <2>1
  <2>15. OutputsRight'
    BY <2>13, <2>14, Zenon DEF OutputsRight
  <2>16. QED
    BY <2>7, <2>11, <2>15, Zenon DEF OutputsInv
<1>3. QED
  BY <1>1, <1>2

LEMMA OutputsNext == OutputsInv /\ [ProtocNext]_protocVars => OutputsInv'
<1> SUFFICES ASSUME OutputsInv, [ProtocNext]_protocVars PROVE OutputsInv'
  OBVIOUS
<1>0. pending # {} => stage = "combine"
  BY Zenon DEF OutputsInv, OutputsTyped
<1>1. CASE ParseArgs
  <2>1. CASE ProtocFails
    BY <2>1, FailsEarly
  <2>2. CASE ~ProtocFails
    <3>1. stage = "parse" /\ stage' = "dirs" /\ builds' = builds /\ dirs' = dirs /\ pending' = pending
      BY <1>1, <2>2, Zenon DEF ParseArgs, Goto
    <3>2. pending' = {} /\ stage' \in {"parse", "dirs", "failed"} /\ (builds' = builds \/ (builds' = Tail(builds) /\ Len(builds) > 1))
      BY <1>0, <3>1
    <3>3. QED
      BY <3>1, <3>2, ReachesEarly
  <2>3. QED
    BY <2>1, <2>2
<1>2. CASE MakeOutputDir
  BY <1>2, MakesOutputDir
<1>3. CASE Protoc
  BY <1>3, RunsProtoc
<1>4. CASE Combine
  BY <1>4, CombinesFile
<1>5. CASE Combined
  BY <1>5, EndsCombining
<1>6. CASE Gather
  BY <1>6, GathersFiles
<1>7. CASE WriteLib
  BY <1>7, WritesLib
<1>8. CASE WriteInfo
  <2>1. stage = "info" /\ (stage' = "format" \/ stage' = "done") /\ UNCHANGED <<builds, dirs, pending, libs>>
    BY <1>8, Zenon DEF WriteInfo, Goto
  <2>2. stage \in {"info", "format", "done"} /\ stage' \in {"info", "format", "done"}
    BY <2>1
  <2>3. QED
    BY <2>1, <2>2, KeepsLib
<1>9. CASE Format
  <2>1. stage = "format" /\ stage' = "done" /\ UNCHANGED <<builds, dirs, pending, libs>>
    BY <1>9, Zenon DEF Format, Goto
  <2>2. stage \in {"info", "format", "done"} /\ stage' \in {"info", "format", "done"}
    BY <2>1
  <2>3. QED
    BY <2>1, <2>2, KeepsLib
<1>10. CASE Broken
  BY <1>10, FailsEarly, Zenon DEF Broken
<1>11. CASE NextTarget
  <2>1. /\ stage = "done" \/ stage = "failed"
        /\ Len(builds) > 1 /\ builds' = Tail(builds) /\ stage' = "parse" /\ dirs' = dirs /\ pending' = pending
    BY <1>11, Zenon DEF NextTarget
  <2>2. pending' = {} /\ stage' \in {"parse", "dirs", "failed"} /\ (builds' = builds \/ (builds' = Tail(builds) /\ Len(builds) > 1))
    BY <1>0, <2>1
  <2>3. QED
    BY <2>1, <2>2, ReachesEarly
<1>12. CASE UNCHANGED protocVars
  <2>1. stage' = stage /\ builds' = builds /\ dirs' = dirs /\ pending' = pending /\ libs' = libs
    BY <1>12, Zenon DEF protocVars
  <2>2. /\ Target' = Target /\ WithTonic' = WithTonic /\ Ambiguous' = Ambiguous
        /\ OfProst' = OfProst /\ OfTonic' = OfTonic
    BY <2>1, SameTarget
  <2>3. Found' = Found
    BY <2>1, <2>2, Zenon DEF Found
  <2>4. OutputsTyped'
    BY <2>1, <2>2, <2>3, Zenon DEF OutputsInv, OutputsTyped
  <2>5. OutputsRight'
    BY <2>1, <2>2, <2>3, Zenon DEF OutputsInv, OutputsRight
  <2>6. QED
    BY <2>4, <2>5, Zenon DEF OutputsInv
<1>13. QED
  BY <1>1, <1>2, <1>3, <1>4, <1>5, <1>6, <1>7, <1>8, <1>9, <1>10, <1>11, <1>12, Zenon DEF ProtocNext

LEMMA OutputsTypeOK == OutputsInv => ProtocTypeOK
<1> SUFFICES ASSUME OutputsInv PROVE ProtocTypeOK
  OBVIOUS
<1>1. ASSUME NEW n \in DOMAIN builds
      PROVE  DOMAIN builds[n] = {"crate", "dir", "args", "files", "deps", "additional"}
  <2>1. builds[n] \in Targets
    BY DEF OutputsInv, OutputsTyped
  <2>2. QED
    BY <2>1, Zenon DEF OutputsInv, BuildsOK, TargetOK
<1>2. ASSUME NEW dir \in DOMAIN dirs, NEW name \in DOMAIN dirs[dir], NEW n \in DOMAIN dirs[dir][name]
      PROVE  dirs[dir][name][n][1] \in {"prost", "tonic"}
  <2> DEFINE contents == dirs[dir][name]
  <2>1. contents \in Seq(PieceSet)
    BY Zenon DEF OutputsInv, OutputsTyped, Typed
  <2>2. n \in DOMAIN contents
    OBVIOUS
  <2> HIDE DEF contents
  <2>3. contents[n] \in PieceSet
    BY <2>1, <2>2
  <2>4. contents[n][1] \in {"prost", "tonic"}
    BY <2>3 DEF PieceSet
  <2>5. QED
    BY <2>4 DEF contents
<1>3. stage \in ProtocStages /\ (pending # {} => stage = "combine")
  BY Zenon DEF OutputsInv, OutputsTyped
<1>4. stage \in {"info", "format", "done"} /\ Parsed.tonic => \A name \in RustFiles(Found) : IsTonic(name)
  <2>1. Parsed.tonic = WithTonic
    BY TargetIs DEF OutputsInv, OutputsTyped
  <2>2. QED
    BY <2>1, Zenon DEF OutputsInv, OutputsTyped
<1>5. QED
  BY <1>1, <1>2, <1>3, <1>4, Zenon DEF ProtocTypeOK

LEMMA OutputsExact == OutputsInv => LibComplete /\ LibFresh
<1> SUFFICES ASSUME OutputsInv, stage = "done", ~Ambiguous
             PROVE  /\ \A piece \in Pieces(Target.files, Parsed.tonic) :
                         /\ ModulePath(piece[2]) \in DOMAIN libs[Target.crate].modules
                         /\ piece \in ToSet(libs[Target.crate].modules[ModulePath(piece[2])])
                    /\ LET modules == libs[Target.crate].modules
                       IN  \A path \in DOMAIN modules : \A m \in DOMAIN modules[path] :
                             /\ modules[path][m] \in Pieces(Target.files, Parsed.tonic)
                             /\ ModulePath(modules[path][m][2]) = path
                             /\ \A n \in DOMAIN modules[path] : modules[path][m] = modules[path][n] => m = n
  BY Zenon DEF LibComplete, LibFresh
<1> DEFINE M == libs[Target.crate].modules
           P == OfProst
           V == OfTonic
           A == Pieces(Target.files, Parsed.tonic)
<1>1. BuildsOK /\ builds \in Seq(Targets) /\ builds # <<>>
  BY DEF OutputsInv, OutputsTyped
<1>2. Target.files \in Seq(ProtoFiles) /\ Parsed.tonic = WithTonic /\ NamedApart(Packages(Target.files))
  BY <1>1, TargetIs
<1>3. AtInfo(P, V, M)
  <2>1. stage \in {"info", "format", "done"}
    OBVIOUS
  <2>2. QED
    BY <2>1, Zenon DEF OutputsInv, OutputsRight
<1>4. A = {<<"prost", p>> : p \in P} \union {<<"tonic", p>> : p \in V}
  <2> DEFINE f == Target.files
             w == WithTonic
  <2>1. f \in Seq(ProtoFiles) /\ NamedApart(Packages(f))
    BY <1>2
  <2>2. A = Pieces(f, w) /\ P = Prosted(f) /\ V = Served(f, w)
    BY <1>2, Zenon DEF OfProst, OfTonic
  <2> HIDE DEF f, w, A, P, V
  <2>3. Pieces(f, w) = {<<"prost", p>> : p \in Prosted(f)} \union {<<"tonic", p>> : p \in Served(f, w)}
    BY <1>1, <2>1, PiecesAre
  <2>4. QED
    BY <2>2, <2>3, Zenon
<1> HIDE DEF A, P, V, M
<1>5. \A p : <<"prost", p>>[2] = p /\ <<"tonic", p>>[2] = p
  OBVIOUS
<1>6. ASSUME NEW piece \in A
      PROVE  ModulePath(piece[2]) \in DOMAIN M /\ piece \in ToSet(M[ModulePath(piece[2])])
  <2>1. PICK p \in P \union V : /\ piece[2] = p
                                /\ (p \in P /\ piece = <<"prost", p>>) \/ (p \in V /\ piece = <<"tonic", p>>)
    BY <1>4, <1>5, Zenon
  <2>2. ModulePath(p) \in DOMAIN M /\ M[ModulePath(p)] = Whole(P, V, p)
    BY <1>3, Zenon DEF AtInfo
  <2>3. piece \in ToSet(Whole(P, V, p))
    <3>1. p \in P => <<"prost", p>> \in ToSet(Whole(P, V, p))
      BY WholePieces
    <3>2. p \in V => <<"tonic", p>> \in ToSet(Whole(P, V, p))
      BY WholePieces
    <3>3. QED
      BY <2>1, <3>1, <3>2, Zenon
  <2>4. QED
    BY <2>1, <2>2, <2>3, Zenon
<1>7. ASSUME NEW path \in DOMAIN M, NEW m \in DOMAIN M[path]
      PROVE  /\ M[path][m] \in A /\ ModulePath(M[path][m][2]) = path
             /\ \A n \in DOMAIN M[path] : M[path][m] = M[path][n] => m = n
  <2>1. M[path] # <<>>
    BY <1>7
  <2>2. PICK p \in P \union V : path = ModulePath(p) /\ M[path] = Whole(P, V, p)
    BY <1>3, <2>1, Zenon DEF AtInfo
  <2>3. /\ (p \in P /\ M[path][m] = <<"prost", p>>) \/ (p \in V /\ M[path][m] = <<"tonic", p>>)
        /\ \A n \in DOMAIN M[path] : M[path][m] = M[path][n] => m = n
    <3> DEFINE w == Whole(P, V, p)
    <3>1. \A k \in DOMAIN w : (p \in P /\ w[k] = <<"prost", p>>) \/ (p \in V /\ w[k] = <<"tonic", p>>)
      BY WholePieces
    <3>2. \A k, n \in DOMAIN w : w[k] = w[n] => k = n
      BY WholePieces
    <3> HIDE DEF w
    <3>3. M[path] = w
      BY <2>2 DEF w
    <3>4. QED
      BY <3>1, <3>2, <3>3, <1>7, Zenon
  <2>4. M[path][m][2] = p
    BY <1>5, <2>3, Zenon
  <2>5. M[path][m] \in A
    BY <1>4, <2>3, Zenon
  <2>6. QED
    BY <2>2, <2>3, <2>4, <2>5, Zenon
<1>8. QED
  BY <1>6, <1>7, Zenon DEF A, M

\* A crate has what protoc generated for its target.
THEOREM LibsAreExact == ProtocSpec => []LibExact
<1>1. OutputsInv => LibExact
  BY OutputsTypeOK, OutputsExact DEF LibExact
<1>2. QED
  BY <1>1, OutputsInit, OutputsNext, PTL DEF ProtocSpec

(***************************************************************************)
(* What a crate says of its types, and what those that depend on it are    *)
(* told.  First the lines of the package info files, as arguments for the  *)
(* plugins.                                                                *)
(***************************************************************************)
LEMMA SetToSeqIs ==
  ASSUME NEW S, IsFiniteSet(S)
  PROVE  SetToSeq(S) \in Seq(S) /\ ToSet(SetToSeq(S)) = S
<1> DEFINE n == Cardinality(S)
           f == SetToSeq(S)
<1>1. n \in Nat /\ ExistsBijection(1..n, S)
  BY FS_CardinalityType
<1>2. \E g \in [1..n -> S] : IsInjective(g)
  BY <1>1 DEF ExistsBijection, Bijection, Injection
<1>3. f \in [1..n -> S] /\ IsInjective(f)
  BY <1>2, Zenon DEF SetToSeq
<1>4. Cardinality(1..n) = n
  BY <1>1, FS_Interval
<1> HIDE DEF f
<1>5. f \in Injection(1..n, S)
  BY <1>3 DEF Injection
<1>6. f \in Surjection(1..n, S)
  BY <1>4, <1>5, FS_Injection
<1> HIDE DEF n
<1>7. f \in Seq(S)
  BY <1>1, <1>3
<1>8. ToSet(f) = S
  BY <1>3, <1>6 DEF Surjection, ToSet
<1>9. QED
  BY <1>7, <1>8 DEF f

LEMMA ConcatIs ==
  ASSUME NEW S, NEW s \in Seq(S), NEW t \in Seq(S)
  PROVE  s \o t \in Seq(S) /\ ToSet(s \o t) = ToSet(s) \union ToSet(t)
<1>1. s \o t \in Seq(S) /\ Len(s \o t) = Len(s) + Len(t)
  OBVIOUS
<1>2. \A n \in 1..Len(s) : (s \o t)[n] = s[n]
  OBVIOUS
<1>3. \A n \in 1..Len(t) : (s \o t)[n + Len(s)] = t[n]
  OBVIOUS
<1> DEFINE u == s \o t
<1>4. /\ u \in Seq(S) /\ Len(u) = Len(s) + Len(t) /\ \A n \in 1..Len(s) : u[n] = s[n]
      /\ \A n \in 1..Len(t) : u[n + Len(s)] = t[n]
  BY <1>1, <1>2, <1>3
<1> HIDE DEF u
<1>5. ASSUME NEW x \in ToSet(u) PROVE x \in ToSet(s) \union ToSet(t)
  <2>1. PICK n \in 1..Len(u) : x = u[n]
    BY <1>4 DEF ToSet
  <2>2. CASE n <= Len(s)
    BY <1>4, <2>1, <2>2 DEF ToSet
  <2>3. CASE n > Len(s)
    <3>1. n - Len(s) \in 1..Len(t) /\ n - Len(s) + Len(s) = n
      BY <1>4, <2>3
    <3>2. x = t[n - Len(s)]
      BY <1>4, <2>1, <3>1
    <3>3. QED
      BY <3>1, <3>2 DEF ToSet
  <2>4. QED
    BY <1>4, <2>2, <2>3
<1>6. ASSUME NEW x \in ToSet(s) PROVE x \in ToSet(u)
  <2>1. PICK n \in 1..Len(s) : x = s[n]
    BY DEF ToSet
  <2>2. n \in 1..Len(u) /\ u[n] = x
    BY <1>4, <2>1
  <2>3. QED
    BY <1>4, <2>2 DEF ToSet
<1>7. ASSUME NEW x \in ToSet(t) PROVE x \in ToSet(u)
  <2>1. PICK n \in 1..Len(t) : x = t[n]
    BY DEF ToSet
  <2>2. n + Len(s) \in 1..Len(u) /\ u[n + Len(s)] = x
    BY <1>4, <2>1
  <2>3. QED
    BY <1>4, <2>2 DEF ToSet
<1>8. ToSet(u) = ToSet(s) \union ToSet(t)
  BY <1>5, <1>6, <1>7
<1>9. QED
  BY <1>4, <1>8 DEF u

LinesOf(crates) == UNION {{<<proto, infos[c][proto]>> : proto \in DOMAIN infos[c]} : c \in crates}

LEMMA ImageIsFinite ==
  ASSUME NEW S, IsFiniteSet(S), NEW f, DOMAIN f = S
  PROVE  IsFiniteSet({f[x] : x \in S})
<1> DEFINE T == {f[x] : x \in S}
           g == [x \in S |-> f[x]]
<1>1. g \in Surjection(S, T)
  BY DEF Surjection
<1> HIDE DEF g
<1>2. IsFiniteSet(T)
  BY <1>1, FS_Surjection
<1>3. QED
  BY <1>2

LEMMA LinesAre ==
  ASSUME NEW crates, IsFiniteSet(crates), \A c \in crates : IsFiniteSet(DOMAIN infos[c])
  PROVE  Lines(crates) \in Seq(LinesOf(crates)) /\ ToSet(Lines(crates)) = LinesOf(crates)
<1> DEFINE Of == [c \in crates |-> {<<proto, infos[c][proto]>> : proto \in DOMAIN infos[c]}]
           each == {Of[c] : c \in crates}
<1>1. IsFiniteSet(each)
  <2>1. DOMAIN Of = crates
    OBVIOUS
  <2> HIDE DEF Of
  <2>2. QED
    BY <2>1, ImageIsFinite
<1>2. ASSUME NEW c \in crates PROVE IsFiniteSet(Of[c])
  <2> DEFINE line == [proto \in DOMAIN infos[c] |-> <<proto, infos[c][proto]>>]
  <2>1. DOMAIN line = DOMAIN infos[c] /\ Of[c] = {line[proto] : proto \in DOMAIN infos[c]}
    OBVIOUS
  <2> HIDE DEF line, Of
  <2>2. QED
    BY <2>1, ImageIsFinite
<1>3. LinesOf(crates) = UNION each
  BY Zenon DEF LinesOf
<1> HIDE DEF Of
<1>4. \A S \in each : IsFiniteSet(S)
  BY <1>2
<1> HIDE DEF each
<1>5. IsFiniteSet(LinesOf(crates))
  BY <1>1, <1>3, <1>4, FS_UNION
<1>6. Lines(crates) = SetToSeq(LinesOf(crates))
  BY Zenon DEF Lines, LinesOf
<1>7. QED
  BY <1>5, <1>6, SetToSeqIs

\* What is kept of the arguments, and the lines that are read.
KeptOf(parsed, A, L) ==
  /\ DOMAIN parsed = DOMAIN NothingParsed /\ parsed.externs \in Seq(L)
  /\ parsed.extra \in Seq(A) /\ parsed.paths \in Seq(A) /\ parsed.includes \in Seq(A)

LEMMA AddedIs ==
  ASSUME NEW A, NEW arg \in A, NEW list \in Seq(A), NEW asked
  PROVE  (IF asked THEN Append(list, arg) ELSE list) \in Seq(A)
<1>1. Append(list, arg) \in Seq(A)
  OBVIOUS
<1>2. QED
  BY <1>1, Zenon

LEMMA HandleKeeps ==
  ASSUME NEW A, NEW L, NEW parsed, KeptOf(parsed, A, L), NEW arg \in A,
         arg.flag = "--deps_info" => Lines(ToSet(arg.value)) \in Seq(L)
  PROVE  LET h == Handle(parsed, arg)
         IN  /\ KeptOf(h, A, L) /\ ToSet(parsed.externs) \subseteq ToSet(h.externs)
             /\ arg.flag = "--deps_info" => ToSet(Lines(ToSet(arg.value))) \subseteq ToSet(h.externs)
<1> DEFINE h == Handle(parsed, arg)
           new == Lines(ToSet(arg.value))
<1>1. /\ h.paths = IF arg.flag = "--proto_path" THEN Append(parsed.paths, arg) ELSE parsed.paths
      /\ h.includes = IF arg.flag = "-I" THEN Append(parsed.includes, arg) ELSE parsed.includes
      /\ h.externs = IF arg.flag = "--deps_info" THEN parsed.externs \o new ELSE parsed.externs
      /\ h.extra = IF arg.flag \in Required \union Optional THEN parsed.extra ELSE Append(parsed.extra, arg)
  BY Zenon DEF Handle
<1>2. DOMAIN h = DOMAIN NothingParsed
  BY HandleFlags
<1> HIDE DEF h, new
<1>3. /\ parsed.externs \in Seq(L) /\ parsed.extra \in Seq(A)
      /\ parsed.paths \in Seq(A) /\ parsed.includes \in Seq(A)
  BY Zenon DEF KeptOf
<1>4. h.paths \in Seq(A) /\ h.includes \in Seq(A)
  BY <1>1, <1>3, AddedIs, Zenon
<1>5. h.extra \in Seq(A)
  <2>1. Append(parsed.extra, arg) \in Seq(A)
    BY <1>3
  <2>2. QED
    BY <1>1, <1>3, <2>1, Zenon
<1>6. /\ h.externs \in Seq(L) /\ ToSet(parsed.externs) \subseteq ToSet(h.externs)
      /\ arg.flag = "--deps_info" => ToSet(new) \subseteq ToSet(h.externs)
  <2>1. CASE arg.flag = "--deps_info"
    <3> DEFINE s == parsed.externs
    <3>1. s \in Seq(L) /\ new \in Seq(L)
      BY <1>3, <2>1 DEF new
    <3>2. h.externs = s \o new
      BY <1>1, <2>1, Zenon
    <3> HIDE DEF s
    <3>3. s \o new \in Seq(L) /\ ToSet(s \o new) = ToSet(s) \union ToSet(new)
      BY <3>1, ConcatIs
    <3>4. QED
      BY <3>2, <3>3, Zenon DEF s
  <2>2. CASE arg.flag # "--deps_info"
    BY <1>1, <1>3, <2>2, Zenon
  <2>3. QED
    BY <2>1, <2>2
<1>7. KeptOf(h, A, L)
  BY <1>2, <1>4, <1>5, <1>6, Zenon DEF KeptOf
<1>8. QED
  BY <1>6, <1>7, Zenon DEF h, new

LEMMA NothingTyped ==
  ASSUME NEW A, NEW L
  PROVE  KeptOf(NothingParsed, A, L)
<1>1. /\ NothingParsed.externs = <<>> /\ NothingParsed.extra = <<>>
      /\ NothingParsed.paths = <<>> /\ NothingParsed.includes = <<>>
  BY DEF NothingParsed
<1>2. <<>> \in Seq(L) /\ <<>> \in Seq(A)
  OBVIOUS
<1>3. QED
  BY <1>1, <1>2, Zenon DEF KeptOf

\* The lines of all files that are listed are among those read.
LEMMA FoldKeeps ==
  ASSUME NEW A, NEW L, NEW arguments, Len(arguments) \in Nat, \A n \in 1..Len(arguments) : arguments[n] \in A,
         \A arg \in A : arg.flag = "--deps_info" => Lines(ToSet(arg.value)) \in Seq(L),
         NEW up, ParsedBy(up, arguments)
  PROVE  /\ KeptOf(up[Len(arguments)], A, L)
         /\ \A k \in 1..Len(arguments) : arguments[k].flag = "--deps_info" =>
              ToSet(Lines(ToSet(arguments[k].value))) \subseteq ToSet(up[Len(arguments)].externs)
<1> DEFINE N == Len(arguments)
           Holds(n, k) == arguments[k].flag = "--deps_info" =>
                            ToSet(Lines(ToSet(arguments[k].value))) \subseteq ToSet(up[n].externs)
           Right(n) == KeptOf(up[n], A, L) /\ \A k \in 1..n : Holds(n, k)
           S == {n \in Nat : n <= N => Right(n)}
<1>0. up[0] = NothingParsed /\ \A n \in 1..N : up[n] = Handle(up[n - 1], arguments[n])
  BY Zenon DEF ParsedBy
<1>1. 0 \in S
  <2>1. 1..0 = {}
    OBVIOUS
  <2>2. Right(0)
    BY <1>0, <2>1, NothingTyped, Zenon
  <2> HIDE DEF Right
  <2>3. QED
    BY <2>2
<1>2. ASSUME NEW n \in Nat, n \in S PROVE n + 1 \in S
  <2> HIDE DEF Right
  <2> SUFFICES ASSUME n + 1 <= N PROVE Right(n + 1)
    BY DEF S
  <2> HIDE DEF Holds
  <2>1. Right(n)
    BY <1>2 DEF S
  <2> DEFINE next == n + 1
  <2>2. next \in 1..N /\ next - 1 = n
    OBVIOUS
  <2>3. \A k : k \in 1..next => k \in 1..n \/ k = next
    OBVIOUS
  <2>4. QED
    <3> HIDE DEF next
    <3> DEFINE arg == arguments[next]
    <3>1. up[next] = Handle(up[n], arg) /\ arg \in A
      BY <1>0, <2>2, Zenon
    <3>2. KeptOf(up[n], A, L)
      BY <2>1, Zenon DEF Right
    <3>3. arg.flag = "--deps_info" => Lines(ToSet(arg.value)) \in Seq(L)
      BY <3>1
    <3> HIDE DEF arg
    <3>4. LET h == Handle(up[n], arg)
          IN  /\ KeptOf(h, A, L) /\ ToSet(up[n].externs) \subseteq ToSet(h.externs)
              /\ arg.flag = "--deps_info" => ToSet(Lines(ToSet(arg.value))) \subseteq ToSet(h.externs)
      BY <3>1, <3>2, <3>3, HandleKeeps
    <3>5. /\ KeptOf(up[next], A, L) /\ ToSet(up[n].externs) \subseteq ToSet(up[next].externs)
          /\ arg.flag = "--deps_info" => ToSet(Lines(ToSet(arg.value))) \subseteq ToSet(up[next].externs)
      BY <3>1, <3>4, Zenon
    <3>6. ASSUME NEW k \in 1..next PROVE Holds(next, k)
      <4>1. CASE k = next
        BY <3>5, <4>1, Zenon DEF Holds, arg
      <4>2. CASE k \in 1..n
        <5>1. Holds(n, k)
          BY <2>1, <4>2, Zenon DEF Right
        <5>2. QED
          BY <3>5, <5>1, Zenon DEF Holds
      <4>3. QED
        BY <2>3, <4>1, <4>2
    <3>7. Right(next)
      BY <3>5, <3>6, Zenon DEF Right
    <3>8. QED
      BY <3>7 DEF next
<1> HIDE DEF S, Right
<1>3. Nat \subseteq S
  BY <1>1, <1>2, Induct
<1>4. Right(N)
  <2>1. N \in Nat /\ N <= N
    OBVIOUS
  <2>2. QED
    BY <1>3, <2>1 DEF S
<1>5. QED
  BY <1>4, Zenon DEF Right

\* The options that tell the plugins of the lines.
LEMMA OptionsTold ==
  ASSUME NEW V, NEW parsed, parsed.extra \in Seq(V), NEW L, parsed.externs \in Seq(L),
         \A line \in L : Both(parsed, line) \in Seq(V),
         NEW told, told = CHOOSE f : ToldBy(parsed, f, Len(parsed.externs))
  PROVE  LET all == told[Len(parsed.externs)]
         IN  all \in Seq(V) /\ \A line \in ToSet(parsed.externs) : ToSet(Both(parsed, line)) \subseteq ToSet(all)
<1> DEFINE e == parsed.externs
           N == Len(e)
           base == parsed.extra
           W == Seq(V)
           step == [n \in 1..N |-> [s \in W |-> s \o Both(parsed, e[n])]]
<1>1. N \in Nat /\ \A n \in 1..N : e[n] \in L
  OBVIOUS
<1>2. \A n \in 1..N : Both(parsed, e[n]) \in W
  BY <1>1
<1>3. ASSUME NEW n \in 1..N, NEW s \in W
      PROVE  s \o Both(parsed, e[n]) \in W
  <2> DEFINE b == Both(parsed, e[n])
  <2>1. b \in Seq(V) /\ s \in Seq(V)
    BY <1>2
  <2> HIDE DEF b
  <2>2. s \o b \in Seq(V)
    BY <2>1
  <2>3. QED
    BY <2>2 DEF b
<1>4. step \in [1..N -> [W -> W]]
  BY <1>3, Zenon
<1>5. base \in W
  OBVIOUS
<1>6. \A n \in 1..N : \A s \in W : step[n][s] = s \o Both(parsed, e[n])
  BY Zenon
<1> HIDE DEF step
<1>7. PICK f \in [0..N -> W] : Recurs(f, N, base, step)
  <2> HIDE DEF W, N, base
  <2>1. QED
    BY <1>1, <1>4, <1>5, Recursion
<1>8. ToldBy(parsed, f, N)
  <2>1. ASSUME NEW n \in 0..N
        PROVE  (IF n = 0 THEN base ELSE step[n][f[n - 1]])
                 = (IF n = 0 THEN parsed.extra ELSE f[n - 1] \o Both(parsed, parsed.externs[n]))
    <3>1. CASE n = 0
      BY <3>1
    <3>2. CASE n # 0
      <4>1. n \in 1..N /\ n - 1 \in 0..N
        BY <1>1, <3>2
      <4>2. f[n - 1] \in W
        BY <1>7, <4>1, Zenon
      <4>3. QED
        BY <1>6, <3>2, <4>1, <4>2, Zenon
    <3>3. QED
      BY <3>1, <3>2
  <2>2. f = [n \in 0..N |-> IF n = 0 THEN base ELSE step[n][f[n - 1]]]
    BY <1>7, Zenon DEF Recurs
  <2>3. [n \in 0..N |-> IF n = 0 THEN base ELSE step[n][f[n - 1]]]
          = [n \in 0..N |-> IF n = 0 THEN parsed.extra ELSE f[n - 1] \o Both(parsed, parsed.externs[n])]
    BY <2>1, Zenon
  <2>4. QED
    BY <2>2, <2>3, Zenon DEF ToldBy
<1>9. ToldBy(parsed, told, N)
  BY <1>8, Zenon
<1>10. \A n \in 0..N : told[n] = IF n = 0 THEN base ELSE told[n - 1] \o Both(parsed, e[n])
  BY <1>9, Zenon DEF ToldBy
<1> DEFINE Right(n) == told[n] \in W /\ \A k \in 1..n : ToSet(Both(parsed, e[k])) \subseteq ToSet(told[n])
           S == {n \in Nat : n <= N => Right(n)}
<1> HIDE DEF N, base
<1>11. 0 \in S
  <2>1. 1..0 = {} /\ 0 \in 0..N
    BY <1>1
  <2>2. told[0] = base
    BY <1>10, <2>1, Zenon
  <2>3. Right(0)
    BY <1>5, <2>1, <2>2, Zenon
  <2> HIDE DEF Right
  <2>4. QED
    BY <2>3
<1>12. ASSUME NEW n \in Nat, n \in S PROVE n + 1 \in S
  <2> HIDE DEF Right
  <2> SUFFICES ASSUME n + 1 <= N PROVE Right(n + 1)
    BY DEF S
  <2>1. Right(n)
    BY <1>1, <1>12 DEF S
  <2> DEFINE next == n + 1
             b == Both(parsed, e[next])
             s == told[n]
  <2>2. next \in 1..N /\ next \in 0..N /\ next # 0 /\ next - 1 = n
    BY <1>1
  <2>3. \A k : k \in 1..next => k \in 1..n \/ k = next
    OBVIOUS
  <2> HIDE DEF next
  <2>4. b \in Seq(V) /\ s \in Seq(V)
    BY <1>2, <2>1, <2>2, Zenon DEF Right
  <2>5. told[next] = s \o b
    BY <1>10, <2>2, Zenon
  <2> HIDE DEF b, s
  <2>6. s \o b \in Seq(V) /\ ToSet(s \o b) = ToSet(s) \union ToSet(b)
    BY <2>4, ConcatIs
  <2>7. ASSUME NEW k \in 1..next PROVE ToSet(Both(parsed, e[k])) \subseteq ToSet(told[next])
    <3>1. CASE k = next
      BY <2>5, <2>6, <3>1, Zenon DEF b
    <3>2. CASE k \in 1..n
      <4>1. ToSet(Both(parsed, e[k])) \subseteq ToSet(s)
        BY <2>1, <3>2, Zenon DEF Right, s
      <4>2. QED
        BY <2>5, <2>6, <4>1, Zenon
    <3>3. QED
      BY <2>3, <3>1, <3>2
  <2>8. Right(next)
    BY <2>5, <2>6, <2>7, Zenon DEF Right
  <2>9. QED
    BY <2>8 DEF next
<1> HIDE DEF S, Right
<1>13. Nat \subseteq S
  BY <1>11, <1>12, Induct
<1>14. Right(N)
  <2>1. N <= N
    BY <1>1
  <2>2. QED
    BY <1>1, <1>13, <2>1 DEF S
<1>15. ASSUME NEW line \in ToSet(e) PROVE ToSet(Both(parsed, line)) \subseteq ToSet(told[N])
  <2>1. PICK k \in 1..N : line = e[k]
    BY DEF ToSet, N
  <2>2. QED
    BY <1>14, <2>1, Zenon DEF Right
<1>16. QED
  BY <1>14, <1>15, Zenon DEF Right, N

LEMMA BothIs ==
  ASSUME NEW V, NEW parsed, NEW option, Opt("--prost_opt", option) \in V, Opt("--tonic_opt", option) \in V
  PROVE  /\ Both(parsed, option) \in Seq(V)
         /\ Opt("--prost_opt", option) \in ToSet(Both(parsed, option))
         /\ parsed.tonic => Opt("--tonic_opt", option) \in ToSet(Both(parsed, option))
<1> DEFINE x == Opt("--prost_opt", option)
           y == Opt("--tonic_opt", option)
           tonic == parsed.tonic
           b == Both(parsed, option)
<1>1. b = <<x>> \o (IF tonic THEN <<y>> ELSE <<>>)
  BY Zenon DEF Both
<1>2. x \in V /\ y \in V
  OBVIOUS
<1> HIDE DEF x, y, b, tonic
<1>3. /\ <<x>> \in Seq(V) /\ <<y>> \in Seq(V) /\ <<>> \in Seq(V)
      /\ x \in ToSet(<<x>>) /\ y \in ToSet(<<y>>)
  BY <1>2 DEF ToSet
<1>4. CASE tonic
  <2>1. b = <<x>> \o <<y>>
    BY <1>1, <1>4, Zenon
  <2> DEFINE s == <<x>>
             t == <<y>>
  <2>2. s \in Seq(V) /\ t \in Seq(V)
    BY <1>3
  <2> HIDE DEF s, t
  <2>3. s \o t \in Seq(V) /\ ToSet(s \o t) = ToSet(s) \union ToSet(t)
    BY <2>2, ConcatIs
  <2>4. QED
    BY <1>3, <2>1, <2>3, Zenon DEF b, x, y, tonic, s, t
<1>5. CASE ~tonic
  <2>1. b = <<x>> \o <<>>
    BY <1>1, <1>5, Zenon
  <2> DEFINE s == <<x>>
             t == <<>>
  <2>2. s \in Seq(V) /\ t \in Seq(V)
    BY <1>3
  <2> HIDE DEF s, t
  <2>3. s \o t \in Seq(V) /\ ToSet(s \o t) = ToSet(s) \union ToSet(t)
    BY <2>2, ConcatIs
  <2>4. QED
    BY <1>3, <1>5, <2>1, <2>3, Zenon DEF b, x, y, tonic, s, t
<1>6. QED
  BY <1>4, <1>5

LEMMA ParseTells ==
  ASSUME NEW A, NEW L, NEW arguments \in Seq(A),
         \A arg \in A : arg.flag = "--deps_info" => Lines(ToSet(arg.value)) \in Seq(L),
         NEW V, A \subseteq V, \A line \in L : Opt("--prost_opt", line) \in V /\ Opt("--tonic_opt", line) \in V
  PROVE  LET parsed == Parse(arguments)
         IN  /\ parsed.extra \in Seq(V) /\ parsed.paths \in Seq(V) /\ parsed.includes \in Seq(V)
             /\ \A k \in 1..Len(arguments) : arguments[k].flag = "--deps_info" =>
                  \A line \in ToSet(Lines(ToSet(arguments[k].value))) : ToSet(Both(parsed, line)) \subseteq ToSet(parsed.extra)
<1> DEFINE N == Len(arguments)
           parsed == Parse(arguments)
<1>1. N \in Nat /\ \A n \in 1..N : arguments[n] \in A
  OBVIOUS
<1>2. PICK up : /\ ParsedBy(up, arguments)
                /\ \E told : /\ Parse(arguments) = [up[N] EXCEPT !.extra = told[Len(up[N].externs)]]
                             /\ told = CHOOSE f : ToldBy(up[N], f, Len(up[N].externs))
  BY <1>1, ParseUnfolds, Zenon
<1> DEFINE read == up[N]
<1>3. PICK told : /\ parsed = [read EXCEPT !.extra = told[Len(read.externs)]]
                  /\ told = CHOOSE f : ToldBy(read, f, Len(read.externs))
  BY <1>2, Zenon
<1>4. /\ KeptOf(read, A, L)
      /\ \A k \in 1..N : arguments[k].flag = "--deps_info" =>
           ToSet(Lines(ToSet(arguments[k].value))) \subseteq ToSet(read.externs)
  BY <1>1, <1>2, FoldKeeps
<1> HIDE DEF N, parsed, read
<1>5. /\ read.externs \in Seq(L) /\ read.extra \in Seq(A) /\ read.paths \in Seq(A) /\ read.includes \in Seq(A)
      /\ DOMAIN read = DOMAIN NothingParsed
  BY <1>4, Zenon DEF KeptOf
<1>6. read.extra \in Seq(V) /\ read.paths \in Seq(V) /\ read.includes \in Seq(V)
  <2>1. Seq(A) \subseteq Seq(V)
    BY Widen
  <2>2. QED
    BY <1>5, <2>1, Zenon
<1> DEFINE all == told[Len(read.externs)]
<1>7. parsed.extra = all /\ parsed.paths = read.paths /\ parsed.includes = read.includes /\ parsed.tonic = read.tonic
  BY <1>3, <1>5, FieldsAre, Zenon
<1>8. \A line \in L : Both(read, line) \in Seq(V)
  BY BothIs
<1> HIDE DEF all
<1>9. all \in Seq(V) /\ \A line \in ToSet(read.externs) : ToSet(Both(read, line)) \subseteq ToSet(all)
  BY <1>3, <1>5, <1>6, <1>8, OptionsTold DEF all
<1>10. \A line : Both(parsed, line) = Both(read, line)
  BY <1>7, Zenon DEF Both
<1>11. QED
  BY <1>4, <1>6, <1>7, <1>9, <1>10, Zenon DEF N, parsed

\* All of the command is protoc's: what was parsed for it is in there.
LEMMA CommandHas ==
  ASSUME NEW V, NEW parsed, parsed.extra \in Seq(V), parsed.paths \in Seq(V), parsed.includes \in Seq(V)
  PROVE  ToSet(parsed.extra) \subseteq ToSet(Command(parsed))
<1> DEFINE dir == <<Target.dir>>
           known == <<"compile_well_known_types">>
           own == {Opt("--prost_out", dir), Opt("--tonic_out", dir), Opt("--prost_opt", known), Opt("--tonic_opt", known)}
           W == V \union own
           a == <<Opt("--prost_out", dir)>>
           b == IF parsed.tonic THEN <<Opt("--tonic_out", dir)>> ELSE <<>>
           c == IF parsed.wellKnown THEN Both(parsed, known) ELSE <<>>
           x == parsed.extra
           y == parsed.paths
           z == parsed.includes
<1>1. Command(parsed) = a \o b \o c \o x \o y \o z
  BY Zenon DEF Command
<1>2. /\ Opt("--prost_out", dir) \in W /\ Opt("--tonic_out", dir) \in W
      /\ Opt("--prost_opt", known) \in W /\ Opt("--tonic_opt", known) \in W
  BY Zenon
<1>3. a \in Seq(W) /\ b \in Seq(W)
  <2> DEFINE p == Opt("--prost_out", dir)
             t == Opt("--tonic_out", dir)
  <2>1. p \in W /\ t \in W
    BY <1>2
  <2> HIDE DEF p, t, W
  <2>2. <<p>> \in Seq(W) /\ <<t>> \in Seq(W) /\ <<>> \in Seq(W)
    BY <2>1
  <2>3. QED
    BY <2>2, Zenon DEF p, t
<1>4. c \in Seq(W)
  <2>1. Both(parsed, known) \in Seq(W)
    <3> HIDE DEF known, W
    <3>1. QED
      BY <1>2, BothIs
  <2>2. <<>> \in Seq(W)
    OBVIOUS
  <2> HIDE DEF W
  <2>3. QED
    BY <2>1, <2>2, Zenon
<1>5. x \in Seq(W) /\ y \in Seq(W) /\ z \in Seq(W)
  <2>1. V \subseteq W
    OBVIOUS
  <2> HIDE DEF W
  <2>2. Seq(V) \subseteq Seq(W)
    BY <2>1, Widen
  <2>3. QED
    BY <2>2, Zenon
<1> HIDE DEF a, b, c, x, y, z, W
<1>6. a \o b \in Seq(W)
  BY <1>3
<1>7. a \o b \o c \in Seq(W)
  BY <1>4, <1>6, ConcatIs
<1> DEFINE first == a \o b \o c
           toX == first \o x
           toY == toX \o y
<1> HIDE DEF first
<1>8. toX \in Seq(W) /\ ToSet(toX) = ToSet(first) \union ToSet(x)
  BY <1>5, <1>7, ConcatIs DEF first
<1> HIDE DEF toX
<1>9. toY \in Seq(W) /\ ToSet(toY) = ToSet(toX) \union ToSet(y)
  BY <1>5, <1>8, ConcatIs
<1> HIDE DEF toY
<1>10. ToSet(toY \o z) = ToSet(toY) \union ToSet(z)
  BY <1>5, <1>9, ConcatIs
<1>11. Command(parsed) = toY \o z
  BY <1>1, Zenon DEF toY, toX, first
<1>12. QED
  BY <1>8, <1>9, <1>10, <1>11, Zenon DEF x

LEMMA LineIn ==
  ASSUME NEW crates, NEW c \in crates, NEW proto \in DOMAIN infos[c]
  PROVE  <<proto, infos[c][proto]>> \in LinesOf(crates)
<1> DEFINE of == {<<p, infos[c][p]>> : p \in DOMAIN infos[c]}
<1>1. <<proto, infos[c][proto]>> \in of
  BY Zenon
<1>2. of \in {{<<p, infos[d][p]>> : p \in DOMAIN infos[d]} : d \in crates}
  BY Zenon
<1> HIDE DEF of
<1>3. QED
  BY <1>1, <1>2, Zenon DEF LinesOf

\* The plugins are told of every type of every crate that is depended on.
Informed(dep, proto) ==
  LET line == <<proto, infos[dep][proto]>>
  IN  /\ Opt("--prost_opt", line) \in ToSet(args)
      /\ WithTonic => Opt("--tonic_opt", line) \in ToSet(args)

LEMMA CommandInforms ==
  ASSUME BuildsOK, builds \in Seq(Targets), builds # <<>>, Target.deps \subseteq DOMAIN infos,
         \A c \in DOMAIN infos : IsFiniteSet(DOMAIN infos[c]),
         NEW dep \in Target.deps, NEW proto \in DOMAIN infos[dep]
  PROVE  LET line == <<proto, infos[dep][proto]>>
         IN  /\ Opt("--prost_opt", line) \in ToSet(Command(Parsed))
             /\ WithTonic => Opt("--tonic_opt", line) \in ToSet(Command(Parsed))
<1> DEFINE a == Target.args
           A == ToSet(a)
           deps == Target.deps
           L == LinesOf(deps)
           V == A \union {Opt("--prost_opt", l) : l \in L} \union {Opt("--tonic_opt", l) : l \in L}
           line == <<proto, infos[dep][proto]>>
           parsed == Parse(a)
<1>1. Target \in Targets /\ Parsed.tonic = WithTonic
  BY TargetIs
<1>2. TargetOK(Target)
  BY <1>1, Zenon DEF BuildsOK
<1>3. /\ a \in Seq(A) /\ IsFiniteSet(deps)
      /\ deps = UNION {ToSet(arg.value) : arg \in {arg \in A : arg.flag = "--deps_info"}}
  BY <1>2, Zenon DEF TargetOK
<1>4. Parsed = parsed
  BY Zenon DEF Parsed
<1> HIDE DEF a, A, deps, L, V, line, parsed
<1>5. ASSUME NEW arg \in A, arg.flag = "--deps_info"
      PROVE  /\ Lines(ToSet(arg.value)) \in Seq(L)
             /\ ToSet(Lines(ToSet(arg.value))) = LinesOf(ToSet(arg.value))
  <2> DEFINE crates == ToSet(arg.value)
  <2>1. crates \subseteq deps
    BY <1>3, <1>5, Zenon
  <2> HIDE DEF crates
  <2>2. IsFiniteSet(crates)
    BY <1>3, <2>1, FS_Subset
  <2>3. \A c \in crates : IsFiniteSet(DOMAIN infos[c])
    BY <2>1, Zenon DEF deps
  <2>4. Lines(crates) \in Seq(LinesOf(crates)) /\ ToSet(Lines(crates)) = LinesOf(crates)
    BY <2>2, <2>3, LinesAre
  <2>5. LinesOf(crates) \subseteq L
    BY <2>1, Zenon DEF L, LinesOf
  <2>6. Seq(LinesOf(crates)) \subseteq Seq(L)
    BY <2>5, Widen
  <2>7. QED
    BY <2>4, <2>6, Zenon DEF crates
<1>6. A \subseteq V /\ \A l \in L : Opt("--prost_opt", l) \in V /\ Opt("--tonic_opt", l) \in V
  BY Zenon DEF V
<1>7. /\ parsed.extra \in Seq(V) /\ parsed.paths \in Seq(V) /\ parsed.includes \in Seq(V)
      /\ \A k \in 1..Len(a) : a[k].flag = "--deps_info" =>
           \A l \in ToSet(Lines(ToSet(a[k].value))) : ToSet(Both(parsed, l)) \subseteq ToSet(parsed.extra)
  BY <1>3, <1>5, <1>6, ParseTells DEF parsed
<1>8. PICK arg \in A : arg.flag = "--deps_info" /\ dep \in ToSet(arg.value)
  BY <1>3, Zenon DEF deps
<1>9. PICK k \in 1..Len(a) : arg = a[k]
  BY <1>3 DEF A, ToSet
<1>10. line \in LinesOf(ToSet(arg.value))
  BY <1>8, LineIn DEF line
<1>11. line \in ToSet(Lines(ToSet(a[k].value))) /\ line \in L
  <2>1. dep \in deps
    BY DEF deps
  <2>2. line \in L
    BY <2>1, LineIn DEF L, line
  <2>3. QED
    BY <1>5, <1>8, <1>9, <1>10, <2>2, Zenon
<1>12. ToSet(Both(parsed, line)) \subseteq ToSet(parsed.extra)
  BY <1>7, <1>8, <1>9, <1>11, Zenon
<1>13. ToSet(parsed.extra) \subseteq ToSet(Command(parsed))
  BY <1>7, CommandHas
<1>14. /\ Opt("--prost_opt", line) \in ToSet(Both(parsed, line))
       /\ parsed.tonic => Opt("--tonic_opt", line) \in ToSet(Both(parsed, line))
  BY <1>6, <1>11, BothIs
<1>15. parsed.tonic = WithTonic
  BY <1>1, <1>4, Zenon
<1>16. QED
  BY <1>4, <1>12, <1>13, <1>14, <1>15, Zenon DEF line

WithWellKnown == Asked(Target.args, "--compile_well_known_types")

(***************************************************************************)
(* What the package info file says of one type.                            *)
(***************************************************************************)
LEMMA PathsListed ==
  ASSUME NEW files, NEW crate, NEW wellKnown,
         NEW n \in DOMAIN files, NEW type \in files[n].types, wellKnown \/ ~WellKnown(files[n]),
         n \in Nat,
         \A m \in DOMAIN files : \A other \in files[m].types :
           ProtoPath(files[m], other) = ProtoPath(files[n], type) => m = n /\ other = type
  PROVE  LET paths == ExternPaths(files, crate, wellKnown)
         IN  paths[ProtoPath(files[n], type)] = RustPath(crate, files[n], type)
<1> DEFINE known == {k \in DOMAIN files : wellKnown \/ ~WellKnown(files[k])}
           types == UNION {{<<k, t>> : t \in files[k].types} : k \in known}
           listed(proto) == {t \in types : ProtoPath(files[t[1]], t[2]) = proto}
           paths == ExternPaths(files, crate, wellKnown)
           proto == ProtoPath(files[n], type)
           first(path) == CHOOSE t \in listed(path) : \A u \in listed(path) : u[1] <= t[1]
           this == <<n, type>>
<1>1. paths = [path \in {ProtoPath(files[t[1]], t[2]) : t \in types} |->
                 RustPath(crate, files[first(path)[1]], first(path)[2])]
  BY Zenon DEF ExternPaths
<1>2. this \in types
  <2> DEFINE of == {<<n, t>> : t \in files[n].types}
  <2>1. this \in of
    BY Zenon
  <2>2. of \in {{<<k, t>> : t \in files[k].types} : k \in known}
    BY Zenon
  <2> HIDE DEF of, this
  <2>3. QED
    BY <2>1, <2>2, Zenon
<1>3. this[1] = n /\ this[2] = type
  OBVIOUS
<1>4. ASSUME NEW t \in types PROVE t[1] \in DOMAIN files /\ t[2] \in files[t[1]].types /\ t = <<t[1], t[2]>>
  <2>1. PICK k \in known : t \in {<<k, x>> : x \in files[k].types}
    BY Zenon
  <2>2. PICK x \in files[k].types : t = <<k, x>>
    BY <2>1, Zenon
  <2>3. t[1] = k /\ t[2] = x
    BY <2>2
  <2>4. QED
    BY <2>2, <2>3, Zenon
<1> HIDE DEF types, this
<1>5. ASSUME NEW t \in listed(proto) PROVE t = this
  <2>1. t \in types /\ ProtoPath(files[t[1]], t[2]) = proto
    OBVIOUS
  <2>2. t[1] = n /\ t[2] = type
    BY <1>4, <2>1, Zenon
  <2>3. QED
    BY <1>4, <2>1, <2>2, Zenon DEF this
<1>6. this \in listed(proto)
  BY <1>2, <1>3, Zenon
<1>7. \A u \in listed(proto) : u[1] <= this[1]
  <2>1. n <= n
    OBVIOUS
  <2>2. QED
    BY <1>3, <1>5, <2>1, Zenon
<1> HIDE DEF listed
<1>8. first(proto) \in listed(proto)
  BY <1>6, <1>7, Zenon
<1>9. first(proto) = this
  BY <1>5, <1>8, Zenon
<1> HIDE DEF first
<1>10. proto \in {ProtoPath(files[t[1]], t[2]) : t \in types}
  BY <1>2, <1>3, Zenon
<1> HIDE DEF proto, paths
<1>11. paths[proto] = RustPath(crate, files[first(proto)[1]], first(proto)[2])
  BY <1>1, <1>10, Zenon
<1>12. QED
  BY <1>3, <1>9, <1>11, Zenon DEF proto, paths

LEMMA PathsFinite ==
  ASSUME NEW files, IsFiniteSet(DOMAIN files), \A n \in DOMAIN files : IsFiniteSet(files[n].types),
         NEW crate, NEW wellKnown
  PROVE  IsFiniteSet(DOMAIN ExternPaths(files, crate, wellKnown))
<1> DEFINE known == {k \in DOMAIN files : wellKnown \/ ~WellKnown(files[k])}
           of == [k \in known |-> {<<k, t>> : t \in files[k].types}]
           each == {of[k] : k \in known}
           types == UNION {{<<k, t>> : t \in files[k].types} : k \in known}
           path == [t \in types |-> ProtoPath(files[t[1]], t[2])]
<1>1. DOMAIN ExternPaths(files, crate, wellKnown) = {ProtoPath(files[t[1]], t[2]) : t \in types}
  BY Zenon DEF ExternPaths
<1>2. known \subseteq DOMAIN files
  OBVIOUS
<1>3. types = UNION each
  BY Zenon
<1>4. ASSUME NEW k \in known PROVE IsFiniteSet(of[k])
  <2> DEFINE pair == [t \in files[k].types |-> <<k, t>>]
  <2>1. DOMAIN pair = files[k].types /\ of[k] = {pair[t] : t \in files[k].types} /\ IsFiniteSet(files[k].types)
    OBVIOUS
  <2> HIDE DEF pair, of
  <2>2. QED
    BY <2>1, ImageIsFinite
<1>5. DOMAIN of = known
  OBVIOUS
<1>6. DOMAIN path = types /\ {ProtoPath(files[t[1]], t[2]) : t \in types} = {path[t] : t \in types}
  BY Zenon
<1> HIDE DEF known, of, types, path
<1>7. IsFiniteSet(known)
  BY <1>2, FS_Subset
<1>8. IsFiniteSet(each)
  BY <1>5, <1>7, ImageIsFinite
<1>9. \A S \in each : IsFiniteSet(S)
  BY <1>4
<1> HIDE DEF each
<1>10. IsFiniteSet(types)
  BY <1>3, <1>8, <1>9, FS_UNION
<1>11. IsFiniteSet({path[t] : t \in types})
  BY <1>6, <1>10, ImageIsFinite
<1>12. QED
  BY <1>1, <1>6, <1>11, Zenon

\* A path between a crate and a name.
Wrapped(e, M, c) == <<e>> \o M \o <<>> \o <<c>>

LEMMA WrapIs ==
  ASSUME NEW S, NEW M \in Seq(S), NEW e \in S, NEW c \in S
  PROVE  LET r == Wrapped(e, M, c)
         IN  r[1] = e /\ SubSeq(r, 2, Len(r) - 1) = M /\ Last(r) = c
<1> DEFINE a == <<e>> \o M
           r == Wrapped(e, M, c)
<1>1. a \in Seq(S) /\ Len(a) = Len(M) + 1 /\ a[1] = e /\ \A n \in 1..Len(M) : a[n + 1] = M[n]
  OBVIOUS
<1>2. a \o <<>> = a
  BY <1>1
<1>3. r = a \o <<c>>
  BY <1>2, Zenon DEF Wrapped
<1> HIDE DEF a, r
<1>4. r \in Seq(S) /\ Len(r) = Len(M) + 2 /\ r[Len(M) + 2] = c /\ \A n \in 1..(Len(M) + 1) : r[n] = a[n]
  BY <1>1, <1>3
<1>5. r[1] = e /\ Last(r) = c
  BY <1>1, <1>4 DEF Last
<1>6. \A n \in 1..Len(M) : r[n + 1] = M[n]
  BY <1>1, <1>4
<1> DEFINE s == SubSeq(r, 2, Len(r) - 1)
<1>7. s \in Seq(S) /\ Len(s) = Len(M) /\ \A n \in 1..Len(M) : s[n] = r[n + 1]
  BY <1>4
<1> HIDE DEF s
<1>8. s = M
  <2>1. Len(s) = Len(M) /\ \A n \in 1..Len(s) : s[n] = M[n]
    BY <1>6, <1>7
  <2>2. QED
    BY <1>7, <2>1
<1>9. QED
  BY <1>5, <1>8, Zenon DEF r, s

LEMMA FrontOfOne ==
  ASSUME NEW S, NEW s \in Seq(S), Len(s) = 1
  PROVE  Front(s) = <<>> /\ Last(s) = s[1] /\ <<s[1]>> = s
<1>1. Front(s) = <<>>
  BY DEF Front
<1>2. Last(s) = s[1]
  BY DEF Last
<1>3. <<s[1]>> = s
  OBVIOUS
<1>4. QED
  BY <1>1, <1>2, <1>3

LEMMA OuterType ==
  ASSUME NEW file \in ProtoFiles, NEW type \in file.types, Len(type.path) = 1, type.kind # "oneof", NEW crate
  PROVE  /\ ProtoPath(file, type) = file.package \o type.path
         /\ RustPath(crate, file, type)
              = Wrapped(Escape(crate), ModulePath(file.package), Escape(Camel[type.path[1]]))
         /\ file.package \in PackageNames
<1> DEFINE path == type.path
           package == file.package
<1>1. package \in Seq(DOMAIN Snake) /\ type \in ProtoTypes
  BY DEF ProtoFiles
<1>2. path \in Seq(DOMAIN Lower)
  BY <1>1 DEF ProtoTypes
<1>3. Front(path) = <<>> /\ Last(path) = path[1] /\ <<path[1]>> = path
  BY <1>2, FrontOfOne
<1>4. Mapped(Lower, <<>>) = <<>> /\ Escaped(<<>>) = <<>>
  BY DEF Mapped, Escaped
<1>5. ProtoPath(file, type) = package \o <<>> \o path
  BY <1>3, <1>4, Zenon DEF ProtoPath
<1>6. package \o <<>> = package
  BY <1>1
<1>7. RustPath(crate, file, type)
        = Wrapped(Escape(crate), ModulePath(package), Escape(Camel[path[1]]))
  BY <1>3, <1>4, Zenon DEF RustPath, ModulePath, Wrapped
<1>8. package \in PackageNames
  BY <1>1 DEF PackageNames
<1>9. QED
  BY <1>5, <1>6, <1>7, <1>8, Zenon

LEMMA OuterLeads ==
  ASSUME BuildsOK, NEW file \in ProtoFiles, NEW type \in file.types, Len(type.path) = 1, type.kind # "oneof", NEW crate
  PROVE  LET rust == RustPath(crate, file, type)
         IN  /\ rust[1] = Escape(crate) /\ SubSeq(rust, 2, Len(rust) - 1) = ModulePath(file.package)
             /\ Last(rust) = Escape(Camel[type.path[1]])
<1> DEFINE rust == RustPath(crate, file, type)
           e == Escape(crate)
           M == ModulePath(file.package)
           c == Escape(Camel[type.path[1]])
           S == {e, c} \union {Escape(x) : x \in Names}
<1>1. rust = Wrapped(e, M, c) /\ file.package \in PackageNames
  BY OuterType
<1>2. M \in Seq(S)
  <2>1. /\ Mod(file.package) \in Seq(Names)
        /\ M = IF file.package = <<>> THEN <<>> ELSE Escaped(Mod(file.package))
    BY <1>1, ModIs
  <2> DEFINE m == Mod(file.package)
  <2>2. m \in Seq(Names)
    BY <2>1
  <2> HIDE DEF m, M
  <2>3. \A n \in 1..Len(m) : Escape(m[n]) \in S
    <3>1. \A n \in 1..Len(m) : m[n] \in Names
      BY <2>2
    <3>2. QED
      BY <3>1, Zenon
  <2> HIDE DEF S
  <2>4. Escaped(m) \in Seq(S)
    BY <2>2, <2>3 DEF Escaped
  <2>5. <<>> \in Seq(S)
    OBVIOUS
  <2>6. QED
    BY <2>1, <2>4, <2>5, Zenon DEF m
<1>3. e \in S /\ c \in S
  BY Zenon
<1> HIDE DEF S, rust, e, M, c
<1>4. rust[1] = e /\ SubSeq(rust, 2, Len(rust) - 1) = M /\ Last(rust) = c
  <2>1. LET r == Wrapped(e, M, c) IN r[1] = e /\ SubSeq(r, 2, Len(r) - 1) = M /\ Last(r) = c
    BY <1>2, <1>3, WrapIs
  <2>2. QED
    BY <1>1, <2>1, Zenon
<1>5. QED
  BY <1>4, Zenon DEF rust, e, M, c

(***************************************************************************)
(* The invariant: dependencies have their package info files, a target is  *)
(* told of them, and its own is of its types.                              *)
(***************************************************************************)
Told == \A dep \in Target.deps : \A proto \in DOMAIN infos[dep] : Informed(dep, proto)
Listed == infos[Target.crate] = ExternPaths(Target.files, Target.crate, WithWellKnown)
AfterProtoc == {"combine", "gather", "lib", "info", "format", "done"}

DepsBefore(list, known) ==
  \A n \in DOMAIN list :
    list[n].deps \subseteq (known \union {list[m].crate : m \in 1..(n - 1)}) \ {list[n].crate}
InfosTyped ==
  /\ \A c \in DOMAIN infos : IsFiniteSet(DOMAIN infos[c])
  /\ DepsBefore(builds, DOMAIN infos)
InfosRight ==
  /\ stage \in AfterProtoc => Told
  /\ stage \in {"format", "done"} => Target.crate \in DOMAIN infos /\ Listed
InfosInv == OutputsInv /\ InfosTyped /\ InfosRight

LEMMA InfosInit == ProtocInit => InfosInv
<1> SUFFICES ASSUME ProtocInit PROVE InfosInv
  OBVIOUS
<1>1. OutputsInv
  BY OutputsInit
<1>2. DOMAIN infos = {} /\ stage = "parse"
  BY DEF ProtocInit
<1>3. builds \in UNION Builds
  BY Zenon DEF ProtocInit
<1>4. \A n \in DOMAIN builds :
        builds[n].deps \subseteq {builds[m].crate : m \in 1..(n - 1)} \ {builds[n].crate}
  BY <1>1, <1>3, Zenon DEF OutputsInv, BuildsOK
<1>5. InfosTyped
  BY <1>2, <1>4 DEF InfosTyped, DepsBefore
<1>6. InfosRight
  BY <1>2 DEF InfosRight, AfterProtoc
<1>7. QED
  BY <1>1, <1>5, <1>6, Zenon DEF InfosInv

LEMMA DepsAre ==
  ASSUME InfosInv
  PROVE  /\ BuildsOK /\ builds \in Seq(Targets) /\ builds # <<>>
         /\ Target.deps \subseteq DOMAIN infos /\ Target.crate \notin Target.deps
<1>1. BuildsOK /\ builds \in Seq(Targets) /\ builds # <<>>
  BY DEF InfosInv, OutputsInv, OutputsTyped
<1>2. 1 \in DOMAIN builds /\ Target = builds[1]
  BY <1>1 DEF Target
<1>3. 1..(1 - 1) = {}
  OBVIOUS
<1>4. builds[1].deps \subseteq (DOMAIN infos \union {builds[m].crate : m \in 1..(1 - 1)}) \ {builds[1].crate}
  BY <1>2, Zenon DEF InfosInv, InfosTyped, DepsBefore
<1>5. {builds[m].crate : m \in 1..(1 - 1)} = {}
  BY <1>3, Zenon
<1>6. QED
  BY <1>1, <1>2, <1>4, <1>5, Zenon

\* A step that writes neither arguments nor package info.
LEMMA KeepsInfos ==
  ASSUME InfosInv, OutputsInv', UNCHANGED <<builds, args, infos>>,
         stage' \in AfterProtoc => stage \in AfterProtoc, stage' \in {"format", "done"} => stage \in {"format", "done"}
  PROVE  InfosInv'
<1>1. builds' = builds /\ args' = args /\ infos' = infos
  OBVIOUS
<1>2. Target' = Target /\ WithTonic' = WithTonic
  BY <1>1, SameTarget
<1>3. WithWellKnown' = WithWellKnown
  BY <1>2, Zenon DEF WithWellKnown
<1>4. InfosTyped'
  BY <1>1, Zenon DEF InfosInv, InfosTyped
<1>5. Told => Told'
  BY <1>1, <1>2, Zenon DEF Told, Informed
<1>6. Listed => Listed'
  BY <1>1, <1>2, <1>3, Zenon DEF Listed
<1>7. InfosRight'
  BY <1>1, <1>2, <1>5, <1>6, Zenon DEF InfosInv, InfosRight
<1>8. QED
  BY <1>4, <1>7, Zenon DEF InfosInv

LEMMA ToldByProtoc == InfosInv /\ OutputsInv' /\ Protoc => InfosInv'
<1> SUFFICES ASSUME InfosInv, OutputsInv', Protoc PROVE InfosInv'
  OBVIOUS
<1>1. /\ args' = Command(Parsed) /\ builds' = builds /\ infos' = infos
      /\ stage' = "combine" \/ stage' = "gather"
  BY Zenon DEF Protoc, Goto
<1>2. Target' = Target /\ WithTonic' = WithTonic
  BY <1>1, SameTarget
<1>3. InfosTyped'
  BY <1>1, Zenon DEF InfosInv, InfosTyped
<1>4. ASSUME NEW dep \in Target.deps, NEW proto \in DOMAIN infos[dep] PROVE Informed(dep, proto)'
  <2>1. /\ BuildsOK /\ builds \in Seq(Targets) /\ builds # <<>> /\ Target.deps \subseteq DOMAIN infos
        /\ \A c \in DOMAIN infos : IsFiniteSet(DOMAIN infos[c])
    BY DepsAre DEF InfosInv, InfosTyped
  <2>2. LET line == <<proto, infos[dep][proto]>>
        IN  /\ Opt("--prost_opt", line) \in ToSet(Command(Parsed))
            /\ WithTonic => Opt("--tonic_opt", line) \in ToSet(Command(Parsed))
    BY <2>1, CommandInforms
  <2>3. QED
    BY <1>1, <1>2, <2>2, Zenon DEF Informed
<1>5. Told'
  BY <1>1, <1>2, <1>4, Zenon DEF Told
<1>6. InfosRight'
  BY <1>1, <1>5 DEF InfosRight, AfterProtoc
<1>7. QED
  BY <1>3, <1>6, Zenon DEF InfosInv

LEMMA ListedByWriteInfo == InfosInv /\ OutputsInv' /\ WriteInfo => InfosInv'
<1> SUFFICES ASSUME InfosInv, OutputsInv', WriteInfo PROVE InfosInv'
  OBVIOUS
<1> DEFINE crate == Target.crate
           paths == ExternPaths(Target.files, crate, Parsed.wellKnown)
<1>1. /\ stage = "info" /\ infos' = With(infos, crate, paths) /\ builds' = builds /\ args' = args
      /\ stage' = "format" \/ stage' = "done"
  BY Zenon DEF WriteInfo, Goto
<1>2. Target' = Target /\ WithTonic' = WithTonic /\ WithWellKnown' = WithWellKnown
  BY <1>1, SameTarget, Zenon DEF WithWellKnown
<1>3. /\ BuildsOK /\ builds \in Seq(Targets) /\ builds # <<>>
      /\ Target.deps \subseteq DOMAIN infos /\ crate \notin Target.deps
  BY DepsAre
<1>4. Target \in Targets /\ TargetOK(Target)
  BY <1>3, TargetIs, Zenon DEF BuildsOK
<1>5. /\ Target.args \in Seq(ToSet(Target.args)) /\ Target.files \in Seq(ProtoFiles)
      /\ \A n \in DOMAIN Target.files : IsFiniteSet(Target.files[n].types)
  BY <1>4, Zenon DEF TargetOK
<1>6. Len(Target.args) \in Nat /\ IsFiniteSet(DOMAIN Target.files)
  <2> DEFINE a == Target.args
             A == ToSet(a)
             f == Target.files
  <2>1. a \in Seq(A) /\ f \in Seq(ProtoFiles)
    BY <1>5
  <2> HIDE DEF a, A, f
  <2>2. Len(a) \in Nat /\ DOMAIN f = 1..Len(f) /\ Len(f) \in Nat
    BY <2>1
  <2>3. IsFiniteSet(1..Len(f))
    BY <2>2, FS_Interval
  <2>4. QED
    BY <2>2, <2>3, Zenon DEF a, f
<1>7. Parsed.wellKnown = WithWellKnown
  BY <1>6, FlagsAre DEF Parsed, WithWellKnown
<1>8. IsFiniteSet(DOMAIN paths)
  BY <1>5, <1>6, PathsFinite
<1> HIDE DEF crate, paths
<1>9. DOMAIN infos' = DOMAIN infos \union {crate}
  BY <1>1, WithDomain
<1>10. infos'[crate] = paths
  BY <1>1, WithAt
<1>11. \A c \in DOMAIN infos : c # crate => infos'[c] = infos[c]
  BY <1>1, WithElse
<1>12. InfosTyped'
  <2>1. ASSUME NEW c \in DOMAIN infos' PROVE IsFiniteSet(DOMAIN infos'[c])
    BY <1>8, <1>9, <1>10, <1>11, Zenon DEF InfosInv, InfosTyped
  <2>2. DepsBefore(builds, DOMAIN infos')
    BY <1>9, Zenon DEF InfosInv, InfosTyped, DepsBefore
  <2>3. QED
    BY <1>1, <2>1, <2>2, Zenon DEF InfosTyped
<1>13. Told'
  <2>1. Told
    BY <1>1 DEF InfosInv, InfosRight, AfterProtoc
  <2>2. \A dep \in Target.deps : infos'[dep] = infos[dep]
    BY <1>3, <1>11, Zenon
  <2>3. QED
    BY <1>1, <1>2, <2>1, <2>2, Zenon DEF Told, Informed
<1>14. Listed' /\ Target'.crate \in DOMAIN infos'
  <2>1. paths = ExternPaths(Target.files, Target.crate, WithWellKnown)
    BY <1>7, Zenon DEF paths, crate
  <2>2. QED
    BY <1>2, <1>9, <1>10, <2>1, Zenon DEF Listed, crate
<1>15. InfosRight'
  BY <1>13, <1>14, Zenon DEF InfosRight
<1>16. QED
  BY <1>12, <1>15, Zenon DEF InfosInv

LEMMA NextHasDeps == InfosInv /\ OutputsInv' /\ NextTarget => InfosInv'
<1> SUFFICES ASSUME InfosInv, OutputsInv', NextTarget PROVE InfosInv'
  OBVIOUS
<1>1. /\ stage = "done" \/ builds[2].crate = Target.crate
      /\ Len(builds) > 1 /\ builds' = Tail(builds) /\ stage' = "parse" /\ infos' = infos
  BY Zenon DEF NextTarget
<1>2. builds \in Seq(Targets) /\ builds # <<>> /\ Target = builds[1]
  BY DepsAre DEF Target
<1>3. stage = "done" => builds[1].crate \in DOMAIN infos
  <2>1. stage = "done" => stage \in {"format", "done"}
    OBVIOUS
  <2>2. QED
    BY <1>2, <2>1, Zenon DEF InfosInv, InfosRight
<1>4. builds' \in Seq(Targets) /\ DOMAIN builds' = 1..(Len(builds) - 1) /\ \A n \in DOMAIN builds' : builds'[n] = builds[n + 1]
  BY <1>1, <1>2
<1>5. ASSUME NEW n \in DOMAIN builds'
      PROVE  builds'[n].deps \subseteq (DOMAIN infos \union {builds'[m].crate : m \in 1..(n - 1)}) \ {builds'[n].crate}
  <2>1. n + 1 \in DOMAIN builds /\ n \in Nat \ {0} /\ builds'[n] = builds[n + 1] /\ n + 1 - 1 = n /\ 1 \in DOMAIN builds'
    BY <1>1, <1>2, <1>4
  <2> DEFINE next == n + 1
  <2>2. next \in DOMAIN builds /\ next - 1 = n /\ builds'[n] = builds[next]
    BY <2>1
  <2> HIDE DEF next
  <2>3. builds[next].deps \subseteq (DOMAIN infos \union {builds[m].crate : m \in 1..n}) \ {builds[next].crate}
    BY <2>2, Zenon DEF InfosInv, InfosTyped, DepsBefore
  <2> SUFFICES ASSUME NEW dep \in builds[next].deps, dep \notin DOMAIN infos
               PROVE  dep \in {builds'[m].crate : m \in 1..(n - 1)}
    BY <2>2, <2>3, Zenon
  <2>4. PICK m \in 1..n : dep = builds[m].crate
    BY <2>3, Zenon
  <2>5. CASE m = 1
    <3>1. builds[2].crate = dep
      BY <1>1, <1>2, <1>3, <2>4, <2>5
    <3>2. n # 1
      <4>1. dep # builds[next].crate
        BY <2>3, Zenon
      <4>2. QED
        BY <2>1, <3>1, <4>1 DEF next
    <3>3. 1 \in 1..(n - 1)
      BY <2>1, <3>2
    <3>4. builds'[1] = builds[2]
      BY <1>4, <2>1
    <3>5. QED
      BY <3>1, <3>3, <3>4, Zenon
  <2>6. CASE m # 1
    <3> DEFINE k == m - 1
    <3>1. k \in 1..(n - 1) /\ k + 1 = m /\ k \in DOMAIN builds'
      BY <1>4, <2>1, <2>6
    <3>2. builds'[k] = builds[m]
      BY <1>4, <3>1
    <3> HIDE DEF k
    <3>3. QED
      BY <2>4, <3>1, <3>2, Zenon
  <2>7. QED
    BY <2>5, <2>6
<1>6. InfosTyped'
  <2>1. DepsBefore(builds', DOMAIN infos)
    BY <1>5, Zenon DEF DepsBefore
  <2>2. QED
    BY <1>1, <2>1, Zenon DEF InfosInv, InfosTyped
<1>7. InfosRight'
  BY <1>1 DEF InfosRight, AfterProtoc
<1>8. QED
  BY <1>6, <1>7, Zenon DEF InfosInv

LEMMA InfosNext == InfosInv /\ [ProtocNext]_protocVars => InfosInv'
<1> SUFFICES ASSUME InfosInv, [ProtocNext]_protocVars PROVE InfosInv'
  OBVIOUS
<1>0. OutputsInv'
  BY OutputsNext, Zenon DEF InfosInv
<1>1. CASE Protoc
  BY <1>0, <1>1, ToldByProtoc
<1>2. CASE WriteInfo
  BY <1>0, <1>2, ListedByWriteInfo
<1>3. CASE NextTarget
  BY <1>0, <1>3, NextHasDeps
<1>4. SUFFICES ASSUME ~Protoc, ~WriteInfo, ~NextTarget
               PROVE  /\ UNCHANGED <<builds, args, infos>>
                      /\ stage' \in AfterProtoc => stage \in AfterProtoc
                      /\ stage' \in {"format", "done"} => stage \in {"format", "done"}
  BY <1>0, <1>1, <1>2, <1>3, <1>4, KeepsInfos
<1>5. CASE ProtocFails
  BY <1>5 DEF ProtocFails, AfterProtoc
<1>6. CASE UNCHANGED protocVars
  BY <1>6 DEF protocVars
<1>7. CASE ParseArgs /\ ~ProtocFails
  <2>1. stage' = "dirs" /\ UNCHANGED <<builds, args, infos>>
    BY <1>7, Zenon DEF ParseArgs, Goto
  <2>2. QED
    BY <2>1 DEF AfterProtoc
<1>8. CASE MakeOutputDir
  <2>1. stage' = "protoc" /\ UNCHANGED <<builds, args, infos>>
    BY <1>8, Zenon DEF MakeOutputDir, Goto
  <2>2. QED
    BY <2>1 DEF AfterProtoc
<1>9. CASE Combine /\ ~ProtocFails
  <2>1. UNCHANGED <<builds, stage, args, infos>>
    BY <1>9, Zenon DEF Combine
  <2>2. QED
    BY <2>1, Zenon
<1>10. CASE Combined
  <2>1. stage = "combine" /\ stage' = "gather" /\ UNCHANGED <<builds, args, infos>>
    BY <1>10, Zenon DEF Combined, Goto
  <2>2. QED
    BY <2>1 DEF AfterProtoc
<1>11. CASE Gather /\ ~ProtocFails
  <2>1. stage = "gather" /\ stage' = "lib" /\ UNCHANGED <<builds, args, infos>>
    BY <1>11, Zenon DEF Gather, Goto
  <2>2. QED
    BY <2>1 DEF AfterProtoc
<1>12. CASE WriteLib /\ ~ProtocFails
  <2>1. stage = "lib" /\ stage' = "info" /\ UNCHANGED <<builds, args, infos>>
    BY <1>12, Zenon DEF WriteLib, Goto
  <2>2. QED
    BY <2>1 DEF AfterProtoc
<1>13. CASE Format
  <2>1. stage = "format" /\ stage' = "done" /\ UNCHANGED <<builds, args, infos>>
    BY <1>13, Zenon DEF Format, Goto
  <2>2. QED
    BY <2>1 DEF AfterProtoc
<1>14. CASE Broken
  BY <1>5, <1>14, Zenon DEF Broken
<1>15. QED
  BY <1>4, <1>5, <1>6, <1>7, <1>8, <1>9, <1>10, <1>11, <1>12, <1>13, <1>14, Zenon DEF ProtocNext

LEMMA ProstHas ==
  ASSUME NEW files, NEW n \in DOMAIN files, files[n].types # {}
  PROVE  files[n].package \in Prosted(files)
<1>1. files[n].package \in Packages(files)
  BY Zenon DEF Packages
<1>2. files[n] \in ToSet(files)
  BY Zenon DEF ToSet, Range
<1>3. Defines(files[n])
  BY Zenon DEF Defines
<1>4. QED
  BY <1>1, <1>2, <1>3, Zenon DEF Prosted, Expected

LEMMA InfosTell == InfosInv => ExternsPassed
<1> SUFFICES ASSUME InfosInv, stage = "done",
                    NEW dep \in Target.deps, NEW proto \in DOMAIN infos[dep]
             PROVE  LET line == <<proto, infos[dep][proto]>>
                    IN  /\ Opt("--prost_opt", line) \in ToSet(args)
                        /\ Parsed.tonic => Opt("--tonic_opt", line) \in ToSet(args)
  BY Zenon DEF ExternsPassed
<1>1. Parsed.tonic = WithTonic
  BY DepsAre, TargetIs
<1>2. Told
  BY DEF InfosInv, InfosRight, AfterProtoc
<1>3. Informed(dep, proto)
  BY <1>2, Zenon DEF Told
<1>4. QED
  BY <1>1, <1>3, Zenon DEF Informed

LEMMA InfosFind == InfosInv => TypesFound
<1> SUFFICES ASSUME InfosInv, stage = "done", ~Ambiguous,
                    NEW n \in DOMAIN Target.files, NEW type \in Target.files[n].types,
                    Len(type.path) = 1, type.kind # "oneof", Alone(n, type),
                    WellKnown(Target.files[n]) => Parsed.wellKnown
             PROVE  LET file == Target.files[n]
                        rust == infos[Target.crate][file.package \o type.path]
                        modules == libs[Target.crate].modules
                    IN  /\ rust[1] = Escape(Target.crate)
                        /\ SubSeq(rust, 2, Len(rust) - 1) \in DOMAIN modules
                        /\ <<"prost", file.package>> \in ToSet(modules[SubSeq(rust, 2, Len(rust) - 1)])
                        /\ Last(rust) = Escape(Camel[type.path[1]])
  BY Zenon DEF TypesFound
<1> DEFINE files == Target.files
           file == files[n]
           crate == Target.crate
           modules == libs[crate].modules
           rust == RustPath(crate, file, type)
           package == file.package
<1>1. BuildsOK /\ builds \in Seq(Targets) /\ builds # <<>>
  BY DepsAre
<1>2. Target \in Targets /\ TargetOK(Target) /\ files \in Seq(ProtoFiles)
  BY <1>1, TargetIs, Zenon DEF BuildsOK
<1>3. /\ n \in Nat /\ n \in DOMAIN files /\ file \in ProtoFiles /\ file.types # {}
  <2> DEFINE f == Target.files
  <2>1. f \in Seq(ProtoFiles) /\ n \in DOMAIN f
    BY <1>2
  <2> HIDE DEF f
  <2>2. n \in Nat /\ f[n] \in ProtoFiles
    BY <2>1
  <2>3. QED
    BY <2>1, <2>2, Zenon DEF f
<1>4. Len(Target.args) \in Nat
  <2>1. Target.args \in Seq(ToSet(Target.args))
    BY <1>2, Zenon DEF TargetOK
  <2> DEFINE a == Target.args
             S == ToSet(a)
  <2>2. a \in Seq(S)
    BY <2>1
  <2> HIDE DEF a, S
  <2>3. Len(a) \in Nat
    BY <2>2
  <2>4. QED
    BY <2>3 DEF a
<1>5. Parsed.wellKnown = WithWellKnown
  BY <1>4, FlagsAre DEF Parsed, WithWellKnown
<1>6. infos[crate] = ExternPaths(files, crate, WithWellKnown)
  <2>1. stage \in {"format", "done"}
    OBVIOUS
  <2>2. QED
    BY <2>1, Zenon DEF InfosInv, InfosRight, Listed
<1>7. \A m \in DOMAIN files : \A other \in files[m].types :
        ProtoPath(files[m], other) = ProtoPath(files[n], type) => m = n /\ other = type
  BY Zenon DEF Alone
<1>8. WithWellKnown \/ ~WellKnown(files[n])
  BY <1>5, Zenon
<1>9. type \in files[n].types
  BY Zenon
<1> HIDE DEF files, file, crate, modules, rust, package
<1>10. infos[crate][ProtoPath(files[n], type)] = RustPath(crate, files[n], type)
  <2> DEFINE w == WithWellKnown
  <2>1. w \/ ~WellKnown(files[n])
    BY <1>8
  <2>2. infos[crate] = ExternPaths(files, crate, w)
    BY <1>6
  <2> HIDE DEF w
  <2>3. ExternPaths(files, crate, w)[ProtoPath(files[n], type)] = RustPath(crate, files[n], type)
    BY <1>3, <1>7, <1>9, <2>1, PathsListed
  <2>4. QED
    BY <2>2, <2>3, Zenon
<1>11. infos[crate][package \o type.path] = rust
  BY <1>3, <1>9, <1>10, OuterType DEF file, package, rust
<1>12. /\ rust[1] = Escape(crate) /\ SubSeq(rust, 2, Len(rust) - 1) = ModulePath(package)
       /\ Last(rust) = Escape(Camel[type.path[1]])
  BY <1>1, <1>3, <1>9, OuterLeads DEF file, package, rust
<1>13. package \in Prosted(files)
  BY <1>3, ProstHas DEF file, package
<1>14. <<"prost", package>> \in Pieces(files, Parsed.tonic)
  <2> DEFINE w == Parsed.tonic
  <2>1. NamedApart(Packages(files))
    BY <1>1, TargetIs DEF files
  <2> HIDE DEF w
  <2>2. Pieces(files, w) = {<<"prost", p>> : p \in Prosted(files)} \union {<<"tonic", p>> : p \in Served(files, w)}
    BY <1>1, <1>2, <2>1, PiecesAre
  <2>3. QED
    BY <1>13, <2>2, Zenon DEF w
<1>15. ModulePath(package) \in DOMAIN modules /\ <<"prost", package>> \in ToSet(modules[ModulePath(package)])
  <2>1. LibComplete
    BY OutputsExact DEF InfosInv
  <2>2. \A piece \in Pieces(files, Parsed.tonic) :
          ModulePath(piece[2]) \in DOMAIN modules /\ piece \in ToSet(modules[ModulePath(piece[2])])
    BY <2>1, Zenon DEF LibComplete, files, modules, crate
  <2>3. <<"prost", package>>[2] = package
    OBVIOUS
  <2>4. QED
    BY <1>14, <2>2, <2>3, Zenon
<1>16. QED
  BY <1>11, <1>12, <1>15, Zenon DEF files, file, crate, modules, package

\* What a package info file says of a message or an enum leads to its module,
\* and both plugins are told of every type of every crate that is depended on.
THEOREM TypesAreKnown == ProtocSpec => []TypesKnown
<1>1. InfosInv => TypesKnown
  BY InfosTell, InfosFind DEF TypesKnown
<1>2. QED
  BY <1>1, InfosInit, InfosNext, PTL DEF ProtocSpec
=============================================================================
