-------------------------- MODULE BuildScriptRunner --------------------------
(***************************************************************************)
(* cargo/private/cargo_build_script_runner: one CargoBuildScriptRun        *)
(* action.  The runner lays out CARGO_MANIFEST_DIR below the action's      *)
(* runfiles directory as symlinks, optionally links every entry of the     *)
(* exec root into it, runs the build script there, turns what the script   *)
(* printed into files, and undoes its links so that Bazel can capture the  *)
(* runfiles directory and OUT_DIR as trees of plain files.                 *)
(*                                                                         *)
(* The build script is external: it prints lines, creates files and        *)
(* directories in both directories, and replaces and deletes files there.  *)
(***************************************************************************)
EXTENDS BuildScriptOutput, FiniteSets

CONSTANTS
  Path,         \* what may exist below the runfiles directory
  OutPath,      \* what may exist below OUT_DIR
  Top,          \* the runfiles directory and OUT_DIR themselves
  Parent,       \* the directory a path is in
  Manifest,     \* CARGO_MANIFEST_DIR
  Volatile,     \* paths of OUT_DIR named *.d, *.pc or like a volatile basename
  EmptyMarker,  \* the .empty file of either directory
  Actions       \* the actions under study

(***************************************************************************)
(* What a path is: absent, a directory, a link the runner made to a        *)
(* runfile or to an entry of the exec root, or a plain file: the runner's  *)
(* copy of a runfile, or the script's own.                                 *)
(***************************************************************************)
Node == {"absent", "dir", "link", "exec_link", "copy", "file"}

(***************************************************************************)
(* What the script may leave in OUT_DIR: plain files, directories and      *)
(* links, relative ones or absolute ones to a file or a directory outside, *)
(* or to something in the runfiles directory.                              *)
(***************************************************************************)
Is(what) == [is |-> what, to |-> Top]
Elsewhere == {Is(what) : what \in {"absent", "dir", "file", "relative", "link_file", "link_dir"}}
Through(p) == [is |-> "link_path", to |-> p]
OutNode == Elsewhere \union {Through(p) : p \in Path}
AbsoluteLink == {"link_file", "link_dir", "link_path"}

(***************************************************************************)
(* An action: its runfiles and those that are to be retained, the entries  *)
(* of the exec root by the path they are linked at if linking is on,       *)
(* whether the system has symlinks (windows may not), --rundir, the        *)
(* dependencies' environment files, and what its script does.              *)
(***************************************************************************)
ActionRecord ==
  [runfiles : (SUBSET Path) \ {{}}, retain : SUBSET Path, execRoot : SUBSET Path,
   linkExecRoot : BOOLEAN, symlinks : BOOLEAN,
   rundir : {"manifest", "relative", "invalid"},
   depEnv : {"good", "malformed", "unreadable"},
   script : [succeeds : BOOLEAN, prints : Seq(Directive), makes : SUBSET Path,
             writes : SUBSET Path, deletes : SUBSET Path, out : [OutPath -> OutNode]]]

\* The directories a path is in, Top among them.
AncestorsOf[p \in Path \union {Top}] ==
  IF p = Top THEN {} ELSE {Parent[p]} \union AncestorsOf[Parent[p]]

Ancestors(p) == AncestorsOf[p]

\* The directories of a path are in one another, and above the path.
PathsNest ==
  /\ Ancestors(Top) = {}
  /\ \A p \in Path :
       /\ Ancestors(p) \subseteq Path \union {Top} /\ p \notin Ancestors(p)
       /\ Ancestors(p) = {Parent[p]} \union Ancestors(Parent[p])
       /\ \A d \in Ancestors(p) : Ancestors(d) \subseteq Ancestors(p)

WellFormed(a) ==
  /\ Manifest \notin a.runfiles
  /\ a.retain \subseteq a.runfiles
  /\ \A p \in a.runfiles, q \in a.runfiles : q \notin Ancestors(p)
  /\ \A e \in a.execRoot : Parent[e] = Manifest
  /\ EmptyMarker \notin a.runfiles \union a.execRoot
  /\ a.script.makes \intersect a.script.writes = {}
  \* A script prints the path of its exec root, not the variable that will stand for it.
  /\ \A n \in DOMAIN a.script.prints : a.script.prints[n].value.root # "pwd"

ASSUME RunnerAssumption ==
  /\ Actions \subseteq ActionRecord
  /\ Manifest \in Path
  /\ EmptyMarker \in Path \intersect OutPath /\ Parent[EmptyMarker] = Top
  /\ PathsNest /\ \A p \in Path : EmptyMarker \notin Ancestors(p)
  /\ Volatile \subseteq OutPath
  /\ Top \notin Path \union OutPath
  /\ Parent \in [Path \union OutPath -> Path \union OutPath \union {Top}]
  /\ \A a \in Actions : WellFormed(a)

VARIABLES
  action,     \* the action
  pc,         \* where run_buildrs is
  todo,       \* what its present loop has left
  tree,       \* the runfiles directory
  out,        \* OUT_DIR
  execLinks,  \* exec_root_links
  written,    \* the files made of the script's output
  refused,    \* what the sweep could not remove, and Top if OUT_DIR could not be listed after it
  result      \* how the runner ended

vars == <<action, pc, todo, tree, out, execLinks, written, refused, result>>

Stages == {"layout", "exec_links", "environment", "script", "write", "unlink",
           "drain", "replace", "sweep", "mark", "ended"}

Files == {"env", "dep_env", "compile_flags", "link_flags", "link_search_paths"}
Nothing == [f \in Files |-> <<>>]

IsDir(p) == p = Top \/ tree[p] = "dir"

Init ==
  /\ action \in Actions
  /\ pc = "layout"
  /\ todo = action.runfiles
  /\ tree = [p \in Path |-> "absent"]
  /\ out = [o \in OutPath |-> Is("absent")]
  /\ execLinks = {}
  /\ written = Nothing
  /\ refused = {}
  /\ result = "none"

\* Mutant: an error is noted and the runner goes on.
FailQuietly ==
  /\ result' = "failed"
  /\ UNCHANGED <<pc, todo>>

Fail ==
  /\ pc' = "ended"
  /\ result' = "failed"
  /\ todo' = {}

\* Any call on the file system, and rustc --print=cfg, may fail and end the run,
\* but for those of the sweep.
InputOutputFails ==
  /\ pc \notin {"script", "sweep", "ended"}
  /\ pc' = "ended"
  /\ result' = "io"
  /\ todo' = {}
  /\ UNCHANGED <<action, tree, out, execLinks, written, refused>>
------------------------------------------------------------------------------
(***************************************************************************)
(* Laying out CARGO_MANIFEST_DIR, and the links to the exec root: an entry *)
(* that is there already is taken for the link, and is on the list of what *)
(* is to be removed all the same.                                          *)
(***************************************************************************)
CreateRunfile(p) ==
  /\ pc = "layout" /\ p \in todo
  /\ todo' = todo \ {p}
  /\ tree' = [q \in Path |->
       IF q = p THEN IF action.symlinks THEN "link" ELSE "copy"
       ELSE IF q \in Ancestors(p) THEN "dir" ELSE tree[q]]
  /\ UNCHANGED <<action, pc, out, execLinks, written, refused, result>>

LayoutDone ==
  /\ pc = "layout" /\ todo = {}
  /\ IF action.linkExecRoot
     THEN pc' = "exec_links" /\ todo' = action.execRoot
     ELSE pc' = "environment" /\ todo' = {}
  /\ UNCHANGED <<action, tree, out, execLinks, written, refused, result>>

\* Mutant: a link is not put on the list.
LinkExecEntryUnlisted(e) ==
  /\ pc = "exec_links" /\ e \in todo
  /\ tree[e] # "absent" \/ (IsDir(Manifest) /\ action.symlinks)
  /\ tree' = [tree EXCEPT ![e] = IF @ = "absent" THEN "exec_link" ELSE @]
  /\ todo' = todo \ {e}
  /\ UNCHANGED <<action, pc, out, execLinks, written, refused, result>>

LinkExecEntry(e) ==
  /\ pc = "exec_links" /\ e \in todo
  /\ IF tree[e] # "absent" \/ (IsDir(Manifest) /\ action.symlinks)
     THEN /\ tree' = [tree EXCEPT ![e] = IF @ = "absent" THEN "exec_link" ELSE @]
          /\ execLinks' = execLinks \union {e}
          /\ todo' = todo \ {e}
          /\ UNCHANGED <<pc, result>>
     ELSE Fail /\ UNCHANGED <<tree, execLinks>>
  /\ UNCHANGED <<action, out, written, refused>>

ExecLinksDone ==
  /\ pc = "exec_links" /\ todo = {}
  /\ pc' = "environment"
  /\ UNCHANGED <<action, todo, tree, out, execLinks, written, refused, result>>

(***************************************************************************)
(* --rundir and the dependencies' files are looked at only now, with the   *)
(* links in place.                                                         *)
(***************************************************************************)
PrepareEnvironment ==
  /\ pc = "environment"
  /\ IF action.rundir = "invalid" \/ action.depEnv # "good"
     THEN Fail
     ELSE pc' = "script" /\ UNCHANGED <<todo, result>>
  /\ UNCHANGED <<action, tree, out, execLinks, written, refused>>

\* What is a directory once the script made those it makes.
Stands(d) ==
  \/ IsDir(d)
  \/ /\ d \in action.script.makes
     /\ \A a \in Ancestors(d) : IsDir(a) \/ a \in action.script.makes

\* The script runs to its end, in a directory that has to be there.
RunScript ==
  /\ pc = "script"
  /\ IF action.rundir = "manifest" /\ ~IsDir(Manifest)
     THEN Fail /\ UNCHANGED <<tree, out>>
     ELSE /\ tree' = [p \in Path |->
                        IF tree[p] = "dir" \/ ~Stands(Parent[p]) THEN tree[p]
                        ELSE IF p \in action.script.makes THEN "dir"
                        ELSE IF p \in action.script.writes THEN "file"
                        ELSE IF p \in action.script.deletes THEN "absent" ELSE tree[p]]
          /\ out' = action.script.out
          /\ IF action.script.succeeds
             THEN pc' = "write" /\ UNCHANGED <<todo, result>>
             ELSE Fail
  /\ UNCHANGED <<action, execLinks, written, refused>>

WriteOutputs ==
  /\ pc = "write"
  /\ LET outputs == Outputs(action.script.prints)
     IN  written' = [env |-> OutputsToEnv(outputs),
                     dep_env |-> OutputsToDepEnv(outputs),
                     compile_flags |-> CompileFlags(outputs),
                     link_flags |-> LinkFlags(outputs),
                     link_search_paths |-> LinkSearchPaths(outputs)]
  /\ pc' = "unlink"
  /\ todo' = execLinks
  /\ UNCHANGED <<action, tree, out, execLinks, refused, result>>
------------------------------------------------------------------------------
\* remove_symlink removes a link or a file, and on unix nothing else.
RemoveExecLink(e) ==
  /\ pc = "unlink" /\ e \in todo
  /\ IF tree[e] \in {"absent", "dir"}
     THEN Fail /\ UNCHANGED tree
     ELSE /\ tree' = [tree EXCEPT ![e] = "absent"]
          /\ todo' = todo \ {e}
          /\ UNCHANGED <<pc, result>>
  /\ UNCHANGED <<action, out, execLinks, written, refused>>

UnlinkDone ==
  /\ pc = "unlink" /\ todo = {}
  /\ pc' = "drain"
  /\ todo' = action.runfiles
  /\ UNCHANGED <<action, tree, out, execLinks, written, refused, result>>

(***************************************************************************)
(* Removing a runfile and then its parents, up to the first that is not    *)
(* empty: a directory the script made is nobody's parent, and stays.       *)
(***************************************************************************)
Pruned(contents, p) ==
  LET below(d) == {q \in Path : d \in Ancestors(q)}
      empty(d) == \A q \in below(d) :
                    contents[q] = "absent" \/ (contents[q] = "dir" /\ q \in Ancestors(p))
  IN  [q \in Path |-> IF q \in Ancestors(p) /\ empty(q) THEN "absent" ELSE contents[q]]

(***************************************************************************)
(* drain_runfiles_dir_unix, or with copies instead of links                *)
(* drain_runfiles_dir_windows.                                             *)
(***************************************************************************)
DrainRunfile(p) ==
  /\ pc = "drain" /\ p \in todo
  /\ IF tree[p] \in {"absent", "dir"} /\ (action.symlinks \/ p \in action.retain)
     THEN Fail /\ UNCHANGED tree
     ELSE /\ tree' =
               IF action.symlinks
               THEN IF p \in action.retain THEN [tree EXCEPT ![p] = "copy"]
                    ELSE Pruned([tree EXCEPT ![p] = "absent"], p)
               ELSE IF p \in action.retain THEN [tree EXCEPT ![p] = "absent"] ELSE tree
          /\ todo' = todo \ {p}
          /\ UNCHANGED <<pc, result>>
  /\ UNCHANGED <<action, out, execLinks, written, refused>>

\* Mutant: a directory that is in the place of the marker is not noticed.
DrainDoneUnmarked ==
  /\ pc = "drain" /\ todo = {}
  /\ pc' = "replace"
  /\ todo' = {o \in OutPath : out[o].is \in AbsoluteLink}
  /\ tree' = IF \A p \in Path : tree[p] = "absent" THEN [tree EXCEPT ![EmptyMarker] = "file"] ELSE tree
  /\ UNCHANGED <<action, out, execLinks, written, refused, result>>

\* A runfiles directory without a file, whatever directories are in it, gets one.
DrainDone ==
  /\ pc = "drain" /\ todo = {}
  /\ LET bare == \A p \in Path : tree[p] \in {"absent", "dir"}
     IN  IF bare /\ tree[EmptyMarker] = "dir"
         THEN Fail /\ UNCHANGED tree
         ELSE /\ tree' = IF bare THEN [tree EXCEPT ![EmptyMarker] = "file"] ELSE tree
              /\ pc' = "replace"
              /\ todo' = {o \in OutPath : out[o].is \in AbsoluteLink}
              /\ UNCHANGED result
  /\ UNCHANGED <<action, out, execLinks, written, refused>>

\* Mutant: links into the runfiles directory are not followed.
LeadsOutside(node) == node.is = "link_file"

(***************************************************************************)
(* replace_symlinks_in_out_dir: an absolute link becomes a copy of the     *)
(* file it leads to.  What it leads to in the runfiles directory is there  *)
(* only if it outlived the draining; a directory cannot be copied.         *)
(***************************************************************************)
LeadsToFile(node) ==
  \/ node.is = "link_file"
  \/ node.is = "link_path" /\ tree[node.to] \in {"copy", "file", "link"}

ReplaceLink(o) ==
  /\ pc = "replace" /\ o \in todo
  /\ IF LeadsToFile(out[o])
     THEN /\ out' = [out EXCEPT ![o] = Is("file")]
          /\ todo' = todo \ {o}
          /\ UNCHANGED <<pc, result>>
     ELSE /\ out' = [out EXCEPT ![o] = Is("absent")]
          /\ Fail
  /\ UNCHANGED <<action, tree, execLinks, written, refused>>

ReplaceDone ==
  /\ pc = "replace" /\ todo = {}
  /\ pc' = "sweep"
  /\ UNCHANGED <<action, todo, tree, out, execLinks, written, refused, result>>

SweptFile(o) == o \in Volatile /\ out[o].is = "file"

\* Mutant: the sweep comes before the links are replaced.
SweepEarly ==
  /\ pc = "sweep"
  /\ \E kept \in SUBSET {o \in OutPath : SweptFile(o)} :
       /\ refused' = kept
       /\ out' = [o \in OutPath |->
            IF o \in Volatile \ kept /\ action.script.out[o].is = "file" THEN Is("absent") ELSE out[o]]
  /\ pc' = "mark"
  /\ UNCHANGED <<action, todo, tree, execLinks, written, result>>

(***************************************************************************)
(* remove_nondeterministic_out_dir_files: the files that would differ from *)
(* run to run are deleted.  One that cannot be, or that is in a directory  *)
(* that cannot be read, stays, and nobody hears of it.                     *)
(***************************************************************************)
Sweep ==
  /\ pc = "sweep"
  /\ \E kept \in SUBSET {o \in OutPath : SweptFile(o)} :
       /\ refused' = kept
       /\ out' = [o \in OutPath |-> IF SweptFile(o) /\ o \notin kept THEN Is("absent") ELSE out[o]]
  /\ pc' = "mark"
  /\ UNCHANGED <<action, todo, tree, execLinks, written, result>>

(***************************************************************************)
(* An OUT_DIR that has no entry, not even a directory, gets a file, and so *)
(* does one that cannot be listed.  A directory in its place ends the run  *)
(* (InputOutputFails); a link in its place is written through.             *)
(***************************************************************************)
MarkOutDir ==
  /\ pc = "mark"
  /\ \E listed \in BOOLEAN :
       LET mark == ~listed \/ \A o \in OutPath : Parent[o] = Top => out[o].is = "absent"
       IN  /\ mark => out[EmptyMarker].is # "dir"
           /\ out' = IF mark /\ out[EmptyMarker].is # "relative"
                     THEN [out EXCEPT ![EmptyMarker] = Is("file")] ELSE out
           /\ refused' = refused \union IF listed THEN {} ELSE {Top}
  /\ pc' = "ended"
  /\ result' = "success"
  /\ UNCHANGED <<action, todo, tree, execLinks, written>>
------------------------------------------------------------------------------
Ended ==
  /\ pc = "ended"
  /\ UNCHANGED vars

Next ==
  \/ \E p \in Path : \/ CreateRunfile(p) \/ LinkExecEntry(p)
                     \/ RemoveExecLink(p) \/ DrainRunfile(p)
  \/ \E o \in OutPath : ReplaceLink(o)
  \/ LayoutDone \/ ExecLinksDone \/ PrepareEnvironment \/ RunScript
  \/ WriteOutputs \/ UnlinkDone \/ DrainDone \/ ReplaceDone \/ Sweep
  \/ MarkOutDir \/ InputOutputFails \/ Ended

Spec == Init /\ [][Next]_vars
------------------------------------------------------------------------------
TypeOK ==
  /\ action \in Actions
  /\ pc \in Stages
  /\ todo \subseteq Path \union OutPath
  /\ tree \in [Path -> Node]
  /\ out \in [OutPath -> OutNode]
  /\ execLinks \subseteq Path
  /\ DOMAIN written = Files
  /\ refused \subseteq OutPath \union {Top}
  /\ result \in {"none", "failed", "io", "success"}
  /\ pc = "ended" <=> result # "none"

(***************************************************************************)
(* The runfiles and the directories of the layout, and what the script     *)
(* makes a directory of where there was none.                              *)
(***************************************************************************)
Linked == IF action.linkExecRoot THEN action.execRoot ELSE {}
Laid == action.runfiles \union UNION {Ancestors(p) : p \in action.runfiles}
Dirs == Laid \ action.runfiles
Made ==
  {d \in action.script.makes \ Dirs :
     Ancestors(d) \subseteq {Top} \union Dirs \union action.script.makes}

(***************************************************************************)
(* What Bazel captures as the runfiles directory after a success: of the   *)
(* runfiles exactly those to be retained, as files of their own; none of   *)
(* the runner's links, though links to the exec root and to runfiles were  *)
(* made at the same paths and the script wrote over both; at least one     *)
(* file; and no directory that holds nothing but those the script made,    *)
(* which stay with all they are in.  (Where the system has no symlinks,    *)
(* draining keeps and removes the opposite runfiles.)                      *)
(***************************************************************************)
RunfilesCaptured ==
  result = "success" /\ action.symlinks =>
    /\ \A p \in Path : tree[p] \notin {"link", "exec_link"}
    /\ \A p \in action.runfiles :
         tree[p] = IF p \in action.retain THEN "copy" ELSE "absent"
    /\ \A d \in Path :
         tree[d] = "dir" <=>
           \/ d \in Made
           \/ \E p \in Path : d \in Ancestors(p) /\ (p \in Made \/ tree[p] \in {"copy", "file"})
    /\ \E p \in Path : tree[p] \in {"copy", "file"}

(***************************************************************************)
(* What Bazel captures as OUT_DIR after a success: all the script left     *)
(* there, with absolute links, into the sandbox or into the runfiles       *)
(* directory, as plain files; but no file that differs from run to run,    *)
(* though such a link may have become one, save those the file system      *)
(* would not let go; and some entry, if only the marker, which is added    *)
(* only to a directory that is empty or could not be listed.               *)
(***************************************************************************)
Plain(node) == IF node.is \in AbsoluteLink THEN Is("file") ELSE node

OutDirCaptured ==
  result = "success" =>
    /\ \A o \in OutPath \ {EmptyMarker} :
         LET left == Plain(action.script.out[o])
         IN  out[o] = IF left.is = "file" /\ o \in Volatile \ refused THEN Is("absent") ELSE left
    /\ out[EmptyMarker].is \notin AbsoluteLink
    /\ out[EmptyMarker].is # "absent" =>
         \/ action.script.out[EmptyMarker].is # "absent" \/ Top \in refused
         \/ \A o \in OutPath \ {EmptyMarker} : Parent[o] = Top => out[o].is = "absent"
    /\ \E o \in OutPath : out[o].is # "absent"

(***************************************************************************)
(* What the runner fails for besides an error of the file system.  Among   *)
(* the causes are four the caller does not see: an entry of the exec root  *)
(* named like a file or directory of the package, which the runner takes   *)
(* for its own link; a directory the script made where the runner has a    *)
(* link to remove or a file to write; a link the script made in OUT_DIR to *)
(* a runfile that is gone when the link is followed; and one to a          *)
(* directory.                                                              *)
(***************************************************************************)
Collides ==
  \E e \in Linked : \/ e \in Dirs
                    \/ e \in action.runfiles /\ (action.symlinks \/ e \in action.retain)
NowhereToLink == \E e \in Linked \ Laid : Manifest \notin Laid \/ ~action.symlinks
NowhereToRun == action.rundir = "manifest" /\ Manifest \notin Laid
\* The script deletes, or makes a directory of, what the runner is to remove.
Deletes ==
  \E p \in (action.script.deletes \ action.script.writes) \union action.script.makes :
    \/ p \in Linked
    \/ p \in action.runfiles /\ (action.symlinks \/ p \in action.retain)
\* What the script adds, and the files that are left in the runfiles directory
\* in the end: links to the exec root are removed with what is written over them.
Adds == {p \in action.script.writes \ Laid : Parent[p] \in {Top} \union Dirs \union Made}
Survivors ==
  (Adds \ Linked) \union
    IF action.symlinks THEN action.retain
    ELSE action.runfiles
           \ (action.retain \union Linked \union action.script.makes
                \union (action.script.deletes \ action.script.writes))
OutlivesDraining(p) == p \in Survivors \/ (Survivors = {} /\ p = EmptyMarker)
NowhereToMark == Survivors = {} /\ EmptyMarker \in Made
LeavesDeadLink ==
  \E o \in OutPath : LET node == action.script.out[o]
                     IN  \/ node.is = "link_dir"
                         \/ node.is = "link_path" /\ ~OutlivesDraining(node.to)
Cause ==
  \/ ~action.script.succeeds \/ action.rundir = "invalid" \/ action.depEnv # "good"
  \/ Collides \/ NowhereToLink \/ NowhereToRun \/ Deletes \/ NowhereToMark
  \/ LeavesDeadLink

FailsForCause ==
  /\ result = "failed" => Cause
  /\ result = "success" => ~Cause

(***************************************************************************)
(* What the script printed reaches those it is for, each value once, in    *)
(* order and whole, with their own exec root in place of the script's:     *)
(* variables and link flags through the process wrapper, dependents'       *)
(* variables through the runner.  The files are read apart from how they   *)
(* were written, and values that end in backslashes survive only one such  *)
(* pair of conventions, for one backslash.  Compile flags arrive with the  *)
(* path of an exec root that may be gone.                                  *)
(***************************************************************************)
Said(kinds) == OfKind(action.script.prints, kinds)
EndIn(values, slashes) == \A i \in DOMAIN values : values[i].slashes <= slashes
Singly(values) == [i \in DOMAIN values |-> <<values[i]>>]
Moved(value) ==
  IF value.root = "here" THEN [value EXCEPT !.root = "stale"] ELSE value

OutputArrives ==
  result = "success" =>
    /\ LET said == Said({"env"})
       IN  EndIn(said, 1) => ReadByWrapper(written.env) = Singly(said)
    /\ LET said == Said({"dep_env", "metadata"})
       IN  EndIn(said, 0) => ReadByRunner(written.dep_env) = said
    /\ LET said == Said({"link_lib"})
       IN  EndIn(said, 0) => ReadByWrapper(written.link_flags) = Singly(said)
    /\ LET said == Said({"link_search"})
       IN  EndIn(said, 0) => ReadByWrapper(written.link_search_paths) = Singly(said)
    /\ LET said == Said({"cfg", "flags", "link_arg"})
       IN  EndIn(said, 0) => ReadByWrapper(written.compile_flags) = Singly(Each(Moved, said))

(***************************************************************************)
(* What Bazel captures after a success, in the runfiles directory and in   *)
(* OUT_DIR, does not depend on where the script ran (drain_runfiles_dir,   *)
(* run_buildrs).                                                           *)
(***************************************************************************)
Captured == TypeOK /\ RunfilesCaptured /\ OutDirCaptured
=============================================================================
