------------------------- MODULE MCBuildScriptRunner -------------------------
(***************************************************************************)
(* A package with a manifest and a source directory below                  *)
(* CARGO_MANIFEST_DIR, a runfile of another package next to it, and an     *)
(* exec root whose entries may be named like any of them.                  *)
(***************************************************************************)
EXTENDS BuildScriptRunner

MCPath == {"pkg", "pkg/Cargo.toml", "pkg/src", "pkg/src/lib.rs", "pkg/external",
           "other", "other/data", ".empty"}
MCOutPath == {"gen.rs", "config.log", "sub", "sub/foo.d", ".empty"}
MCParent ==
  [p \in MCPath \union MCOutPath |->
     CASE p \in {"pkg/Cargo.toml", "pkg/src", "pkg/external"} -> "pkg"
       [] p = "pkg/src/lib.rs" -> "pkg/src"
       [] p = "other/data" -> "other"
       [] p = "sub/foo.d" -> "sub"
       [] OTHER -> "top"]

Say(kind, id, root, slashes) ==
  [kind |-> kind, value |-> [id |-> id, root |-> root, slashes |-> slashes]]

Quiet == [o \in MCOutPath |-> Is("absent")]
Writes(o, node) == [Quiet EXCEPT ![o] = node]
Nested(node) == [Quiet EXCEPT !["sub"] = Is("dir"), !["sub/foo.d"] = node]

PlainScript ==
  [succeeds |-> TRUE, prints |-> <<>>, makes |-> {}, writes |-> {}, deletes |-> {}, out |-> Quiet]

Package ==
  [runfiles |-> {"pkg/Cargo.toml", "pkg/src/lib.rs", "other/data"}, retain |-> {},
   execRoot |-> {"pkg/external", "pkg/src"}, linkExecRoot |-> FALSE,
   symlinks |-> TRUE, rundir |-> "manifest", depEnv |-> "good", script |-> PlainScript]

Layouts ==
  {[Package EXCEPT !.runfiles = runfiles, !.retain = runfiles \intersect retain,
                 !.execRoot = execRoot, !.linkExecRoot = execRoot # {},
                 !.symlinks = symlinks, !.script.writes = writes] :
     runfiles \in {Package.runfiles, {"pkg/src/lib.rs", "other/data"}, {"other/data"}},
     retain \in {{}, {"pkg/Cargo.toml"}, {"pkg/Cargo.toml", "pkg/src/lib.rs"}},
     execRoot \in {{}, {"pkg/external"}, {"pkg/external", "pkg/src"},
                   {"pkg/external", "pkg/Cargo.toml"}},
     symlinks \in BOOLEAN,
     writes \in {{}, {"pkg/Cargo.toml", "pkg/external"}, {"pkg/src/lib.rs"}}}

\* Directories the script makes: in the package, in place of a link, as the marker.
Directories ==
  {[Package EXCEPT !.runfiles = runfiles, !.retain = runfiles \intersect retain,
                   !.execRoot = {"pkg/external"}, !.linkExecRoot = linkExecRoot,
                   !.symlinks = symlinks, !.rundir = "relative",
                   !.script.makes = makes, !.script.writes = writes \ makes,
                   !.script.out = Writes("gen.rs", node)] :
     runfiles \in {{"pkg/Cargo.toml"}, {"other/data"}}, retain \in {{}, {"pkg/Cargo.toml"}},
     linkExecRoot \in BOOLEAN, symlinks \in BOOLEAN,
     makes \in {{"pkg/src"}, {"pkg/src/lib.rs"}, {"pkg", "pkg/src"}, {"pkg/external"},
                {"pkg/Cargo.toml"}, {".empty"}, {"other", ".empty"}},
     writes \in {{}, {"pkg/src/lib.rs"}, {"pkg/external"}},
     node \in {Is("absent"), Through("pkg/src"), Through("pkg/src/lib.rs")}}

Starts ==
  {[Package EXCEPT !.rundir = rundir, !.depEnv = depEnv, !.runfiles = runfiles,
                 !.script.succeeds = succeeds, !.script.deletes = deletes] :
     rundir \in {"manifest", "relative", "invalid"},
     depEnv \in {"good", "malformed", "unreadable"},
     runfiles \in {{"pkg/Cargo.toml"}, {"other/data"}},
     succeeds \in BOOLEAN, deletes \in {{}, {"pkg/Cargo.toml"}}}

OutDirs ==
  {[Package EXCEPT !.retain = retain, !.script.out = contents, !.script.writes = writes] :
     retain \in {{}, {"pkg/src/lib.rs"}}, writes \in {{}, {"pkg/external"}},
     contents \in
       {Writes(o, node) : o \in {"gen.rs", "config.log", ".empty"},
                          node \in {Is("file"), Is("dir"), Is("relative"), Is("link_file"), Is("link_dir"),
                                    Through("pkg/src/lib.rs"), Through("pkg/external")}}
         \union {Nested(node) : node \in {Is("file"), Is("link_file"), Is("absent")}}}

\* Links of OUT_DIR into a runfiles directory that is changed in every way.
Followed ==
  {[Package EXCEPT !.retain = retain, !.symlinks = symlinks, !.runfiles = runfiles,
                 !.execRoot = {"pkg/external"}, !.linkExecRoot = TRUE, !.rundir = "relative",
                 !.script.writes = writes, !.script.deletes = deletes,
                 !.script.out = Writes("gen.rs", Through(p))] :
     p \in {"pkg/src", "pkg/src/lib.rs", "pkg/external", "other/data", ".empty"},
     retain \in {{}, {"pkg/src/lib.rs"}}, symlinks \in BOOLEAN,
     runfiles \in {{"pkg/src/lib.rs"}, {"pkg/src/lib.rs", "other/data"}},
     writes \in {{}, {"pkg/external", "pkg/src"}, {"pkg/Cargo.toml", "other/data"}},
     deletes \in {{}, {"pkg/src/lib.rs", "pkg/external"}}}

Prints ==
  {[Package EXCEPT !.runfiles = {"pkg/Cargo.toml"}, !.script.prints = lines] :
     lines \in
       {<<Say(kind, 1, root, slashes), Say(kind, 2, "here", 0)>> :
          kind \in Kept, root \in {"none", "here"}, slashes \in 0..2}
       \union {<<Say(one, 1, "here", 0), Say(two, 2, "none", 1), Say("env", 3, "here", 1),
                 Say("dep_env", 4, "none", 0)>> :
                 one \in Kept \union Dropped, two \in Dropped \union {"env", "metadata"}}}

MCActions == Layouts \union Directories \union Starts \union OutDirs \union Followed \union Prints
=============================================================================
