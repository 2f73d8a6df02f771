-------------------------- MODULE MCCrateRendering --------------------------
(***************************************************************************)
(* Two members, app and tool, a crate mid with a build script and a        *)
(* binary, two versions of x, a macro with a binary, and sys, which links  *)
(* a system library.  Two of three platforms are one triple to Cargo.      *)
(***************************************************************************)
EXTENDS CrateRendering

MCPackage == {"app", "tool", "mid", "x1", "x2", "mac", "sys"}
MCNoName == "-"
MCTriple == {"linux", "nixos", "windows"}
MCCfg == {"cfg(unix)", "linux", "cfg(windows)"}
MCHolds == [c \in MCCfg \union MCTriple |->
  CASE c \in {"cfg(unix)", "linux"} -> {"linux", "nixos"}
    [] c \in {"cfg(windows)", "windows"} -> {"windows"} [] OTHER -> {}]
MCModuleOf == [n \in {"app", "tool", "mid", "x", "m-mac", "m_mac", "sys", "y", "build-script-build",
                      "build_script_build", "extra"} |->
  CASE n = "m-mac" -> "m_mac" [] n = "build-script-build" -> "build_script_build" [] OTHER -> n]
MCName == DOMAIN MCModuleOf
MCAlphabet == <<"@//:label", "beos", "cfg(unix)", "cfg(windows)", "linux", "nixos", "windows">>

T(name, kind) == [name |-> name, kind |-> kind]
Script == T("build-script-build", "custom-build")
MCTargets == [p \in MCPackage |->
  CASE p = "app" -> {T("app", "lib"), Script}
    [] p = "tool" -> {T("tool", "bin"), T("x", "example")}
    [] p = "mid" -> {T("mid", "lib"), T("mid", "bin"), Script}
    [] p \in {"x1", "x2"} -> {T("x", "lib"), T("x", "bin")}
    [] p = "mac" -> {T("m-mac", "proc-macro"), T("m-mac", "bin")}
    [] p = "sys" -> {T("sys", "lib")}]

\* How an optional dependency is used: everywhere, not on windows, nowhere.
Uses == {"required", "everywhere", "not windows", "nowhere"}
EdgeOf(from, to, rename, kind, cfg, use, built) ==
  LET reach == Reach(built, cfg)
  IN  [from |-> from, to |-> to, rename |-> rename, kind |-> kind, cfg |-> cfg,
       optional |-> use # "required", listed |-> TRUE,
       on |-> CASE use = "not windows" -> reach \ {"windows"} [] use = "nowhere" -> {} [] OTHER -> reach]

Workspace(members, built, edges) ==
  [members |-> members,
   name |-> [p \in MCPackage |-> CASE p \in {"x1", "x2"} -> "x" [] p = "mac" -> "m-mac" [] OTHER -> p],
   version |-> [p \in MCPackage |-> IF p = "x2" THEN 2 ELSE 1],
   targets |-> MCTargets, links |-> {"sys"},
   built |-> [p \in MCPackage |-> built], edges |-> edges]

Locked == [p \in MCPackage |-> IF p \in {"app", "tool"} THEN "none" ELSE "registry"]
Plainly ==
  [lock |-> Locked, spliced |-> {}, annotations |-> <<>>,
   provided |-> [p \in MCPackage |-> NoAnnotation], outside |-> {},
   config |-> [binaries |-> TRUE, buildScripts |-> TRUE, vendor |-> "none", supported |-> MCTriple]]
Input(ws, rest) == [ws |-> ws] @@ rest

(***************************************************************************)
(* What mid depends on: one or two edges, to the same name or package, or  *)
(* of a library and a macro.                                               *)
(***************************************************************************)
MidEdges(to, built) ==
  {EdgeOf("mid", to, rename, kind, cfg, use, built) :
     rename \in {"-", "y"}, kind \in {"normal", "build"}, cfg \in {"none", "cfg(unix)", "linux"},
     use \in Uses}
MidInput(edges) ==
  Input(Workspace({"app", "tool"}, MCTriple,
                  edges \union {EdgeOf("app", "mid", "-", "normal", "none", "required", MCTriple)}),
        Plainly)
MidPairs(to) == {MidInput({e, f}) : e \in MidEdges("x1", MCTriple), f \in MidEdges(to, MCTriple)}
MidSingles(to) == {MidInput({e}) : e \in MidEdges(to, MCTriple)}

(***************************************************************************)
(* What the members depend on.                                             *)
(***************************************************************************)
MemberEdgesOf(from, kinds, cfgs) ==
  {EdgeOf(from, to, rename, kind, cfg, "required", MCTriple) :
     to \in {"x1", "x2", "mac"}, rename \in {"-", "y", "sys"}, kind \in kinds, cfg \in cfgs}
MemberInput(edges) == Input(Workspace({"app", "tool"}, MCTriple, edges), Plainly)
OfApp == MemberEdgesOf("app", {"normal", "dev", "build"}, {"none", "cfg(unix)"})
OfTool == MemberEdgesOf("tool", {"normal"}, {"none"})
DevOfTool == EdgeOf("tool", "sys", "-", "dev", "none", "required", MCTriple)
OneMember == {MemberInput({e, f}) : e \in OfApp, f \in OfApp}
\* Under two conditions at once.
Conditional ==
  {MemberInput({e, f}) : e \in MemberEdgesOf("app", {"normal", "dev"}, {"cfg(unix)"}),
                         f \in MemberEdgesOf("app", {"normal", "dev"}, {"cfg(windows)"})}
TwoMembers == {MemberInput({e, f, DevOfTool}) : e \in OfApp, f \in OfTool}

(***************************************************************************)
(* Sources, annotations, and what the user configures.                     *)
(***************************************************************************)
Library(name) == [pkg |-> "external", target |-> [name |-> name, form |-> "plain"], local |-> FALSE]
Added(common, selects) == [NoAnnotation EXCEPT !.deps = <<[common |-> common, selects |-> selects]>>]
OnNixos == [c \in {"nixos"} |-> {Library("y")}]
\* Flags and a directory, for all and for platforms, two configurations of one
\* platform among them.
Flagged ==
  [NoAnnotation EXCEPT
     !.flags = <<[common |-> <<"-a">>,
                  selects |-> [c \in {"cfg(unix)", "linux"} |->
                                 IF c = "linux" THEN <<"-c", "-a">> ELSE <<"-b">>]]>>,
     !.rundir = <<[common |-> <<"all">>,
                   selects |-> [c \in {"cfg(unix)", "linux"} |->
                                  IF c = "linux" THEN <<"there">> ELSE <<"all">>]]>>]
FlaggedThere ==
  [NoAnnotation EXCEPT
     !.flags = <<[common |-> <<>>, selects |-> [c \in {"windows", "cfg(unix)"} |-> <<"-c">>]]>>,
     !.rundir = <<[common |-> <<>>, selects |-> [c \in {"windows"} |-> <<"here">>]]>>]
Annotation(name, version, extra) == [req |-> [name |-> name, version |-> version], extra |-> extra]
Extras ==
  {Flagged, FlaggedThere, Added({Library("extra")}, NoSelects), Added({}, OnNixos),
   [NoAnnotation EXCEPT !.genBuildScript = <<FALSE>>],
   [NoAnnotation EXCEPT !.genBinaries = <<{}>>, !.aliased = <<[n \in {"y"} |-> "mid"]>>],
   [NoAnnotation EXCEPT !.override = <<[k \in {"lib"} |-> Library("y")]>>, !.patches = <<{"p"}>>],
   [NoAnnotation EXCEPT !.buildDeps = <<[common |-> {Library("extra")}, selects |-> NoSelects]>>]}
Annotations ==
  {<<Annotation("*", 0, a), Annotation("mid", v, b)>> : a \in Extras, b \in Extras, v \in {0, 1, 2}}
Configs ==
  {[Plainly.config EXCEPT !.vendor = v, !.supported = s] :
     v \in {"none", "local"}, s \in {MCTriple, MCTriple \union {"beos"}}}
MidRenamesX ==
  Workspace({"app", "tool"}, MCTriple,
            {EdgeOf("app", "mid", "-", "normal", "none", "required", MCTriple),
             EdgeOf("mid", "x1", "y", "normal", "cfg(unix)", "required", MCTriple)})
NoScript == [p \in MCPackage |-> [NoAnnotation EXCEPT !.genBuildScript = <<FALSE>>]]
Self == [p \in MCPackage |-> Flagged]
Annotated ==
  {Input(MidRenamesX, [Plainly EXCEPT !.annotations = a, !.provided = d]) :
     a \in Annotations, d \in {Plainly.provided, NoScript, Self}}
Configured ==
  {Input(MidRenamesX,
         [Plainly EXCEPT !.lock["x1"] = x, !.lock["tool"] = t, !.spliced = s, !.outside = o, !.config = c]) :
     x \in {"registry", "git", "path", "unknown", "missing"}, t \in {"none", "missing"},
     s \in {{}, {"tool"}}, o \in {{}, {"x1"}}, c \in Configs}

Valid(inputs) == {i \in inputs : IsWorkspace(i.ws)}
MCFamilies ==
  {Valid(MidPairs("x1")), Valid(MidPairs("x2")), Valid(MidSingles("mac")), Valid(MidSingles("sys")),
   Valid(OneMember), Valid(Conditional), Valid(TwoMembers), Annotated, Configured}
=============================================================================
