-------------------------- MODULE MCProcessWrapper --------------------------
(***************************************************************************)
(* Command lines of the process wrapper.  The options that decide about a  *)
(* run are those the rules ask for: Rustc and RustcMetadata actions, a     *)
(* clippy or rustfmt action with its marker, and the copy of the wrapper's *)
(* own tests.  What the child is given varies under one of them.           *)
(***************************************************************************)
EXTENDS WrapperLaunch

Word(text) == <<Text(text)>>
Option(flag, values) == [flag |-> flag, values |-> values]
Opt(flag, text) == Option(flag, <<Word(text)>>)
Launch(windows, options, words) ==
  [options |-> options, ends |-> TRUE, child |-> words, windows |-> windows]

Json == Opt("--rustc-output-format", "json")
Quit == Opt("--rustc-quit-on-rmeta", "true")
Log_ == Opt("--output-file", "log")
Touch == Opt("--touch-file", "marker")
Copy == Option("--copy-output", <<Word("out"), Word("copy")>>)

MetadataOptions == <<Opt("--rustc-output-format", "rendered"), Log_, Quit>>
RuleOptions ==
  {MetadataOptions, <<Json, Log_>>, <<Touch>>, <<Touch, Copy>>, <<Log_, Quit>>}
RuleLaunches ==
  {Launch(FALSE, o, <<Word("rustc")>>) : o \in RuleOptions}
    \union {Launch(TRUE, o, <<Word("rustc")>>) : o \in {MetadataOptions, <<Json, Quit, Touch, Copy>>}}

(***************************************************************************)
(* Files: parameters of the compiler, one file naming another by its place *)
(* and one naming a file that is missing, flags and an environment that    *)
(* build scripts left, with lines that are escaped, and the statuses.      *)
(***************************************************************************)
Assign(name, value) == <<Text(name), Equals>> \o value
MCFiles ==
  [path \in {Word("params"), <<Place("pwd"), Text("more")>>, Word("bad"), Word("flags"),
             Word("env1"), Word("env2"), Word("noenv"), Word("stable"), Word("volatile"),
             Word("nostatus"), Word("loop")} |->
     CASE path = Word("params") -> <<Word("a"), <<>>, <<At, Ref("pwd"), Text("more")>>, <<Ref("exec_root")>>>>
       [] path = <<Place("pwd"), Text("more")>> -> << <<Text("-Zallow-features="), Ref("key")>> >>
       [] path = Word("bad") -> << <<At, Text("missing")>> >>
       [] path = Word("loop") -> << <<At, Text("loop")>> >>
       [] path = Word("flags") -> << <<Text("-L"), Ref("pwd"), Backslash>>, Word("b"),
                                     <<Text("c"), Backslash, Backslash>>, <<Text("lost"), Backslash>> >>
       [] path = Word("env1") -> <<Assign("DIR", <<Ref("pwd"), Equals, Ref("key")>>), Assign("PATH", <<Ref("TIME"), Ref("USER")>>)>>
       [] path = Word("env2") -> <<Assign("DIR", <<Status("USER")>>), Assign("PATH", Word("p2"))>>
       [] path = Word("noenv") -> <<Word("x")>>
       [] path = Word("stable") -> << <<Text("USER"), Space, Text("me"), Space>> >>
       [] path = Word("volatile") -> << <<Text("USER"), Space, Text("you")>>, <<Text("TIME"), Space>> >>
       [] path = Word("nostatus") -> <<Word("USER")>>]

MCProcessEnv ==
  [x \in {Word("PATH"), Word("TMP")} |-> IF x = Word("TMP") THEN <<Status("TIME"), Ref("pwd")>> ELSE Word("p0")]

Pwd == Option("--subst", << <<Text("pwd"), Equals, Ref("pwd")>> >>)
ExecRoot == Option("--subst", << <<Text("exec_root"), Equals, Ref("exec_root")>> >>)
Keys_ == Option("--subst", << <<Text("key"), Equals, Text("v")>>, <<Text("key"), Equals>> >>)
Unstable == Opt("--require-explicit-unstable-features", "true")

UpTo(n, S) == UNION {[1..k -> S] : k \in 0..n}

\* What the child is given.
Substs == {<<>>, <<Pwd, ExecRoot>>, <<Keys_, Pwd>>}
ChildWords ==
  {Word("rustc"), <<Ref("pwd"), Ref("key")>>, <<At, Text("params")>>, <<At, Ref("pwd"), Text("more")>>,
   <<At, Text("bad")>>, <<At, Text("loop")>>, Word("allow-features=")}
ArgLaunches ==
  {Launch(FALSE, s \o u \o a \o <<Touch>>, words) :
     s \in Substs, u \in {<<>>, <<Unstable>>},
     a \in {<<>>, <<Option("--arg-file", <<Word("flags"), Word("flags")>>)>>},
     words \in UpTo(2, ChildWords)}

EnvFiles == {Opt("--env-file", f) : f \in {"env1", "env2", "noenv"}}
Stamps ==
  {<<>>, <<Opt("--stable-status-file", "stable"), Opt("--volatile-status-file", "volatile")>>,
   <<Opt("--stable-status-file", "nostatus")>>, <<Opt("--volatile-status-file", "volatile")>>}
EnvLaunches ==
  {Launch(FALSE, e \o st \o s \o <<Touch>>, <<Word("rustc")>>) :
     e \in UpTo(2, EnvFiles), st \in Stamps, s \in Substs}

\* Command lines that are not what parse() or options() expect, among them.
Loose ==
  {Json, Quit, Touch, Copy, Pwd, Opt("--copy-output", "out"), Opt("--unknown", "x"),
   Option("--touch-file", <<>>), Option("--touch-file", <<Word("a"), Word("b")>>),
   Option("--copy-output", <<Word("out"), Word("out")>>), Opt("--subst", "x"),
   Opt("--rustc-output-format", "text"), Opt("--arg-file", "missing"), Opt("--arg-file", "flags")}
LooseLaunches ==
  {[Launch(FALSE, o, c) EXCEPT !.ends = (c # <<>>)] : o \in UpTo(2, Loose), c \in {<<>>, <<Word("rustc")>>}}
    \union {Launch(FALSE, o, <<Word("rustc"), << <<"flag", "--touch-file">> >>, Word("x")>>) :
              o \in {<<>>, <<Touch>>}}

MCLaunches == {RuleLaunches, ArgLaunches, EnvLaunches, LooseLaunches}
=============================================================================
