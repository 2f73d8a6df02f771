---------------------------- MODULE WrapperLaunch ----------------------------
(***************************************************************************)
(* A whole run of the process wrapper: main() with the call of options()   *)
(* it begins with, WrapperOptions composed with ProcessWrapper.            *)
(*                                                                         *)
(* A launch is a command line as the rules lay it out: options, each with  *)
(* its values, then -- and the child's arguments, which may also be in     *)
(* argument files alone.  opts, the options that ProcessWrapper runs under,*)
(* is what the launch asks for; the wrapper has to find it in argv.        *)
(* --help, which prints and exits, is left out.                            *)
(***************************************************************************)
EXTENDS ProcessWrapper, WrapperOptions

CONSTANT Launches  \* the command lines considered, in families

VARIABLES
  phase,      \* "flags", "options", "prepared", "running" or "refused"
  launch,     \* the command line, until the child has it
  argv,       \* what is left of it to parse
  flags,      \* what was given to each flag
  childArgs,  \* what follows --
  command     \* what the child is to be given

parseVars == <<argv, flags, childArgs, command>>
launchVars == <<phase, launch, parseVars>>
allVars == <<vars, launchVars>>

NoLaunch == [options |-> <<>>, ends |-> FALSE, child |-> <<>>, windows |-> FALSE]
NoFlags == [f \in {} |-> <<>>]
NoCommand == [args |-> <<>>, env |-> NoFlags, written |-> {}]

Argv(l) ==
  FlattenSeq([i \in DOMAIN l.options |-> << << <<"flag", l.options[i].flag>> >> >> \o l.options[i].values])
    \o (IF l.ends THEN << << <<"flag", "--">> >> >> \o l.child ELSE <<>>)

\* What a launch gives to a flag, wherever on the command line.
Asked(l, flag) ==
  FlattenSeq([i \in DOMAIN l.options |-> IF l.options[i].flag = flag THEN l.options[i].values ELSE <<>>])

Options_(l) ==
  [windows |-> l.windows, json |-> Asked(l, "--rustc-output-format") # <<>>,
   quit |-> Asked(l, "--rustc-quit-on-rmeta") = << <<Text("true")>> >>,
   log |-> Asked(l, "--output-file") # <<>>, touch |-> Asked(l, "--touch-file") # <<>>,
   copy |-> Asked(l, "--copy-output") # <<>>]

(***************************************************************************)
(* An option's values are what does not begin with --.  What a             *)
(* substitution stands for has no ${x}, unless it is a place as a whole,   *)
(* and what a status stands for no {x}, of a ${x} either.                  *)
(***************************************************************************)
Tokens == {"flag", "text", "ref", "status", "place"} \X STRING
Free(s, kind) == \A i \in DOMAIN s : s[i][1] \notin Holding(kind)

LaunchOK(l) ==
  /\ l.options \in Seq([flag : STRING \ {"--"}, values : Seq({v \in Seq(Tokens) : ~IsFlag(v)})])
  /\ l.child \in Seq(Seq(Tokens)) /\ (~l.ends => l.child = <<>>)
  /\ \A arg \in ToSet(Asked(l, "--subst")) :
       Equals \in ToSet(arg) =>
         LET value == SplitOnce(arg, Equals)[2]
         IN  Free(value, "ref") \/ \E p \in Places_ : value = <<Ref(p)>>
  /\ \A flag \in {"--stable-status-file", "--volatile-status-file"} :
       \A path \in ToSet(Asked(l, flag)) \intersect DOMAIN Files :
         \A i \in DOMAIN Lines[path] : Free(Lines[path][i], "status")

\* The tokens the wrapper itself has, and what the rest of them may be.
OwnTokens ==
  {At, Equals, Space, Backslash, Newline, Dollar, AllowFeatures, Text(".expanded"), <<"flag", "--">>}
    \union {Place(p) : p \in Places_}

ASSUME LaunchAssumption ==
  /\ OwnTokens \subseteq Tokens
  /\ IsFiniteSet(DOMAIN Files)
  /\ \A path \in DOMAIN Files : Files[path] \in Seq(Seq(Tokens))
  /\ ProcessEnv \in [DOMAIN ProcessEnv -> Seq(Tokens)]
  /\ \A l \in UNION Launches : LaunchOK(l)

LaunchInit ==
  /\ Init
  /\ \E family \in Launches : launch \in family
  /\ opts = Options_(launch)
  /\ phase = "flags"
  /\ argv = Argv(launch)
  /\ flags = NoFlags
  /\ childArgs = <<>>
  /\ command = NoCommand
------------------------------------------------------------------------------
(* main() returns the error of options(). *)
Refuse ==
  /\ phase' = "refused"
  /\ SpawnFails
  /\ UNCHANGED <<launch, parseVars>>

AtFlag(name) == argv # <<>> /\ Head(argv) = << <<"flag", name>> >>
Values == ConsumeArgs(Tail(argv))

(* Mutant of Takes: the last value of a flag is the one that counts. *)
TakesAgain(name) ==
  AtFlag(name) /\ Values # <<>> /\ (name \in Single => Len(Values) = 1)

(* What a flag that parse() finds next is allowed. *)
Takes(name) ==
  AtFlag(name) /\ Values # <<>> /\ (name \in Single => Len(Values) = 1 /\ name \notin DOMAIN flags)

(***************************************************************************)
(* One turn of parse(): a flag and its values.                             *)
(***************************************************************************)
ParseFlag ==
  /\ phase = "flags"
  /\ \E name \in Single \union Repeated :
       /\ Takes(name)
       /\ flags' = [f \in DOMAIN flags \union {name} |->
                      IF f = name THEN Given(flags, f) \o Values ELSE flags[f]]
       /\ argv' = SubSeq(argv, Len(Values) + 2, Len(argv))
  /\ UNCHANGED <<phase, launch, childArgs, command, vars>>

(***************************************************************************)
(* An unknown flag, or no flag at all, a flag without a value, or a second *)
(* value of one that takes one.                                            *)
(***************************************************************************)
FlagRefused ==
  /\ phase = "flags"
  /\ argv # <<>> /\ ~AtFlag("--")
  /\ \A name \in Single \union Repeated : ~Takes(name)
  /\ Refuse

ParseEnds ==
  /\ phase = "flags"
  /\ argv = <<>> \/ AtFlag("--")
  /\ phase' = "options"
  /\ childArgs' = IF argv = <<>> THEN <<>> ELSE Tail(argv)
  /\ argv' = <<>>
  /\ UNCHANGED <<launch, flags, command, vars>>

OptionsUsed ==
  /\ phase = "options"
  /\ ~Unusable(flags, childArgs)
  /\ phase' = "prepared"
  /\ command' = Command(flags, childArgs)
  /\ UNCHANGED <<launch, argv, flags, childArgs, vars>>

(* What is wrong with the options, or with the disk an expanded file is for. *)
OptionsRefused ==
  /\ phase = "options"
  /\ ~Unusable(flags, childArgs) => Command(flags, childArgs).written # {}
  /\ Refuse

(***************************************************************************)
(* main() from there on.  Once the child has its command there is no need  *)
(* to remember where it came from.                                         *)
(***************************************************************************)
Run(Step) ==
  /\ phase \in {"prepared", "running"}
  /\ Step
  /\ phase' = "running"
  /\ launch' = NoLaunch
  /\ argv' = <<>> /\ flags' = NoFlags /\ childArgs' = <<>> /\ command' = NoCommand

ParseStep == ParseFlag \/ FlagRefused \/ ParseEnds \/ OptionsUsed \/ OptionsRefused

LaunchEnded == Ended /\ UNCHANGED launchVars

LaunchNext == ParseStep \/ Run(WrapperStep) \/ Run(ChildStep) \/ LaunchEnded

LaunchSpec == LaunchInit /\ [][LaunchNext]_allVars

(***************************************************************************)
(* The wrapper runs whenever it is not blocked.  The first conjunct is the *)
(* weak fairness of ParseStep, which is possible while there is something  *)
(* to parse.                                                               *)
(***************************************************************************)
Parsing == phase \in {"flags", "options"}

FairLaunchSpec ==
  /\ LaunchSpec
  /\ []<>(~Parsing) \/ []<><<ParseStep>>_allVars
  /\ WF_allVars(Run(WrapperStep))
------------------------------------------------------------------------------
(***************************************************************************)
(* What a launch means, without the order in which options() goes about    *)
(* it: each reference stands for the first value given to its name.        *)
(***************************************************************************)
Known == Single \union Repeated
Named(l) == [f \in {l.options[i].flag : i \in DOMAIN l.options} |-> Asked(l, f)]

WellFormed(l) ==
  \A i \in DOMAIN l.options :
    /\ l.options[i].flag \in Known
    /\ l.options[i].values # <<>>
    /\ l.options[i].flag \in Single =>
         /\ Len(l.options[i].values) = 1
         /\ \A j \in DOMAIN l.options : l.options[j].flag = l.options[i].flag => i = j

ValueOf(list, key) == list[Min({i \in DOMAIN list : list[i].key = key})].value
Keys(list) == {list[i].key : i \in DOMAIN list}
Meaning(s, kind, list) ==
  FlattenSeq([i \in DOMAIN s |->
    IF s[i][1] \in Holding(kind) /\ s[i][2] \in Keys(list)
    THEN Filled(s[i], kind, ValueOf(list, s[i][2])) ELSE <<s[i]>>])

MeantArgs(l) ==
  LET list == Substitutions(Named(l))
      meant(arg) == Meaning(arg, "ref", list)
      names(arg) == IsParamFile(meant(arg)) /\ Tail(meant(arg)) \in DOMAIN Files
      file[n \in 0..Cardinality(DOMAIN Files)] ==
        [path \in DOMAIN Files |->
           LET lines == Lines[path]
           IN  IF n = 0 THEN <<>>
               ELSE FlattenSeq([i \in DOMAIN lines |->
                      IF names(lines[i]) THEN file[n - 1][Tail(meant(lines[i]))] ELSE <<meant(lines[i])>>])]
      text(path) == file[Cardinality(DOMAIN Files)][path]
      args == l.child \o ReadAll(Asked(l, "--arg-file"))
  IN  FlattenSeq([i \in DOMAIN args |->
        IF names(args[i]) THEN text(Tail(meant(args[i]))) ELSE <<meant(args[i])>>])

\* What the child reads: its arguments, and the files they name.
ReadByChild ==
  LET text(path) == (CHOOSE w \in command.written : w.path = path).lines
  IN  FlattenSeq([i \in DOMAIN command.args |->
        IF IsParamFile(command.args[i]) THEN text(Tail(command.args[i])) ELSE <<command.args[i]>>])

Explicit(l) == Asked(l, "--require-explicit-unstable-features") = << <<Text("true")>> >>
Allows(args) == \E i \in DOMAIN args : IsAllowFeaturesFlag(args[i])

(***************************************************************************)
(* The child is only prepared for a command line that makes sense, each    *)
(* flag with what the whole of it asks for, and the options that decide    *)
(* about the run are the ones asked for; and only one that makes no sense, *)
(* or needs a file that is not there or cannot be written, is refused.     *)
(***************************************************************************)
LaunchedAsAsked ==
  /\ phase = "prepared" =>
       /\ WellFormed(launch)
       /\ flags = Named(launch) /\ childArgs = launch.child
       /\ opts.json = ("--rustc-output-format" \in DOMAIN flags)
       /\ opts.quit = IsTrue(flags, "--rustc-quit-on-rmeta")
       /\ opts.log = ("--output-file" \in DOMAIN flags)
       /\ opts.touch = ("--touch-file" \in DOMAIN flags)
       /\ opts.copy = ("--copy-output" \in DOMAIN flags)
  /\ phase = "refused" /\ WellFormed(launch) =>
       \/ Unusable(Named(launch), launch.child)
       \/ Command(Named(launch), launch.child).written # {}

(***************************************************************************)
(* What the child reads, on its command line and in the files made for it, *)
(* is what its command line and its argument files say: in order, each     *)
(* reference replaced however deep in files, and nothing else changed.     *)
(***************************************************************************)
ArgumentsMeant ==
  phase = "prepared" =>
    LET meant == MeantArgs(launch)
    IN  Len(meant) <= Len(ReadByChild) /\ SubSeq(ReadByChild, 1, Len(meant)) = meant

(***************************************************************************)
(* With --require-explicit-unstable-features no unstable feature is        *)
(* allowed but those someone asked for, be it in a file within a file; and *)
(* what they asked for is left alone.                                      *)
(***************************************************************************)
FeaturesGated ==
  phase = "prepared" =>
    LET meant == MeantArgs(launch)
        gated == Explicit(launch) /\ ~Allows(meant)
    IN  SubSeq(ReadByChild, Len(meant) + 1, Len(ReadByChild))
          = IF gated THEN << <<AllowFeatures>> >> ELSE <<>>

(***************************************************************************)
(* A variable of the child has the value of the last file that sets it, or *)
(* the one the wrapper got, with statuses and references replaced.         *)
(***************************************************************************)
EnvironmentMeant ==
  phase = "prepared" =>
    LET lines == ReadAll(Asked(launch, "--env-file"))
        pairs == [i \in DOMAIN lines |-> SplitOnce(lines[i], Equals)]
        setting(x) == {i \in DOMAIN pairs : pairs[i][1] = x}
        chosen(x) == IF setting(x) = {} THEN ProcessEnv[x] ELSE pairs[Max(setting(x))][2]
        meant(value) == Meaning(Meaning(value, "status", Statuses(Named(launch))), "ref",
                                Substitutions(Named(launch)))
    IN  /\ DOMAIN command.env = DOMAIN ProcessEnv \union {pairs[i][1] : i \in DOMAIN pairs}
        /\ \A x \in DOMAIN command.env : command.env[x] = meant(chosen(x))

(***************************************************************************)
(* What the compiler is started with is what the command line, the files   *)
(* it names and the environment say (options.rs, flags.rs).                *)
(***************************************************************************)
LaunchMeant == LaunchedAsAsked /\ ArgumentsMeant /\ FeaturesGated /\ EnvironmentMeant
==============================================================================
