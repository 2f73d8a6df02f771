--------------------------- MODULE WrapperOptions ---------------------------
(***************************************************************************)
(* util/process_wrapper/options.rs, flags.rs and util.rs: what the command *)
(* line of the process wrapper, the files it names and the wrapper's own   *)
(* environment make of the command to run.                                 *)
(*                                                                         *)
(* An argument, a line, a path or a value is a sequence of tokens, and a   *)
(* token a pair of kind and text: a flag (text that begins with --), a     *)
(* reference to a substitution, ${x}, one to a workspace status, {x} with  *)
(* no $ before it, a place (the working directory and what is derived from *)
(* it), or text.                                                           *)
(***************************************************************************)
EXTENDS Naturals, Sequences, FiniteSets, SequencesExt

CONSTANTS
  Files,       \* the lines of each file that can be read
  ProcessEnv   \* std::env::vars()

Text(x) == <<"text", x>>
At == Text("@")
Equals == Text("=")
Space == Text(" ")
Backslash == Text("\\")
Newline == Text("\n")
Dollar == Text("$")
Ref(x) == <<"ref", x>>
Status(x) == <<"status", x>>
Place(x) == <<"place", x>>

(***************************************************************************)
(* The flags options() defines, and consume_args: the values of a flag are *)
(* what follows it up to the next.                                         *)
(***************************************************************************)
Single ==
  {"--stable-status-file", "--volatile-status-file", "--touch-file", "--stdout-file",
   "--stderr-file", "--output-file", "--rustc-quit-on-rmeta", "--rustc-output-format",
   "--require-explicit-unstable-features"}
Repeated == {"--subst", "--env-file", "--arg-file", "--copy-output"}

IsFlag(arg) == arg # <<>> /\ Head(arg)[1] = "flag"

ConsumeArgs(argv) ==
  LET flags == {i \in DOMAIN argv : IsFlag(argv[i])}
  IN  IF flags = {} THEN argv ELSE SubSeq(argv, 1, Min(flags) - 1)

\* flags holds what was given to each flag so far.
Given(flags, flag) == IF flag \in DOMAIN flags THEN flags[flag] ELSE <<>>
IsTrue(flags, flag) == Given(flags, flag) = << <<Text("true")>> >>
------------------------------------------------------------------------------
(***************************************************************************)
(* split_once: what is before and after the first of a token.              *)
(***************************************************************************)
SplitOnce(s, token) ==
  LET at == Min({i \in DOMAIN s : s[i] = token})
  IN  <<SubSeq(s, 1, at - 1), SubSeq(s, at + 1, Len(s))>>

(***************************************************************************)
(* read_to_array.  An odd backslash at the end of a line joins it with the *)
(* next, two stand for one, empty lines are passed over, and a line that   *)
(* waits for a next one is lost.                                           *)
(***************************************************************************)
ReadToArray(raw) ==
  LET ending(line) == Len(line) - Max({0} \union {i \in DOMAIN line : line[i] # Backslash})
      text(line) == SubSeq(line, 1, Len(line) - ending(line))
                      \o [i \in 1..(ending(line) \div 2) |-> Backslash]
      next(read, line) ==
        CASE line = <<>> -> read
          [] ending(line) % 2 = 1 -> [read EXCEPT !.open = @ \o text(line) \o <<Newline>>]
          [] OTHER -> [lines |-> Append(read.lines, read.open \o text(line)), open |-> <<>>]
      read[n \in 0..Len(raw)] ==
        IF n = 0 THEN [lines |-> <<>>, open |-> <<>>] ELSE next(read[n - 1], raw[n])
  IN  read[Len(raw)].lines

Lines == [path \in DOMAIN Files |-> ReadToArray(Files[path])]

ReadAll(paths) == FlattenSeq([i \in DOMAIN paths |-> Lines[paths[i]]])

\* The tokens whose text has {x} in it, or ${x}; what is put for the {x} of a ${x}
\* stands behind the $.
Holding(kind) == IF kind = "status" THEN {"status", "ref"} ELSE {kind}
Filled(token, kind, value) == IF token[1] = kind THEN value ELSE <<Dollar>> \o value

Replace(s, kind, key, value) ==
  FlattenSeq([i \in DOMAIN s |->
    IF s[i][1] \in Holding(kind) /\ s[i][2] = key THEN Filled(s[i], kind, value) ELSE <<s[i]>>])

\* The references of one kind, of one key of a list after another.
Replaced(s, kind, list) ==
  LET upTo[n \in 0..Len(list)] ==
        IF n = 0 THEN s ELSE Replace(upTo[n - 1], kind, list[n].key, list[n].value)
  IN  upTo[Len(list)]

(***************************************************************************)
(* --subst, whose value may be a reference to a place, and the lines of    *)
(* the two status files, the stable one first.                             *)
(***************************************************************************)
Places_ == {"pwd", "output_base", "exec_root"}

Substitution(arg) ==
  LET pair == SplitOnce(arg, Equals)
      places == {p \in Places_ : pair[2] = <<Ref(p)>>}
  IN  [key |-> pair[1][1][2],
       value |-> IF places = {} THEN pair[2] ELSE <<Place(CHOOSE p \in places : TRUE)>>]

Substitutions(flags) ==
  [i \in DOMAIN Given(flags, "--subst") |-> Substitution(Given(flags, "--subst")[i])]

StatusFiles(flags) == Given(flags, "--stable-status-file") \o Given(flags, "--volatile-status-file")
Statuses(flags) ==
  LET lines == ReadAll(StatusFiles(flags))
  IN  [i \in DOMAIN lines |-> [key |-> SplitOnce(lines[i], Space)[1][1][2],
                               value |-> SplitOnce(lines[i], Space)[2]]]
------------------------------------------------------------------------------
(***************************************************************************)
(* env_from_files and environment_block.  Of the values of a variable the  *)
(* last one counts, and no file counts less than the wrapper's own         *)
(* environment.                                                            *)
(***************************************************************************)
\* Mutant: a variable that is set already stays as it is.
EnvFromFilesFirst(flags) ==
  LET lines == ReadAll(Given(flags, "--env-file"))
      env[n \in 0..Len(lines)] ==
        IF n = 0 THEN ProcessEnv
        ELSE LET pair == SplitOnce(lines[n], Equals)
             IN  [x \in DOMAIN env[n - 1] \union {pair[1]} |->
                    IF x \in DOMAIN env[n - 1] THEN env[n - 1][x] ELSE pair[2]]
  IN  env[Len(lines)]

EnvFromFiles(flags) ==
  LET lines == ReadAll(Given(flags, "--env-file"))
      env[n \in 0..Len(lines)] ==
        IF n = 0 THEN ProcessEnv
        ELSE LET pair == SplitOnce(lines[n], Equals)
             IN  [x \in DOMAIN env[n - 1] \union {pair[1]} |-> IF x = pair[1] THEN pair[2] ELSE env[n - 1][x]]
  IN  env[Len(lines)]

EnvironmentBlock(flags) ==
  LET env == EnvFromFiles(flags)
      stamped(value) == Replaced(value, "status", Statuses(flags))
  IN  [x \in DOMAIN env |-> Replaced(stamped(env[x]), "ref", Substitutions(flags))]
------------------------------------------------------------------------------
(***************************************************************************)
(* prepare_args.  @file in an argument, itself subject to substitution,    *)
(* becomes @file.expanded, which holds the lines of the file, substituted, *)
(* and those of the files its lines name.                                  *)
(***************************************************************************)
AllowFeatures == Text("-Zallow-features=")
IsAllowFeaturesFlag(arg) == arg # <<>> /\ Head(arg) \in {AllowFeatures, Text("allow-features=")}
IsParamFile(arg) == arg # <<>> /\ Head(arg) = At

PrepareArg(arg, substitutions) == Replaced(arg, "ref", substitutions)

Unread(path) == [path |-> path, ok |-> FALSE, lines |-> <<>>]

\* Mutant: what a file says is taken as it is.
PrepareParamFileVerbatim(path, substitutions) ==
  IF path \in DOMAIN Files THEN [path |-> path, ok |-> TRUE, lines |-> Lines[path]] ELSE Unread(path)

\* Reading goes as deep as there are files; where files name each other in a
\* circle it has no end, and the wrapper dies of it.
PrepareParamFile(path, substitutions) ==
  LET line(arg) == PrepareArg(arg, substitutions)
      named(file) == {Tail(a) : a \in {a \in {line(arg) : arg \in ToSet(Lines[file])} : IsParamFile(a)}}
      process[n \in 0..Cardinality(DOMAIN Files)] ==
        [file \in DOMAIN Files |->
           IF n > 0 /\ named(file) \subseteq DOMAIN Files /\ \A f \in named(file) : process[n - 1][f].ok
           THEN [path |-> path, ok |-> TRUE,
                 lines |-> FlattenSeq([i \in DOMAIN Lines[file] |->
                             LET arg == line(Lines[file][i])
                             IN  IF IsParamFile(arg) THEN process[n - 1][Tail(arg)].lines ELSE <<arg>>])]
           ELSE Unread(path)]
  IN  IF path \in DOMAIN Files THEN process[Cardinality(DOMAIN Files)][path] ELSE Unread(path)

Expanded(path) == Append(path, Text(".expanded"))

\* Mutant: only the command line is searched for the flag.
AllowedFeaturesTop(prepared, files) == \E i \in DOMAIN prepared : IsAllowFeaturesFlag(prepared[i])

AllowedFeatures(prepared, files) ==
  \/ \E i \in DOMAIN prepared : IsAllowFeaturesFlag(prepared[i])
  \/ \E file \in files : \E i \in DOMAIN file.lines : IsAllowFeaturesFlag(file.lines[i])

(***************************************************************************)
(* args are the child's arguments, written the files made for it to read.  *)
(***************************************************************************)
PrepareArgs(args, flags) ==
  LET substitutions == Substitutions(flags)
      prepared == [i \in DOMAIN args |-> PrepareArg(args[i], substitutions)]
      named == {Tail(arg) : arg \in {a \in ToSet(prepared) : IsParamFile(a)}}
      files == {PrepareParamFile(path, substitutions) : path \in named}
      final(arg) == IF IsParamFile(arg) THEN <<At>> \o Expanded(Tail(arg)) ELSE arg
      gate == IsTrue(flags, "--require-explicit-unstable-features") /\ ~AllowedFeatures(prepared, files)
  IN  [ok |-> \A file \in files : file.ok,
       args |-> [i \in DOMAIN prepared |-> final(prepared[i])]
                  \o (IF gate THEN << <<AllowFeatures>> >> ELSE <<>>),
       written |-> {[path |-> Expanded(file.path), lines |-> file.lines] : file \in files}]
------------------------------------------------------------------------------
(***************************************************************************)
(* The command, and what options() refuses, panics in reading the status   *)
(* files included.  Without anything to run the flag that gates features,  *)
(* if asked for, is taken for the program.                                 *)
(***************************************************************************)
Prepared(flags, args) == PrepareArgs(args \o ReadAll(Given(flags, "--arg-file")), flags)

Command(flags, args) ==
  LET prepared == Prepared(flags, args)
  IN  [args |-> prepared.args, env |-> EnvironmentBlock(flags), written |-> prepared.written]

Unusable(flags, args) ==
  LET copy == Given(flags, "--copy-output")
      splits(lines, token) == \A i \in DOMAIN lines : token \in ToSet(lines[i])
      readable(paths) == ToSet(paths) \subseteq DOMAIN Files
  IN  \/ ~splits(Given(flags, "--subst"), Equals)
      \/ ~readable(StatusFiles(flags) \o Given(flags, "--env-file") \o Given(flags, "--arg-file"))
      \/ ~splits(ReadAll(StatusFiles(flags)), Space)
      \/ ~splits(ReadAll(Given(flags, "--env-file")), Equals)
      \/ "--copy-output" \in DOMAIN flags /\ (Len(copy) # 2 \/ copy[1] = copy[2])
      \/ ToSet(Given(flags, "--rustc-output-format")) \ {<<Text("json")>>, <<Text("rendered")>>} # {}
      \/ ~Prepared(flags, args).ok
      \/ Prepared(flags, args).args = <<>>
=============================================================================
