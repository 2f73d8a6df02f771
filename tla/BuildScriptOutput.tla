-------------------------- MODULE BuildScriptOutput --------------------------
(***************************************************************************)
(* What a build script prints, the files the runner makes of it            *)
(* (cargo_build_script_runner/lib.rs) and what is read back from them: by  *)
(* the process wrapper, for the variables and flags of rustc, and by the   *)
(* runner itself, for the build scripts of dependents.                     *)
(*                                                                         *)
(* A value is known by an identity (id), by whether it names the exec root *)
(* (root: "none", "here" for the path of one's own, "pwd" for the variable *)
(* in its place, "stale" for the path of an action that is over) and by    *)
(* the backslashes it ends in (slashes): these are what the conversions    *)
(* between script, file and reader change.                                 *)
(***************************************************************************)
EXTENDS Naturals, Sequences

Value == [id : Nat, root : {"none", "here", "pwd", "stale"}, slashes : Nat]

(***************************************************************************)
(* The lines of the script: directives by name, dep_env being any          *)
(* cargo:KEY=VALUE the runner does not know, metadata its explicit form;   *)
(* then those it drops, with or without a warning.                         *)
(***************************************************************************)
Kept == {"link_lib", "link_search", "cfg", "flags", "link_arg", "env", "dep_env",
         "metadata"}
Dropped == {"rerun", "warning", "unsupported", "text", "binary"}
Directive == [kind : Kept \union Dropped, value : Value]

\* Those of some kinds, in the order they were printed.
Chosen(lines, kinds) ==
  LET chosen[n \in 0..Len(lines)] ==
        IF n = 0 THEN <<>>
        ELSE IF lines[n].kind \in kinds THEN Append(chosen[n - 1], lines[n]) ELSE chosen[n - 1]
  IN  chosen[Len(lines)]

Outputs(lines) == Chosen(lines, Kept)

\* The values of the outputs of some kinds.
OfKind(outputs, kinds) ==
  LET chosen == Chosen(outputs, kinds) IN [i \in DOMAIN chosen |-> chosen[i].value]

Redact(value) ==
  IF value.root = "here" THEN [value EXCEPT !.root = "pwd"] ELSE value

EscapeForSerializing(value) ==
  IF value.slashes > 0 THEN [value EXCEPT !.slashes = @ + 1] ELSE value

Each(Op(_), values) == [i \in DOMAIN values |-> Op(values[i])]

\* Mutant: the exec root of the build script is written as it is.
SerializeVerbatim(value) == EscapeForSerializing(value)

Serialize(value) == EscapeForSerializing(Redact(value))

OutputsToEnv(outputs) == Each(Serialize, OfKind(outputs, {"env"}))

OutputsToDepEnv(outputs) == Each(Serialize, OfKind(outputs, {"dep_env", "metadata"}))

(***************************************************************************)
(* The flag files.  Compile flags are written as the script gave them,     *)
(* and nothing is escaped.                                                 *)
(***************************************************************************)
CompileFlags(outputs) == OfKind(outputs, {"cfg", "flags", "link_arg"})

LinkFlags(outputs) == Each(Redact, OfKind(outputs, {"link_lib"}))

LinkSearchPaths(outputs) == Each(Redact, OfKind(outputs, {"link_search"}))
------------------------------------------------------------------------------
(***************************************************************************)
(* The process wrapper's reading of such files: two backslashes at the end *)
(* of a line stand for one, an odd one joins the line with the next, and a *)
(* line still open at the end of the file is lost.  A line read is the     *)
(* sequence of the values it was joined from.                              *)
(***************************************************************************)
ReadLineOf(state, value) ==
  LET open == Append(state.open, [value EXCEPT !.slashes = @ \div 2])
  IN  IF value.slashes % 2 = 1
      THEN [done |-> state.done, open |-> open]
      ELSE [done |-> Append(state.done, open), open |-> <<>>]

ReadFileToArray(values) ==
  LET read[n \in 0..Len(values)] ==
        IF n = 0 THEN [done |-> <<>>, open |-> <<>>] ELSE ReadLineOf(read[n - 1], values[n])
  IN  read[Len(values)].done

\* prepare_arg and environment_block put the reader's own exec root in; a
\* path written out is that of the action that wrote it.
Substituted(value) ==
  [value EXCEPT !.root = CASE @ = "pwd" -> "here" [] @ = "here" -> "stale" [] OTHER -> @]

ReadByWrapper(values) ==
  LET lines == ReadFileToArray(values)
  IN  [i \in DOMAIN lines |-> Each(Substituted, lines[i])]

\* run_buildrs of a dependent: lines as they are.
ReadByRunner(values) == Each(Substituted, values)
=============================================================================
