----------------------------- MODULE LaunchJson -----------------------------
(***************************************************************************)
(* The tool that writes VSCode's launch.json for the binaries and tests of *)
(* a workspace (tools/vscode), beside the configurations that the user     *)
(* wrote into that file.  The user edits the file and the workspace        *)
(* between runs of the tool, and may stop it at any step.                  *)
(*                                                                         *)
(* The name of a configuration is a sequence of characters; the text that  *)
(* the tool's own names begin with is one of them.                         *)
(***************************************************************************)
EXTENDS Label

CONSTANTS
  Scenarios, \* families: what the workspace and the file are, and what may become of them
  MaxRuns    \* how often the tool is run

VARIABLES
  binaries, tests, \* the labels of the workspace's targets
  edits,   \* what the user may still do
  launchJson,    \* launch.json
  mode,    \* how the tool is run: merge, replace or dry_run
  step,    \* what the tool does next
  found,   \* the targets it found
  read,    \* the file it read
  data,    \* launch_data
  count    \* how often the tool was run

\* In a name, the text that the tool's own names begin with counts as one character.
DebugPrefix == "Debug "
Characters == STRING \union {DebugPrefix}

\* The file is no JSON, JSON without a list of configurations, or a list of named ones;
\* there are finitely many targets, under labels that the tool can parse.
FileOK(f) ==
  /\ f.kind \in {"none", "json", "broken", "bare"} /\ (f.kind # "json" => f.configurations = <<>>)
  /\ f.configurations \in Seq([name : Seq(Characters), env : Seq(Characters), by : {"tool", "user"}])
RulesOK(labels) == IsFiniteSet(labels) /\ \A l \in labels : l \in Seq(Characters) /\ Analyze(l).ok
EditOK(edit) ==
  \/ edit.kind = "file" /\ FileOK(edit.file)
  \/ edit.kind = "rules" /\ RulesOK(edit.binaries) /\ RulesOK(edit.tests)

ScenariosOK ==
  /\ MaxRuns \in Nat
  /\ \A s \in Scenarios : RulesOK(s.binaries) /\ RulesOK(s.tests) /\ FileOK(s.file)
                        /\ \A e \in s.edits : EditOK(e)

ASSUME ScenariosAssumption == ScenariosOK

vscodeVars == <<binaries, tests, edits, launchJson, mode, step, found, read, data, count>>

NameOf(label) == <<DebugPrefix>> \o label
Configuration(name, env, by) == [name |-> name, env |-> env, by |-> by]

NoFile == [kind |-> "none", configurations |-> <<>>]
Json(configurations) == [kind |-> "json", configurations |-> configurations]
\* What a write leaves that was cut off, or a file that is not JSON; and a file without the list.
Broken == [kind |-> "broken", configurations |-> <<>>]
Bare == [kind |-> "bare", configurations |-> <<>>]
------------------------------------------------------------------------------
\* generate_launch_config: tests get an environment.
Generate(target) == Configuration(NameOf(target.label), IF target.test THEN target.label ELSE <<>>, "tool")

\* extract_debug_label
HasLabel(configuration) == configuration.name # <<>> /\ Head(configuration.name) = DebugPrefix
LabelOf(configuration) == Tail(configuration.name)

\* Mutant: every configuration that debugs a label is taken for the tool's.
ReplacesAny(configuration, generated) == HasLabel(configuration) /\ Analyze(LabelOf(configuration)).ok

\* Mutant: labels of other repositories are not recognised.
ReplacesMain(configuration, generated) ==
  /\ HasLabel(configuration)
  /\ Analyze(LabelOf(configuration)).ok /\ Analyze(LabelOf(configuration)).repo = <<>>
  /\ LabelOf(configuration) \in generated

\* filter_existing_configurations
Replaces(configuration, generated) ==
  /\ HasLabel(configuration)
  /\ Analyze(LabelOf(configuration)).ok
  /\ LabelOf(configuration) \in generated

\* retain: the configurations but some, in their order.
Without(configurations, some) ==
  LET upTo[n \in 0..Len(configurations)] ==
        IF n = 0 THEN <<>>
        ELSE IF configurations[n] \in some THEN upTo[n - 1] ELSE Append(upTo[n - 1], configurations[n])
  IN  upTo[Len(configurations)]

\* merge_launch_configs, with what was read: a file without the list stays as it is.
MergeConfigs(configs, existing) ==
  LET generated == {LabelOf(configs[n]) : n \in DOMAIN configs}
      replaced  == {c \in ToSet(existing.configurations) : Replaces(c, generated)}
  IN  IF existing.kind = "bare" THEN existing
      ELSE Json(Without(existing.configurations, replaced) \o configs)

Targets(set, test) == [n \in 1..Cardinality(set) |-> [label |-> SetToSeq(set)[n], test |-> test]]
------------------------------------------------------------------------------
Ends == {"idle", "done", "failed", "killed"}

VscodeTypeOK ==
  /\ step \in Ends \union {"query_tests", "generate", "write"}
  /\ mode \in {"merge", "replace", "dry_run"}
  /\ count \in 0..MaxRuns
  /\ FileOK(launchJson) /\ FileOK(read)
  /\ step = "write" => data.kind \in {"json", "bare"} /\ read.kind # "broken"

VscodeInit ==
  /\ \E scenario \in Scenarios :
       /\ binaries = scenario.binaries /\ tests = scenario.tests
       /\ launchJson = scenario.file /\ edits = scenario.edits
  /\ mode = "merge" /\ step = "idle" /\ found = <<>> /\ read = NoFile /\ data = NoFile /\ count = 0

\* The user saves the file, or changes the workspace.
Edit ==
  /\ \E edit \in edits :
       /\ edits' = edits \ {edit}
       /\ \/ edit.kind = "file" /\ launchJson' = edit.file /\ UNCHANGED <<binaries, tests>>
          \/ edit.kind = "rules" /\ binaries' = edit.binaries /\ tests' = edit.tests /\ UNCHANGED launchJson
  /\ UNCHANGED <<mode, step, found, read, data, count>>

VscodeFails == step' = "failed" /\ UNCHANGED <<launchJson, read, data>>

\* main, and the first query of find_rust_targets.
QueryBinaries ==
  /\ step \in Ends /\ count < MaxRuns
  /\ count' = count + 1
  /\ mode' \in {"merge", "replace", "dry_run"}
  /\ \/ VscodeFails /\ UNCHANGED found
     \/ step' = "query_tests" /\ found' = Targets(binaries, FALSE) /\ read' = NoFile /\ data' = NoFile /\ UNCHANGED launchJson
  /\ UNCHANGED <<binaries, tests, edits>>

\* The second query; "No valid Rust targets found".
QueryTests ==
  /\ step = "query_tests"
  /\ \/ VscodeFails /\ UNCHANGED found
     \/ found' = found \o Targets(tests, TRUE) /\ step' = "generate" /\ UNCHANGED <<launchJson, read, data>>
  /\ UNCHANGED <<binaries, tests, edits, mode, count>>

\* Mutant: a file that cannot be parsed counts as none.
GenerateLenient ==
  /\ step = "generate"
  /\ LET configs == [n \in DOMAIN found |-> Generate(found[n])] IN
     IF found = <<>> THEN VscodeFails
     ELSE /\ data' = IF mode = "replace" THEN Json(configs) ELSE MergeConfigs(configs, launchJson)
          /\ read' = IF mode = "replace" THEN NoFile ELSE launchJson
          /\ step' = (IF mode = "dry_run" THEN "done" ELSE "write")
          /\ UNCHANGED launchJson
  /\ UNCHANGED <<binaries, tests, edits, mode, found, count>>

\* The configurations, and with them what the file has, unless it is to be replaced.
GenerateConfigs ==
  /\ step = "generate"
  /\ LET configs == [n \in DOMAIN found |-> Generate(found[n])] IN
     IF found = <<>> \/ (mode # "replace" /\ launchJson.kind = "broken") THEN VscodeFails
     ELSE /\ data' = IF mode = "replace" THEN Json(configs) ELSE MergeConfigs(configs, launchJson)
          /\ read' = IF mode = "replace" THEN NoFile ELSE launchJson
          /\ step' = (IF mode = "dry_run" THEN "done" ELSE "write")
          /\ UNCHANGED launchJson
  /\ UNCHANGED <<binaries, tests, edits, mode, found, count>>

\* write_json_file: the file is cut off and then written.
WriteJson ==
  /\ step = "write"
  /\ \/ launchJson' = Broken /\ step' = "killed"
     \/ launchJson' = data /\ step' = "done"
     \/ step' = "failed" /\ UNCHANGED launchJson
  /\ UNCHANGED <<binaries, tests, edits, mode, found, read, data, count>>

VscodeKilled ==
  /\ step \notin Ends
  /\ step' = "killed"
  /\ UNCHANGED <<binaries, tests, edits, launchJson, mode, found, read, data, count>>

VscodeNext == Edit \/ QueryBinaries \/ QueryTests \/ GenerateConfigs \/ WriteJson \/ VscodeKilled

VscodeSpec == VscodeInit /\ [][VscodeNext]_vscodeVars
------------------------------------------------------------------------------
NamedSo(configurations, name) == {n \in DOMAIN configurations : configurations[n].name = name}
Made == {found[n].label : n \in DOMAIN found}

\* A label that a user wrote into the name of a configuration is read as the grammar
\* has it: a string is accepted when it denotes a label, and then as that one.
\* (Label::analyze)
ParsedByGrammar ==
  \A n \in DOMAIN launchJson.configurations :
    LET c == launchJson.configurations[n] IN
    HasLabel(c) => LET label == Analyze(LabelOf(c))
                   IN  Denotes(LabelOf(c)) = IF label.ok THEN {label} ELSE {}

\* Merging keeps what was in the file when it was read, in its order: only the
\* configurations of the targets that the tool found are taken out.
\* (filter_existing_configurations, merge_launch_configs)
UsersKept ==
  step = "write" /\ mode = "merge" =>
    LET tools == {c \in ToSet(data.configurations) \union ToSet(read.configurations) : c.name \in {NameOf(l) : l \in Made}}
    IN  Without(data.configurations, tools) = Without(read.configurations, tools)

\* However often the tool is run, on a file of its own or of the user's, with targets
\* that turn from binaries into tests: what it writes has one configuration for each
\* target it found, and it is the current one.  Left aside are a file without a list of
\* configurations, to which nothing can be added, and a target that one query has as a
\* binary and the next one as a test.
\* (merge_launch_configs, generate_launch_config, find_rust_targets)
MadeOnce ==
  step = "write" /\ read.kind # "bare" /\ Cardinality(Made) = Len(found) =>
    \A t \in {found[n] : n \in DOMAIN found} :
      /\ Cardinality(NamedSo(data.configurations, NameOf(t.label))) = 1
      /\ \A n \in NamedSo(data.configurations, NameOf(t.label)) : data.configurations[n] = Generate(t)

\* A file the tool cannot read is not written over, and a dry run writes nothing: but
\* for a replacement that was asked for, what the tool does not understand stays.
\* (read_existing_launch_config, main)
NotWrittenOver ==
  [][launchJson' # launchJson /\ edits' = edits =>
       \/ mode = "replace"
       \/ mode = "merge" /\ step = "write" /\ read.kind # "broken"]_vscodeVars

\* Run after run the file has the user's configurations and each target's once, told
\* apart by the labels in their names.
ConfigurationsKept == VscodeTypeOK /\ ParsedByGrammar /\ UsersKept /\ MadeOnce
==============================================================================
