-------------------------- MODULE MCPipelinedBuild --------------------------
(***************************************************************************)
(* The workspaces TLC builds.  Targets are numbered; a target depends on   *)
(* lower numbers only, as Bazel rejects cycles.  1 is a library, 2 and 3   *)
(* are libraries or macros, 4 may be anything.                             *)
(***************************************************************************)
EXTENDS PipelinedBuild, Naturals

MCTarget == 1..4

Numbered(one, two, three, four) ==
  [c \in MCTarget |->
     CASE c = 1 -> one [] c = 2 -> two [] c = 3 -> three [] OTHER -> four]

Graphs ==
  {Numbered({}, two, three, four) :
     two \in SUBSET {1}, three \in SUBSET {1, 2}, four \in (SUBSET {1, 2, 3}) \ {{}}}

Chain == Numbered({}, {1}, {2}, {3})
Diamond == Numbered({}, {1}, {1}, {2, 3})
Dense == Numbered({}, {1}, {1, 2}, {1, 2, 3})
Fork == Numbered({}, {}, {1, 2}, {3})

Kinds(last) ==
  {Numbered("library", two, three, four) :
     two \in {"library", "macro"}, three \in {"library", "macro"}, four \in last}

Nobody == [c \in MCTarget |-> {}]

Workspaces(kinds, graphs) ==
  {[kind |-> kind, deps |-> deps, crate |-> Nobody,
    disabled |-> {}, unwrapped |-> {}, ccLink |-> {}, allDirect |-> {},
    broken |-> [c \in MCTarget |-> "never"],
    pipelined |-> TRUE, always |-> FALSE, windows |-> FALSE] :
     kind \in kinds, deps \in graphs}

Few == Workspaces(Kinds({"library", "binary"}), {Chain, Diamond, Dense, Fork})

Broken ==
  {[b EXCEPT !.broken[c] = how] :
     b \in Few, c \in {1, 2, 3}, how \in {"check", "codegen"}}

\* Both flags, libraries that opt out or are built without the wrapper.
Flags ==
  {[b EXCEPT !.pipelined = pipelined, !.always = always, !.disabled = outside.disabled,
             !.unwrapped = outside.unwrapped, !.allDirect = {3, 4}] :
     b \in Few, pipelined \in BOOLEAN, always \in BOOLEAN,
     outside \in {[disabled |-> {}, unwrapped |-> {}], [disabled |-> {1}, unwrapped |-> {}],
                  [disabled |-> {}, unwrapped |-> {1}]}}

\* The other rules: a test of 3, a shared library, linking through C++.
Rules ==
  {[b EXCEPT !.kind[4] = "test", !.crate[4] = {3}] : b \in Few}
    \union {[b EXCEPT !.kind[4] = "shared", !.ccLink = {4}] : b \in Few}

MCBuilds ==
  Few \union Workspaces(Kinds({"binary"}), Graphs) \union Broken \union Flags \union Rules
=============================================================================
