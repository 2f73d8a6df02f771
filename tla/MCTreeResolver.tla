---------------------------- MODULE MCTreeResolver ----------------------------
(***************************************************************************)
(* A workspace of one or two members over a library, a macro and what the  *)
(* macro is made of, resolved for Linux under two names, a Mac, and a      *)
(* platform that no compiler runs on.                                      *)
(***************************************************************************)
EXTENDS TreeResolver

MCCrate == {"app", "lib", "macro", "syn", "sys", "fake"}
MCFeature == {"h", "t", "linux", "std"}
MCPlatform == {"linux", "mac", "wasm"}
MCTriple == {"linux", "nixos", "mac", "wasm"}
MCCargoOf == [t \in MCTriple |-> IF t = "nixos" THEN "linux" ELSE t]

E(from, to, kind, on) == [from |-> from, to |-> to, kind |-> kind, on |-> on]

\* What a crate is built with tells its side and its platform.
Features(side, platform) ==
  {"std", IF side = "host" THEN "h" ELSE "t"}
    \union (IF platform = "linux" THEN {"linux"} ELSE {})
MCFeatures ==
  [c \in MCCrate |-> [side \in {"host", "target"} |-> [p \in MCPlatform |->
     IF c = "sys" THEN {} ELSE Features(side, p)]]]

Graph(first, second, third, fourth, uses) ==
  [roots |-> <<"app">>, procMacros |-> {"macro"}, features |-> MCFeatures, virtual |-> FALSE,
   edges |-> <<E("app", "lib", first, MCPlatform), E("app", "syn", second, MCPlatform),
               E("lib", "macro", "normal", uses), E("macro", "syn", "normal", MCPlatform),
               E("lib", "syn", third, {"linux", "wasm"}), E("syn", "sys", fourth, {"mac"})>>]

Graphs ==
  {Graph(first, second, third, fourth, uses) :
     first \in Kind, second \in Kind, third \in {"normal", "build"},
     fourth \in {"normal", "build"}, uses \in {{}, {"linux"}, {"wasm"}, MCPlatform}}

Workspaces ==
  {[g EXCEPT !.roots = <<"app", "lib">>, !.virtual = TRUE] : g \in Graphs}

\* The same with the macro a member of the workspace.
Members == {[g EXCEPT !.roots = <<"app", "macro">>] : g \in Graphs}

MCRequests ==
  [workspace : Graphs \union Members, triples : {{"linux", "nixos", "mac"}}, ends : {{"done"}}]
    \union [workspace : Workspaces, triples : {{"linux", "wasm"}}, ends : {{"done"}}]
    \union [workspace : {Graph("normal", "build", "normal", "build", {"linux"})},
            triples : {MCTriple, {"wasm"}, {"linux", "nixos"}},
            ends : {{"done", "nonzero", "error"}}]
=============================================================================
