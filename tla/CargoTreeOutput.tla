--------------------------- MODULE CargoTreeOutput ---------------------------
(***************************************************************************)
(* What `cargo tree` prints and what parse_cargo_tree_output makes of it   *)
(* (crate_universe/src/metadata/cargo_tree_resolver.rs).                   *)
(*                                                                         *)
(* A workspace is the part of Cargo's resolution the tree shows: crates,   *)
(* which of them are procedural macros, dependencies by kind with the      *)
(* platforms they are active on, and the features each crate is built      *)
(* with on a platform as a host crate (build scripts, macros and all they  *)
(* depend on) or as a target crate.                                        *)
(***************************************************************************)
EXTENDS Naturals, Sequences, FiniteSets, SequencesExt

CONSTANTS Crate, Feature, Platform

Side == {"host", "target"}
Kind == {"normal", "build", "dev"}
Edge == [from : Crate, to : Crate, kind : Kind, on : SUBSET Platform]
Workspace ==
  [roots : Seq(Crate), procMacros : SUBSET Crate, edges : Seq(Edge),
   features : [Crate -> [Side -> [Platform -> SUBSET Feature]]],
   virtual : BOOLEAN]

Node == Side \X Crate
Entry == [known : BOOLEAN, features : SUBSET Feature, deps : SUBSET Crate]
Unknown == [known |-> FALSE, features |-> {}, deps |-> {}]
NoEntries == [n \in Node |-> Unknown]
------------------------------------------------------------------------------
(***************************************************************************)
(* Cargo's tree.  A crate is a host crate below another host crate, as a   *)
(* build dependency or as a procedural macro; its dependencies are those   *)
(* active on its side's platform, development dependencies counting for    *)
(* workspace members only.                                                 *)
(***************************************************************************)
SideOf(w, parent, edge) ==
  IF parent = "host" \/ edge.kind = "build" \/ edge.to \in w.procMacros
  THEN "host" ELSE "target"

Platforms(host, target) == [side \in Side |-> IF side = "host" THEN host ELSE target]

RootNode(w, c) == <<IF c \in w.procMacros THEN "host" ELSE "target", c>>

Active(w, node, platform, e) ==
  /\ e.from = node[2]
  /\ platform \in e.on
  /\ e.kind = "dev" => Contains(w.roots, node[2])

EdgesOf(w, node, platforms, kind) ==
  SetToSeq({e \in ToSet(w.edges) : e.kind = kind /\ Active(w, node, platforms[node[1]], e)})

Child(w, node, edge) == <<SideOf(w, node[1], edge), edge.to>>

(***************************************************************************)
(* The lines: a crate with its depth, or the marker in front of a crate's  *)
(* build or development dependencies, indented like the crate.  A crate    *)
(* that was printed on this side is printed again without what is below.   *)
(***************************************************************************)
CrateLine(w, node, platforms, depth) ==
  [is |-> "crate", depth |-> depth, crate |-> node[2],
   procMacro |-> node[2] \in w.procMacros,
   features |-> w.features[node[2]][node[1]][platforms[node[1]]]]
Marker(kind, depth) == [is |-> kind, depth |-> depth]

Line ==
  [is : {"crate"}, depth : Nat, crate : Crate, procMacro : BOOLEAN, features : SUBSET Feature]
    \union [is : {"build", "dev"}, depth : Nat]

(***************************************************************************)
(* What is still to be printed: a crate as a dependency of some kind of    *)
(* its parent, or a marker for a kind.                                     *)
(***************************************************************************)
Item == [is : {"crate", "build", "dev"}, kind : Kind, parent : Node, node : Node, depth : Nat]

LineOf(w, platforms, item) ==
  IF item.is = "crate" THEN CrateLine(w, item.node, platforms, item.depth)
  ELSE Marker(item.kind, item.depth - 1)

Children(w, node, platforms, kind, depth) ==
  LET edges == EdgesOf(w, node, platforms, kind)
  IN  [i \in DOMAIN edges |-> [is |-> "crate", kind |-> kind, parent |-> node,
                               node |-> Child(w, node, edges[i]), depth |-> depth]]

Section(w, node, platforms, kind, depth) ==
  LET children == Children(w, node, platforms, kind, depth)
  IN  IF kind = "normal" \/ children = <<>> THEN children
      ELSE << [is |-> kind, kind |-> kind, parent |-> node, node |-> node, depth |-> depth] >>
             \o children

Sections(w, node, platforms, depth) ==
  Section(w, node, platforms, "normal", depth) \o Section(w, node, platforms, "build", depth)
    \o Section(w, node, platforms, "dev", depth)

Root(w, c) ==
  [is |-> "crate", kind |-> "normal", parent |-> RootNode(w, c), node |-> RootNode(w, c),
   depth |-> 0]

PrintNext(w, platforms, print) ==
  LET item == Head(print.todo)
      new == item.is = "crate" /\ item.node \notin print.seen
  IN  IF print.todo = <<>> THEN print
      ELSE [todo |-> (IF new THEN Sections(w, item.node, platforms, item.depth + 1) ELSE <<>>)
                        \o Tail(print.todo),
            seen |-> IF new THEN print.seen \union {item.node} ELSE print.seen,
            lines |-> Append(print.lines, LineOf(w, platforms, item))]

PrintStart(w) == [todo |-> [i \in DOMAIN w.roots |-> Root(w, w.roots[i])], seen |-> {}, lines |-> <<>>]

\* As many lines as there can be: below a crate there are its dependencies and two markers.
LinesBound(w) == Len(w.roots) + Cardinality(Node) * (Len(w.edges) + 2)

Printed(w, platforms) ==
  LET printed[n \in 0..LinesBound(w)] ==
        IF n = 0 THEN PrintStart(w) ELSE PrintNext(w, platforms, printed[n - 1])
  IN  printed[LinesBound(w)]

CargoTree(w, host, target) == Printed(w, Platforms(host, target)).lines
------------------------------------------------------------------------------
(***************************************************************************)
(* The parser: a stack of the crates above the line, each with whether it  *)
(* is a host dependency and whether its build dependencies are being       *)
(* listed.  A line or marker that has no parent where it needs one is an   *)
(* error.                                                                  *)
(***************************************************************************)
Cut(parents, length) ==
  IF Len(parents) > length THEN SubSeq(parents, 1, length) ELSE parents

\* Mutant: the divider is taken for that of the crate above.
MarkGrandparent(state, line) ==
  LET parents == Cut(state.parents, line.depth)
  IN  IF parents = <<>> THEN state
      ELSE [state EXCEPT !.parents = [parents EXCEPT ![Len(parents)].building = (line.is = "build")]]

MarkSection(state, line) ==
  LET parents == Cut(state.parents, line.depth + 1)
  IN  IF parents = <<>> THEN [state EXCEPT !.error = TRUE]
      ELSE [state EXCEPT !.parents =
              [parents EXCEPT ![Len(parents)].building = (line.is = "build")]]

Extended(entries, node, features, deps) ==
  [entries EXCEPT ![node] = [known |-> TRUE, features |-> @.features \union features,
                             deps |-> @.deps \union deps]]

SideIf(isHost) == IF isHost THEN "host" ELSE "target"

AddCrate(state, line) ==
  LET parents == Cut(state.parents, line.depth)
      parent == Last(parents)
      isRoot == parents = <<>>
      host == \/ line.procMacro
              \/ ~isRoot /\ (parent.host \/ parent.building)
      attributed ==
        IF isRoot THEN state.entries
        ELSE Extended(state.entries, <<SideIf(parent.host), parent.crate>>, {}, {line.crate})
  IN  IF Len(parents) # line.depth THEN [state EXCEPT !.error = TRUE]
      ELSE [state EXCEPT
              !.parents = Append(parents, [crate |-> line.crate, host |-> host, building |-> FALSE]),
              !.entries = Extended(attributed, <<SideIf(host), line.crate>>, line.features, {})]

ParseLine(state, line) ==
  IF state.error THEN state
  ELSE IF line.is = "crate" THEN AddCrate(state, line) ELSE MarkSection(state, line)

NothingParsed == [parents |-> <<>>, entries |-> NoEntries, error |-> FALSE]

Parse(lines) ==
  LET parsed[n \in 0..Len(lines)] ==
        IF n = 0 THEN NothingParsed ELSE ParseLine(parsed[n - 1], lines[n])
  IN  parsed[Len(lines)]
------------------------------------------------------------------------------
(***************************************************************************)
(* The reference: what Cargo resolved, read off the graph.                 *)
(***************************************************************************)
ActiveEdges(w, node, platform) == {e \in ToSet(w.edges) : Active(w, node, platform, e)}
DepsOf(w, node, platform) == {e.to : e \in ActiveEdges(w, node, platform)}

Below(w, platforms, nodes) ==
  UNION {{Child(w, n, e) : e \in ActiveEdges(w, n, platforms[n[1]])} : n \in nodes}

WithBelow(w, platforms, nodes) == nodes \union Below(w, platforms, nodes)

Built(w, platforms) ==
  LET reached[n \in 0..Cardinality(Node)] ==
        IF n = 0 THEN {RootNode(w, c) : c \in ToSet(w.roots)}
        ELSE WithBelow(w, platforms, reached[n - 1])
  IN  reached[Cardinality(Node)]

\* What is to be known of each crate on each side.
Resolution(w, platforms) ==
  LET built == Built(w, platforms)
  IN  [n \in Node |->
         IF n \in built
         THEN [known |-> TRUE, features |-> w.features[n[2]][n[1]][platforms[n[1]]],
               deps |-> DepsOf(w, n, platforms[n[1]])]
         ELSE Unknown]
=============================================================================
