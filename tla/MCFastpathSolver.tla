--------------------------- MODULE MCFastpathSolver --------------------------
(***************************************************************************)
(* Small dependency graphs for FastpathSolver: a workspace member, a       *)
(* middle crate with a feature table and an optional dependency x, and a   *)
(* leaf crate, placed in the solver's list in each order, with the tables  *)
(* and targets varied.                                                     *)
(***************************************************************************)
EXTENDS FastpathSolver, TLC

MCN == 3
MCTriple == {"linux", "windows"}
MCFeature == {"default", "std", "x", "dep:x"}
MCNoDep == "-"

Plain(f) == [dep |-> MCNoDep, feature |-> f, weak |-> FALSE]
Strong(d, f) == [dep |-> d, feature |-> f, weak |-> FALSE]
Weak(d, f) == [dep |-> d, feature |-> f, weak |-> TRUE]

(* A target that matches the triples T, whatever the features. *)
On(T) == [t \in MCTriple |-> IF t \in T THEN {Always} ELSE {}]
(* cfg(any(<one of T>, feature = f)) *)
OnOrFeature(T, f) ==
  [t \in MCTriple |->
     IF t \in T THEN {Always} ELSE {[has |-> {f}, lacks |-> {}]}]

(* All dependencies are called x; q = 0 is a crate Cargo.lock does not hold. *)
Dep(q, optional, kind, passes, cfg) ==
  [name |-> "x", switches |-> {"x", "dep:x"}, optional |-> optional,
   kind |-> kind, to |-> q, lockTo |-> q, bare |-> q = 0,
   features |-> passes, cfg |-> cfg]

Table(default, std) ==
  [f \in MCFeature |->
     CASE f = "default" -> default [] f = "std" -> std [] OTHER -> {}]
Empty == Table({}, {})

(***************************************************************************)
(* member, middle and leaf are the packages' places in the list; entries   *)
(* are the middle crate's dependency entries.  The member passes only      *)
(* "default" on; the leaf may hold a table of its own.                     *)
(***************************************************************************)
Place(member, middle, leaf, table, entries, leafTable, memberCfg) ==
  [enables |-> [p \in 1..3 |-> CASE p = middle -> table
                                 [] p = leaf -> leafTable
                                 [] OTHER -> Empty],
   deps |-> [p \in 1..3 |-> CASE p = member -> <<Dep(middle, FALSE, "normal", {"default"}, memberCfg)>>
                              [] p = middle -> entries
                              [] OTHER -> <<>>],
   members |-> {member},
   dev |-> [p \in 1..3 |-> IF p = member
                           THEN <<Dep(leaf, FALSE, "normal", {"std"}, On({"windows"}))>>
                           ELSE <<>>],
   annotated |-> [p \in 1..3 |-> {}]]

Orders == {<<1, 2, 3>>, <<3, 2, 1>>, <<2, 1, 3>>}

Tables ==
  {Table(default, std) :
     default \in {{Plain("std")}, {Strong("x", "std")},
                  {Plain("std"), Weak("x", "std")}, {Plain("dep:x"), Weak("x", "std")}},
     std \in {{Strong("x", "default")}, {Plain("x")}, {}}}

(* An optional entry, on one triple or both, alone or before a build entry of the same name. *)
Entries(leaf) ==
  {<<Dep(leaf, TRUE, "normal", {"default"}, On(MCTriple))>>,
   <<Dep(leaf, TRUE, "normal", {}, On({"linux"})),
     Dep(leaf, FALSE, "build", {"default"}, On(MCTriple))>>}

FeatureFreeGraphs ==
  UNION {{Place(o[1], o[2], o[3], table, entries, leafTable, memberCfg) :
            table \in Tables, entries \in Entries(o[3]),
            leafTable \in {Table({Plain("std")}, {})},
            memberCfg \in {On(MCTriple), On({"linux"})}} : o \in Orders}

(* Few enough for the enumeration of all assignments. *)
LeastGraphs ==
  UNION {{Place(o[1], o[2], o[3], table, entries, Table({Plain("std")}, {}),
                On({"linux"})) :
            table \in {Table({Plain("std"), Weak("x", "std")}, {Strong("x", "default")}),
                      Table({Plain("dep:x"), Weak("x", "std")}, {}),
                      Table({Weak("x", "std")}, {Plain("x")})},
            entries \in Entries(o[3])} : o \in Orders}

(* x is also wanted where the crate's own std feature is on. *)
SensitiveGraphs ==
  UNION {{Place(o[1], o[2], o[3], table, <<entry>>, Empty, On(MCTriple)) :
            table \in Tables,
            entry \in {Dep(o[3], optional, "normal", {"default"}, OnOrFeature(T, "std")) :
                         optional \in BOOLEAN, T \in {{}, {"linux"}}}} : o \in Orders}

(***************************************************************************)
(* A crate later in the list asks crate 1 for its std feature, on windows  *)
(* or on both triples.  Crate 1 learns of it after the round that scanned  *)
(* its entry for crate 2, whose target is any(linux, feature = "std").     *)
(***************************************************************************)
LateFeatureGraphs ==
  {[Place(3, 1, 2, Empty,
          <<Dep(2, FALSE, "normal", {"std"}, OnOrFeature({"linux"}, "std"))>>,
          Empty, On(MCTriple))
     EXCEPT !.deps[3] = <<Dep(1, FALSE, "build", {"std"}, On(T))>>,
            !.members = {}, !.annotated[2] = F] :
     T \in {{"windows"}, MCTriple}, F \in SUBSET {"std", "default"}}

(* "x?/std" where x is an optional crate that Cargo.lock does not hold. *)
UnlockedGraphs ==
  {Place(o[1], o[2], o[3], Table({Plain("std")}, {Weak("x", "std")}),
         <<Dep(0, TRUE, "normal", {"default"}, On({}))>>, Empty, On(MCTriple)) :
     o \in Orders}

(* Targets with feature predicates, and entries Cargo.lock does not hold. *)
IrregularGraphs == SensitiveGraphs \cup UnlockedGraphs
=============================================================================
