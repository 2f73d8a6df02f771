---------------------------- MODULE FastpathLeast ----------------------------
(***************************************************************************)
(* The other half of what FastpathSolver computes: FastpathSolver says the *)
(* result is closed, this module that it is the least closed one.  It      *)
(* stands apart because TLC evaluates the constant Forced, which ranges    *)
(* over all assignments, in every run of a module that has it.             *)
(***************************************************************************)
EXTENDS FastpathSolver

CONSTANT Compared  \* the graphs whose assignments are enumerated

(***************************************************************************)
(* The features no closed assignment can do without: the least one.  A     *)
(* constant, so that TLC computes it once.                                 *)
(***************************************************************************)
Forced ==
  [g \in {h \in Compared : FeatureFree(h)} |-> [t \in Triple |->
     LET seed == [p \in Package |-> Seed(g, t, p)]
         closed == {A \in Assignment : /\ \A p \in Package : seed[p] \subseteq A[p]
                                       /\ RulesHold(g, t, A)} IN
     [p \in Package |-> {f \in Feature : \A A \in closed : f \in A[p]}]]]

(***************************************************************************)
(* The solver never enables a feature that is not forced: at every step,   *)
(* in whatever order the tables were applied, the features lie within      *)
(* every closed assignment.  A feature enabled for the wrong triple,       *)
(* package or reason lands outside one of them.                            *)
(***************************************************************************)
Least ==
  FeatureFree(graph) /\ graph \in Compared =>
    \A t \in Triple : \A p \in Package : features[t][p] \subseteq Forced[graph][t][p]
=============================================================================
