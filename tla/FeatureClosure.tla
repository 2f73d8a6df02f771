--------------------------- MODULE FeatureClosure ---------------------------
(***************************************************************************)
(* What feature resolution promises, with no worklist, no rounds and no    *)
(* order: starting from the seeds, features appear that some rule derives  *)
(* from those already there, and the result is declared only when no rule  *)
(* derives anything more.                                                  *)
(***************************************************************************)
EXTENDS FeatureGraph

VARIABLES graph, enabled, done

vars == <<graph, enabled, done>>

Init ==
  /\ graph \in Graphs
  /\ enabled = [t \in Triple |-> [p \in Package |-> Seed(graph, t, p)]]
  /\ done = FALSE

(* Some table entry or dependency of package p gives q the feature f. *)
DerivedFrom(p, t, q, f) ==
  \/ \E g \in enabled[t][p] : \E c \in graph.enables[p][g] :
       \/ p = q /\ f \in OwnFeatures(graph, p, c, t, enabled[t][p])
       \/ f \in PassedFeatures(graph, p, c, t, enabled[t][p], q)
  \/ \E i \in DOMAIN graph.deps[p] :
       LET d == graph.deps[p][i] IN
       Active(d, t, enabled[t][p]) /\ d.to = q /\ f \in d.features

Derivable(t, q, f) == \E p \in Package : DerivedFrom(p, t, q, f)

(* A step is given by its result, which the next-state value proposes. *)
Infer ==
  /\ ~done
  /\ \A t \in Triple, q \in Package :
       /\ enabled[t][q] \subseteq enabled'[t][q]
       /\ \A f \in enabled'[t][q] \ enabled[t][q] : Derivable(t, q, f)
  /\ DOMAIN enabled' = Triple
  /\ \A t \in Triple : DOMAIN enabled'[t] = Package
  /\ UNCHANGED <<graph, done>>

Declare ==
  /\ ~done
  /\ \A t \in Triple : Closed(graph, t, enabled[t])
  /\ done' = TRUE
  /\ UNCHANGED <<graph, enabled>>

Next == Infer \/ Declare

Spec == Init /\ [][Next]_vars
=============================================================================
