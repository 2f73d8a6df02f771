------------------------ MODULE FastpathSolver_proofs ------------------------
(***************************************************************************)
(* Proofs about the fastpath's feature solver, for every list of packages, *)
(* every set of triples and features and every set of graphs.              *)
(***************************************************************************)
EXTENDS FastpathLeast, TLAPS

-----------------------------------------------------------------------------
(* What GraphAssumption says of the parts of one graph. *)
LEMMA GraphParts ==
  ASSUME NEW g \in Graphs, NEW p \in Package
  PROVE  /\ g.deps[p] \in Seq(Dependency)
         /\ Len(g.deps[p]) \in Nat
         /\ DOMAIN g.deps[p] = 1..Len(g.deps[p])
         /\ \A i \in DOMAIN g.deps[p] : g.deps[p][i] \in Dependency
         /\ \A f \in Feature : g.enables[p][f] \subseteq Clause
<1>1. IsGraph(g)
  BY GraphAssumption
<1>2. g.deps[p] \in Seq(Dependency)
  BY <1>1 DEF IsGraph
<1>3. \A f \in Feature : g.enables[p][f] \subseteq Clause
  BY <1>1 DEF IsGraph
<1>4. QED
  BY <1>2, <1>3

(* The seeds are features. *)
LEMMA SeedType ==
  ASSUME NEW g \in Graphs, NEW t \in Triple, NEW p \in Package
  PROVE  Seed(g, t, p) \subseteq Feature
<1>1. IsGraph(g)
  BY GraphAssumption
<1>2. ASSUME NEW w \in g.members
      PROVE  \A d \in Listed(g, w) : d.features \subseteq Feature
  <2>1. g.deps[w] \in Seq(Dependency) /\ g.dev[w] \in Seq(Dependency)
    BY <1>1, <1>2 DEF IsGraph
  <2>2. Listed(g, w) \subseteq Dependency
    BY <2>1 DEF Listed
  <2>3. QED
    BY <2>2 DEF Dependency
<1>3. g.annotated[p] \subseteq Feature
  BY <1>1 DEF IsGraph
<1>4. QED
  BY <1>2, <1>3 DEF Seed

(* What a clause adds are features. *)
LEMMA ClauseType ==
  ASSUME NEW g, NEW p, NEW c \in Clause, NEW t, NEW F, NEW q
  PROVE  /\ OwnFeatures(g, p, c, t, F) \subseteq Feature
         /\ PassedFeatures(g, p, c, t, F, q) \subseteq Feature
<1>1. c.feature \in Feature /\ c.dep \in Feature \cup {NoDep}
  BY DEF Clause
<1>2. PassedFeatures(g, p, c, t, F, q) \subseteq Feature
  BY <1>1 DEF PassedFeatures
<1>3. CASE c.dep = NoDep
  BY <1>1, <1>2, <1>3 DEF OwnFeatures
<1>4. CASE c.dep # NoDep
  BY <1>1, <1>2, <1>4 DEF OwnFeatures
<1>5. QED
  BY <1>3, <1>4

-----------------------------------------------------------------------------
(***************************************************************************)
(* Type correctness.                                                       *)
(***************************************************************************)
LEMMA InitType == Init => TypeOK
<1> SUFFICES ASSUME Init PROVE TypeOK
  OBVIOUS
<1>1. features \in [Triple -> Assignment]
  BY SeedType DEF Init, Assignment
<1>2. pending \in [Package -> SUBSET Nat]
  <2>1. \A q \in Package : Resolved(graph, q) \subseteq Nat
    BY GraphParts DEF Init, Resolved
  <2>2. QED
    BY <2>1 DEF Init
<1>3. 0 \in 0..MaxRounds /\ 0 < MaxRounds
  BY RoundsAssumption
<1>4. linked \in [Triple -> [Package -> SUBSET Link]]
  BY DEF Init
<1>5. todo \in [Triple -> SUBSET (Feature \X Clause)]
  BY DEF Init
<1>6. \A p \in Package : pending[p] \subseteq Resolved(graph, p)
  BY DEF Init
<1>7. QED
  BY <1>1, <1>2, <1>3, <1>4, <1>5, <1>6 DEF Init, TypeOK

(* The dependency entry under the cursor. *)
LEMMA EntryType ==
  ASSUME TypeOK, pc = "package", depIndex <= Len(Deps)
  PROVE  /\ depIndex \in DOMAIN graph.deps[current]
         /\ Deps[depIndex] \in Dependency
         /\ depIndex + 1 \in 1..(Len(Deps) + 1)
<1>1. graph \in Graphs /\ current \in Package /\ depIndex \in 1..(Len(Deps) + 1)
  BY DEF TypeOK
<1>2. Len(Deps) \in Nat /\ DOMAIN Deps = 1..Len(Deps)
  BY <1>1, GraphParts DEF Deps
<1>3. depIndex \in 1..Len(Deps)
  BY <1>1, <1>2
<1>4. QED
  BY <1>1, <1>2, <1>3, GraphParts DEF Deps

LEMMA NextType == TypeOK /\ [Next]_vars => TypeOK'
<1> SUFFICES ASSUME TypeOK, [Next]_vars PROVE TypeOK'
  OBVIOUS
<1> USE DEF TypeOK
<1>1. CASE StartPackage
  <2>1. PICK p \in dirty : current' = p /\ dirty' = dirty \ {p} /\ todo' = Snapshot(p)
    BY <1>1 DEF StartPackage
  <2>2. p \in Package
    BY <2>1
  <2>3. Snapshot(p) \in [Triple -> SUBSET (Feature \X Clause)]
    <3>1. ASSUME NEW t \in Triple, NEW f \in features[t][p]
          PROVE  {f} \X graph.enables[p][f] \subseteq Feature \X Clause
      <4>1. f \in Feature
        BY <2>2 DEF Assignment
      <4>2. graph.enables[p][f] \subseteq Clause
        BY <4>1, <2>2, GraphParts
      <4>3. QED
        BY <4>1, <4>2
    <3>2. QED
      BY <3>1 DEF Snapshot
  <2>4. 1 \in 1..(Len(graph.deps[p]) + 1)
    BY <2>2, GraphParts
  <2>5. QED
    BY <1>1, <2>1, <2>2, <2>3, <2>4 DEF StartPackage, Deps
<1>2. ASSUME NEW t \in Triple, NEW e \in todo[t], PropagateClause(t, e[1], e[2])
      PROVE  TypeOK'
  <2>1. e[2] \in Clause
    BY <1>2
  <2>2. features' \in [Triple -> Assignment]
    <3>1. \A q \in Package : AfterClause(t, e[2], q) \subseteq Feature
      BY <2>1, ClauseType DEF AfterClause, Assignment
    <3>2. [q \in Package |-> AfterClause(t, e[2], q)] \in Assignment
      BY <3>1 DEF Assignment
    <3>3. QED
      BY <1>2, <3>2 DEF PropagateClause
  <2>3. newDirty' \subseteq Package
    BY <1>2 DEF PropagateClause, Reached
  <2>4. todo' \in [Triple -> SUBSET (Feature \X Clause)]
    BY <1>2 DEF PropagateClause
  <2>5. changed' \in BOOLEAN
    BY <1>2 DEF PropagateClause
  <2>6. QED
    BY <1>2, <2>2, <2>3, <2>4, <2>5 DEF PropagateClause, Deps
<1>3. ASSUME NEW t \in Triple, NEW e \in todo[t], Abort(t, e[1], e[2])
      PROVE  TypeOK'
  BY <1>3 DEF Abort, Deps
<1>4. CASE ScanDependency
  <2>1. /\ depIndex \in DOMAIN graph.deps[current]
        /\ Deps[depIndex] \in Dependency
        /\ depIndex + 1 \in 1..(Len(Deps) + 1)
    BY <1>4, EntryType DEF ScanDependency
  <2>2. depIndex + 1 \in Nat
    OBVIOUS
  <2>3. CASE depIndex \in pending[current] /\ LinkDependency(Deps[depIndex])
    <3> DEFINE d == Deps[depIndex]
    <3>1. current \in Package
      BY <1>4 DEF ScanDependency
    <3>2. d.features \subseteq Feature /\ d.kind \in {"normal", "build"}
      BY <2>1 DEF Dependency
    <3>3. d.to \in Package
      BY <2>3, <3>1 DEF Resolved, Deps
    <3>4. features' \in [Triple -> Assignment]
      BY <2>3, <3>2, <3>3 DEF LinkDependency, Assignment
    <3>5. linked' \in [Triple -> [Package -> SUBSET Link]]
      <4>1. <<d.kind, d.to>> \in Link
        BY <3>2, <3>3 DEF Link
      <4>2. QED
        BY <2>3, <3>1, <4>1 DEF LinkDependency
    <3>6. newDirty' \subseteq Package /\ changed' \in BOOLEAN
      BY <2>3, <3>3 DEF LinkDependency
    <3>7. /\ pending' \in [Package -> SUBSET Nat]
          /\ \A q \in Package : pending'[q] \subseteq pending[q]
      BY <2>3, <3>1 DEF LinkDependency
    <3> HIDE DEF d
    <3>8. QED
      BY <1>4, <2>1, <2>2, <3>4, <3>5, <3>6, <3>7 DEF ScanDependency, Deps, Resolved
  <2>4. CASE UNCHANGED <<features, linked, pending, newDirty, changed>>
    BY <1>4, <2>1, <2>2, <2>4 DEF ScanDependency, Deps
  <2>5. QED
    BY <1>4, <2>3, <2>4 DEF ScanDependency
<1>5. CASE FinishPackage
  BY <1>5 DEF FinishPackage, Deps
<1>6. CASE EndRound
  <2>1. round + 1 \in 0..MaxRounds
    BY <1>6, RoundsAssumption DEF EndRound
  <2>2. QED
    BY <1>6, <2>1, RoundsAssumption DEF EndRound, Deps
<1>7. CASE Ended \/ UNCHANGED vars
  BY <1>7 DEF Ended, vars, Deps
<1>8. QED
  BY <1>1, <1>2, <1>3, <1>4, <1>5, <1>6, <1>7 DEF Next

(* Every variable keeps its type; the run's bound on rounds is kept too. *)
THEOREM TypeCorrect == Spec => []TypeOK
<1>1. QED
  BY InitType, NextType, PTL DEF Spec

-----------------------------------------------------------------------------
(***************************************************************************)
(* The rules on a graph without feature-sensitive targets: what matches    *)
(* does not depend on the features, and what is switched on stays on.      *)
(***************************************************************************)
LEMMA SwitchedOnGrows ==
  ASSUME NEW d, NEW F, NEW G, F \subseteq G, SwitchedOn(d, F)
  PROVE  SwitchedOn(d, G)
BY DEF SwitchedOn

LEMMA MatchStable ==
  ASSUME NEW g, FeatureFree(g), NEW p \in Package, NEW i \in DOMAIN g.deps[p],
         NEW t \in Triple, NEW F, NEW G
  PROVE  Matches(g.deps[p][i], t, F) <=> Matches(g.deps[p][i], t, G)
<1>1. g.deps[p][i].cfg[t] \subseteq {Always}
  BY DEF FeatureFree
<1>2. Always.has = {} /\ Always.lacks = {}
  BY DEF Always
<1>3. \A H : Matches(g.deps[p][i], t, H) <=> Always \in g.deps[p][i].cfg[t]
  BY <1>1, <1>2 DEF Matches
<1>4. QED
  BY <1>3

LEMMA HitStable ==
  ASSUME NEW g \in Graphs, FeatureFree(g), NEW p \in Package, NEW c,
         NEW t \in Triple, NEW F, NEW G
  PROVE  Hit(g, p, c, t, F) = Hit(g, p, c, t, G)
<1>1. \A i \in DOMAIN g.deps[p] :
        Named(g.deps[p][i], c, t, F) <=> Named(g.deps[p][i], c, t, G)
  BY MatchStable DEF Named
<1>2. \A i \in DOMAIN g.deps[p] : \A j \in 1..(i - 1) : j \in DOMAIN g.deps[p]
  BY GraphParts
<1>3. QED
  BY <1>1, <1>2 DEF Hit

LEMMA OwnStable ==
  ASSUME NEW g \in Graphs, FeatureFree(g), NEW p \in Package, NEW c,
         NEW t \in Triple, NEW F, NEW G
  PROVE  OwnFeatures(g, p, c, t, F) = OwnFeatures(g, p, c, t, G)
<1>1. Hit(g, p, c, t, F) = Hit(g, p, c, t, G)
  BY HitStable
<1>2. QED
  BY <1>1 DEF OwnFeatures

LEMMA PassedGrows ==
  ASSUME NEW g \in Graphs, FeatureFree(g), NEW p \in Package, NEW c,
         NEW t \in Triple, NEW F, NEW G, F \subseteq G, NEW q
  PROVE  PassedFeatures(g, p, c, t, F, q) \subseteq PassedFeatures(g, p, c, t, G, q)
<1>1. Hit(g, p, c, t, F) = Hit(g, p, c, t, G)
  BY HitStable
<1>2. \A d : Admitted(d, c, F) => Admitted(d, c, G)
  BY SwitchedOnGrows DEF Admitted
<1>3. QED
  BY <1>1, <1>2 DEF PassedFeatures

-----------------------------------------------------------------------------
(***************************************************************************)
(* What a step may change.                                                 *)
(***************************************************************************)
(* The pending part of the table belongs to the features the package has. *)
TodoSound ==
  pc = "package" =>
    \A t \in Triple : \A e \in todo[t] :
      e[1] \in features[t][current] /\ e[2] \in graph.enables[current][e[1]]

SeedsKept ==
  \A t \in Triple, p \in Package : Seed(graph, t, p) \subseteq features[t][p]

(* Features and links are only ever added, and the graph stays the same. *)
Grows ==
  /\ graph' = graph
  /\ \A t \in Triple, p \in Package :
       features[t][p] \subseteq features'[t][p] /\ linked[t][p] \subseteq linked'[t][p]

LEMMA ClauseStep ==
  ASSUME TypeOK, NEW t \in Triple, NEW f, NEW c, PropagateClause(t, f, c)
  PROVE  /\ graph' = graph
         /\ \A q \in Package : features'[t][q] = AfterClause(t, c, q)
         /\ \A s \in Triple \ {t} : features'[s] = features[s]
         /\ \A s \in Triple : \A q \in Package : features[s][q] \subseteq features'[s][q]
<1>1. features \in [Triple -> Assignment]
  BY DEF TypeOK
<1>2. \A q \in Package : features'[t][q] = AfterClause(t, c, q)
  BY <1>1 DEF PropagateClause
<1>3. \A s \in Triple \ {t} : features'[s] = features[s]
  BY <1>1 DEF PropagateClause
<1>4. \A q \in Package : features[t][q] \subseteq AfterClause(t, c, q)
  BY DEF AfterClause
<1>5. graph' = graph
  BY DEF PropagateClause
<1>6. QED
  BY <1>2, <1>3, <1>4, <1>5

LEMMA LinkStep ==
  ASSUME TypeOK, ScanDependency, depIndex \in pending[current],
         LinkDependency(Deps[depIndex])
  PROVE  LET d == Deps[depIndex] IN
         /\ current \in Package /\ d.to \in Package
         /\ depIndex \in DOMAIN graph.deps[current] /\ d = graph.deps[current][depIndex]
         /\ \A t \in Triple, q \in Package :
              /\ features'[t][q] = IF t \in ActiveTriples(d) /\ q = d.to
                                   THEN features[t][q] \cup d.features
                                   ELSE features[t][q]
              /\ linked'[t][q] = IF t \in ActiveTriples(d) /\ q = current
                                 THEN linked[t][q] \cup {<<d.kind, d.to>>}
                                 ELSE linked[t][q]
<1> DEFINE d == Deps[depIndex]
<1>1. features \in [Triple -> Assignment] /\ linked \in [Triple -> [Package -> SUBSET Link]]
  BY DEF TypeOK
<1>2. current \in Package
  BY DEF TypeOK, ScanDependency
<1>3. depIndex \in Resolved(graph, current)
  BY <1>2 DEF TypeOK
<1>4. depIndex \in DOMAIN graph.deps[current] /\ d.to \in Package
  BY <1>3 DEF Resolved, Deps
<1>5. ASSUME NEW t \in Triple, NEW q \in Package
      PROVE  features'[t][q] = IF t \in ActiveTriples(d) /\ q = d.to
                               THEN features[t][q] \cup d.features
                               ELSE features[t][q]
  <2>1. features'[t] = IF t \in ActiveTriples(d)
                       THEN [features[t] EXCEPT ![d.to] = @ \cup d.features]
                       ELSE features[t]
    BY DEF LinkDependency
  <2>2. features[t] \in [Package -> SUBSET Feature]
    BY <1>1 DEF Assignment
  <2>3. QED
    BY <1>4, <2>1, <2>2
<1>6. ASSUME NEW t \in Triple, NEW q \in Package
      PROVE  linked'[t][q] = IF t \in ActiveTriples(d) /\ q = current
                             THEN linked[t][q] \cup {<<d.kind, d.to>>}
                             ELSE linked[t][q]
  <2>1. linked'[t] = IF t \in ActiveTriples(d)
                     THEN [linked[t] EXCEPT ![current] = @ \cup {<<d.kind, d.to>>}]
                     ELSE linked[t]
    BY DEF LinkDependency
  <2>2. QED
    BY <1>1, <1>2, <2>1
<1>7. d = graph.deps[current][depIndex]
  BY DEF Deps
<1>8. QED
  BY <1>2, <1>4, <1>5, <1>6, <1>7

LEMMA NextGrows ==
  ASSUME TypeOK, [Next]_vars
  PROVE  Grows
<1>1. CASE \E t \in Triple : \E e \in todo[t] : PropagateClause(t, e[1], e[2])
  <2>1. PICK t \in Triple : \E e \in todo[t] : PropagateClause(t, e[1], e[2])
    BY <1>1
  <2>2. PICK e \in todo[t] : PropagateClause(t, e[1], e[2])
    BY <2>1
  <2>3. linked' = linked
    BY <2>2 DEF PropagateClause
  <2>4. QED
    BY <2>2, <2>3, ClauseStep DEF Grows
<1>2. CASE ScanDependency
  <2>1. graph' = graph
    BY <1>2 DEF ScanDependency
  <2>2. CASE depIndex \in pending[current] /\ LinkDependency(Deps[depIndex])
    <3>1. \A t \in Triple, q \in Package :
            features[t][q] \subseteq features'[t][q] /\ linked[t][q] \subseteq linked'[t][q]
      BY <1>2, <2>2, LinkStep
    <3>2. QED
      BY <2>1, <3>1 DEF Grows
  <2>3. CASE UNCHANGED <<features, linked, pending, newDirty, changed>>
    BY <2>1, <2>3 DEF Grows
  <2>4. QED
    BY <1>2, <2>2, <2>3 DEF ScanDependency
<1>3. CASE UNCHANGED <<graph, features, linked>>
  BY <1>3 DEF Grows
<1>4. StartPackage => UNCHANGED <<graph, features, linked>>
  BY DEF StartPackage
<1>5. \A t, f, c : Abort(t, f, c) => UNCHANGED <<graph, features, linked>>
  BY DEF Abort
<1>6. FinishPackage \/ EndRound \/ Ended \/ UNCHANGED vars => UNCHANGED <<graph, features, linked>>
  BY DEF FinishPackage, EndRound, Ended, vars
<1>7. QED
  BY <1>1, <1>2, <1>3, <1>4, <1>5, <1>6 DEF Next

LEMMA SeedsStep ==
  ASSUME TypeOK, [Next]_vars, SeedsKept
  PROVE  SeedsKept'
<1>1. Grows
  BY NextGrows
<1>2. QED
  BY <1>1 DEF Grows, SeedsKept

LEMMA TodoStep ==
  ASSUME TypeOK, [Next]_vars, TodoSound
  PROVE  TodoSound'
<1>1. CASE StartPackage
  <2>1. current' \in Package /\ todo' = Snapshot(current') /\ features' = features /\ graph' = graph
    BY <1>1 DEF StartPackage, TypeOK
  <2>2. \A t \in Triple : \A e \in Snapshot(current')[t] :
          e[1] \in features[t][current'] /\ e[2] \in graph.enables[current'][e[1]]
    BY DEF Snapshot
  <2>3. QED
    BY <2>1, <2>2 DEF TodoSound
<1>2. CASE ~StartPackage /\ pc' = "package"
  <2>1. pc = "package" /\ current' = current /\ graph' = graph /\ current \in Package
    BY <1>2 DEF Next, PropagateClause, Abort, ScanDependency, FinishPackage, EndRound, Ended, vars, TypeOK
  <2>2. ASSUME NEW t \in Triple PROVE todo'[t] \subseteq todo[t]
    <3>1. \A s \in Triple : \A f, c : PropagateClause(s, f, c) => todo'[t] \subseteq todo[t]
      BY DEF PropagateClause, TypeOK
    <3>2. \A s \in Triple : \A f, c : Abort(s, f, c) => todo' = todo
      BY DEF Abort
    <3>3. ScanDependency \/ FinishPackage \/ EndRound \/ Ended \/ UNCHANGED vars => todo' = todo
      BY DEF ScanDependency, FinishPackage, EndRound, Ended, vars
    <3>4. QED
      BY <1>2, <3>1, <3>2, <3>3 DEF Next
  <2>3. \A t \in Triple : features[t][current] \subseteq features'[t][current]
    BY <2>1, NextGrows DEF Grows
  <2>4. QED
    BY <2>1, <2>2, <2>3 DEF TodoSound
<1>3. CASE pc' # "package"
  BY <1>3 DEF TodoSound
<1>4. QED
  BY <1>1, <1>2, <1>3

-----------------------------------------------------------------------------
(***************************************************************************)
(* Nothing beyond the least closed assignment is ever enabled.             *)
(***************************************************************************)
Within(B, t, g) ==
  \A A \in Assignment : Closed(g, t, A) => \A p \in Package : B[p] \subseteq A[p]

LEMMA ForcedMeans ==
  ASSUME NEW g \in Compared, FeatureFree(g), NEW t \in Triple, NEW B \in Assignment
  PROVE  (\A p \in Package : B[p] \subseteq Forced[g][t][p]) <=> Within(B, t, g)
<1> DEFINE seed == [p \in Package |-> Seed(g, t, p)]
           closed == {A \in Assignment : /\ \A p \in Package : seed[p] \subseteq A[p]
                                         /\ RulesHold(g, t, A)}
<1>1. closed = {A \in Assignment : Closed(g, t, A)}
  BY DEF Closed
<1>2. \A p \in Package : Forced[g][t][p] = {f \in Feature : \A A \in closed : f \in A[p]}
  BY DEF Forced
<1> HIDE DEF closed
<1>3. \A p \in Package : B[p] \subseteq Feature
  BY DEF Assignment
<1>4. QED
  BY <1>1, <1>2, <1>3 DEF Within

LEMMA WithinStep ==
  ASSUME TypeOK, TodoSound, [Next]_vars, FeatureFree(graph), NEW s \in Triple,
         Within(features[s], s, graph)
  PROVE  Within(features'[s], s, graph)
<1> SUFFICES ASSUME NEW A \in Assignment, Closed(graph, s, A), NEW q \in Package
             PROVE  features'[s][q] \subseteq A[q]
  BY DEF Within
<1>1. graph \in Graphs
  BY DEF TypeOK
<1>2. \A p \in Package : features[s][p] \subseteq A[p]
  BY DEF Within
<1>3. ASSUME NEW t \in Triple, NEW e \in todo[t], PropagateClause(t, e[1], e[2])
      PROVE  features'[s][q] \subseteq A[q]
  <2>1. CASE t # s
    BY <1>2, <1>3, <2>1, ClauseStep
  <2>2. CASE t = s
    <3> DEFINE c == e[2]
    <3>1. current \in Package /\ e[1] \in A[current] /\ c \in graph.enables[current][e[1]]
      BY <1>2, <1>3, <2>2 DEF PropagateClause, TypeOK, TodoSound
    <3>2. ClauseHolds(graph, s, A, current, c)
      BY <3>1 DEF Closed, RulesHold, ClausesHold
    <3>3. OwnFeatures(graph, current, c, s, features[s][current]) \subseteq A[current]
      BY <1>1, <3>1, <3>2, OwnStable DEF ClauseHolds
    <3>4. PassedFeatures(graph, current, c, s, features[s][current], q) \subseteq A[q]
      <4>1. PassedFeatures(graph, current, c, s, A[current], q) \subseteq A[q]
        BY <3>2 DEF ClauseHolds
      <4>2. features[s][current] \subseteq A[current]
        BY <1>2, <3>1
      <4>3. QED
        BY <1>1, <3>1, <4>1, <4>2, PassedGrows
    <3>5. AfterClause(s, c, q) \subseteq A[q]
      BY <1>2, <3>3, <3>4 DEF AfterClause
    <3>6. QED
      BY <1>3, <2>2, <3>5, ClauseStep
  <2>3. QED
    BY <2>1, <2>2
<1>4. CASE ScanDependency
  <2>1. CASE depIndex \in pending[current] /\ LinkDependency(Deps[depIndex])
    <3> DEFINE d == Deps[depIndex]
    <3>1. /\ current \in Package /\ d.to \in Package
          /\ depIndex \in DOMAIN graph.deps[current] /\ d = graph.deps[current][depIndex]
          /\ features'[s][q] = IF s \in ActiveTriples(d) /\ q = d.to
                               THEN features[s][q] \cup d.features
                               ELSE features[s][q]
      BY <1>4, <2>1, LinkStep
    <3>2. CASE s \in ActiveTriples(d) /\ q = d.to
      <4>1. Matches(d, s, features[s][current]) /\ SwitchedOn(d, features[s][current])
        BY <3>2 DEF ActiveTriples, MatchTriples
      <4>2. Active(d, s, A[current])
        BY <1>2, <3>1, <4>1, MatchStable, SwitchedOnGrows DEF Active
      <4>3. DependencyHolds(graph, s, A, current, depIndex)
        BY <3>1 DEF Closed, RulesHold, DependenciesHold
      <4>4. d.features \subseteq A[q]
        BY <3>1, <3>2, <4>2, <4>3 DEF DependencyHolds
      <4>5. QED
        BY <1>2, <3>1, <3>2, <4>4
    <3>3. CASE ~(s \in ActiveTriples(d) /\ q = d.to)
      BY <1>2, <3>1, <3>3
    <3>4. QED
      BY <3>2, <3>3
  <2>2. CASE UNCHANGED <<features, linked, pending, newDirty, changed>>
    BY <1>2, <2>2
  <2>3. QED
    BY <1>4, <2>1, <2>2 DEF ScanDependency
<1>5. CASE features' = features
  BY <1>2, <1>5
<1>6. QED
  BY <1>3, <1>4, <1>5
     DEF Next, StartPackage, Abort, FinishPackage, EndRound, Ended, vars

LEMMA LeastStep ==
  ASSUME TypeOK, TypeOK', TodoSound, [Next]_vars, Least
  PROVE  Least'
<1> SUFFICES ASSUME FeatureFree(graph)', (graph \in Compared)', NEW t \in Triple
             PROVE  (\A p \in Package : features[t][p] \subseteq Forced[graph][t][p])'
  BY DEF Least
<1>1. graph' = graph /\ graph \in Compared /\ FeatureFree(graph)
  BY NextGrows DEF Grows, TypeOK
<1>2. features[t] \in Assignment /\ features'[t] \in Assignment
  BY DEF TypeOK
<1>3. Within(features[t], t, graph)
  BY <1>1, <1>2, ForcedMeans DEF Least
<1>4. Within(features'[t], t, graph)
  BY <1>1, <1>3, WithinStep
<1>5. \A p \in Package : features'[t][p] \subseteq Forced[graph][t][p]
  BY <1>1, <1>2, <1>4, ForcedMeans
<1>6. QED
  BY <1>1, <1>5

LEMMA InitLeast == Init => Least
<1> SUFFICES ASSUME Init, FeatureFree(graph), graph \in Compared, NEW t \in Triple
             PROVE  \A p \in Package : features[t][p] \subseteq Forced[graph][t][p]
  BY DEF Least
<1>1. graph \in Graphs /\ features[t] \in Assignment
  BY InitType DEF TypeOK, Init
<1>2. \A p \in Package : features[t][p] = Seed(graph, t, p)
  BY DEF Init
<1>3. Within(features[t], t, graph)
  BY <1>2 DEF Within, Closed
<1>4. QED
  BY <1>1, <1>3, ForcedMeans

(***************************************************************************)
(* At every step the features enabled lie within the least assignment      *)
(* closed under the rules, whatever order the tables are applied in.       *)
(***************************************************************************)
THEOREM SolverLeast == Spec => []Least
<1>1. Init => TypeOK /\ TodoSound /\ Least
  BY InitType, InitLeast DEF Init, TodoSound
<1>2. TypeOK /\ TodoSound /\ Least /\ [Next]_vars => (TypeOK /\ TodoSound /\ Least)'
  BY NextType, TodoStep, LeastStep
<1>3. QED
  BY <1>1, <1>2, PTL DEF Spec

-----------------------------------------------------------------------------
(***************************************************************************)
(* A retired dependency has nothing more to contribute.                    *)
(***************************************************************************)
EntryFacts(p, i, t) ==
  LET d == graph.deps[p][i] IN
  /\ SwitchedOn(d, features[t][p])
  /\ d.features \subseteq features[t][d.to]
  /\ <<d.kind, d.to>> \in linked[t][p]

LEMMA EntryFactsStep ==
  ASSUME Grows, NEW p \in Package, NEW i \in DOMAIN graph.deps[p], NEW t \in Triple,
         graph.deps[p][i].to \in Package, EntryFacts(p, i, t)
  PROVE  EntryFacts(p, i, t)'
<1> DEFINE d == graph.deps[p][i]
<1>1. /\ graph' = graph /\ features[t][p] \subseteq features'[t][p]
      /\ features[t][d.to] \subseteq features'[t][d.to] /\ linked[t][p] \subseteq linked'[t][p]
  BY DEF Grows
<1>2. SwitchedOn(d, features'[t][p])
  BY <1>1, SwitchedOnGrows DEF EntryFacts
<1>3. QED
  BY <1>1, <1>2 DEF EntryFacts

LEMMA RetiredStep ==
  ASSUME TypeOK, [Next]_vars, RetiredDone
  PROVE  RetiredDone'
<1> SUFFICES ASSUME FeatureFree(graph), graph' = graph, NEW p \in Package,
                    NEW i \in Resolved(graph, p) \ pending'[p], NEW t \in Triple,
                    Matches(graph.deps[p][i], t, features'[t][p])
             PROVE  EntryFacts(p, i, t)'
  BY NextGrows DEF RetiredDone, EntryFacts, Grows
<1> DEFINE d == graph.deps[p][i]
<1>1. Grows
  BY NextGrows
<1>2. i \in DOMAIN graph.deps[p] /\ d.to \in Package
  BY DEF Resolved
<1>3. Matches(d, t, features[t][p])
  BY <1>2, MatchStable
<1>4. CASE i \notin pending[p]
  <2>1. EntryFacts(p, i, t)
    BY <1>3, <1>4 DEF RetiredDone, EntryFacts
  <2>2. QED
    BY <1>1, <1>2, <2>1, EntryFactsStep
<1>5. CASE i \in pending[p]
  <2>1. pending' # pending
    BY <1>5
  <2>2. ScanDependency /\ depIndex \in pending[current] /\ LinkDependency(Deps[depIndex])
    BY <2>1 DEF Next, StartPackage, PropagateClause, Abort, ScanDependency, FinishPackage,
                EndRound, Ended, vars
  <2>3. p = current /\ i = depIndex /\ ActiveTriples(Deps[depIndex]) = MatchTriples(Deps[depIndex])
    BY <1>5, <2>2 DEF LinkDependency, TypeOK
  <2>4. d = Deps[depIndex]
    BY <2>3 DEF Deps
  <2>5. t \in ActiveTriples(d)
    BY <1>3, <2>3, <2>4 DEF MatchTriples
  <2>6. SwitchedOn(d, features[t][p])
    BY <2>3, <2>5 DEF ActiveTriples
  <2>7. d.features \subseteq features'[t][d.to] /\ <<d.kind, d.to>> \in linked'[t][p]
    BY <1>2, <2>2, <2>3, <2>4, <2>5, LinkStep
  <2>8. SwitchedOn(d, features'[t][p])
    BY <1>1, <2>6, SwitchedOnGrows DEF Grows
  <2>9. QED
    BY <2>7, <2>8 DEF EntryFacts
<1>6. QED
  BY <1>4, <1>5

-----------------------------------------------------------------------------
(***************************************************************************)
(* Every link is one that the features activate.                           *)
(***************************************************************************)
LEMMA ActiveGrows ==
  ASSUME NEW g, Positive(g), NEW p \in Package, NEW i \in DOMAIN g.deps[p],
         NEW t \in Triple, NEW F, NEW G, F \subseteq G, Active(g.deps[p][i], t, F)
  PROVE  Active(g.deps[p][i], t, G)
<1>1. PICK alt \in g.deps[p][i].cfg[t] : alt.has \subseteq F /\ alt.lacks \cap F = {}
  BY DEF Active, Matches
<1>2. alt.has \subseteq G /\ alt.lacks \cap G = {}
  BY <1>1 DEF Positive
<1>3. Matches(g.deps[p][i], t, G)
  BY <1>2 DEF Matches
<1>4. QED
  BY <1>3, SwitchedOnGrows DEF Active

LEMMA LinksStep ==
  ASSUME TypeOK, [Next]_vars, LinksJustified
  PROVE  LinksJustified'
<1> SUFFICES ASSUME Positive(graph), graph' = graph, NEW t \in Triple, NEW p \in Package,
                    NEW l \in linked'[t][p]
             PROVE  l \in LinksOf(graph, t, features'[t], p)
  BY NextGrows DEF LinksJustified, Grows
<1>1. features[t][p] \subseteq features'[t][p]
  BY NextGrows DEF Grows
<1>2. ASSUME NEW i \in DOMAIN graph.deps[p], Active(graph.deps[p][i], t, features[t][p]),
             l = <<graph.deps[p][i].kind, graph.deps[p][i].to>>
      PROVE  l \in LinksOf(graph, t, features'[t], p)
  <2>1. Active(graph.deps[p][i], t, features'[t][p])
    BY <1>1, <1>2, ActiveGrows
  <2>2. QED
    BY <1>2, <2>1 DEF LinksOf
<1>3. CASE l \in linked[t][p]
  <2>1. l \in LinksOf(graph, t, features[t], p)
    BY <1>3 DEF LinksJustified
  <2>2. PICK i \in DOMAIN graph.deps[p] :
          /\ Active(graph.deps[p][i], t, features[t][p])
          /\ l = <<graph.deps[p][i].kind, graph.deps[p][i].to>>
    BY <2>1 DEF LinksOf
  <2>3. QED
    BY <1>2, <2>2
<1>4. CASE l \notin linked[t][p]
  <2>1. linked' # linked
    BY <1>4
  <2>2. ScanDependency /\ depIndex \in pending[current] /\ LinkDependency(Deps[depIndex])
    BY <2>1 DEF Next, StartPackage, PropagateClause, Abort, ScanDependency, FinishPackage,
                EndRound, Ended, vars
  <2> DEFINE d == Deps[depIndex]
  <2>3. /\ d.to \in Package
        /\ depIndex \in DOMAIN graph.deps[current] /\ d = graph.deps[current][depIndex]
    BY <2>2, LinkStep
  <2>4. linked'[t][p] = IF t \in ActiveTriples(d) /\ p = current
                        THEN linked[t][p] \cup {<<d.kind, d.to>>}
                        ELSE linked[t][p]
    BY <2>2, LinkStep
  <2>5. p = current /\ t \in ActiveTriples(d) /\ l = <<d.kind, d.to>>
    <3> HIDE DEF d
    <3>1. QED
      BY <1>4, <2>4
  <2>6. Active(d, t, features[t][p])
    BY <2>3, <2>5 DEF ActiveTriples, MatchTriples, Active
  <2> HIDE DEF d
  <2>7. QED
    BY <1>2, <2>3, <2>5, <2>6
<1>5. QED
  BY <1>3, <1>4

LEMMA FeatureFreeIsPositive ==
  ASSUME NEW g, FeatureFree(g) PROVE Positive(g)
BY DEF FeatureFree, Positive, Always

(* With feature predicates too, if none is negated: no link is unjustified. *)
THEOREM SolverLinksJustified == Spec => []LinksJustified
<1>1. Init => TypeOK /\ LinksJustified
  BY InitType DEF Init, LinksJustified
<1>2. TypeOK /\ LinksJustified /\ [Next]_vars => (TypeOK /\ LinksJustified)'
  BY NextType, LinksStep
<1>3. QED
  BY <1>1, <1>2, PTL DEF Spec

-----------------------------------------------------------------------------
(***************************************************************************)
(* The worklist misses nothing.                                            *)
(***************************************************************************)
PackageDone(p) == TableDone(p) /\ \A i \in DOMAIN graph.deps[p] : EntryDone(p, i)

OthersDone ==
  FeatureFree(graph) =>
    \A p \in Package \ (dirty \cup newDirty) : ~InProgress(p) => PackageDone(p)

ClauseDone(p, t, c) == ClauseHolds(graph, t, features[t], p, c)

(* Of the package being processed: what is not in todo holds already, ... *)
TableSoFar ==
  \A t \in Triple : \A f \in features[t][current] : \A c \in graph.enables[current][f] :
    <<f, c>> \in todo[t] \/ ClauseDone(current, t, c)

(* ... and so do the entries the scan has passed. *)
EntriesSoFar == \A i \in 1..(depIndex - 1) : EntryDone(current, i)

CurrentDone ==
  FeatureFree(graph) /\ pc = "package" /\ ~changed /\ current \notin newDirty =>
    TableSoFar /\ EntriesSoFar

LEMMA WorklistParts == WorklistComplete <=> OthersDone /\ CurrentDone
BY DEF WorklistComplete, OthersDone, CurrentDone, TableSoFar, EntriesSoFar, PackageDone, ClauseDone

(***************************************************************************)
(* What holds of a package goes on holding while its own features stay as  *)
(* they are: other packages' features and links only grow.                 *)
(***************************************************************************)
Same(p) == \A t \in Triple : features'[t][p] = features[t][p]

LEMMA ClauseDoneStays ==
  ASSUME Grows, NEW p \in Package, Same(p), NEW t \in Triple, NEW c, ClauseDone(p, t, c)
  PROVE  ClauseDone(p, t, c)'
<1>1. graph' = graph /\ features'[t][p] = features[t][p]
  BY DEF Grows, Same
<1>2. \A q \in Package : features[t][q] \subseteq features'[t][q]
  BY DEF Grows
<1>3. /\ OwnFeatures(graph, p, c, t, features[t][p]) \subseteq features[t][p]
      /\ \A q \in Package :
           PassedFeatures(graph, p, c, t, features[t][p], q) \subseteq features[t][q]
  BY DEF ClauseDone, ClauseHolds
<1>4. ClauseHolds(graph, t, features'[t], p, c)
  BY <1>1, <1>2, <1>3 DEF ClauseHolds
<1>5. QED
  BY <1>1, <1>4 DEF ClauseDone

LEMMA EntryDoneStays ==
  ASSUME Grows, NEW p \in Package, Same(p), NEW i \in DOMAIN graph.deps[p], EntryDone(p, i)
  PROVE  EntryDone(p, i)'
<1> DEFINE d == graph.deps[p][i]
<1>1. graph' = graph
  BY DEF Grows
<1>2. ASSUME NEW t \in Triple, Active(d, t, features'[t][p])
      PROVE  d.features \subseteq features'[t][d.to] /\ <<d.kind, d.to>> \in linked'[t][p]
  <2>1. Active(d, t, features[t][p]) /\ d.to \in Package
    BY <1>2 DEF Same, Active
  <2>2. d.features \subseteq features[t][d.to] /\ <<d.kind, d.to>> \in linked[t][p]
    BY <2>1 DEF EntryDone
  <2>3. QED
    BY <2>1, <2>2 DEF Grows
<1>3. QED
  BY <1>1, <1>2 DEF EntryDone

LEMMA PackageDoneStays ==
  ASSUME Grows, NEW p \in Package, Same(p), PackageDone(p)
  PROVE  PackageDone(p)'
<1>1. graph' = graph
  BY DEF Grows
<1>2. TableDone(p)'
  <2>1. ASSUME NEW t \in Triple, NEW f \in features'[t][p], NEW c \in graph.enables[p][f]
        PROVE  ClauseDone(p, t, c)'
    <3>1. f \in features[t][p]
      BY DEF Same
    <3>2. ClauseDone(p, t, c)
      BY <3>1 DEF PackageDone, TableDone, ClausesHold, ClauseDone
    <3>3. QED
      BY <3>2, ClauseDoneStays
  <2>2. QED
    BY <1>1, <2>1 DEF TableDone, ClausesHold, ClauseDone
<1>3. \A i \in DOMAIN graph.deps[p] : EntryDone(p, i)'
  BY EntryDoneStays DEF PackageDone
<1>4. QED
  BY <1>1, <1>2, <1>3 DEF PackageDone

(* A package that a step leaves off the next round's list keeps its features. *)
LEMMA UnlistedSame ==
  ASSUME TypeOK, [Next]_vars, NEW p \in Package, p \notin newDirty',
         p # current \/ ~changed'
  PROVE  Same(p)
<1>1. ASSUME NEW t \in Triple, NEW e \in todo[t], PropagateClause(t, e[1], e[2])
      PROVE  Same(p)
  <2> DEFINE c == e[2]
  <2>1. PassedFeatures(graph, current, c, t, features[t][current], p) \subseteq features[t][p]
    BY <1>1 DEF PropagateClause, Reached
  <2>2. p = current => OwnFeatures(graph, current, c, t, features[t][current]) \subseteq features[t][p]
    BY <1>1 DEF PropagateClause
  <2>3. AfterClause(t, c, p) = features[t][p]
    BY <2>1, <2>2 DEF AfterClause
  <2> HIDE DEF c
  <2>4. features'[t][p] = features[t][p]
    BY <1>1, <2>3, ClauseStep DEF c
  <2>5. \A s \in Triple \ {t} : features'[s][p] = features[s][p]
    BY <1>1, ClauseStep
  <2>6. QED
    BY <2>4, <2>5 DEF Same
<1>2. CASE ScanDependency
  <2>1. CASE depIndex \in pending[current] /\ LinkDependency(Deps[depIndex])
    <3> DEFINE d == Deps[depIndex]
    <3>1. \A t \in Triple :
            features'[t][p] = IF t \in ActiveTriples(d) /\ p = d.to
                              THEN features[t][p] \cup d.features
                              ELSE features[t][p]
      BY <1>2, <2>1, LinkStep
    <3>2. p = d.to => \A t \in ActiveTriples(d) : d.features \subseteq features[t][p]
      BY <2>1 DEF LinkDependency
    <3> HIDE DEF d
    <3>3. QED
      BY <3>1, <3>2 DEF Same
  <2>2. CASE UNCHANGED <<features, linked, pending, newDirty, changed>>
    BY <2>2 DEF Same
  <2>3. QED
    BY <1>2, <2>1, <2>2 DEF ScanDependency
<1>3. CASE features' = features
  BY <1>3 DEF Same
<1>4. QED
  BY <1>1, <1>2, <1>3 DEF Next, StartPackage, Abort, FinishPackage, EndRound, Ended, vars

(***************************************************************************)
(* The package being processed.                                            *)
(***************************************************************************)
LEMMA CurrentStep ==
  ASSUME TypeOK, TypeOK', [Next]_vars, RetiredDone, CurrentDone
  PROVE  CurrentDone'
<1> SUFFICES ASSUME FeatureFree(graph), graph' = graph, pc' = "package", ~changed',
                    current' \notin newDirty'
             PROVE  TableSoFar' /\ EntriesSoFar'
  BY NextGrows DEF CurrentDone, Grows
<1>1. Grows
  BY NextGrows
<1>2. CASE StartPackage
  <2>1. depIndex' = 1 /\ todo' = Snapshot(current') /\ features' = features
    BY <1>2 DEF StartPackage
  <2>2. \A t \in Triple : \A f \in features[t][current'] :
          \A c \in graph.enables[current'][f] : <<f, c>> \in Snapshot(current')[t]
    BY DEF Snapshot
  <2>3. TableSoFar'
    BY <2>1, <2>2 DEF TableSoFar
  <2>4. EntriesSoFar'
    <3>1. 1..(depIndex' - 1) = {}
      BY <2>1
    <3>2. QED
      BY <3>1 DEF EntriesSoFar
  <2>5. QED
    BY <2>3, <2>4
<1>3. ASSUME NEW p \in Package, p = current, current' = current, Same(p), EntriesSoFar,
             pc = "package",
             NEW i \in 1..(depIndex - 1)
      PROVE  EntryDone(p, i)'
  <2>1. i \in DOMAIN graph.deps[p]
    <3>1. Len(Deps) \in Nat /\ DOMAIN Deps = 1..Len(Deps) /\ depIndex \in 1..(Len(Deps) + 1)
      BY <1>3, GraphParts DEF Deps, TypeOK
    <3>2. QED
      BY <1>3, <3>1 DEF Deps
  <2>2. EntryDone(p, i)
    BY <1>3 DEF EntriesSoFar
  <2>3. QED
    BY <1>1, <1>3, <2>1, <2>2, EntryDoneStays
<1>4. ASSUME NEW s \in Triple, NEW e \in todo[s], PropagateClause(s, e[1], e[2])
      PROVE  TableSoFar' /\ EntriesSoFar'
  <2>1. /\ pc = "package" /\ current' = current /\ depIndex' = depIndex /\ current \in Package
        /\ todo' = [todo EXCEPT ![s] = @ \ {<<e[1], e[2]>>}]
    BY <1>4 DEF PropagateClause, TypeOK
  <2>2. ~changed /\ current \notin newDirty
    BY <1>4 DEF PropagateClause
  <2>3. TableSoFar /\ EntriesSoFar
    BY <2>1, <2>2 DEF CurrentDone
  <2>4. PICK p \in Package : p = current
    BY <2>1
  <2>5. Same(p)
    BY <2>1, <2>4, UnlistedSame
  <2>6. ASSUME NEW t \in Triple, NEW f \in features'[t][p],
               NEW c \in graph.enables[p][f], <<f, c>> \notin todo'[t]
        PROVE  ClauseDone(p, t, c)'
    <3>1. f \in features[t][p]
      BY <2>5 DEF Same
    <3>2. CASE <<f, c>> \notin todo[t]
      <4>1. ClauseDone(p, t, c)
        BY <2>3, <2>4, <3>1, <3>2 DEF TableSoFar
      <4>2. QED
        BY <1>1, <2>5, <4>1, ClauseDoneStays
    <3>3. CASE <<f, c>> \in todo[t]
      <4>1. t = s /\ c = e[2]
        BY <2>1, <2>6, <3>3 DEF TypeOK
      <4>2. OwnFeatures(graph, p, c, t, features[t][p]) \subseteq features[t][p]
        BY <1>4, <2>4, <4>1 DEF PropagateClause
      <4>3. \A q \in Package :
              PassedFeatures(graph, p, c, t, features[t][p], q) \subseteq features'[t][q]
        BY <1>4, <2>4, <4>1, ClauseStep DEF AfterClause
      <4>4. features'[t][p] = features[t][p]
        BY <2>5 DEF Same
      <4>5. ClauseHolds(graph, t, features'[t], p, c)
        BY <4>2, <4>3, <4>4 DEF ClauseHolds
      <4>6. QED
        BY <4>5 DEF ClauseDone
    <3>4. QED
      BY <3>2, <3>3
  <2>7. TableSoFar'
    BY <2>1, <2>4, <2>6 DEF TableSoFar
  <2>8. EntriesSoFar'
    BY <1>3, <2>1, <2>3, <2>4, <2>5 DEF EntriesSoFar
  <2>9. QED
    BY <2>7, <2>8
<1>5. CASE ScanDependency
  <2>1. /\ pc = "package" /\ current' = current /\ depIndex' = depIndex + 1 /\ current \in Package
        /\ TableApplied /\ todo' = todo /\ depIndex \in Nat
    BY <1>5 DEF ScanDependency, TypeOK
  <2>2. ~changed /\ current \notin newDirty
    <3>1. changed => changed'
      BY <1>5 DEF ScanDependency, LinkDependency
    <3>2. newDirty \subseteq newDirty'
      BY <1>5 DEF ScanDependency, LinkDependency
    <3>3. QED
      BY <2>1, <3>1, <3>2
  <2>3. TableSoFar /\ EntriesSoFar
    BY <2>1, <2>2 DEF CurrentDone
  <2>4. PICK p \in Package : p = current
    BY <2>1
  <2>5. Same(p)
    BY <2>1, <2>4, UnlistedSame
  <2>6. ASSUME NEW t \in Triple, NEW f \in features'[t][p], NEW c \in graph.enables[p][f]
        PROVE  ClauseDone(p, t, c)'
    <3>1. f \in features[t][p]
      BY <2>5 DEF Same
    <3>2. ClauseDone(p, t, c)
      BY <2>1, <2>3, <2>4, <3>1 DEF TableSoFar, TableApplied
    <3>3. QED
      BY <1>1, <2>5, <3>2, ClauseDoneStays
  <2>7. TableSoFar'
    BY <2>1, <2>4, <2>6 DEF TableSoFar
  <2>8. depIndex \in DOMAIN graph.deps[p]
    BY <1>5, <2>1, <2>4, EntryType DEF ScanDependency
  <2>9. ASSUME NEW k \in DOMAIN graph.deps[p], k = depIndex
        PROVE  EntryDone(p, k)'
    <3> DEFINE d == graph.deps[p][k]
    <3>1. ASSUME NEW t \in Triple, Active(d, t, features'[t][p])
          PROVE  d.features \subseteq features'[t][d.to] /\ <<d.kind, d.to>> \in linked'[t][p]
      <4>1. Active(d, t, features[t][p]) /\ d.to \in Package /\ d = Deps[depIndex]
        BY <2>4, <2>5, <2>9, <3>1 DEF Same, Active, Deps
      <4>2. CASE k \in pending[p]
        <5>1. LinkDependency(Deps[depIndex]) /\ depIndex \in pending[current]
          BY <1>5, <2>4, <2>9, <4>2 DEF ScanDependency
        <5>2. t \in ActiveTriples(Deps[depIndex])
          BY <2>4, <4>1 DEF ActiveTriples, MatchTriples, Active
        <5>3. QED
          BY <1>5, <2>4, <4>1, <5>1, <5>2, LinkStep
      <4>3. CASE k \notin pending[p]
        <5>1. Matches(d, t, features[t][p]) /\ k \in Resolved(graph, p)
          BY <4>1 DEF Active, Resolved
        <5>2. d.features \subseteq features[t][d.to] /\ <<d.kind, d.to>> \in linked[t][p]
          BY <4>3, <5>1 DEF RetiredDone
        <5>3. QED
          BY <1>1, <4>1, <5>2 DEF Grows
      <4>4. QED
        BY <4>2, <4>3
    <3>2. QED
      BY <3>1 DEF EntryDone
  <2>10. \A i \in 1..(depIndex' - 1) : i = depIndex \/ i \in 1..(depIndex - 1)
    BY <2>1
  <2>11. \A i \in 1..(depIndex' - 1) : EntryDone(p, i)'
    BY <1>3, <2>1, <2>3, <2>4, <2>5, <2>8, <2>9, <2>10
  <2>12. EntriesSoFar'
    BY <2>1, <2>4, <2>11 DEF EntriesSoFar
  <2>13. QED
    BY <2>7, <2>12
<1>6. CASE UNCHANGED vars
  <2>1. pc = "package" /\ ~changed /\ current \notin newDirty
    BY <1>6 DEF vars
  <2>2. TableSoFar /\ EntriesSoFar
    BY <2>1 DEF CurrentDone
  <2>3. QED
    BY <1>6, <2>2 DEF vars, TableSoFar, EntriesSoFar, ClauseDone, EntryDone
<1>7. ~(\E t \in Triple : \E e \in todo[t] : Abort(t, e[1], e[2])) /\ ~FinishPackage /\ ~EndRound
  BY DEF Abort, FinishPackage, EndRound
<1>8. QED
  BY <1>2, <1>4, <1>5, <1>6, <1>7 DEF Next, Ended

(***************************************************************************)
(* Every other package.                                                    *)
(***************************************************************************)
LEMMA OthersStep ==
  ASSUME TypeOK, TypeOK', [Next]_vars, OthersDone, CurrentDone
  PROVE  OthersDone'
<1> SUFFICES ASSUME FeatureFree(graph), graph' = graph,
                    NEW p \in Package \ (dirty' \cup newDirty'), ~InProgress(p)'
             PROVE  PackageDone(p)'
  BY NextGrows DEF OthersDone, Grows
<1>1. Grows
  BY NextGrows
<1>2. ASSUME p \notin dirty \cup newDirty, ~InProgress(p), Same(p)
      PROVE  PackageDone(p)'
  <2>1. PackageDone(p)
    BY <1>2 DEF OthersDone
  <2>2. QED
    BY <1>1, <1>2, <2>1, PackageDoneStays
<1>3. CASE StartPackage
  <2>1. p # current' /\ dirty \subseteq dirty' \cup {current'} /\ newDirty' = newDirty
    BY <1>3 DEF StartPackage, InProgress
  <2>2. ~InProgress(p) /\ Same(p)
    BY <1>3 DEF StartPackage, InProgress, Same
  <2>3. QED
    BY <1>2, <2>1, <2>2
<1>4. ASSUME NEW t \in Triple, NEW e \in todo[t], PropagateClause(t, e[1], e[2])
      PROVE  PackageDone(p)'
  <2>1. p # current /\ ~InProgress(p) /\ dirty' = dirty /\ newDirty \subseteq newDirty'
    BY <1>4 DEF PropagateClause, InProgress
  <2>2. Same(p)
    BY <2>1, UnlistedSame
  <2>3. QED
    BY <1>2, <2>1, <2>2
<1>5. ASSUME NEW t \in Triple, NEW e \in todo[t], Abort(t, e[1], e[2])
      PROVE  PackageDone(p)'
  <2>1. p \notin dirty \cup newDirty /\ ~InProgress(p) /\ Same(p)
    BY <1>5 DEF Abort, InProgress, Same
  <2>2. QED
    BY <1>2, <2>1
<1>6. CASE ScanDependency
  <2>1. p # current /\ ~InProgress(p) /\ dirty' = dirty /\ newDirty \subseteq newDirty'
    BY <1>6 DEF ScanDependency, LinkDependency, InProgress
  <2>2. Same(p)
    BY <2>1, UnlistedSame
  <2>3. QED
    BY <1>2, <2>1, <2>2
<1>7. CASE FinishPackage
  <2>1. dirty' = dirty /\ newDirty \subseteq newDirty' /\ features' = features /\ pc = "package"
    BY <1>7 DEF FinishPackage
  <2>2. Same(p)
    BY <2>1 DEF Same
  <2>3. CASE p # current
    BY <1>2, <2>1, <2>2, <2>3 DEF InProgress
  <2>4. CASE p = current
    <3>1. ~changed /\ current \notin newDirty /\ TableApplied /\ depIndex > Len(Deps)
      BY <1>7, <2>4 DEF FinishPackage
    <3>2. TableDone(p)
      BY <2>1, <2>4, <3>1 DEF CurrentDone, TableSoFar, TableApplied, TableDone, ClausesHold, ClauseDone
    <3>3. DOMAIN graph.deps[p] \subseteq 1..(depIndex - 1)
      <4>1. Len(Deps) \in Nat /\ DOMAIN Deps = 1..Len(Deps) /\ depIndex \in Nat
        BY <2>4, GraphParts DEF Deps, TypeOK
      <4>2. QED
        BY <2>4, <3>1, <4>1 DEF Deps
    <3>4. \A i \in DOMAIN graph.deps[p] : EntryDone(p, i)
      BY <2>1, <2>4, <3>1, <3>3 DEF CurrentDone, EntriesSoFar
    <3>5. PackageDone(p)
      BY <3>2, <3>4 DEF PackageDone
    <3>6. QED
      BY <1>1, <2>2, <3>5, PackageDoneStays
  <2>5. QED
    BY <2>3, <2>4
<1>8. CASE EndRound
  <2>1. p \notin dirty \cup newDirty /\ ~InProgress(p) /\ Same(p)
    BY <1>8 DEF EndRound, InProgress, Same
  <2>2. QED
    BY <1>2, <2>1
<1>9. CASE UNCHANGED vars
  <2>1. p \notin dirty \cup newDirty /\ ~InProgress(p) /\ Same(p)
    BY <1>9 DEF vars, InProgress, Same
  <2>2. QED
    BY <1>2, <2>1
<1>10. QED
  BY <1>3, <1>4, <1>5, <1>6, <1>7, <1>8, <1>9 DEF Next, Ended

-----------------------------------------------------------------------------
(***************************************************************************)
(* The inductive invariant of the worklist, and what it gives at the end.  *)
(***************************************************************************)
EndSettled == pc = "converged" => dirty = {} /\ newDirty = {}

SolverInv ==
  /\ TypeOK
  /\ TodoSound
  /\ SeedsKept
  /\ RetiredDone
  /\ LinksJustified
  /\ OthersDone
  /\ CurrentDone
  /\ EndSettled

LEMMA EndSettledStep ==
  ASSUME [Next]_vars, EndSettled
  PROVE  EndSettled'
<1>1. CASE EndRound
  BY <1>1 DEF EndRound, EndSettled
<1>2. CASE pc' = "converged" /\ ~EndRound
  BY <1>2 DEF Next, StartPackage, PropagateClause, Abort, ScanDependency, FinishPackage, Ended,
              vars, EndSettled
<1>3. CASE pc' # "converged"
  BY <1>3 DEF EndSettled
<1>4. QED
  BY <1>1, <1>2, <1>3

LEMMA InitInv == Init => SolverInv
<1> SUFFICES ASSUME Init PROVE SolverInv
  OBVIOUS
<1>1. TypeOK
  BY InitType
<1>2. SeedsKept
  BY DEF Init, SeedsKept
<1>3. RetiredDone
  BY DEF Init, RetiredDone
<1>4. TodoSound /\ CurrentDone /\ EndSettled
  BY DEF Init, TodoSound, CurrentDone, EndSettled
<1>5. LinksJustified
  BY DEF Init, LinksJustified
<1>6. OthersDone
  BY DEF Init, OthersDone
<1>7. QED
  BY <1>1, <1>2, <1>3, <1>4, <1>5, <1>6 DEF SolverInv

LEMMA NextInv == SolverInv /\ [Next]_vars => SolverInv'
<1> SUFFICES ASSUME SolverInv, [Next]_vars PROVE SolverInv'
  OBVIOUS
<1> USE DEF SolverInv
<1>1. TypeOK'
  BY NextType
<1>2. TodoSound' /\ SeedsKept'
  BY TodoStep, SeedsStep
<1>3. RetiredDone' /\ LinksJustified'
  BY RetiredStep, LinksStep
<1>4. OthersDone' /\ CurrentDone'
  BY <1>1, OthersStep, CurrentStep
<1>5. EndSettled'
  BY EndSettledStep
<1>6. QED
  BY <1>1, <1>2, <1>3, <1>4, <1>5

LEMMA Invariance == Spec => []SolverInv
BY InitInv, NextInv, PTL DEF Spec

(* A package the worklist passes over has nothing left to do. *)
THEOREM SolverWorklist == Spec => []WorklistComplete
<1>1. SolverInv => WorklistComplete
  BY WorklistParts DEF SolverInv
<1>2. QED
  BY <1>1, Invariance, PTL

(* A dependency is retired only when it has nothing left to contribute. *)
THEOREM SolverRetired == Spec => []RetiredDone
<1>1. SolverInv => RetiredDone
  BY DEF SolverInv
<1>2. QED
  BY <1>1, Invariance, PTL

LEMMA AllDone ==
  ASSUME SolverInv, FeatureFree(graph), pc = "converged" \/ (pc = "round" /\ dirty = {} /\ newDirty = {}),
         NEW p \in Package
  PROVE  PackageDone(p)
<1>1. dirty = {} /\ newDirty = {} /\ ~InProgress(p)
  BY DEF SolverInv, EndSettled, InProgress
<1>2. QED
  BY <1>1 DEF SolverInv, OthersDone

LEMMA DoneIsClosed ==
  ASSUME SolverInv, \A p \in Package : PackageDone(p), NEW t \in Triple
  PROVE  Closed(graph, t, features[t])
<1>1. \A p \in Package : Seed(graph, t, p) \subseteq features[t][p]
  BY DEF SolverInv, SeedsKept
<1>2. \A p \in Package : ClausesHold(graph, t, features[t], p)
  BY DEF PackageDone, TableDone
<1>3. \A p \in Package : DependenciesHold(graph, t, features[t], p)
  BY DEF PackageDone, EntryDone, DependenciesHold, DependencyHolds
<1>4. QED
  BY <1>1, <1>2, <1>3 DEF Closed, RulesHold

(* When the solver reports convergence, no rule has anything left to add. *)
THEOREM SolverClosed == Spec => []ResultClosed
<1>1. SolverInv => ResultClosed
  BY AllDone, DoneIsClosed DEF ResultClosed
<1>2. QED
  BY <1>1, Invariance, PTL

(* ... and exactly the dependencies that the result activates are linked. *)
THEOREM SolverLinksExact == Spec => []LinksExact
<1>1. SolverInv => LinksExact
  <2> SUFFICES ASSUME SolverInv, FeatureFree(graph), pc = "converged",
                      NEW t \in Triple, NEW p \in Package
               PROVE  linked[t][p] = LinksOf(graph, t, features[t], p)
    BY DEF LinksExact
  <2>1. linked[t][p] \subseteq LinksOf(graph, t, features[t], p)
    BY FeatureFreeIsPositive DEF SolverInv, LinksJustified
  <2>2. LinksOf(graph, t, features[t], p) \subseteq linked[t][p]
    BY AllDone DEF PackageDone, EntryDone, LinksOf
  <2>3. QED
    BY <2>1, <2>2
<1>2. QED
  BY <1>1, Invariance, PTL

(***************************************************************************)
(* Together: for every graph, the result the solver reports is closed,     *)
(* links what it activates, and links nothing that it does not.            *)
(***************************************************************************)
THEOREM SolverResult == Spec => []ResultExact
BY SolverClosed, SolverLinksExact, SolverLinksJustified, PTL DEF ResultExact

(* At no time does the worklist or a retired entry leave anything undone. *)
THEOREM SolverForgetsNothing == Spec => []NothingForgotten
BY SolverWorklist, SolverRetired, PTL DEF NothingForgotten

-----------------------------------------------------------------------------
(***************************************************************************)
(* The solver implements the closure computation: each step adds features  *)
(* some rule derives, and convergence is declared on a closed result.      *)
(***************************************************************************)
LEMMA SamePackages == Closure!Package = Package
BY DEF Closure!Package, Package

LEMMA SameSeed ==
  ASSUME NEW g, NEW t, NEW p
  PROVE  Closure!Seed(g, t, p) = Seed(g, t, p)
<1>1. \A w : Closure!Listed(g, w) = Listed(g, w)
  BY DEF Closure!Listed, Listed
<1>2. \A d : Closure!Matches(d, t, {}) = Matches(d, t, {})
  BY DEF Closure!Matches, Matches
<1>3. QED
  BY <1>1, <1>2 DEF Closure!Seed, Seed

LEMMA SameActive ==
  ASSUME NEW d, NEW t, NEW F
  PROVE  Closure!Active(d, t, F) <=> Active(d, t, F)
BY DEF Closure!Active, Active, Closure!Matches, Matches, Closure!SwitchedOn, SwitchedOn,
       Closure!Package, Package

LEMMA SameClauses ==
  ASSUME NEW g, NEW p, NEW c, NEW t, NEW F, NEW q
  PROVE  /\ Closure!OwnFeatures(g, p, c, t, F) = OwnFeatures(g, p, c, t, F)
         /\ Closure!PassedFeatures(g, p, c, t, F, q) = PassedFeatures(g, p, c, t, F, q)
<1>1. \A d : Closure!Matches(d, t, F) = Matches(d, t, F)
  BY DEF Closure!Matches, Matches
<1>2. \A d : Closure!Named(d, c, t, F) = Named(d, c, t, F)
  BY <1>1 DEF Closure!Named, Named
<1>3. Closure!Hit(g, p, c, t, F) = Hit(g, p, c, t, F)
  BY <1>2 DEF Closure!Hit, Hit
<1>4. \A d : Closure!Admitted(d, c, F) = Admitted(d, c, F)
  BY DEF Closure!Admitted, Admitted, Closure!SwitchedOn, SwitchedOn
<1>5. QED
  BY <1>3, <1>4 DEF Closure!OwnFeatures, OwnFeatures, Closure!PassedFeatures, PassedFeatures

LEMMA SameClosed ==
  ASSUME NEW g, NEW t, NEW A
  PROVE  Closure!Closed(g, t, A) <=> Closed(g, t, A)
<1>1. \A p, c : Closure!ClauseHolds(g, t, A, p, c) <=> ClauseHolds(g, t, A, p, c)
  BY SameClauses, SamePackages DEF Closure!ClauseHolds, ClauseHolds
<1>2. \A p : Closure!ClausesHold(g, t, A, p) <=> ClausesHold(g, t, A, p)
  BY <1>1 DEF Closure!ClausesHold, ClausesHold
<1>3. \A p : Closure!DependenciesHold(g, t, A, p) <=> DependenciesHold(g, t, A, p)
  BY SameActive DEF Closure!DependenciesHold, DependenciesHold, Closure!DependencyHolds,
                    DependencyHolds
<1>4. QED
  BY <1>2, <1>3, SameSeed, SamePackages DEF Closure!Closed, Closed, Closure!RulesHold, RulesHold

LEMMA ClauseDerives ==
  ASSUME TypeOK, TodoSound, NEW t \in Triple, NEW e \in todo[t], PropagateClause(t, e[1], e[2]),
         NEW q \in Package, NEW f \in features'[t][q] \ features[t][q]
  PROVE  Closure!Derivable(t, q, f)
<1> DEFINE c == e[2]
<1>1. current \in Package /\ e[1] \in features[t][current] /\ c \in graph.enables[current][e[1]]
  BY DEF PropagateClause, TypeOK, TodoSound
<1>2. f \in AfterClause(t, c, q)
  BY ClauseStep
<1>3. \/ f \in PassedFeatures(graph, current, c, t, features[t][current], q)
      \/ q = current /\ f \in OwnFeatures(graph, current, c, t, features[t][current])
  BY <1>2 DEF AfterClause
<1> HIDE DEF c
<1>4. Closure!DerivedFrom(current, t, q, f)
  BY <1>1, <1>3, SameClauses DEF Closure!DerivedFrom
<1>5. QED
  BY <1>1, <1>4, SamePackages DEF Closure!Derivable

LEMMA LinkDerives ==
  ASSUME TypeOK, ScanDependency, depIndex \in pending[current], LinkDependency(Deps[depIndex]),
         NEW t \in Triple, NEW q \in Package, NEW f \in features'[t][q] \ features[t][q]
  PROVE  Closure!Derivable(t, q, f)
<1> DEFINE d == Deps[depIndex]
<1>1. /\ current \in Package /\ d.to \in Package
      /\ depIndex \in DOMAIN graph.deps[current] /\ d = graph.deps[current][depIndex]
      /\ t \in ActiveTriples(d) /\ q = d.to /\ f \in d.features
  BY LinkStep
<1>2. Active(d, t, features[t][current])
  BY <1>1 DEF ActiveTriples, MatchTriples, Active
<1> HIDE DEF d
<1>3. Closure!DerivedFrom(current, t, q, f)
  BY <1>1, <1>2, SameActive DEF Closure!DerivedFrom
<1>4. QED
  BY <1>1, <1>3, SamePackages DEF Closure!Derivable

LEMMA StepRefines ==
  ASSUME SolverInv, SolverInv', [Next]_vars, FeatureFree(graph)
  PROVE  [Closure!Next]_(Closure!vars)
<1>1. Grows
  BY NextGrows DEF SolverInv
<1>2. features \in [Triple -> Assignment] /\ features' \in [Triple -> Assignment]
  BY DEF SolverInv, TypeOK
<1>3. /\ DOMAIN features' = Triple
      /\ \A t \in Triple : DOMAIN features'[t] = Package
  BY <1>2 DEF Assignment
<1>4. ASSUME pc = "package", pc' # "converged",
             \A t \in Triple, q \in Package :
               \A f \in features'[t][q] \ features[t][q] : Closure!Derivable(t, q, f)
      PROVE  Closure!Infer
  BY <1>1, <1>3, <1>4, SamePackages DEF Closure!Infer, Grows
<1>5. ASSUME NEW t \in Triple, NEW e \in todo[t], PropagateClause(t, e[1], e[2])
      PROVE  Closure!Infer
  <2>1. \A s \in Triple, q \in Package :
          \A f \in features'[s][q] \ features[s][q] : Closure!Derivable(s, q, f)
    BY <1>5, ClauseStep, ClauseDerives DEF SolverInv
  <2>2. pc = "package" /\ pc' = pc
    BY <1>5 DEF PropagateClause
  <2>3. QED
    BY <1>4, <2>1, <2>2
<1>6. CASE ScanDependency
  <2>1. pc = "package" /\ pc' = pc
    BY <1>6 DEF ScanDependency
  <2>2. CASE depIndex \in pending[current] /\ LinkDependency(Deps[depIndex])
    <3>1. \A s \in Triple, q \in Package :
            \A f \in features'[s][q] \ features[s][q] : Closure!Derivable(s, q, f)
      BY <1>6, <2>2, LinkDerives DEF SolverInv
    <3>2. QED
      BY <1>4, <2>1, <3>1 DEF Closure!Next
  <2>3. CASE UNCHANGED <<features, linked, pending, newDirty, changed>>
    BY <1>1, <2>1, <2>3 DEF Grows, Closure!vars
  <2>4. QED
    BY <1>6, <2>2, <2>3 DEF ScanDependency
<1>7. CASE EndRound
  <2>1. features' = features /\ graph' = graph /\ pc = "round" /\ dirty = {}
    BY <1>7 DEF EndRound
  <2>2. CASE newDirty = {}
    <3>1. \A p \in Package : PackageDone(p)
      BY <2>1, <2>2, AllDone
    <3>2. \A t \in Triple : Closed(graph, t, features[t])
      BY <3>1, DoneIsClosed
    <3>3. pc' = "converged"
      BY <1>7, <2>2 DEF EndRound
    <3>4. Closure!Declare
      BY <2>1, <3>2, <3>3, SameClosed DEF Closure!Declare
    <3>5. QED
      BY <3>4 DEF Closure!Next
  <2>3. CASE newDirty # {}
    BY <1>7, <2>1, <2>3 DEF EndRound, Closure!vars
  <2>4. QED
    BY <2>2, <2>3
<1>8. CASE StartPackage \/ FinishPackage \/ Ended \/ UNCHANGED vars
  BY <1>8 DEF StartPackage, FinishPackage, Ended, vars, Closure!vars
<1>9. ASSUME NEW t \in Triple, NEW e \in todo[t], Abort(t, e[1], e[2])
      PROVE  UNCHANGED Closure!vars
  BY <1>9 DEF Abort, Closure!vars
<1>10. QED
  BY <1>5, <1>6, <1>7, <1>8, <1>9 DEF Next, Closure!Next

THEOREM SolverRefines ==
  ASSUME \A g \in Graphs : FeatureFree(g)
  PROVE  Spec => RefinesClosure
<1>1. Init => Closure!Init
  BY SameSeed, SamePackages DEF Init, Closure!Init
<1>2. SolverInv /\ SolverInv' /\ [Next]_vars => [Closure!Next]_(Closure!vars)
  <2>1. SolverInv => FeatureFree(graph)
    BY DEF SolverInv, TypeOK
  <2>2. QED
    BY <2>1, StepRefines
<1>3. QED
  BY <1>1, <1>2, Invariance, PTL DEF Spec, Closure!Spec, RefinesClosure
=============================================================================
