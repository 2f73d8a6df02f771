--------------------------- MODULE FastpathSolver ---------------------------
(***************************************************************************)
(* The feature/dependency fixpoint solver of the lockfile fastpath         *)
(* (crate_universe/private/fastpath_solver.bzl).  resolve() runs rounds:   *)
(* each takes the packages the previous round left dirty, in list order,   *)
(* and for each of them first applies its feature table and then scans its *)
(* dependency entries.  The solver stops when a round dirties nothing, or  *)
(* gives up after MaxRounds of them.                                       *)
(*                                                                         *)
(* A package's feature table is applied entry by entry over a snapshot of  *)
(* its enabled features.  The code's order (triple, insertion order of the *)
(* feature set, order of the list) is one of the orders PropagateClause    *)
(* may take; the dependency scan is in manifest order as in the code.      *)
(***************************************************************************)
EXTENDS FeatureGraph

CONSTANT MaxRounds  \* _MAX_ROUNDS, 50 in the code

ASSUME RoundsAssumption == MaxRounds \in Nat \ {0}

VARIABLES
  graph,     \* the graph being resolved; never changes
  features,  \* features[t][p]: features_enabled[t] of package p
  linked,    \* linked[t][p]: deps[t] and build_deps[t] of p, as <<kind, package>>
  pending,   \* pending[p]: p's entries that still have their bazel_target
  dirty,     \* packages this round has yet to process
  newDirty,  \* packages the next round has to process
  round,     \* rounds completed
  pc,        \* "round", "package", or how the run ended
  current,   \* the package being processed
  todo,      \* todo[t]: the <<feature, clause>> not yet applied
  depIndex,  \* the next dependency entry to scan
  changed    \* package_changed

vars == <<graph, features, linked, pending, dirty, newDirty, round, pc,
          current, todo, depIndex, changed>>

Assignment == [Package -> SUBSET Feature]
Link == {"normal", "build"} \X Package
Deps == graph.deps[current]

(* The entries resolve_dependency_targets gave a bazel_target. *)
Resolved(g, p) == {i \in DOMAIN g.deps[p] : g.deps[p][i].to \in Package}

TypeOK ==
  /\ graph \in Graphs
  /\ features \in [Triple -> Assignment]
  /\ linked \in [Triple -> [Package -> SUBSET Link]]
  /\ pending \in [Package -> SUBSET Nat]
  /\ \A p \in Package : pending[p] \subseteq Resolved(graph, p)
  /\ dirty \subseteq Package
  /\ newDirty \subseteq Package
  /\ round \in 0..MaxRounds
  /\ pc \in {"round", "package", "converged", "failed", "aborted"}
  /\ current \in Package \cup {0}
  /\ todo \in [Triple -> SUBSET (Feature \X Clause)]
  /\ depIndex \in Nat
  /\ changed \in BOOLEAN
  /\ pc \in {"round", "package"} => round < MaxRounds
  /\ pc = "package" => current \in Package /\ depIndex \in 1..(Len(Deps) + 1)

-----------------------------------------------------------------------------
Init ==
  /\ graph \in Graphs
  /\ features = [t \in Triple |-> [p \in Package |-> Seed(graph, t, p)]]
  /\ linked = [t \in Triple |-> [p \in Package |-> {}]]
  /\ pending = [p \in Package |-> Resolved(graph, p)]
  /\ dirty = Package
  /\ newDirty = {}
  /\ round = 0
  /\ pc = "round"
  /\ current = 0
  /\ todo = [t \in Triple |-> {}]
  /\ depIndex = 1
  /\ changed = FALSE

(* The table entries of the features enabled when package p's turn comes. *)
Snapshot(p) ==
  [t \in Triple |-> UNION {{f} \X graph.enables[p][f] : f \in features[t][p]}]

TableApplied == \A t \in Triple : todo[t] = {}

StartPackage ==
  /\ pc = "round"
  /\ \E p \in dirty :
       /\ \A q \in dirty : p <= q
       /\ current' = p
       /\ dirty' = dirty \ {p}
       /\ todo' = Snapshot(p)
  /\ depIndex' = 1
  /\ changed' = FALSE
  /\ pc' = "package"
  /\ UNCHANGED <<graph, features, linked, pending, newDirty, round>>

(* Mutant of AfterClause: the continue after a plain feature is forgotten, *)
(* and the name enabled by "f" is enabled for "d/f" as well.               *)
AfterClauseNoContinue(t, c, q) ==
  features[t][q]
    \cup PassedFeatures(graph, current, c, t, features[t][current], q)
    \cup (IF q = current THEN {c.feature} ELSE {})

(* Package q's features on triple t once clause c of current is applied. *)
AfterClause(t, c, q) ==
  features[t][q]
    \cup PassedFeatures(graph, current, c, t, features[t][current], q)
    \cup (IF q = current
          THEN OwnFeatures(graph, current, c, t, features[t][current])
          ELSE {})

(* Mutant of Reached: nobody is told. *)
ReachedNever(t, c) == {}

(* Packages that a clause passes a feature they did not have. *)
Reached(t, c) ==
  {q \in Package : ~(PassedFeatures(graph, current, c, t, features[t][current], q)
                       \subseteq features[t][q])}

PropagateClause(t, f, c) ==
  /\ pc = "package"
  /\ <<f, c>> \in todo[t]
  /\ ~Breaks(graph, current, c, t, features[t][current])
  /\ todo' = [todo EXCEPT ![t] = @ \ {<<f, c>>}]
  /\ features' = [features EXCEPT ![t] = [q \in Package |-> AfterClause(t, c, q)]]
  /\ newDirty' = newDirty \cup Reached(t, c)
  /\ changed' = (changed \/ ~(OwnFeatures(graph, current, c, t, features[t][current])
                                \subseteq features[t][current]))
  /\ UNCHANGED <<graph, linked, pending, dirty, round, pc, current, depIndex>>

(* A Starlark error inside _dep_target_matches_triple or right after it. *)
Abort(t, f, c) ==
  /\ pc = "package"
  /\ <<f, c>> \in todo[t]
  /\ Breaks(graph, current, c, t, features[t][current])
  /\ pc' = "aborted"
  /\ UNCHANGED <<graph, features, linked, pending, dirty, newDirty, round,
                 current, todo, depIndex, changed>>

(***************************************************************************)
(* The scan of one dependency entry.  match is computed for the entry's    *)
(* triples, an optional entry passes over those where it is switched off,  *)
(* and the entry is retired when none of the matching ones was passed      *)
(* over.                                                                   *)
(***************************************************************************)
MatchTriples(d) == {t \in Triple : Matches(d, t, features[t][current])}

(* Mutant of ActiveTriples: optional is not looked at. *)
ActiveWhenMatching(d) == {t \in Triple : Matches(d, t, features[t][current])}
ActiveTriples(d) ==
  {t \in MatchTriples(d) : SwitchedOn(d, features[t][current])}

(* Mutant of LinkDependency: an entry that did anything at all is retired. *)
LinkAndRetire(d) ==
  LET on == ActiveTriples(d) IN
  /\ linked' = [t \in Triple |->
                  IF t \in on
                  THEN [linked[t] EXCEPT ![current] = @ \cup {<<d.kind, d.to>>}]
                  ELSE linked[t]]
  /\ features' = [t \in Triple |->
                    IF t \in on
                    THEN [features[t] EXCEPT ![d.to] = @ \cup d.features]
                    ELSE features[t]]
  /\ newDirty' = IF \E t \in on : ~(d.features \subseteq features[t][d.to])
                 THEN newDirty \cup {d.to}
                 ELSE newDirty
  /\ changed' = (changed \/ \E t \in on : <<d.kind, d.to>> \notin linked[t][current])
  /\ pending' = IF on # {}
                THEN [pending EXCEPT ![current] = @ \ {depIndex}]
                ELSE pending

LinkDependency(d) ==
  LET on == ActiveTriples(d) IN
  /\ linked' = [t \in Triple |->
                  IF t \in on
                  THEN [linked[t] EXCEPT ![current] = @ \cup {<<d.kind, d.to>>}]
                  ELSE linked[t]]
  /\ features' = [t \in Triple |->
                    IF t \in on
                    THEN [features[t] EXCEPT ![d.to] = @ \cup d.features]
                    ELSE features[t]]
  /\ newDirty' = IF \E t \in on : ~(d.features \subseteq features[t][d.to])
                 THEN newDirty \cup {d.to}
                 ELSE newDirty
  /\ changed' = (changed \/ \E t \in on : <<d.kind, d.to>> \notin linked[t][current])
  /\ pending' = IF on # {} /\ on = MatchTriples(d)
                THEN [pending EXCEPT ![current] = @ \ {depIndex}]
                ELSE pending

ScanDependency ==
  /\ pc = "package"
  /\ TableApplied
  /\ depIndex <= Len(Deps)
  /\ depIndex' = depIndex + 1
  /\ \/ /\ depIndex \in pending[current]
        /\ LinkDependency(Deps[depIndex])
     \/ /\ depIndex \notin pending[current]
        /\ UNCHANGED <<features, linked, pending, newDirty, changed>>
  /\ UNCHANGED <<graph, dirty, round, pc, current, todo>>

(* Mutants of FinishPackage: a changed package is never visited again, or *)
(* every package is.                                                      *)
FinishQuietly ==
  /\ pc = "package"
  /\ TableApplied
  /\ depIndex > Len(Deps)
  /\ pc' = "round"
  /\ UNCHANGED <<graph, features, linked, pending, dirty, newDirty, round, current,
                 todo, depIndex, changed>>
FinishAgain ==
  /\ pc = "package"
  /\ TableApplied
  /\ depIndex > Len(Deps)
  /\ newDirty' = newDirty \cup {current}
  /\ pc' = "round"
  /\ UNCHANGED <<graph, features, linked, pending, dirty, round, current, todo,
                 depIndex, changed>>

FinishPackage ==
  /\ pc = "package"
  /\ TableApplied
  /\ depIndex > Len(Deps)
  /\ newDirty' = IF changed THEN newDirty \cup {current} ELSE newDirty
  /\ pc' = "round"
  /\ UNCHANGED <<graph, features, linked, pending, dirty, round, current, todo,
                 depIndex, changed>>

(* Mutant of EndRound: rounds are not limited. *)
EndRoundUnlimited ==
  /\ pc = "round"
  /\ dirty = {}
  /\ round' = round + 1
  /\ dirty' = newDirty
  /\ newDirty' = {}
  /\ \/ newDirty = {} /\ pc' = "converged"
     \/ newDirty # {} /\ pc' = "round"
  /\ UNCHANGED <<graph, features, linked, pending, current, todo, depIndex, changed>>

EndRound ==
  /\ pc = "round"
  /\ dirty = {}
  /\ round' = round + 1
  /\ dirty' = newDirty
  /\ newDirty' = {}
  /\ \/ newDirty = {} /\ pc' = "converged"
     \/ newDirty # {} /\ round + 1 = MaxRounds /\ pc' = "failed"
     \/ newDirty # {} /\ round + 1 < MaxRounds /\ pc' = "round"
  /\ UNCHANGED <<graph, features, linked, pending, current, todo, depIndex, changed>>

(* resolve() has returned or failed; the caller takes over. *)
Ended == pc \in {"converged", "failed", "aborted"} /\ UNCHANGED vars

Next ==
  \/ StartPackage
  \/ \E t \in Triple : \E e \in todo[t] :
       PropagateClause(t, e[1], e[2]) \/ Abort(t, e[1], e[2])
  \/ ScanDependency
  \/ FinishPackage
  \/ EndRound
  \/ Ended

Spec == Init /\ [][Next]_vars

(* The solver is a loop of one evaluation thread: it takes its next step. *)
FairSpec == Spec /\ WF_vars(Next)
-----------------------------------------------------------------------------
(***************************************************************************)
(* "Run fixpoint resolution until features and transitive deps converge":  *)
(* when the worklist runs dry no table entry and no dependency has         *)
(* anything left to add, although each package was last processed at a     *)
(* time when others could still change it.                                 *)
(***************************************************************************)
ResultClosed ==
  FeatureFree(graph) /\ pc = "converged" =>
    \A t \in Triple : Closed(graph, t, features[t])

(***************************************************************************)
(* The deps and build_deps rendered into BUILD files are the entries that  *)
(* the final features activate: none is missed because its package was     *)
(* scanned too early, none survives from a feature set that was passed     *)
(* over.                                                                   *)
(***************************************************************************)
LinksExact ==
  FeatureFree(graph) /\ pc = "converged" =>
    \A t \in Triple, p \in Package :
      linked[t][p] = LinksOf(graph, t, features[t], p)

(***************************************************************************)
(* The strengthening that makes ResultClosed and LinksExact inductive.     *)
(* Entry i of package p has done its work on every triple.                 *)
(***************************************************************************)
EntryDone(p, i) ==
  \A t \in Triple :
    LET d == graph.deps[p][i] IN
    Active(d, t, features[t][p]) =>
      /\ d.features \subseteq features[t][d.to]
      /\ <<d.kind, d.to>> \in linked[t][p]

TableDone(p) ==
  \A t \in Triple : ClausesHold(graph, t, features[t], p)

(***************************************************************************)
(* A dependency entry is retired (dep["bazel_target"] = None) only when it *)
(* can contribute nothing more, now or after later features: its work is   *)
(* done on every triple it applies to.                                     *)
(***************************************************************************)
RetiredDone ==
  FeatureFree(graph) =>
    \A p \in Package : \A i \in Resolved(graph, p) \ pending[p] :
        \A t \in Triple :
          LET d == graph.deps[p][i] IN
          Matches(d, t, features[t][p]) =>
            /\ SwitchedOn(d, features[t][p])
            /\ d.features \subseteq features[t][d.to]
            /\ <<d.kind, d.to>> \in linked[t][p]

(***************************************************************************)
(* The worklist misses nothing: a package that neither this round nor the  *)
(* next will visit has nothing left to do, and the one being processed has *)
(* nothing left to do but what todo and the entries from depIndex on still *)
(* hold, unless it is bound to be visited again.                           *)
(***************************************************************************)
InProgress(p) == pc \in {"package", "aborted"} /\ p = current

WorklistComplete ==
  FeatureFree(graph) =>
    /\ \A p \in Package \ (dirty \cup newDirty) : ~InProgress(p) =>
         TableDone(p) /\ \A i \in DOMAIN graph.deps[p] : EntryDone(p, i)
    /\ pc = "package" /\ ~changed /\ current \notin newDirty =>
         /\ \A t \in Triple : \A f \in features[t][current] :
              \A c \in graph.enables[current][f] :
                <<f, c>> \in todo[t] \/ ClauseHolds(graph, t, features[t], current, c)
         /\ \A i \in 1..(depIndex - 1) : EntryDone(current, i)

(***************************************************************************)
(* A dependency is linked only on triples, and with features, that         *)
(* activate it - with feature-sensitive targets too, as long as none is    *)
(* negated, so that a match seen once stays a match.                       *)
(***************************************************************************)
Positive(g) ==
  \A p \in Package : \A i \in DOMAIN g.deps[p] : \A t \in Triple :
    \A alt \in g.deps[p][i].cfg[t] : alt.lacks = {}

LinksJustified ==
  Positive(graph) =>
    \A t \in Triple, p \in Package :
      linked[t][p] \subseteq LinksOf(graph, t, features[t], p)

(***************************************************************************)
(* What convergence means (fastpath_solver.bzl, "until features and        *)
(* transitive deps converge"): the result is closed under every rule, and  *)
(* its links are those the features activate, no more and no fewer; a link *)
(* is never recorded that a later round would not make.                    *)
(***************************************************************************)
ResultExact == ResultClosed /\ LinksExact /\ LinksJustified

(***************************************************************************)
(* Nothing is forgotten: neither by the worklist, which holds every package*)
(* that has something left to do, nor by retiring a dependency, which can  *)
(* then contribute nothing more, now or later.                             *)
(***************************************************************************)
NothingForgotten == WorklistComplete /\ RetiredDone

\* Items found: what _count sums up, beyond what is there from the start.
Count ==
  Cardinality({e \in Triple \X Package \X Feature : e[3] \in features[e[1]][e[2]]})
  + Cardinality({e \in Triple \X Package \X Link : e[3] \in linked[e[1]][e[2]]})

SeedCount ==
  Cardinality({e \in Triple \X Package \X Feature : e[3] \in Seed(graph, e[1], e[2])})

(***************************************************************************)
(* Resolution ends.  It ends converged unless the graph has an entry that  *)
(* is missing from Cargo.lock, or as many items to find as rounds allowed. *)
(***************************************************************************)
HasUnresolved(g) ==
  \E p \in Package : \E i \in DOMAIN g.deps[p] : g.deps[p][i].to = Unresolved

Converges ==
  <>\/ pc = "converged"
    \/ pc = "aborted" /\ HasUnresolved(graph)
    \/ pc = "failed" /\ Count - SeedCount >= MaxRounds

(***************************************************************************)
(* The solver as the abstract closure computation of FeatureClosure.       *)
(***************************************************************************)
Closure == INSTANCE FeatureClosure WITH enabled <- features, done <- (pc = "converged")
RefinesClosure == Closure!Spec

(***************************************************************************)
(* "Run fixpoint resolution until features and transitive deps converge":  *)
(* the comment makes no exception for targets with feature predicates, as  *)
(* ResultExact does.  Refuted: an entry is retired by the features of one  *)
(* round (fastpath_solver.bzl).                                            *)
(***************************************************************************)
ConvergedIsFixpoint ==
  pc = "converged" =>
    \A t \in Triple :
      /\ Closed(graph, t, features[t])
      /\ \A p \in Package : linked[t][p] = LinksOf(graph, t, features[t], p)
=============================================================================
