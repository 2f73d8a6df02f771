---------------------------- MODULE FeatureGraph ----------------------------
(***************************************************************************)
(* The input of the lockfile fastpath's feature solver, and the rules by   *)
(* which one enabled feature enables another.  A graph is what             *)
(* fastpath_resolve_and_render hands to resolve(): for every package the   *)
(* feature table of its manifest (possible_features), its dependency       *)
(* entries in manifest order (possible_deps), and the features seeded      *)
(* before the first round.  Packages are numbered in the order of the      *)
(* solver's list; the order matters to the solver and to nothing here.     *)
(*                                                                         *)
(* Every rule relates features of one platform triple only, so it is       *)
(* stated of an assignment  A \in [Package -> SUBSET Feature]  for one     *)
(* triple t.                                                               *)
(***************************************************************************)
EXTENDS Naturals, Sequences, FiniteSets

CONSTANTS
  N,        \* number of packages in the resolver's list
  Triple,   \* the platform triples resolved for
  Feature,  \* feature names, dependency names and "dep:" names alike
  NoDep,    \* marks a feature table entry that names no dependency
  Graphs    \* the graphs under study

Package == 1..N

(***************************************************************************)
(* A dependency whose crate is not in Cargo.lock, or whose requirement     *)
(* picks none of the locked versions, keeps neither bazel_target nor       *)
(* feature_resolutions.                                                    *)
(***************************************************************************)
Unresolved == 0

(***************************************************************************)
(* An entry of a feature's list: "f" has dep = NoDep, "d/f" is strong,     *)
(* "d?/f" is weak.                                                         *)
(***************************************************************************)
Clause == [dep : Feature \cup {NoDep}, feature : Feature, weak : BOOLEAN]

(***************************************************************************)
(* One conjunction of feature predicates a cfg() target expression holds   *)
(* under.  What the triple decides by itself is decided already: a target  *)
(* is, for each triple, the set of its remaining alternatives.  {Always}   *)
(* is a plain match and {} no match.                                       *)
(***************************************************************************)
Alternative == [has : SUBSET Feature, lacks : SUBSET Feature]
Always == [has |-> {}, lacks |-> {}]

(***************************************************************************)
(* A dependency entry.  switches holds the two features, name and          *)
(* "dep:name", either of which turns an optional dependency on.  to is     *)
(* the package select_matching_version chose and lockTo the one that       *)
(* _compute_package_fq_deps finds under the crate's name: they differ      *)
(* when a manifest names two versions of one crate.  A bare entry is an    *)
(* unresolved one whose target is None or absent.                          *)
(***************************************************************************)
Dependency ==
  [name : Feature, switches : SUBSET Feature, optional : BOOLEAN,
   kind : {"normal", "build"}, to : Package \cup {Unresolved},
   lockTo : Package \cup {Unresolved}, bare : BOOLEAN,
   features : SUBSET Feature, cfg : [Triple -> SUBSET Alternative]]

IsGraph(g) ==
  /\ g.enables \in [Package -> [Feature -> SUBSET Clause]]
  /\ DOMAIN g.deps = Package
  /\ \A p \in Package : g.deps[p] \in Seq(Dependency)
  /\ g.members \subseteq Package
  /\ DOMAIN g.dev = Package
  /\ \A p \in Package : g.dev[p] \in Seq(Dependency)
  /\ g.annotated \in [Package -> SUBSET Feature]

ASSUME GraphAssumption ==
  /\ N \in Nat
  /\ NoDep \notin Feature
  /\ \A g \in Graphs : IsGraph(g)

-----------------------------------------------------------------------------
(* Does d apply on triple t to a package that has the features F? *)
Matches(d, t, F) ==
  \E alt \in d.cfg[t] : alt.has \subseteq F /\ alt.lacks \cap F = {}

SwitchedOn(d, F) == d.optional => d.switches \cap F # {}

(***************************************************************************)
(* The features every package starts with.  A workspace member passes the  *)
(* features of each dependency it lists, dev and optional ones included,   *)
(* to the package the lock file gives for the crate's name, on the triples *)
(* that match with no feature enabled; an annotation's crate_features hold *)
(* on every triple.  default_features appears as "default" in d.features.  *)
(***************************************************************************)
Listed(g, w) ==
  {g.deps[w][i] : i \in DOMAIN g.deps[w]} \cup
  {g.dev[w][i] : i \in DOMAIN g.dev[w]}

Seed(g, t, p) ==
  g.annotated[p] \cup
  UNION {d.features : d \in {e \in UNION {Listed(g, w) : w \in g.members} :
                               e.lockTo = p /\ Matches(e, t, {})}}

(***************************************************************************)
(* The scan for the dependency that "d/f" names stops at the first entry   *)
(* of that name that matches, or trips over a bare one before it.  The     *)
(* set has at most one element.                                            *)
(***************************************************************************)
Named(d, c, t, F) == d.name = c.dep /\ (d.bare \/ Matches(d, t, F))

Hit(g, p, c, t, F) ==
  {i \in DOMAIN g.deps[p] :
     /\ Named(g.deps[p][i], c, t, F)
     /\ \A j \in 1..(i - 1) : ~Named(g.deps[p][j], c, t, F)}

(* "d?/f" reaches an optional dependency only once something else turned it on. *)
Admitted(d, c, F) == c.weak => SwitchedOn(d, F)

(* What clause c of package p adds to p itself ... *)
OwnFeatures(g, p, c, t, F) ==
  IF c.dep = NoDep
  THEN {c.feature}
  ELSE {c.dep : i \in {j \in Hit(g, p, c, t, F) :
                         g.deps[p][j].optional /\ ~c.weak}}

(* ... and what it adds to package q. *)
PassedFeatures(g, p, c, t, F, q) ==
  {c.feature : i \in {j \in Hit(g, p, c, t, F) :
                        g.deps[p][j].to = q /\ Admitted(g.deps[p][j], c, F)}}

(***************************************************************************)
(* Evaluating clause c is an error: the scan reads the target of a bare    *)
(* entry, or the feature_resolutions of an unresolved one.                 *)
(***************************************************************************)
Breaks(g, p, c, t, F) ==
  \E i \in Hit(g, p, c, t, F) :
    \/ g.deps[p][i].bare
    \/ g.deps[p][i].to = Unresolved /\ Admitted(g.deps[p][i], c, F)

(* Dependency d takes part in the build of a package with features F. *)
Active(d, t, F) ==
  d.to \in Package /\ Matches(d, t, F) /\ SwitchedOn(d, F)

-----------------------------------------------------------------------------
(***************************************************************************)
(* What "resolved" means, with no reference to the solver: an assignment   *)
(* is closed when it contains the seeds and no rule adds anything to it.   *)
(***************************************************************************)
ClauseHolds(g, t, A, p, c) ==
  /\ OwnFeatures(g, p, c, t, A[p]) \subseteq A[p]
  /\ \A q \in Package : PassedFeatures(g, p, c, t, A[p], q) \subseteq A[q]

DependencyHolds(g, t, A, p, i) ==
  Active(g.deps[p][i], t, A[p]) =>
    g.deps[p][i].features \subseteq A[g.deps[p][i].to]

ClausesHold(g, t, A, p) ==
  \A f \in A[p] : \A c \in g.enables[p][f] : ClauseHolds(g, t, A, p, c)

DependenciesHold(g, t, A, p) ==
  \A i \in DOMAIN g.deps[p] : DependencyHolds(g, t, A, p, i)

RulesHold(g, t, A) ==
  \A p \in Package : ClausesHold(g, t, A, p) /\ DependenciesHold(g, t, A, p)

Closed(g, t, A) ==
  /\ \A p \in Package : Seed(g, t, p) \subseteq A[p]
  /\ RulesHold(g, t, A)

(* The dependencies an assignment links on triple t. *)
LinksOf(g, t, A, p) ==
  {<<g.deps[p][i].kind, g.deps[p][i].to>> :
     i \in {j \in DOMAIN g.deps[p] : Active(g.deps[p][j], t, A[p])}}

(***************************************************************************)
(* No target of the graph mentions a feature: dep["feature_sensitive"] is  *)
(* set for no dependency.                                                  *)
(***************************************************************************)
FeatureFree(g) ==
  \A p \in Package : \A i \in DOMAIN g.deps[p] : \A t \in Triple :
    g.deps[p][i].cfg[t] \subseteq {Always}
=============================================================================
