----------------------------- MODULE TreeResolver -----------------------------
(***************************************************************************)
(* TreeResolver::generate: the features and dependencies of every crate on *)
(* every platform, from one `cargo tree` per pair of host and target.      *)
(*                                                                         *)
(* The workspace is copied with every procedural macro as a dependency of  *)
(* its root, so that macros and what they are built from are resolved for  *)
(* every host.  A bounded number of threads run the cargo processes, which *)
(* end in any order; their outputs are parsed, merged by crate and         *)
(* platform, and split into what all platforms share and the rest.         *)
(***************************************************************************)
EXTENDS CargoTreeOutput, Selects

CONSTANTS
  Triple,       \* supported_platform_triples, as Bazel names them
  CargoOf,      \* TargetTriple::to_cargo, which takes nixos for linux
  HostTools,    \* RUSTC_TRIPLES_WITH_HOST_TOOLS
  MaxParallel,  \* available_parallelism
  FakeRoot,     \* rules_rust_fake_proc_macro_root
  Requests      \* workspaces, sets of triples, and how cargo may end on them

ASSUME ResolverAssumption ==
  /\ CargoOf \in [Triple -> Platform]
  /\ HostTools \subseteq Platform
  /\ MaxParallel \in Nat \ {0}
  /\ IsFiniteSet(Crate) /\ FakeRoot \in Crate
  /\ \A r \in Requests :
       /\ r.triples \subseteq Triple /\ IsFiniteSet(r.triples)
       /\ r.ends \subseteq {"done", "nonzero", "error"}
       /\ r.workspace \in Workspace
       /\ ~r.workspace.virtual => r.workspace.roots # <<>>

VARIABLES
  request,   \* the workspace, target_triples, and the ends cargo may come to
  pc,        \* where execute_cargo_tree or generate is
  copy,      \* the workspace in the temporary directory
  jobs,      \* pairs of cargo platforms that have no thread yet
  inFlight,  \* in_flight: threads spawned and not joined
  thread,    \* what each thread has come to
  results,   \* pairs joined, in order
  outputs,   \* what cargo printed, by pair
  trees,     \* the parsed outputs
  data,      \* tree_data: what the outputs say of each crate, by triple
  metadata,  \* the result, by crate
  result     \* how generate ended

vars == <<request, pc, copy, jobs, inFlight, thread, results, outputs, trees, data, metadata, result>>

Targets == request.triples
Hosts == {t \in Targets : CargoOf[t] \in HostTools}
CargoPlatforms(triples) == {CargoOf[t] : t \in triples}
Pairs == CargoPlatforms(Hosts) \X CargoPlatforms(Targets)

(***************************************************************************)
(* The copy's manifest: a virtual workspace is given a package to hold the *)
(* dependencies on macros from outside the workspace.                      *)
(***************************************************************************)
InjectNothing(w) == w

Inject(w) ==
  LET macros == w.procMacros \ ToSet(w.roots)
      root == IF w.virtual THEN FakeRoot ELSE w.roots[1]
      edges == {[from |-> root, to |-> m, kind |-> "normal", on |-> Platform] : m \in macros}
  IN  IF macros = {} THEN w
      ELSE [w EXCEPT !.edges = @ \o SetToSeq(edges),
                     !.roots = IF w.virtual THEN Append(@, FakeRoot) ELSE @]

Init ==
  /\ request \in Requests
  /\ pc = "starting"
  /\ copy = <<>>
  /\ jobs = <<>>
  /\ inFlight = <<>>
  /\ thread = [p \in Pairs |-> "none"]
  /\ results = <<>>
  /\ outputs = <<>>
  /\ trees = <<>>
  /\ data = <<>>
  /\ metadata = <<>>
  /\ result = "none"

Return(how) ==
  /\ pc' = "ended"
  /\ result' = how

(***************************************************************************)
(* Copying the project and writing the rustc wrapper may fail; without a   *)
(* host or a target there is nothing to run.                               *)
(***************************************************************************)
Start ==
  /\ pc = "starting"
  /\ IF Hosts = {}
     THEN Return("failed") /\ UNCHANGED jobs
     ELSE jobs' = SetToSeq(Pairs) /\ pc' = "spawning" /\ UNCHANGED result
  /\ copy' = Inject(request.workspace)
  /\ UNCHANGED <<request, inFlight, thread, results, outputs, trees, data, metadata>>

StartFails ==
  /\ pc = "starting"
  /\ Return("failed")
  /\ UNCHANGED <<request, copy, jobs, inFlight, thread, results, outputs, trees, data, metadata>>

\* Mutant: the jobs are started from the end and dropped from the front.
SpawnLast ==
  /\ pc = "spawning" /\ jobs # <<>>
  /\ Len(inFlight) < MaxParallel
  /\ thread' = [thread EXCEPT ![Last(jobs)] = "running"]
  /\ inFlight' = Append(inFlight, Last(jobs))
  /\ jobs' = Tail(jobs)
  /\ UNCHANGED <<request, pc, copy, results, outputs, trees, data, metadata, result>>

Spawn ==
  /\ pc = "spawning" /\ jobs # <<>>
  /\ Len(inFlight) < MaxParallel
  /\ thread' = [thread EXCEPT ![Head(jobs)] = "running"]
  /\ inFlight' = Append(inFlight, Head(jobs))
  /\ jobs' = Tail(jobs)
  /\ UNCHANGED <<request, pc, copy, results, outputs, trees, data, metadata, result>>

SpawnDone ==
  /\ pc = "spawning" /\ jobs = <<>>
  /\ pc' = "joining"
  /\ UNCHANGED <<request, copy, jobs, inFlight, thread, results, outputs, trees, data, metadata, result>>

\* A thread that could not run cargo makes the resolver return at once, with
\* the others still at work.
Join ==
  /\ inFlight' = Tail(inFlight)
  /\ IF thread[Head(inFlight)] = "error"
     THEN Return("failed") /\ UNCHANGED results
     ELSE /\ results' = Append(results, Head(inFlight))
          /\ UNCHANGED <<pc, result>>
  /\ UNCHANGED <<request, copy, jobs, thread, outputs, trees, data, metadata>>

\* Mutant: a cargo that failed is run again, for as long as it fails.
JoinRetrying ==
  /\ \/ pc = "spawning" /\ jobs # <<>> /\ Len(inFlight) >= MaxParallel
     \/ pc = "joining" /\ inFlight # <<>>
  /\ thread[Head(inFlight)] # "running"
  /\ IF thread[Head(inFlight)] = "nonzero"
     THEN /\ thread' = [thread EXCEPT ![Head(inFlight)] = "running"]
          /\ UNCHANGED <<request, pc, copy, jobs, inFlight, results, outputs, trees, data,
                         metadata, result>>
     ELSE Join

\* Mutant: any thread that is done is joined, and taken for the oldest.
JoinAny ==
  /\ \/ pc = "spawning" /\ jobs # <<>> /\ Len(inFlight) >= MaxParallel
     \/ pc = "joining" /\ inFlight # <<>>
  /\ \E i \in DOMAIN inFlight : thread[inFlight[i]] # "running"
  /\ Join

(***************************************************************************)
(* Joining the oldest thread, to free its slot or at the end.              *)
(***************************************************************************)
JoinOldest ==
  /\ \/ pc = "spawning" /\ jobs # <<>> /\ Len(inFlight) >= MaxParallel
     \/ pc = "joining" /\ inFlight # <<>>
  /\ thread[Head(inFlight)] # "running"
  /\ Join

\* A thread runs cargo to its end, whatever becomes of the resolver.
ThreadEnds(p) ==
  /\ thread[p] = "running"
  /\ \E end \in request.ends : thread' = [thread EXCEPT ![p] = end]
  /\ UNCHANGED <<request, pc, copy, jobs, inFlight, results, outputs, trees, data, metadata, result>>
------------------------------------------------------------------------------
\* One cargo that failed is enough.
Process ==
  /\ pc = "joining" /\ inFlight = <<>>
  /\ IF \E p \in ToSet(results) : thread[p] = "nonzero"
     THEN Return("failed") /\ UNCHANGED outputs
     ELSE /\ outputs' = [p \in ToSet(results) |-> CargoTree(copy, p[1], p[2])]
          /\ pc' = "parsing"
          /\ UNCHANGED result
  /\ UNCHANGED <<request, copy, jobs, inFlight, thread, results, trees, data, metadata>>

ParseTrees ==
  /\ pc = "parsing"
  /\ trees' = [p \in DOMAIN outputs |-> Parse(outputs[p])]
  /\ pc' = "merging"
  /\ UNCHANGED <<request, copy, jobs, inFlight, thread, results, outputs, data, metadata, result>>

(***************************************************************************)
(* What is known of a crate on a triple: the target entries of the outputs *)
(* for it as target, and the host entries of those for it as host.  Every  *)
(* triple cargo does not tell from another has that one's outputs.         *)
(***************************************************************************)
Tree(host, target) == trees[<<CargoOf[host], CargoOf[target]>>].entries

EntriesFor(c, triple) ==
  {Tree(h, triple)[<<"target", c>>] : h \in Hosts}
    \union {Tree(h, t)[<<"host", c>>] : h \in Hosts \intersect {triple}, t \in Targets}

Consumed(entries) ==
  [features |-> UNION {e.features : e \in entries}, deps |-> UNION {e.deps : e \in entries}]

\* The entries of a crate by triple.
TreeData(c) ==
  LET known(t) == {e \in EntriesFor(c, t) : e.known}
      triples == {t \in Targets : known(t) # {}}
  IN  [t \in triples |-> Consumed(known(t))]

Known == {c \in Crate : \E p \in DOMAIN trees, side \in Side : trees[p].entries[<<side, c>>].known}

Merge ==
  /\ pc = "merging"
  /\ IF \E p \in DOMAIN trees : trees[p].error
     THEN Return("failed") /\ UNCHANGED data
     ELSE /\ data' = [c \in Known |-> TreeData(c)]
          /\ pc' = "splitting"
          /\ UNCHANGED result
  /\ UNCHANGED <<request, copy, jobs, inFlight, thread, results, outputs, trees, metadata>>

(***************************************************************************)
(* What the triples have in common, and under each what it has besides; a  *)
(* triple without more has no branch.                                      *)
(***************************************************************************)
Common(c) ==
  [features |-> {f \in Feature : \A t \in DOMAIN data[c] : f \in data[c][t].features},
   deps |-> {d \in Crate : \A t \in DOMAIN data[c] : d \in data[c][t].deps}]

Rest(c, t) ==
  [features |-> data[c][t].features \ Common(c).features, deps |-> data[c][t].deps \ Common(c).deps]

Nothing == [features |-> {}, deps |-> {}]

Divided(c) ==
  LET selects == [t \in {t \in DOMAIN data[c] : Rest(c, t) # Nothing} |-> <<Rest(c, t)>>]
      branches == [EmptyScalar EXCEPT !.selects = selects]
  IN  IF Common(c) = Nothing THEN branches ELSE InsertScalar(branches, Common(c), None)

Split ==
  /\ pc = "splitting"
  /\ metadata' = [c \in DOMAIN data |-> Divided(c)]
  /\ Return("success")
  /\ UNCHANGED <<request, copy, jobs, inFlight, thread, results, outputs, trees, data>>

Ended == pc = "ended" /\ UNCHANGED vars

Pool == Start \/ StartFails \/ Spawn \/ SpawnDone \/ JoinOldest

Next == Pool \/ Process \/ ParseTrees \/ Merge \/ Split \/ (\E p \in Pairs : ThreadEnds(p)) \/ Ended

Spec == Init /\ [][Next]_vars

\* The resolver goes on, and cargo does not run forever.
FairSpec ==
  /\ Spec
  /\ WF_vars(Pool)
  /\ \A p \in Platform \X Platform : WF_vars(p \in Pairs /\ ThreadEnds(p))
------------------------------------------------------------------------------
Running == {p \in Pairs : thread[p] = "running"}

(***************************************************************************)
(* The stages agree: every pair is to be spawned, in flight, joined or     *)
(* given up on, and in only one of these places.                           *)
(***************************************************************************)
TypeOK ==
  /\ request \in Requests
  /\ pc \in {"starting", "spawning", "joining", "parsing", "merging", "splitting", "ended"}
  /\ thread \in [Pairs -> {"none", "running", "done", "nonzero", "error"}]
  /\ \A s \in {jobs, inFlight, results} : IsInjective(s) /\ ToSet(s) \subseteq Pairs
  /\ pc \in {"spawning", "joining"} =>
       /\ ToSet(jobs) = {p \in Pairs : thread[p] = "none"}
       /\ ToSet(jobs) \union ToSet(inFlight) \union ToSet(results) = Pairs
       /\ Len(jobs) + Len(inFlight) + Len(results) = Cardinality(Pairs)
  /\ result \in {"none", "failed", "success"}
  /\ pc = "ended" <=> result # "none"

(***************************************************************************)
(* There are never more cargo processes than the limit, also when the      *)
(* resolver has given up and left some running, and after a success there  *)
(* is none, so that the temporary directory may go.                        *)
(***************************************************************************)
ProcessesBounded ==
  /\ Cardinality(Running) <= MaxParallel
  /\ result = "success" => Running = {}

\* A run of cargo that failed is never passed over, and nothing else that
\* came of running cargo fails the resolver but an output it cannot parse.
FailuresSeen ==
  /\ result = "success" => \A p \in Pairs : thread[p] = "done"
  /\ result = "failed" => \/ \E p \in Pairs : thread[p] \in {"nonzero", "error"}
                          \/ \A p \in Pairs : thread[p] = "none"
                          \/ \E p \in DOMAIN trees : trees[p].error

(***************************************************************************)
(* The result is what Cargo resolved.  A crate is there if any pair builds *)
(* it; on every triple it is built for, its features and dependencies are  *)
(* those of all the pairs that build it for that triple, as a target crate *)
(* or as a host crate.                                                     *)
(***************************************************************************)
Contexts ==
  UNION {{[crate |-> n[2], side |-> n[1], triple |-> IF n[1] = "host" THEN h ELSE t] :
            n \in Built(copy, Platforms(CargoOf[h], CargoOf[t]))} : h \in Hosts, t \in Targets}

Resolved(contexts, c, t) ==
  LET sides == {x.side : x \in {x \in contexts : x.crate = c /\ x.triple = t}}
  IN  [features |-> UNION {copy.features[c][side][CargoOf[t]] : side \in sides},
       deps |-> UNION {DepsOf(copy, <<side, c>>, CargoOf[t]) : side \in sides}]

Selected(c, t) ==
  LET s == metadata[c]
      parts == ToSet(s.common) \union ToSet(Get(s.selects, t, <<>>))
  IN  [features |-> UNION {p.features : p \in parts}, deps |-> UNION {p.deps : p \in parts}]

ResolvesExactly ==
  result = "success" =>
    LET contexts == Contexts
    IN  /\ DOMAIN metadata = {x.crate : x \in contexts}
        /\ \A x \in contexts :
             Selected(x.crate, x.triple) = Resolved(contexts, x.crate, x.triple)

(***************************************************************************)
(* What the injection is for: a procedural macro, and whatever it is built *)
(* from on the host, is resolved for every host although only some targets *)
(* use it, so that it can be built there for the others.                   *)
(***************************************************************************)
MacrosOnEveryHost ==
  result = "success" =>
    \A m \in request.workspace.procMacros \ ToSet(request.workspace.roots) :
      \A h \in Hosts :
        /\ m \in DOMAIN metadata
        /\ DepsOf(request.workspace, <<"host", m>>, CargoOf[h]) \subseteq Selected(m, h).deps
        /\ request.workspace.features[m]["host"][CargoOf[h]] \subseteq Selected(m, h).features

(***************************************************************************)
(* The parser understands whatever cargo prints: of each output it knows   *)
(* the crates that the pair builds, on the side each is built for, with    *)
(* all its features and dependencies there.                                *)
(***************************************************************************)
OutputsUnderstood ==
  \A p \in DOMAIN trees :
    ~trees[p].error /\ trees[p].entries = Resolution(copy, Platforms(p[1], p[2]))

\* Every thread is joined, or one that failed ends the resolver: the bounded
\* pool does not wait for a slot that nobody frees.
PoolEmpties == <>(pc = "ended" \/ (pc = "joining" /\ inFlight = <<>>))

(***************************************************************************)
(* The pool of cargo processes is bounded, each pair is run once, and the  *)
(* resolver succeeds only if every one of them did (execute_cargo_tree).   *)
(***************************************************************************)
PoolSound == TypeOK /\ ProcessesBounded /\ FailuresSeen

(***************************************************************************)
(* From the outputs of all pairs of host and target the resolver makes the *)
(* trees that Cargo resolved, those of macros on every host included       *)
(* (generate).                                                             *)
(***************************************************************************)
TreesMerged == OutputsUnderstood /\ ResolvesExactly /\ MacrosOnEveryHost
=============================================================================
