------------------------- MODULE TreeResolver_proofs -------------------------
(***************************************************************************)
(* Proofs about TreeResolver, for any set of triples, any limit and any    *)
(* way in which cargo may end: the pool of cargo processes, and then, for  *)
(* any workspace, the trees that are made of what the processes print.     *)
(*                                                                         *)
(* The trees take four arguments.  The printer of CargoTreeOutput and the  *)
(* parser are in step (Sync): what is still to be printed stands below the *)
(* crates that the parser has on its stack, and the parser knows the       *)
(* crates that were printed.  The printer ends within its bound, since the *)
(* measure Left falls with each line.  When it ends, the crates printed    *)
(* are the least set closed under dependencies (Built).  The merge and the *)
(* split then lose nothing of the entries and add nothing to them.         *)
(***************************************************************************)
EXTENDS TreeResolver, NaturalsInduction, WellFoundedInduction, FiniteSetTheorems, FunctionTheorems,
        SequenceTheorems, TLAPS

(***************************************************************************)
(* Sequences that hold each of their elements once.                        *)
(***************************************************************************)
LEMMA EmptyElements == ToSet(<<>>) = {} /\ IsInjective(<<>>) /\ Len(<<>>) = 0
BY DEF ToSet, IsInjective

LEMMA HeadElements ==
  ASSUME NEW S, NEW s \in Seq(S), s # <<>>, IsInjective(s)
  PROVE  /\ Head(s) \in S /\ Head(s) \in ToSet(s)
         /\ Tail(s) \in Seq(S) /\ IsInjective(Tail(s))
         /\ ToSet(Tail(s)) = ToSet(s) \ {Head(s)}
         /\ Len(s) \in Nat /\ Len(Tail(s)) = Len(s) - 1
<1>1. /\ Head(s) = s[1] /\ Head(s) \in S /\ Tail(s) \in Seq(S)
      /\ Len(s) \in Nat /\ Len(s) >= 1 /\ Len(Tail(s)) = Len(s) - 1
      /\ DOMAIN s = 1..Len(s) /\ DOMAIN Tail(s) = 1..(Len(s) - 1)
      /\ \A i \in 1..(Len(s) - 1) : Tail(s)[i] = s[i + 1]
  BY HeadTailProperties, LenProperties, EmptySeq
<1>2. \A i, j \in 1..Len(s) : s[i] = s[j] => i = j
  BY <1>1 DEF IsInjective
<1>3. IsInjective(Tail(s))
  BY <1>1, <1>2 DEF IsInjective
<1>4. ToSet(Tail(s)) \subseteq ToSet(s) \ {Head(s)}
  BY <1>1, <1>2 DEF ToSet
<1>5. ToSet(s) \ {Head(s)} \subseteq ToSet(Tail(s))
  <2> SUFFICES ASSUME NEW i \in 1..Len(s), s[i] # s[1]
               PROVE  s[i] \in ToSet(Tail(s))
    BY <1>1 DEF ToSet
  <2>1. i - 1 \in 1..(Len(s) - 1) /\ Tail(s)[i - 1] = s[i]
    BY <1>1
  <2>2. QED
    BY <1>1, <2>1 DEF ToSet
<1>6. Head(s) \in ToSet(s)
  BY <1>1 DEF ToSet
<1>7. QED
  BY <1>1, <1>3, <1>4, <1>5, <1>6

LEMMA AppendElements ==
  ASSUME NEW S, NEW s \in Seq(S), IsInjective(s), NEW e \in S, e \notin ToSet(s)
  PROVE  /\ Append(s, e) \in Seq(S) /\ IsInjective(Append(s, e))
         /\ ToSet(Append(s, e)) = ToSet(s) \union {e}
         /\ Len(s) \in Nat /\ Len(Append(s, e)) = Len(s) + 1
<1> DEFINE t == Append(s, e)
<1>1. /\ t \in Seq(S) /\ Len(s) \in Nat /\ Len(t) = Len(s) + 1
      /\ DOMAIN s = 1..Len(s) /\ DOMAIN t = 1..(Len(s) + 1)
      /\ \A i \in 1..Len(s) : t[i] = s[i]
      /\ t[Len(s) + 1] = e
  BY AppendProperties, LenProperties
<1> HIDE DEF t
<1>2. \A i \in 1..Len(s) : s[i] # e
  BY <1>1 DEF ToSet
<1>3. \A i, j \in 1..Len(s) : s[i] = s[j] => i = j
  BY <1>1 DEF IsInjective
<1>4. IsInjective(t)
  <2> SUFFICES ASSUME NEW i \in 1..(Len(s) + 1), NEW j \in 1..(Len(s) + 1), t[i] = t[j]
               PROVE  i = j
    BY <1>1 DEF IsInjective
  <2>1. \A k \in 1..(Len(s) + 1) : k = Len(s) + 1 \/ k \in 1..Len(s)
    BY <1>1
  <2>2. QED
    BY <1>1, <1>2, <1>3, <2>1
<1>5. ToSet(t) = ToSet(s) \union {e}
  <2>1. 1..(Len(s) + 1) = 1..Len(s) \union {Len(s) + 1}
    BY <1>1
  <2>2. QED
    BY <1>1, <2>1 DEF ToSet
<1>6. QED
  BY <1>1, <1>4, <1>5 DEF t

LEMMA SetToSeqElements ==
  ASSUME NEW S, IsFiniteSet(S)
  PROVE  /\ SetToSeq(S) \in Seq(S) /\ IsInjective(SetToSeq(S))
         /\ ToSet(SetToSeq(S)) = S
         /\ Len(SetToSeq(S)) = Cardinality(S)
<1> DEFINE n == Cardinality(S)
           f == SetToSeq(S)
<1>1. n \in Nat /\ ExistsBijection(1..n, S)
  BY FS_CardinalityType
<1>2. PICK g : g \in Bijection(1..n, S)
  BY <1>1 DEF ExistsBijection
<1>3. g \in [1..n -> S] /\ IsInjective(g)
  BY <1>2 DEF Bijection, Injection
<1>4. f \in [1..n -> S] /\ IsInjective(f)
  BY <1>3 DEF SetToSeq
<1> HIDE DEF f
<1>5. f \in Seq(S) /\ Len(f) = n /\ DOMAIN f = 1..n
  BY <1>1, <1>4
<1>6. f \in Injection(1..n, S)
  BY <1>4 DEF Injection
<1>7. Cardinality(1..n) = n
  BY <1>1, FS_Interval
<1>8. f \in Surjection(1..n, S)
  BY <1>6, <1>7, FS_Injection
<1>9. ToSet(f) = S
  BY <1>4, <1>5, <1>8 DEF Surjection, ToSet
<1>10. QED
  BY <1>4, <1>5, <1>9 DEF f

LEMMA ElementsBound ==
  ASSUME NEW S, NEW s \in Seq(S)
  PROVE  IsFiniteSet(ToSet(s)) /\ Cardinality(ToSet(s)) <= Len(s)
<1>1. s \in [1..Len(s) -> ToSet(s)] /\ Len(s) \in Nat
  BY LenProperties DEF ToSet
<1>2. s \in Surjection(1..Len(s), ToSet(s))
  BY <1>1, Fun_IsSurj DEF ToSet
<1> DEFINE n == Len(s)
<1>3. IsFiniteSet(1..n) /\ Cardinality(1..n) = n
  <2>1. n \in Nat
    BY <1>1
  <2> HIDE DEF n
  <2>2. QED
    BY <2>1, FS_Interval
<1>4. QED
  BY <1>2, <1>3, FS_Surjection
------------------------------------------------------------------------------
\* There are as many pairs as a request asks for.
LEMMA PairsFinite ==
  ASSUME request \in Requests
  PROVE  IsFiniteSet(Pairs)
<1>1. ASSUME NEW T \in SUBSET Triple, IsFiniteSet(T)
      PROVE  IsFiniteSet(CargoPlatforms(T))
  <2> DEFINE f == [t \in T |-> CargoOf[t]]
  <2>1. f \in Surjection(T, CargoPlatforms(T))
    BY Fun_IsSurj DEF CargoPlatforms
  <2>2. QED
    BY <1>1, <2>1, FS_Surjection
<1>2. Targets \in SUBSET Triple /\ IsFiniteSet(Targets)
  BY ResolverAssumption DEF Targets
<1>3. Hosts \in SUBSET Triple /\ IsFiniteSet(Hosts)
  BY <1>2, FS_Subset DEF Hosts
<1>4. QED
  BY <1>1, <1>2, <1>3, FS_Product DEF Pairs

(***************************************************************************)
(* Where each thread is while the pool works.  The oldest thread is waited *)
(* for, so that none but those in flight run, and what is joined has ended.*)
(***************************************************************************)
PoolInv ==
  /\ {jobs, inFlight, results} \subseteq Seq(Pairs)
  /\ Len(inFlight) <= MaxParallel
  /\ pc = "starting" =>
       inFlight = <<>> /\ results = <<>> /\ \A p \in Pairs : thread[p] = "none"
  /\ pc = "joining" => jobs = <<>>
  /\ ToSet(inFlight) \intersect ToSet(results) = {}
  /\ \A p \in ToSet(inFlight) : thread[p] # "none"
  /\ \A p \in ToSet(results) : thread[p] \in {"done", "nonzero"}
  /\ Running \subseteq ToSet(inFlight)
  /\ pc \in {"parsing", "merging", "splitting"} \/ result = "success" =>
       \A p \in Pairs : thread[p] = "done"

IInv == TypeOK /\ PoolInv /\ FailuresSeen

LEMMA IInvInit == Init => IInv
<1> SUFFICES ASSUME Init PROVE IInv
  OBVIOUS
<1> USE DEF Init
<1>1. TypeOK
  BY EmptyElements DEF TypeOK
<1>2. PoolInv
  <2>1. <<>> \in Seq(Pairs)
    OBVIOUS
  <2>2. QED
    BY <2>1, EmptyElements, ResolverAssumption DEF PoolInv, Running
<1>3. FailuresSeen
  BY DEF FailuresSeen
<1>4. QED
  BY <1>1, <1>2, <1>3 DEF IInv

LEMMA StartStep ==
  ASSUME IInv, Start
  PROVE  IInv'
<1> USE DEF IInv
<1>1. request' = request /\ UNCHANGED <<inFlight, thread, results, trees>>
  BY DEF Start
<1>2. Pairs' = Pairs /\ IsFiniteSet(Pairs)
  BY <1>1, PairsFinite DEF TypeOK, Pairs, Targets, Hosts
<1>3. inFlight = <<>> /\ results = <<>> /\ (\A p \in Pairs : thread[p] = "none")
  BY DEF Start, PoolInv
<1>4. ToSet(inFlight) = {} /\ ToSet(results) = {} /\ Len(inFlight) = 0 /\ Len(results) = 0
      /\ Running = {}
  BY <1>3, EmptyElements DEF Running
<1>5. CASE Hosts = {}
  <2>1. jobs' = jobs /\ pc' = "ended" /\ result' = "failed"
    BY <1>5 DEF Start, Return
  <2>2. TypeOK'
    BY <1>1, <1>2, <2>1 DEF TypeOK
  <2>3. PoolInv' /\ FailuresSeen'
    BY <1>1, <1>2, <1>3, <1>4, <2>1 DEF PoolInv, FailuresSeen, Running
  <2>4. QED
    BY <2>2, <2>3
<1>6. CASE Hosts # {}
  <2>1. jobs' = SetToSeq(Pairs) /\ pc' = "spawning" /\ result' = result /\ result = "none"
    BY <1>6 DEF Start, TypeOK
  <2>2. /\ jobs' \in Seq(Pairs) /\ IsInjective(jobs') /\ ToSet(jobs') = Pairs
        /\ Len(jobs') = Cardinality(Pairs) /\ Cardinality(Pairs) \in Nat
    BY <1>2, <2>1, SetToSeqElements, FS_CardinalityType
  <2>3. TypeOK'
    <3>1. ToSet(jobs') = {p \in Pairs : thread[p] = "none"}
      BY <1>3, <2>2
    <3>2. Len(jobs') + Len(inFlight) + Len(results) = Cardinality(Pairs)
      BY <1>4, <2>2
    <3>3. \A s \in {jobs', inFlight, results} : IsInjective(s) /\ ToSet(s) \subseteq Pairs
      BY <2>2 DEF TypeOK
    <3>4. QED
      BY <1>1, <1>2, <1>4, <2>1, <2>2, <3>1, <3>2, <3>3 DEF TypeOK
  <2>4. PoolInv' /\ FailuresSeen'
    BY <1>1, <1>2, <1>3, <1>4, <2>1, <2>2 DEF PoolInv, FailuresSeen, Running
  <2>5. QED
    BY <2>3, <2>4
<1>7. QED
  BY <1>5, <1>6

LEMMA SpawnStep ==
  ASSUME IInv, Spawn
  PROVE  IInv'
<1> USE DEF IInv
<1> DEFINE h == Head(jobs)
<1>1. /\ request' = request /\ pc = "spawning" /\ pc' = pc /\ result' = result /\ jobs # <<>>
      /\ Len(inFlight) < MaxParallel
      /\ thread' = [thread EXCEPT ![h] = "running"]
      /\ inFlight' = Append(inFlight, h) /\ jobs' = Tail(jobs)
      /\ results' = results /\ trees' = trees
  BY DEF Spawn
<1>2. Pairs' = Pairs
  BY <1>1 DEF Pairs, Targets, Hosts
<1>3. jobs \in Seq(Pairs) /\ inFlight \in Seq(Pairs) /\ results \in Seq(Pairs)
      /\ IsInjective(jobs) /\ IsInjective(inFlight) /\ IsInjective(results)
  BY DEF TypeOK, PoolInv
<1>4. /\ h \in Pairs /\ h \in ToSet(jobs) /\ jobs' \in Seq(Pairs) /\ IsInjective(jobs')
      /\ ToSet(jobs') = ToSet(jobs) \ {h}
      /\ Len(jobs) \in Nat /\ Len(jobs') = Len(jobs) - 1
  BY <1>1, <1>3, HeadElements
<1>5. thread[h] = "none"
  BY <1>1, <1>4 DEF TypeOK
<1>6. h \notin ToSet(inFlight) /\ h \notin ToSet(results)
  BY <1>5 DEF PoolInv
<1>7. /\ inFlight' \in Seq(Pairs) /\ IsInjective(inFlight')
      /\ ToSet(inFlight') = ToSet(inFlight) \union {h}
      /\ Len(inFlight) \in Nat /\ Len(inFlight') = Len(inFlight) + 1
  BY <1>1, <1>3, <1>4, <1>6, AppendElements
<1>8. /\ thread \in [Pairs -> {"none", "running", "done", "nonzero", "error"}]
      /\ thread' \in [Pairs -> {"none", "running", "done", "nonzero", "error"}]
      /\ thread'[h] = "running" /\ \A p \in Pairs \ {h} : thread'[p] = thread[p]
  BY <1>1, <1>4 DEF TypeOK
<1>9. TypeOK'
  <2>1. ToSet(jobs') = {p \in Pairs : thread'[p] = "none"}
    BY <1>1, <1>4, <1>8 DEF TypeOK
  <2>2. ToSet(jobs') \union ToSet(inFlight') \union ToSet(results) = Pairs
    BY <1>1, <1>4, <1>7 DEF TypeOK
  <2>3. Len(jobs') + Len(inFlight') + Len(results) = Cardinality(Pairs)
    BY <1>1, <1>3, <1>4, <1>7, LenProperties DEF TypeOK
  <2>4. \A s \in {jobs', inFlight', results} : IsInjective(s) /\ ToSet(s) \subseteq Pairs
    BY <1>3, <1>4, <1>7 DEF TypeOK
  <2>5. QED
    BY <1>1, <1>2, <1>8, <2>1, <2>2, <2>3, <2>4 DEF TypeOK
<1>10. PoolInv'
  <2>1. Len(inFlight') <= MaxParallel
    BY <1>1, <1>7, ResolverAssumption
  <2>2. Running' \subseteq ToSet(inFlight')
    BY <1>2, <1>7, <1>8 DEF PoolInv, Running
  <2>3. ToSet(inFlight') \intersect ToSet(results) = {}
    BY <1>6, <1>7 DEF PoolInv
  <2>4. \A p \in ToSet(inFlight') : thread'[p] # "none"
    BY <1>7, <1>8 DEF PoolInv, TypeOK
  <2>5. \A p \in ToSet(results) : thread'[p] \in {"done", "nonzero"}
    BY <1>6, <1>8 DEF PoolInv, TypeOK
  <2>6. result' # "success" /\ pc' = "spawning"
    BY <1>1 DEF TypeOK
  <2>7. QED
    BY <1>1, <1>2, <1>3, <1>4, <1>7, <2>1, <2>2, <2>3, <2>4, <2>5, <2>6 DEF PoolInv
<1>11. FailuresSeen'
  BY <1>1 DEF TypeOK, FailuresSeen
<1>12. QED
  BY <1>9, <1>10, <1>11

LEMMA JoinStep ==
  ASSUME IInv, JoinOldest
  PROVE  IInv'
<1> USE DEF IInv
<1> DEFINE h == Head(inFlight)
<1>1. /\ request' = request /\ pc \in {"spawning", "joining"}
      /\ inFlight # <<>> /\ thread[h] # "running"
      /\ inFlight' = Tail(inFlight) /\ UNCHANGED <<thread, jobs, trees>>
  <2>1. pc = "spawning" /\ Len(inFlight) >= MaxParallel => inFlight # <<>>
    BY ResolverAssumption, EmptyElements
  <2>2. QED
    BY <2>1 DEF JoinOldest, Join
<1>2. Pairs' = Pairs /\ result = "none"
  BY <1>1 DEF Pairs, Targets, Hosts, TypeOK
<1>3. jobs \in Seq(Pairs) /\ inFlight \in Seq(Pairs) /\ results \in Seq(Pairs)
      /\ IsInjective(jobs) /\ IsInjective(inFlight) /\ IsInjective(results)
  BY DEF TypeOK, PoolInv
<1>4. /\ h \in Pairs /\ h \in ToSet(inFlight) /\ inFlight' \in Seq(Pairs) /\ IsInjective(inFlight')
      /\ ToSet(inFlight') = ToSet(inFlight) \ {h}
      /\ Len(inFlight) \in Nat /\ Len(inFlight') = Len(inFlight) - 1
  BY <1>1, <1>3, HeadElements
<1>5. thread[h] \in {"done", "nonzero", "error"}
  BY <1>1, <1>4 DEF TypeOK, PoolInv
<1>6. Running' = Running /\ Running \subseteq ToSet(inFlight')
  BY <1>1, <1>2, <1>4 DEF PoolInv, Running
<1>7. Len(inFlight') <= MaxParallel
  BY <1>4, ResolverAssumption DEF PoolInv
<1>8. CASE thread[h] = "error"
  <2>1. pc' = "ended" /\ result' = "failed" /\ results' = results
    BY <1>8 DEF JoinOldest, Join, Return
  <2>2. TypeOK'
    BY <1>1, <1>2, <1>4, <2>1 DEF TypeOK
  <2>3. PoolInv'
    BY <1>1, <1>2, <1>4, <1>6, <1>7, <2>1 DEF PoolInv
  <2>4. FailuresSeen'
    BY <1>1, <1>2, <1>4, <1>8, <2>1 DEF FailuresSeen
  <2>5. QED
    BY <2>2, <2>3, <2>4
<1>9. CASE thread[h] # "error"
  <2>1. pc' = pc /\ result' = result /\ results' = Append(results, h)
    BY <1>9 DEF JoinOldest, Join
  <2>2. h \notin ToSet(results)
    BY <1>4 DEF PoolInv
  <2>3. /\ results' \in Seq(Pairs) /\ IsInjective(results')
        /\ ToSet(results') = ToSet(results) \union {h}
        /\ Len(results) \in Nat /\ Len(results') = Len(results) + 1
    BY <1>3, <1>4, <2>1, <2>2, AppendElements
  <2>4. TypeOK'
    <3>1. ToSet(jobs) \union ToSet(inFlight') \union ToSet(results') = Pairs
      BY <1>1, <1>4, <2>3 DEF TypeOK
    <3>2. Len(jobs) + Len(inFlight') + Len(results') = Cardinality(Pairs)
      BY <1>1, <1>3, <1>4, <2>3, LenProperties DEF TypeOK
    <3>3. \A s \in {jobs, inFlight', results'} : IsInjective(s) /\ ToSet(s) \subseteq Pairs
      BY <1>3, <1>4, <2>3 DEF TypeOK
    <3>4. QED
      BY <1>1, <1>2, <2>1, <3>1, <3>2, <3>3 DEF TypeOK
  <2>5. PoolInv'
    <3>1. ToSet(inFlight') \intersect ToSet(results') = {}
      BY <1>4, <2>3 DEF PoolInv
    <3>2. \A p \in ToSet(results') : thread[p] \in {"done", "nonzero"}
      BY <1>5, <1>9, <2>3 DEF PoolInv
    <3>3. QED
      BY <1>1, <1>2, <1>4, <1>6, <1>7, <2>1, <2>3, <3>1, <3>2 DEF PoolInv
  <2>6. FailuresSeen'
    BY <1>2, <2>1 DEF FailuresSeen
  <2>7. QED
    BY <2>4, <2>5, <2>6
<1>10. QED
  BY <1>8, <1>9

LEMMA ThreadStep ==
  ASSUME IInv, NEW p \in Pairs, ThreadEnds(p)
  PROVE  IInv'
<1> USE DEF IInv
<1>1. PICK end \in request.ends : thread' = [thread EXCEPT ![p] = end]
  BY DEF ThreadEnds
<1>2. /\ thread[p] = "running"
      /\ UNCHANGED <<request, pc, jobs, inFlight, results, trees, result>>
  BY DEF ThreadEnds
<1>3. end \in {"done", "nonzero", "error"}
  BY <1>1, ResolverAssumption DEF TypeOK
<1>4. Pairs' = Pairs
  BY <1>2 DEF Pairs, Targets, Hosts
<1>5. /\ thread \in [Pairs -> {"none", "running", "done", "nonzero", "error"}]
      /\ thread' \in [Pairs -> {"none", "running", "done", "nonzero", "error"}]
      /\ thread'[p] = end /\ \A q \in Pairs \ {p} : thread'[q] = thread[q]
  BY <1>1, <1>3 DEF TypeOK
<1>6. {q \in Pairs : thread'[q] = "none"} = {q \in Pairs : thread[q] = "none"}
  BY <1>2, <1>3, <1>5
<1>7. TypeOK'
  BY <1>2, <1>4, <1>5, <1>6 DEF TypeOK
<1>8. PoolInv'
  <2>1. p \notin ToSet(results)
    BY <1>2 DEF PoolInv
  <2>2. pc # "starting" /\ pc \notin {"parsing", "merging", "splitting"} /\ result # "success"
    BY <1>2 DEF PoolInv
  <2>3. Running' \subseteq ToSet(inFlight)
    BY <1>3, <1>4, <1>5 DEF PoolInv, Running
  <2>4. \A q \in ToSet(inFlight) : thread'[q] # "none"
    BY <1>3, <1>5 DEF PoolInv, TypeOK
  <2>5. \A q \in ToSet(results) : thread'[q] \in {"done", "nonzero"}
    BY <1>5, <2>1 DEF PoolInv, TypeOK
  <2>6. QED
    BY <1>2, <1>4, <2>2, <2>3, <2>4, <2>5 DEF PoolInv
<1>9. FailuresSeen'
  <2>1. result # "success" /\ ~(\A q \in Pairs : thread[q] = "none")
    BY <1>2 DEF PoolInv
  <2>2. \A q \in Pairs : thread[q] \in {"nonzero", "error"} => thread'[q] = thread[q]
    BY <1>2, <1>5
  <2>3. QED
    BY <1>2, <1>4, <2>1, <2>2 DEF FailuresSeen
<1>10. QED
  BY <1>7, <1>8, <1>9

\* What follows the pool leaves every thread as it is.
LEMMA AfterwardsStep ==
  ASSUME IInv, StartFails \/ SpawnDone \/ Process \/ ParseTrees \/ Merge \/ Split
  PROVE  IInv'
<1> USE DEF IInv
<1>1. UNCHANGED <<request, jobs, inFlight, thread, results>>
  BY DEF StartFails, SpawnDone, Process, ParseTrees, Merge, Split
<1>2. Pairs' = Pairs /\ Running' = Running
  BY <1>1 DEF Pairs, Targets, Hosts, Running
<1>3. CASE StartFails
  <2>1. pc = "starting" /\ pc' = "ended" /\ result' = "failed"
    BY <1>3 DEF StartFails, Return
  <2>2. QED
    BY <1>1, <1>2, <2>1 DEF TypeOK, PoolInv, FailuresSeen
<1>4. CASE SpawnDone
  <2>1. pc = "spawning" /\ jobs = <<>> /\ pc' = "joining" /\ result' = result /\ trees' = trees
    BY <1>4 DEF SpawnDone
  <2>2. QED
    BY <1>1, <1>2, <2>1 DEF TypeOK, PoolInv, FailuresSeen
<1>5. CASE Process
  <2>1. pc = "joining" /\ inFlight = <<>> /\ jobs = <<>> /\ result = "none" /\ trees' = trees
    BY <1>5 DEF Process, TypeOK, PoolInv
  <2>2. ToSet(results) = Pairs
    BY <2>1, EmptyElements DEF TypeOK
  <2>3. CASE \E p \in ToSet(results) : thread[p] = "nonzero"
    <3>1. pc' = "ended" /\ result' = "failed"
      BY <1>5, <2>3 DEF Process, Return
    <3>2. QED
      BY <1>1, <1>2, <2>2, <2>3, <3>1 DEF TypeOK, PoolInv, FailuresSeen
  <2>4. CASE ~(\E p \in ToSet(results) : thread[p] = "nonzero")
    <3>1. pc' = "parsing" /\ result' = result
      BY <1>5, <2>4 DEF Process
    <3>2. \A p \in Pairs : thread[p] = "done"
      BY <2>2, <2>4 DEF PoolInv
    <3>3. QED
      BY <1>1, <1>2, <2>1, <3>1, <3>2 DEF TypeOK, PoolInv, FailuresSeen
  <2>5. QED
    BY <2>3, <2>4
<1>6. CASE ParseTrees
  <2>1. pc = "parsing" /\ pc' = "merging" /\ result' = result /\ result = "none"
    BY <1>6 DEF ParseTrees, TypeOK
  <2>2. QED
    BY <1>1, <1>2, <2>1 DEF TypeOK, PoolInv, FailuresSeen
<1>7. CASE Merge
  <2>1. CASE \E p \in DOMAIN trees : trees[p].error
    <3>1. pc = "merging" /\ pc' = "ended" /\ result' = "failed" /\ trees' = trees
      BY <1>7, <2>1 DEF Merge, Return
    <3>2. QED
      BY <1>1, <1>2, <2>1, <3>1 DEF TypeOK, PoolInv, FailuresSeen
  <2>2. CASE ~(\E p \in DOMAIN trees : trees[p].error)
    <3>1. pc = "merging" /\ pc' = "splitting" /\ result' = result /\ result = "none"
      BY <1>7, <2>2 DEF Merge, TypeOK
    <3>2. QED
      BY <1>1, <1>2, <3>1 DEF TypeOK, PoolInv, FailuresSeen
  <2>3. QED
    BY <2>1, <2>2
<1>8. CASE Split
  <2>1. pc = "splitting" /\ pc' = "ended" /\ result' = "success"
    BY <1>8 DEF Split, Return
  <2>2. QED
    BY <1>1, <1>2, <2>1 DEF TypeOK, PoolInv, FailuresSeen
<1>9. QED
  BY <1>3, <1>4, <1>5, <1>6, <1>7, <1>8

LEMMA IInvStep == IInv /\ [Next]_vars => IInv'
<1> SUFFICES ASSUME IInv, [Next]_vars
             PROVE  IInv'
  OBVIOUS
<1>1. CASE UNCHANGED vars
  BY <1>1 DEF vars, IInv, TypeOK, PoolInv, FailuresSeen, Running, Pairs, Targets, Hosts
<1>2. CASE Next
  BY <1>1, <1>2, StartStep, SpawnStep, JoinStep, ThreadStep, AfterwardsStep
     DEF Next, Pool, Ended
<1>3. QED
  BY <1>1, <1>2

\* As many processes as there are slots.
LEMMA PoolBound == IInv => ProcessesBounded
<1> SUFFICES ASSUME IInv
             PROVE  ProcessesBounded
  OBVIOUS
<1> USE DEF IInv
<1>1. inFlight \in Seq(Pairs) /\ Len(inFlight) <= MaxParallel /\ Running \subseteq ToSet(inFlight)
  BY DEF PoolInv
<1>2. IsFiniteSet(ToSet(inFlight)) /\ Cardinality(ToSet(inFlight)) <= Len(inFlight)
  BY <1>1, ElementsBound
<1>3. /\ IsFiniteSet(Running)
      /\ Cardinality(Running) <= Cardinality(ToSet(inFlight))
  BY <1>1, <1>2, FS_Subset
<1>4. Cardinality(Running) <= MaxParallel
  <2>1. /\ Cardinality(Running) \in Nat /\ Cardinality(ToSet(inFlight)) \in Nat
        /\ Len(inFlight) \in Nat /\ MaxParallel \in Nat
    BY <1>1, <1>2, <1>3, FS_CardinalityType, LenProperties, ResolverAssumption
  <2>2. QED
    BY <1>1, <1>2, <1>3, <2>1
<1>5. result = "success" => Running = {}
  BY DEF PoolInv, Running
<1>6. QED
  BY <1>4, <1>5 DEF ProcessesBounded

(* However the threads end, there are never more cargo processes than the  *)
(* limit, none is left after a success, every pair is in one place, and    *)
(* the resolver succeeds only if cargo did for all of them                 *)
(* (execute_cargo_tree).                                                   *)
THEOREM PoolIsSound == Spec => []PoolSound
BY IInvInit, IInvStep, PoolBound, PTL DEF Spec, IInv, PoolSound
------------------------------------------------------------------------------
(***************************************************************************)
(* Induction, for a set instead of a predicate, and the recursion that it  *)
(* justifies: a function on 0..N that each value makes of the one before.  *)
(***************************************************************************)
Less == {pair \in Nat \X Nat : pair[1] < pair[2]}

LEMMA Induct ==
  ASSUME NEW S, 0 \in S, \A n \in Nat : n \in S => n + 1 \in S
  PROVE  Nat \subseteq S
<1> SUFFICES ASSUME Nat \ S # {} PROVE FALSE
  OBVIOUS
<1>1. IsWellFoundedOn(Less, Nat)
  BY NatLessThanWellFounded DEF OpToRel, Less
<1>2. PICK n \in Nat \ S : \A m \in Nat \ S : ~(<<m, n>> \in Less)
  BY <1>1, WFMin
<1>3. n # 0 /\ n - 1 \in Nat /\ n - 1 + 1 = n
  BY <1>2
<1>4. n - 1 \in S
  <2> SUFFICES ASSUME n - 1 \in Nat \ S PROVE FALSE
    BY <1>3
  <2>1. <<n - 1, n>> \in Nat \X Nat /\ <<n - 1, n>>[1] = n - 1 /\ <<n - 1, n>>[2] = n
    BY <1>2, <1>3
  <2>2. <<n - 1, n>> \in Less
    BY <1>2, <2>1 DEF Less
  <2>3. QED
    BY <1>2, <2>2
<1>5. QED
  BY <1>2, <1>3, <1>4

Recurs(f, N, base, step) == f = [n \in 0..N |-> IF n = 0 THEN base ELSE step[n][f[n - 1]]]

LEMMA Recursion ==
  ASSUME NEW V, NEW base \in V, NEW N \in Nat, NEW step \in [1..N -> [V -> V]]
  PROVE  \E f \in [0..N -> V] : Recurs(f, N, base, step)
<1> DEFINE S == {n \in Nat : n <= N => \E f \in [0..n -> V] : Recurs(f, n, base, step)}
<1>1. 0 \in S
  <2> DEFINE f == [n \in 0..0 |-> base]
  <2>1. f \in [0..0 -> V]
    OBVIOUS
  <2>2. Recurs(f, 0, base, step)
    BY DEF Recurs
  <2>3. QED
    BY <2>1, <2>2
<1>2. ASSUME NEW n \in Nat, n \in S PROVE n + 1 \in S
  <2> SUFFICES ASSUME n + 1 <= N
               PROVE  \E f \in [0..(n + 1) -> V] : Recurs(f, n + 1, base, step)
    OBVIOUS
  <2>1. PICK f \in [0..n -> V] : Recurs(f, n, base, step)
    BY <1>2
  <2> DEFINE g == [k \in 0..(n + 1) |-> IF k = n + 1 THEN step[n + 1][f[n]] ELSE f[k]]
  <2>2. step[n + 1][f[n]] \in V
    BY <2>1
  <2>3. g \in [0..(n + 1) -> V]
    BY <2>1, <2>2
  <2>4. ASSUME NEW k \in 0..(n + 1)
        PROVE  g[k] = IF k = 0 THEN base ELSE step[k][g[k - 1]]
    <3>1. CASE k = n + 1
      BY <3>1
    <3>2. CASE k # n + 1
      <4>1. k \in 0..n /\ g[k] = f[k] /\ (k # 0 => k - 1 \in 0..n /\ g[k - 1] = f[k - 1])
        BY <3>2
      <4>2. QED
        BY <2>1, <4>1 DEF Recurs
    <3>3. QED
      BY <3>1, <3>2
  <2>5. Recurs(g, n + 1, base, step)
    <3>1. g = [k \in 0..(n + 1) |-> g[k]]
      OBVIOUS
    <3> HIDE DEF g
    <3>2. QED
      BY <2>4, <3>1 DEF Recurs
  <2>6. QED
    BY <2>3, <2>5
<1> HIDE DEF S
<1>3. N \in S /\ N <= N
  BY <1>1, <1>2, Induct
<1>4. QED
  BY <1>3 DEF S
\* Any function with this recursion has the same value at the end.
Follows(g, V, N, base, step) ==
  g[0] = base /\ \A n \in 1..N : g[n - 1] \in V => g[n] = step[n][g[n - 1]]

LEMMA RecursionIs ==
  ASSUME NEW V, NEW base \in V, NEW N \in Nat, NEW step \in [1..N -> [V -> V]],
         NEW f \in [0..N -> V], Recurs(f, N, base, step),
         NEW g, Follows(g, V, N, base, step)
  PROVE  g[N] = f[N]
<1> USE DEF Follows
<1> DEFINE S == {n \in Nat : n <= N => g[n] = f[n]}
<1>1. \A n \in 0..N : f[n] = IF n = 0 THEN base ELSE step[n][f[n - 1]]
  BY DEF Recurs
<1>2. 0 \in S
  BY <1>1
<1>3. ASSUME NEW n \in Nat, n \in S PROVE n + 1 \in S
  <2> SUFFICES ASSUME n + 1 <= N PROVE g[n + 1] = f[n + 1]
    OBVIOUS
  <2>1. n + 1 \in 1..N /\ n \in 0..N /\ n + 1 - 1 = n /\ g[n] = f[n] /\ f[n] \in V
    BY <1>3
  <2>2. f[n + 1] = step[n + 1][f[n]]
    BY <1>1, <2>1
  <2>3. QED
    BY <2>1, <2>2
<1> HIDE DEF S
<1>4. \A n \in Nat : n \in S
  BY <1>2, <1>3, Induct
<1>5. \A n \in 0..N : g[n] = f[n]
  BY <1>4 DEF S
<1>6. QED
  BY <1>1, <1>5
-----------------------------------------------------------------------------
(***************************************************************************)
(* What cargo tree prints, line by line, and what is made of each line.    *)
(***************************************************************************)
Parent == [crate : Crate, host : BOOLEAN, building : BOOLEAN]
Parsing == [parents : Seq(Parent), entries : [Node -> Entry], error : BOOLEAN]
PlatformOf == [Side -> Platform]

LEMMA PlatformsType ==
  ASSUME NEW host \in Platform, NEW target \in Platform
  PROVE  Platforms(host, target) \in PlatformOf
BY DEF Platforms, PlatformOf, Side

LEMMA NodeFinite == IsFiniteSet(Node) /\ Cardinality(Node) \in Nat
<1>1. IsFiniteSet(Side)
  <2>1. Side = {"host"} \union {"target"}
    BY DEF Side
  <2>2. QED
    BY <2>1, FS_Singleton, FS_Union
<1>2. QED
  BY <1>1, ResolverAssumption, FS_Product, FS_CardinalityType DEF Node

\* A crate of a side is below its parent as one.
LEMMA ChildType ==
  ASSUME NEW w \in Workspace, NEW node \in Node, NEW e \in ToSet(w.edges)
  PROVE  Child(w, node, e) \in Node /\ e \in Edge
<1>1. e \in Edge
  BY DEF Workspace, ToSet
<1>2. QED
  BY <1>1 DEF Child, SideOf, Node, Side, Edge

LEMMA RootType ==
  ASSUME NEW w \in Workspace, NEW c \in ToSet(w.roots)
  PROVE  RootNode(w, c) \in Node /\ c \in Crate
<1>1. c \in Crate
  BY DEF Workspace, ToSet
<1>2. QED
  BY <1>1 DEF RootNode, Node, Side
-----------------------------------------------------------------------------
(***************************************************************************)
(* The parser keeps to its types, and parses one line after the other.     *)
(***************************************************************************)
LEMMA CutProperties ==
  ASSUME NEW parents \in Seq(Parent), NEW k \in Nat
  PROVE  /\ Cut(parents, k) \in Seq(Parent)
         /\ Len(Cut(parents, k)) = IF Len(parents) > k THEN k ELSE Len(parents)
         /\ \A i \in 1..Len(Cut(parents, k)) : Cut(parents, k)[i] = parents[i]
<1>1. CASE Len(parents) > k
  <2>1. \A i \in 1..k : parents[i] \in Parent
    BY <1>1
  <2>2. QED
    BY <1>1, <2>1, SubSeqProperties DEF Cut
<1>2. CASE ~(Len(parents) > k)
  BY <1>2 DEF Cut
<1>3. QED
  BY <1>1, <1>2

LEMMA LineType ==
  ASSUME NEW line \in Line
  PROVE  /\ line.depth \in Nat
         /\ line.is = "crate" =>
              line.crate \in Crate /\ line.procMacro \in BOOLEAN /\ line.features \in SUBSET Feature
BY DEF Line

\* An entry is made known, and gets more.
LEMMA ExtendedType ==
  ASSUME NEW entries \in [Node -> Entry], NEW node \in Node,
         NEW features \in SUBSET Feature, NEW deps \in SUBSET Crate
  PROVE  /\ Extended(entries, node, features, deps) \in [Node -> Entry]
         /\ \A n \in Node : Extended(entries, node, features, deps)[n] =
              IF n = node
              THEN [known |-> TRUE, features |-> entries[n].features \union features,
                    deps |-> entries[n].deps \union deps]
              ELSE entries[n]
BY DEF Extended, Entry

HostLine(parents, line) ==
  \/ line.procMacro
  \/ ~(parents = <<>>) /\ (Last(parents).host \/ Last(parents).building)

AttributedTo(entries, parents, line) ==
  IF parents = <<>> THEN entries
  ELSE Extended(entries, <<SideIf(Last(parents).host), Last(parents).crate>>, {}, {line.crate})

LEMMA AddCrateIs ==
  ASSUME NEW state, NEW line, NEW parents, parents = Cut(state.parents, line.depth)
  PROVE  AddCrate(state, line) =
           IF Len(parents) # line.depth THEN [state EXCEPT !.error = TRUE]
           ELSE [state EXCEPT
                   !.parents = Append(parents, [crate |-> line.crate,
                                                host |-> HostLine(parents, line),
                                                building |-> FALSE]),
                   !.entries = Extended(AttributedTo(state.entries, parents, line),
                                        <<SideIf(HostLine(parents, line)), line.crate>>,
                                        line.features, {})]
<1> DEFINE p == Cut(state.parents, line.depth)
<1>1. AddCrate(state, line) =
           IF Len(p) # line.depth THEN [state EXCEPT !.error = TRUE]
           ELSE [state EXCEPT
                   !.parents = Append(p, [crate |-> line.crate, host |-> HostLine(p, line),
                                          building |-> FALSE]),
                   !.entries = Extended(AttributedTo(state.entries, p, line),
                                        <<SideIf(HostLine(p, line)), line.crate>>,
                                        line.features, {})]
  BY Zenon DEF AddCrate, AttributedTo, HostLine
<1>2. QED
  BY <1>1, Zenon

LEMMA Marked ==
  ASSUME NEW parents \in Seq(Parent), parents # <<>>, NEW build \in BOOLEAN
  PROVE  LET n == Len(parents)
             marked == [parents EXCEPT ![n].building = build]
         IN  /\ marked \in Seq(Parent) /\ Len(marked) = n
             /\ \A i \in 1..n : /\ marked[i].crate = parents[i].crate
                                /\ marked[i].host = parents[i].host
                                /\ i # n => marked[i].building = parents[i].building
             /\ marked[n].building = build
<1> DEFINE n == Len(parents)
           last == [parents[n] EXCEPT !.building = build]
<1>1. n \in 1..n /\ \A i \in 1..n : parents[i] \in Parent
  OBVIOUS
<1>2. last \in Parent /\ last = [crate |-> parents[n].crate, host |-> parents[n].host,
                                 building |-> build]
  BY <1>1 DEF Parent
<1> HIDE DEF last
<1>4. /\ [parents EXCEPT ![n] = last] \in Seq(Parent) /\ Len([parents EXCEPT ![n] = last]) = n
      /\ \A i \in 1..n : [parents EXCEPT ![n] = last][i] = IF i = n THEN last ELSE parents[i]
  BY <1>1, <1>2, ExceptSeq
<1>5. [parents EXCEPT ![n].building = build] = [parents EXCEPT ![n] = last]
  BY Zenon DEF last
<1>6. /\ \A i \in 1..n : [parents EXCEPT ![n] = last][i].crate = parents[i].crate
      /\ \A i \in 1..n : [parents EXCEPT ![n] = last][i].host = parents[i].host
      /\ \A i \in 1..n : i # n => [parents EXCEPT ![n] = last][i] = parents[i]
      /\ [parents EXCEPT ![n] = last][n] = last
  BY <1>1, <1>2, <1>4
<1>7. QED
  BY <1>1, <1>2, <1>4, <1>5, <1>6

LEMMA ParseLineType ==
  ASSUME NEW state \in Parsing, NEW line \in Line
  PROVE  ParseLine(state, line) \in Parsing
<1>1. CASE state.error
  BY <1>1 DEF ParseLine
<1>2. CASE ~state.error /\ line.is = "crate"
  <2> DEFINE parents == Cut(state.parents, line.depth)
             host == HostLine(parents, line)
             above == <<SideIf(Last(parents).host), Last(parents).crate>>
             entries == AttributedTo(state.entries, parents, line)
             node == <<SideIf(host), line.crate>>
  <2>1. ParseLine(state, line) = AddCrate(state, line)
    BY <1>2 DEF ParseLine
  <2>2. /\ state.parents \in Seq(Parent) /\ state.entries \in [Node -> Entry]
        /\ line.depth \in Nat /\ line.crate \in Crate /\ line.procMacro \in BOOLEAN
        /\ line.features \in SUBSET Feature
    BY <1>2, LineType DEF Parsing
  <2>3. parents \in Seq(Parent)
    BY <2>2, CutProperties
  <2>4. parents # <<>> => Last(parents) \in Parent
    BY <2>3 DEF Last
  <2> HIDE DEF parents
  <2>5. host \in BOOLEAN
    BY <2>2, <2>4 DEF HostLine, Parent
  <2>6. node \in Node
    BY <2>2 DEF SideIf, Node, Side
  <2>7. parents # <<>> => above \in Node
    BY <2>4 DEF SideIf, Node, Side, Parent
  <2> HIDE DEF node
  <2>8. entries \in [Node -> Entry]
    <3>1. {} \in SUBSET Feature /\ {line.crate} \in SUBSET Crate
      BY <2>2
    <3>2. QED
      BY <2>2, <2>7, <3>1, ExtendedType DEF AttributedTo
  <2> HIDE DEF entries
  <2>9. Extended(entries, node, line.features, {}) \in [Node -> Entry]
    BY <2>2, <2>6, <2>8, ExtendedType
  <2>10. Append(parents, [crate |-> line.crate, host |-> host, building |-> FALSE]) \in Seq(Parent)
    BY <2>2, <2>3, <2>5, AppendProperties DEF Parent
  <2>11. \/ AddCrate(state, line) = [state EXCEPT !.error = TRUE]
         \/ AddCrate(state, line) =
              [state EXCEPT
                 !.parents = Append(parents, [crate |-> line.crate, host |-> host,
                                              building |-> FALSE]),
                 !.entries = Extended(entries, node, line.features, {})]
    BY AddCrateIs DEF parents, entries, node
  <2>12. QED
    BY <2>1, <2>9, <2>10, <2>11 DEF Parsing
<1>3. CASE ~state.error /\ line.is # "crate"
  <2> DEFINE parents == Cut(state.parents, line.depth + 1)
             marked == [parents EXCEPT ![Len(parents)].building = (line.is = "build")]
  <2>1. ParseLine(state, line) = MarkSection(state, line)
    BY <1>3 DEF ParseLine
  <2>2. line.depth + 1 \in Nat /\ state.parents \in Seq(Parent)
    BY LineType DEF Parsing
  <2>3. parents \in Seq(Parent)
    BY <2>2, CutProperties
  <2>4. MarkSection(state, line) =
          IF parents = <<>> THEN [state EXCEPT !.error = TRUE]
          ELSE [state EXCEPT !.parents = marked]
    BY Zenon DEF MarkSection
  <2> HIDE DEF parents
  <2>5. parents # <<>> => marked \in Seq(Parent)
    BY <2>3, Marked
  <2> HIDE DEF marked
  <2>6. QED
    BY <2>1, <2>4, <2>5 DEF Parsing
<1>4. QED
  BY <1>1, <1>2, <1>3 DEF Parsing
------------------------------------------------------------------------------
LEMMA NothingType == NothingParsed \in Parsing
<1>1. NoEntries \in [Node -> Entry]
  BY DEF NoEntries, Unknown, Entry
<1>2. QED
  BY <1>1 DEF NothingParsed, Parsing

LEMMA ParseUnfolds ==
  ASSUME NEW lines \in Seq(Line)
  PROVE  \E f \in [0..Len(lines) -> Parsing] :
           /\ f[0] = NothingParsed
           /\ \A n \in 1..Len(lines) : f[n] = ParseLine(f[n - 1], lines[n])
           /\ Parse(lines) = f[Len(lines)]
<1> DEFINE N == Len(lines)
           V == Parsing
           Base == NothingParsed
           Step(v, n) == ParseLine(v, lines[n])
           step == [n \in 1..N |-> [v \in V |-> Step(v, n)]]
           parsed[n \in 0..N] == IF n = 0 THEN Base ELSE Step(parsed[n - 1], n)
           Is(f) == f = [n \in 0..N |-> IF n = 0 THEN Base ELSE Step(f[n - 1], n)]
           chosen == CHOOSE f : Is(f)
<1>1. Parse(lines) = parsed[Len(lines)]
  BY DEF Parse
<1>2. parsed = chosen
  BY Zenon
<1>3. N \in Nat /\ Base \in V /\ \A n \in 1..N, v \in V : Step(v, n) \in V
  <2>1. \A n \in 1..Len(lines) : lines[n] \in Line
    OBVIOUS
  <2>2. NothingParsed \in Parsing
    BY NothingType
  <2>3. QED
    BY <2>1, <2>2, ParseLineType
<1> HIDE DEF N, V, Base, Step, parsed
<1>4. step \in [1..N -> [V -> V]] /\ \A n \in 1..N, v \in V : step[n][v] = Step(v, n)
  <2>1. \A n \in 1..N : [v \in V |-> Step(v, n)] \in [V -> V]
    BY <1>3
  <2>2. QED
    BY <2>1
<1> HIDE DEF step
<1>5. PICK f \in [0..N -> V] : Recurs(f, N, Base, step)
  BY <1>3, <1>4, Recursion
<1>6. \A n \in 1..N : n - 1 \in 0..N /\ step[n][f[n - 1]] = Step(f[n - 1], n)
  <2>1. \A n \in 1..N : n - 1 \in 0..N
    BY <1>3
  <2>2. QED
    BY <1>4, <1>5, <2>1
<1>7. Is(f)
  <2>1. [n \in 0..N |-> IF n = 0 THEN Base ELSE step[n][f[n - 1]]]
          = [n \in 0..N |-> IF n = 0 THEN Base ELSE Step(f[n - 1], n)]
    BY <1>3, <1>6
  <2>2. QED
    BY <1>5, <2>1, Zenon DEF Recurs
<1> HIDE DEF Is
<1>8. Is(chosen)
  BY <1>7, Zenon
<1>9. chosen[0] = Base /\ \A n \in 1..N : chosen[n] = Step(chosen[n - 1], n)
  <2> HIDE DEF chosen
  <2>1. \A n \in 0..N : chosen[n] = IF n = 0 THEN Base ELSE Step(chosen[n - 1], n)
    BY <1>8 DEF Is
  <2>2. QED
    BY <1>3, <2>1
<1> HIDE DEF chosen
<1>10. chosen[N] = f[N] /\ f[0] = Base /\ \A n \in 1..N : f[n] = Step(f[n - 1], n)
  <2>1. Follows(chosen, V, N, Base, step)
    BY <1>4, <1>9 DEF Follows
  <2>2. chosen[N] = f[N]
    <3>1. N \in Nat /\ Base \in V /\ step \in [1..N -> [V -> V]]
      BY <1>3, <1>4
    <3>2. f \in [0..N -> V] /\ Recurs(f, N, Base, step)
      BY <1>5
    <3>3. QED
      BY <2>1, <3>1, <3>2, RecursionIs
  <2>3. \A n \in 0..N : f[n] = IF n = 0 THEN Base ELSE Step(f[n - 1], n)
    BY <1>7 DEF Is
  <2>4. QED
    BY <1>3, <2>2, <2>3
<1>11. QED
  BY <1>1, <1>2, <1>5, <1>10 DEF N, V, Base, Step


LEMMA ParseEmpty == Parse(<<>>) = NothingParsed
<1>1. <<>> \in Seq(Line) /\ Len(<<>>) = 0
  OBVIOUS
<1>2. QED
  BY <1>1, ParseUnfolds

LEMMA ParseAppend ==
  ASSUME NEW lines \in Seq(Line), NEW line \in Line
  PROVE  Parse(Append(lines, line)) = ParseLine(Parse(lines), line)
<1> DEFINE more == Append(lines, line)
<1>1. /\ more \in Seq(Line) /\ Len(lines) \in Nat /\ Len(more) = Len(lines) + 1
      /\ \A n \in 1..Len(lines) : more[n] = lines[n]
      /\ more[Len(lines) + 1] = line
  BY AppendProperties, LenProperties
<1> HIDE DEF more
<1>2. PICK f \in [0..Len(lines) -> Parsing] :
        /\ f[0] = NothingParsed
        /\ \A n \in 1..Len(lines) : f[n] = ParseLine(f[n - 1], lines[n])
        /\ Parse(lines) = f[Len(lines)]
  BY ParseUnfolds
<1>3. PICK g \in [0..Len(more) -> Parsing] :
        /\ g[0] = NothingParsed
        /\ \A n \in 1..Len(more) : g[n] = ParseLine(g[n - 1], more[n])
        /\ Parse(more) = g[Len(more)]
  BY <1>1, ParseUnfolds
<1> DEFINE S == {n \in Nat : n <= Len(lines) => f[n] = g[n]}
<1>4. 0 \in S
  BY <1>2, <1>3
<1>5. ASSUME NEW n \in Nat, n \in S PROVE n + 1 \in S
  <2> SUFFICES ASSUME n + 1 <= Len(lines) PROVE f[n + 1] = g[n + 1]
    OBVIOUS
  <2>1. n + 1 \in 1..Len(lines) /\ n + 1 \in 1..Len(more) /\ n + 1 - 1 = n /\ f[n] = g[n]
    BY <1>1, <1>5
  <2>2. QED
    BY <1>1, <1>2, <1>3, <2>1
<1> HIDE DEF S
<1>6. Len(lines) \in S
  BY <1>1, <1>4, <1>5, Induct
<1>7. f[Len(lines)] = g[Len(lines)]
  BY <1>1, <1>6 DEF S
<1>8. Len(more) \in 1..Len(more) /\ Len(more) - 1 = Len(lines)
  BY <1>1
<1>9. QED
  BY <1>1, <1>2, <1>3, <1>7, <1>8 DEF more
-----------------------------------------------------------------------------
(***************************************************************************)
(* What is built is the least set of crates of a side with the roots and   *)
(* whatever is below one of it.                                            *)
(***************************************************************************)
Closed(w, platforms, nodes) ==
  /\ {RootNode(w, c) : c \in ToSet(w.roots)} \subseteq nodes
  /\ \A n \in nodes : \A e \in ActiveEdges(w, n, platforms[n[1]]) : Child(w, n, e) \in nodes

LEMMA WithBelowType ==
  ASSUME NEW w \in Workspace, NEW platforms \in PlatformOf, NEW nodes \in SUBSET Node
  PROVE  WithBelow(w, platforms, nodes) \in SUBSET Node
<1>1. \A n \in nodes : \A e \in ActiveEdges(w, n, platforms[n[1]]) : Child(w, n, e) \in Node
  BY ChildType DEF ActiveEdges
<1>2. QED
  BY <1>1 DEF WithBelow, Below

LEMMA BuiltUnfolds ==
  ASSUME NEW w \in Workspace, NEW platforms \in PlatformOf
  PROVE  \E f \in [0..Cardinality(Node) -> SUBSET Node] :
           /\ f[0] = {RootNode(w, c) : c \in ToSet(w.roots)}
           /\ \A n \in 1..Cardinality(Node) : f[n] = WithBelow(w, platforms, f[n - 1])
           /\ Built(w, platforms) = f[Cardinality(Node)]
<1> DEFINE N == Cardinality(Node)
           V == SUBSET Node
           Base == {RootNode(w, c) : c \in ToSet(w.roots)}
           Step(v, n) == WithBelow(w, platforms, v)
           step == [n \in 1..N |-> [v \in V |-> Step(v, n)]]
           reached[n \in 0..N] == IF n = 0 THEN Base ELSE Step(reached[n - 1], n)
           Is(f) == f = [n \in 0..N |-> IF n = 0 THEN Base ELSE Step(f[n - 1], n)]
           chosen == CHOOSE f : Is(f)
<1>1. Built(w, platforms) = reached[Cardinality(Node)]
  BY DEF Built
<1>2. reached = chosen
  BY Zenon
<1>3. N \in Nat /\ Base \in V /\ \A n \in 1..N, v \in V : Step(v, n) \in V
  <2>1. {RootNode(w, c) : c \in ToSet(w.roots)} \in SUBSET Node
    BY RootType
  <2>2. QED
    BY <2>1, NodeFinite, WithBelowType
<1> HIDE DEF N, V, Base, Step, reached
<1>4. step \in [1..N -> [V -> V]] /\ \A n \in 1..N, v \in V : step[n][v] = Step(v, n)
  <2>1. \A n \in 1..N : [v \in V |-> Step(v, n)] \in [V -> V]
    BY <1>3
  <2>2. QED
    BY <2>1
<1> HIDE DEF step
<1>5. PICK f \in [0..N -> V] : Recurs(f, N, Base, step)
  BY <1>3, <1>4, Recursion
<1>6. \A n \in 1..N : n - 1 \in 0..N /\ step[n][f[n - 1]] = Step(f[n - 1], n)
  <2>1. \A n \in 1..N : n - 1 \in 0..N
    BY <1>3
  <2>2. QED
    BY <1>4, <1>5, <2>1
<1>7. Is(f)
  <2>1. [n \in 0..N |-> IF n = 0 THEN Base ELSE step[n][f[n - 1]]]
          = [n \in 0..N |-> IF n = 0 THEN Base ELSE Step(f[n - 1], n)]
    BY <1>3, <1>6
  <2>2. QED
    BY <1>5, <2>1, Zenon DEF Recurs
<1> HIDE DEF Is
<1>8. Is(chosen)
  BY <1>7, Zenon
<1>9. chosen[0] = Base /\ \A n \in 1..N : chosen[n] = Step(chosen[n - 1], n)
  <2> HIDE DEF chosen
  <2>1. \A n \in 0..N : chosen[n] = IF n = 0 THEN Base ELSE Step(chosen[n - 1], n)
    BY <1>8 DEF Is
  <2>2. QED
    BY <1>3, <2>1
<1> HIDE DEF chosen
<1>10. chosen[N] = f[N] /\ f[0] = Base /\ \A n \in 1..N : f[n] = Step(f[n - 1], n)
  <2>1. Follows(chosen, V, N, Base, step)
    BY <1>4, <1>9 DEF Follows
  <2>2. chosen[N] = f[N]
    <3>1. N \in Nat /\ Base \in V /\ step \in [1..N -> [V -> V]]
      BY <1>3, <1>4
    <3>2. f \in [0..N -> V] /\ Recurs(f, N, Base, step)
      BY <1>5
    <3>3. QED
      BY <2>1, <3>1, <3>2, RecursionIs
  <2>3. \A n \in 0..N : f[n] = IF n = 0 THEN Base ELSE Step(f[n - 1], n)
    BY <1>7 DEF Is
  <2>4. QED
    BY <1>3, <2>2, <2>3
<1>11. QED
  BY <1>1, <1>2, <1>5, <1>10 DEF N, V, Base, Step


LEMMA BuiltLeast ==
  ASSUME NEW w \in Workspace, NEW platforms \in PlatformOf
  PROVE  /\ Built(w, platforms) \in SUBSET Node
         /\ Closed(w, platforms, Built(w, platforms))
         /\ \A nodes \in SUBSET Node :
              Closed(w, platforms, nodes) => Built(w, platforms) \subseteq nodes
<1> DEFINE N == Cardinality(Node)
           roots == {RootNode(w, c) : c \in ToSet(w.roots)}
           below(nodes) == Below(w, platforms, nodes)
<1>1. N \in Nat /\ IsFiniteSet(Node)
  BY NodeFinite
<1>2. PICK f \in [0..N -> SUBSET Node] :
        /\ f[0] = roots
        /\ \A n \in 1..N : f[n] = f[n - 1] \union below(f[n - 1])
        /\ Built(w, platforms) = f[N]
  <2>1. PICK f \in [0..N -> SUBSET Node] :
        /\ f[0] = roots
        /\ \A n \in 1..N : f[n] = WithBelow(w, platforms, f[n - 1])
        /\ Built(w, platforms) = f[N]
    BY BuiltUnfolds
  <2>2. QED
    BY <2>1 DEF WithBelow
<1>3. \A nodes : below(nodes) \subseteq nodes <=>
        \A n \in nodes : \A e \in ActiveEdges(w, n, platforms[n[1]]) : Child(w, n, e) \in nodes
  BY DEF Below
<1>4. \A A, B : A \subseteq B => below(A) \subseteq below(B)
  BY DEF Below
<1> HIDE DEF N, roots, below
<1>5. \A n \in Nat : n + 1 <= N =>
        /\ n \in 0..N /\ f[n] \in SUBSET Node /\ f[n + 1] \in SUBSET Node
        /\ f[n + 1] = f[n] \union below(f[n])
  <2> SUFFICES ASSUME NEW n \in Nat, n + 1 <= N
               PROVE  /\ n \in 0..N /\ f[n] \in SUBSET Node /\ f[n + 1] \in SUBSET Node
                      /\ f[n + 1] = f[n] \union below(f[n])
    OBVIOUS
  <2>1. n \in 0..N /\ n + 1 \in 0..N /\ n + 1 \in 1..N /\ n + 1 - 1 = n
    BY <1>1
  <2>2. QED
    BY <1>2, <2>1
<1>6. roots \subseteq f[N]
  <2> DEFINE S == {n \in Nat : n <= N => roots \subseteq f[n]}
  <2>1. 0 \in S
    BY <1>2
  <2>2. ASSUME NEW n \in Nat, n \in S PROVE n + 1 \in S
    BY <1>1, <1>5, <2>2
  <2> HIDE DEF S
  <2>3. N \in S
    BY <1>1, <2>1, <2>2, Induct
  <2>4. QED
    BY <1>1, <2>3 DEF S
<1>7. below(f[N]) \subseteq f[N]
  <2> DEFINE S == {n \in Nat : n <= N => below(f[n]) \subseteq f[n] \/ Cardinality(f[n]) >= n}
  <2>1. 0 \in S
    <3>1. 0 \in 0..N
      BY <1>1
    <3>2. f[0] \in SUBSET Node
      BY <1>2, <3>1
    <3>3. Cardinality(f[0]) \in Nat
      BY <1>1, <3>2, FS_Subset, FS_CardinalityType
    <3>4. QED
      BY <3>3
  <2>2. ASSUME NEW n \in Nat, n \in S PROVE n + 1 \in S
    <3> SUFFICES ASSUME n + 1 <= N
                 PROVE  below(f[n + 1]) \subseteq f[n + 1] \/ Cardinality(f[n + 1]) >= n + 1
      OBVIOUS
    <3>1. /\ f[n] \in SUBSET Node /\ f[n + 1] \in SUBSET Node
          /\ f[n + 1] = f[n] \union below(f[n])
      BY <1>5
    <3>2. below(f[n]) \subseteq f[n] \/ Cardinality(f[n]) >= n
      BY <1>1, <2>2
    <3>3. CASE below(f[n]) \subseteq f[n]
      <4>1. f[n + 1] = f[n]
        BY <3>1, <3>3
      <4>2. QED
        BY <3>3, <4>1
    <3>4. CASE ~(below(f[n]) \subseteq f[n])
      <4>1. f[n] \subseteq f[n + 1] /\ f[n] # f[n + 1]
        BY <3>1, <3>4
      <4>2. IsFiniteSet(f[n + 1]) /\ IsFiniteSet(f[n])
        BY <1>1, <3>1, FS_Subset
      <4>3. Cardinality(f[n]) \in Nat /\ Cardinality(f[n + 1]) \in Nat
        BY <4>2, FS_CardinalityType
      <4>4. Cardinality(f[n]) < Cardinality(f[n + 1])
        <5>1. Cardinality(f[n]) <= Cardinality(f[n + 1])
          BY <4>1, <4>2, FS_Subset
        <5>2. Cardinality(f[n]) # Cardinality(f[n + 1])
          BY <4>1, <4>2, FS_Subset
        <5>3. QED
          BY <4>3, <5>1, <5>2
      <4>5. QED
        BY <3>2, <3>4, <4>3, <4>4
    <3>5. QED
      BY <3>3, <3>4
  <2> HIDE DEF S
  <2>3. N \in S
    BY <1>1, <2>1, <2>2, Induct
  <2>4. below(f[N]) \subseteq f[N] \/ Cardinality(f[N]) >= N
    BY <1>1, <2>3 DEF S
  <2>5. f[N] \in SUBSET Node
    BY <1>1, <1>2
  <2>6. CASE Cardinality(f[N]) >= N
    <3>1. Cardinality(f[N]) <= N /\ Cardinality(f[N]) \in Nat
      BY <1>1, <2>5, FS_Subset, FS_CardinalityType DEF N
    <3>2. Cardinality(f[N]) = N
      BY <1>1, <2>6, <3>1
    <3>3. f[N] = Node
      BY <1>1, <2>5, <3>2, FS_Subset DEF N
    <3>4. below(Node) \subseteq Node
      <4>1. WithBelow(w, platforms, Node) \in SUBSET Node
        BY WithBelowType
      <4>2. QED
        BY <4>1 DEF WithBelow, below
    <3>5. QED
      BY <3>3, <3>4
  <2>7. QED
    BY <2>4, <2>6
<1>8. ASSUME NEW nodes \in SUBSET Node, Closed(w, platforms, nodes)
      PROVE  f[N] \subseteq nodes
  <2> DEFINE S == {n \in Nat : n <= N => f[n] \subseteq nodes}
  <2>1. roots \subseteq nodes /\ below(nodes) \subseteq nodes
    BY <1>3, <1>8 DEF Closed, roots
  <2>2. 0 \in S
    BY <1>2, <2>1
  <2>3. ASSUME NEW n \in Nat, n \in S PROVE n + 1 \in S
    <3> SUFFICES ASSUME n + 1 <= N PROVE f[n + 1] \subseteq nodes
      OBVIOUS
    <3>1. f[n] \subseteq nodes /\ f[n + 1] = f[n] \union below(f[n])
      BY <1>1, <1>5, <2>3
    <3>2. below(f[n]) \subseteq below(nodes)
      BY <1>4, <3>1
    <3>3. QED
      BY <2>1, <3>1, <3>2
  <2> HIDE DEF S
  <2>4. N \in S
    BY <1>1, <2>2, <2>3, Induct
  <2>5. QED
    BY <1>1, <2>4 DEF S
<1>9. f[N] \in SUBSET Node
  BY <1>1, <1>2
<1>10. QED
  BY <1>2, <1>3, <1>6, <1>7, <1>8, <1>9 DEF Closed, roots
------------------------------------------------------------------------------
(***************************************************************************)
(* What is printed below a crate: a group of items of one depth.  The kind *)
(* of the crate or marker before a crate tells whether it is a build       *)
(* dependency; in front of the first is what was said last of the parent.  *)
(***************************************************************************)
IsBelow(w, platforms, item) ==
  \E e \in ActiveEdges(w, item.parent, platforms[item.parent[1]]) :
    e.kind = item.kind /\ item.node = Child(w, item.parent, e)

ItemOK(w, platforms, item) ==
  /\ item \in Item
  /\ item.is = "crate" =>
       IF item.depth = 0 THEN \E c \in ToSet(w.roots) : item.node = RootNode(w, c)
       ELSE IsBelow(w, platforms, item)
  /\ item.is # "crate" => item.is = item.kind /\ item.depth > 0 /\ item.node = item.parent

Builds(kind) == kind = "build"

Group(items, w, platforms, node, depth, before) ==
  /\ items \in Seq(Item)
  /\ \A i \in 1..Len(items) :
       /\ ItemOK(w, platforms, items[i]) /\ items[i].depth = depth /\ items[i].parent = node
       /\ items[i].is = "crate" =>
            (Builds(items[i].kind) <=> Builds(IF i > 1 THEN items[i - 1].kind ELSE before))

\* A group that can follow any: a crate in it has a marker before it.
MarkedGroup(items, w, platforms, node, depth) ==
  \A x \in Kind : Group(items, w, platforms, node, depth, x)

Covers(items, w, node, edges) ==
  \A e \in edges : \E i \in 1..Len(items) :
    items[i].is = "crate" /\ items[i].node = Child(w, node, e)

EdgesOfKind(w, platforms, node, kind) ==
  {e \in ActiveEdges(w, node, platforms[node[1]]) : e.kind = kind}

LEMMA EdgesOfType ==
  ASSUME NEW w \in Workspace, NEW platforms \in PlatformOf, NEW node \in Node, NEW kind \in Kind
  PROVE  LET s == EdgesOf(w, node, platforms, kind)
             edges == EdgesOfKind(w, platforms, node, kind)
         IN  /\ s \in Seq(edges) /\ ToSet(s) = edges
             /\ Len(s) = Cardinality(edges) /\ IsFiniteSet(edges)
             /\ edges \in SUBSET ToSet(w.edges)
<1> DEFINE edges == EdgesOfKind(w, platforms, node, kind)
<1>1. EdgesOf(w, node, platforms, kind) = SetToSeq(edges)
  <2>1. edges = {e \in ToSet(w.edges) : e.kind = kind /\ Active(w, node, platforms[node[1]], e)}
    BY DEF EdgesOfKind, ActiveEdges
  <2>2. QED
    BY <2>1 DEF EdgesOf
<1>2. edges \in SUBSET ToSet(w.edges)
  BY DEF EdgesOfKind, ActiveEdges
<1>3. IsFiniteSet(edges)
  <2>1. w.edges \in Seq(Edge)
    BY DEF Workspace
  <2>2. QED
    BY <1>2, <2>1, ElementsBound, FS_Subset
<1> HIDE DEF edges
<1>4. QED
  BY <1>1, <1>2, <1>3, SetToSeqElements DEF edges

LEMMA ChildrenGroup ==
  ASSUME NEW w \in Workspace, NEW platforms \in PlatformOf, NEW node \in Node, NEW kind \in Kind,
         NEW depth \in Nat \ {0}
  PROVE  LET s == Children(w, node, platforms, kind, depth)
             edges == EdgesOfKind(w, platforms, node, kind)
         IN  /\ Group(s, w, platforms, node, depth, kind)
             /\ Covers(s, w, node, edges) /\ Len(s) = Cardinality(edges)
             /\ \A i \in 1..Len(s) : s[i].kind = kind
<1> DEFINE es == EdgesOf(w, node, platforms, kind)
           edges == EdgesOfKind(w, platforms, node, kind)
           item(e) == [is |-> "crate", kind |-> kind, parent |-> node,
                       node |-> Child(w, node, e), depth |-> depth]
           s == Children(w, node, platforms, kind, depth)
<1>1. /\ es \in Seq(edges) /\ ToSet(es) = edges
      /\ Len(es) = Cardinality(edges) /\ edges \in SUBSET ToSet(w.edges)
  BY EdgesOfType
<1>2. \A e \in edges : item(e) \in Item
  BY <1>1, ChildType DEF Item
<1>3. \A e \in edges : ItemOK(w, platforms, item(e))
  <2> SUFFICES ASSUME NEW e \in edges PROVE ItemOK(w, platforms, item(e))
    OBVIOUS
  <2>1. IsBelow(w, platforms, item(e))
    BY DEF IsBelow, EdgesOfKind
  <2>2. item(e).is = "crate" /\ item(e).depth # 0
    OBVIOUS
  <2> HIDE DEF item
  <2>3. QED
    BY <1>2, <2>1, <2>2 DEF ItemOK
<1>4. s = [i \in DOMAIN es |-> item(es[i])]
  BY DEF Children
<1>5. DOMAIN es = 1..Len(es) /\ Len(es) \in Nat /\ \A i \in 1..Len(es) : es[i] \in edges
  BY <1>1
<1> HIDE DEF es, edges, s
<1>6. /\ s \in Seq(Item) /\ Len(s) = Len(es)
      /\ \A i \in 1..Len(es) : s[i] = item(es[i])
  <2>1. \A i \in 1..Len(es) : item(es[i]) \in Item
    BY <1>2, <1>5
  <2> HIDE DEF item
  <2>2. s \in [1..Len(es) -> Item]
    BY <1>4, <1>5, <2>1
  <2>3. s \in Seq(Item) /\ Len(s) = Len(es)
    BY <1>5, <2>2
  <2>4. QED
    BY <1>4, <1>5, <2>3
<1>7. \A i \in 1..Len(s) : s[i].kind = kind /\ s[i].depth = depth /\ s[i].parent = node
                          /\ s[i].is = "crate" /\ s[i].node = Child(w, node, es[i])
  <2> SUFFICES ASSUME NEW i \in 1..Len(s)
               PROVE  s[i].kind = kind /\ s[i].depth = depth /\ s[i].parent = node
                      /\ s[i].is = "crate" /\ s[i].node = Child(w, node, es[i])
    OBVIOUS
  <2>1. s[i] = item(es[i])
    BY <1>6
  <2>2. QED
    BY <2>1
<1>8. Group(s, w, platforms, node, depth, kind)
  <2>1. \A i \in 1..Len(s) : ItemOK(w, platforms, s[i])
    <3> HIDE DEF item
    <3>1. QED
      BY <1>3, <1>5, <1>6
  <2>2. \A i \in 1..Len(s) : Builds(s[i].kind) <=> Builds(IF i > 1 THEN s[i - 1].kind ELSE kind)
    <3>1. \A i \in 1..Len(s) : i > 1 => i - 1 \in 1..Len(s)
      BY <1>5, <1>6
    <3>2. QED
      BY <1>7, <3>1 DEF Builds
  <2>3. QED
    BY <1>6, <1>7, <2>1, <2>2 DEF Group
<1>9. Covers(s, w, node, edges)
  <2>1. \A e \in edges : \E i \in 1..Len(es) : es[i] = e
    BY <1>1, <1>5 DEF ToSet
  <2>2. QED
    BY <1>6, <1>7, <2>1 DEF Covers
<1>10. QED
  BY <1>1, <1>6, <1>7, <1>8, <1>9 DEF s, edges, es

\* A group goes on with one that begins with a marker.
LEMMA GroupConcat ==
  ASSUME NEW w, NEW platforms, NEW node, NEW depth, NEW before, NEW s, NEW t,
         Group(s, w, platforms, node, depth, before),
         MarkedGroup(t, w, platforms, node, depth)
  PROVE  /\ Group(s \o t, w, platforms, node, depth, before)
         /\ s \in Seq(Item) /\ t \in Seq(Item)
<1> USE DEF MarkedGroup
<1>1. s \in Seq(Item) /\ t \in Seq(Item) /\ Len(s) \in Nat /\ Len(t) \in Nat
  <2>1. s \in Seq(Item)
    BY DEF Group
  <2>2. Group(t, w, platforms, node, depth, "build")
    BY DEF Kind
  <2>3. t \in Seq(Item)
    BY <2>2 DEF Group
  <2>4. QED
    BY <2>1, <2>3, LenProperties
<1> DEFINE st == s \o t
<1>2. /\ st \in Seq(Item) /\ Len(st) = Len(s) + Len(t)
      /\ \A i \in 1..Len(s) : st[i] = s[i]
      /\ \A i \in 1..Len(t) : st[Len(s) + i] = t[i]
  BY <1>1, ConcatProperties
<1> HIDE DEF st
<1>3. \A i \in 1..Len(st) : i \in 1..Len(s) \/ \E j \in 1..Len(t) : i = Len(s) + j
  <2> SUFFICES ASSUME NEW i \in 1..Len(st), i \notin 1..Len(s)
               PROVE  \E j \in 1..Len(t) : i = Len(s) + j
    OBVIOUS
  <2>1. i - Len(s) \in 1..Len(t) /\ i = Len(s) + (i - Len(s))
    BY <1>1, <1>2
  <2>2. QED
    BY <2>1
<1>4. Group(st, w, platforms, node, depth, before)
  <2> SUFFICES ASSUME NEW i \in 1..Len(st)
               PROVE  /\ ItemOK(w, platforms, st[i])
                      /\ st[i].depth = depth /\ st[i].parent = node
                      /\ st[i].is = "crate" =>
                           (Builds(st[i].kind) <=> Builds(IF i > 1 THEN st[i - 1].kind ELSE before))
    BY <1>2 DEF Group
  <2>1. CASE i \in 1..Len(s)
    <3>1. st[i] = s[i] /\ (i > 1 => i - 1 \in 1..Len(s) /\ st[i - 1] = s[i - 1])
      BY <1>1, <1>2, <2>1
    <3>2. QED
      BY <2>1, <3>1 DEF Group
  <2>2. CASE \E j \in 1..Len(t) : i = Len(s) + j
    <3>1. PICK j \in 1..Len(t) : i = Len(s) + j
      BY <2>2
    <3>2. st[i] = t[j]
      BY <1>2, <3>1
    <3>3. CASE j > 1
      <4>1. st[i - 1] = t[j - 1] /\ i > 1
        <5>1. j - 1 \in 1..Len(t) /\ i - 1 = Len(s) + (j - 1) /\ i > 1
          BY <1>1, <3>1, <3>3
        <5>2. QED
          BY <1>2, <5>1
      <4>2. Group(t, w, platforms, node, depth, "build")
        BY DEF Kind
      <4>3. QED
        BY <3>1, <3>2, <3>3, <4>1, <4>2 DEF Group
    <3>4. CASE ~(j > 1)
      <4>1. j = 1 /\ 1 \in 1..Len(t) /\ ~(1 > 1)
        BY <1>1, <3>1, <3>4
      <4>2. /\ Group(t, w, platforms, node, depth, "build")
            /\ Group(t, w, platforms, node, depth, "normal")
        BY DEF Kind
      <4>3. t[1].is # "crate"
        <5>1. t[1].is = "crate" => Builds(t[1].kind)
          BY <4>1, <4>2 DEF Group, Builds
        <5>2. t[1].is = "crate" => ~Builds(t[1].kind)
          BY <4>1, <4>2 DEF Group, Builds
        <5>3. QED
          BY <5>1, <5>2
      <4>4. ItemOK(w, platforms, t[1]) /\ t[1].depth = depth /\ t[1].parent = node
        BY <4>1, <4>2 DEF Group
      <4>5. QED
        BY <3>2, <4>1, <4>3, <4>4
    <3>5. QED
      BY <3>3, <3>4
  <2>3. QED
    BY <1>3, <2>1, <2>2
<1>5. QED
  BY <1>1, <1>4 DEF st

LEMMA CoversConcat ==
  ASSUME NEW s \in Seq(Item), NEW t \in Seq(Item), NEW w, NEW node, NEW a, NEW b,
         Covers(s, w, node, a), Covers(t, w, node, b)
  PROVE  Covers(s \o t, w, node, a \union b)
<1> DEFINE st == s \o t
<1>1. /\ Len(s) \in Nat /\ Len(t) \in Nat /\ Len(st) = Len(s) + Len(t)
      /\ \A i \in 1..Len(s) : st[i] = s[i]
      /\ \A i \in 1..Len(t) : st[Len(s) + i] = t[i]
  BY ConcatProperties, LenProperties
<1> HIDE DEF st
<1>2. /\ \A i \in 1..Len(s) : i \in 1..Len(st)
      /\ \A i \in 1..Len(t) : Len(s) + i \in 1..Len(st)
  BY <1>1
<1>3. \A e \in a : \E i \in 1..Len(st) : st[i].is = "crate" /\ st[i].node = Child(w, node, e)
  BY <1>1, <1>2 DEF Covers
<1>4. \A e \in b : \E i \in 1..Len(st) : st[i].is = "crate" /\ st[i].node = Child(w, node, e)
  BY <1>1, <1>2 DEF Covers
<1>5. QED
  BY <1>3, <1>4 DEF Covers, st

LEMMA SectionGroup ==
  ASSUME NEW w \in Workspace, NEW platforms \in PlatformOf, NEW node \in Node,
         NEW kind \in Kind, NEW depth \in Nat \ {0}
  PROVE  LET s == Section(w, node, platforms, kind, depth)
             edges == EdgesOfKind(w, platforms, node, kind)
         IN  /\ kind = "normal" => Group(s, w, platforms, node, depth, "normal")
             /\ kind # "normal" => MarkedGroup(s, w, platforms, node, depth)
             /\ Covers(s, w, node, edges)
             /\ Len(s) <= Cardinality(edges) + (IF kind = "normal" THEN 0 ELSE 1)
<1> DEFINE edges == EdgesOfKind(w, platforms, node, kind)
           s == Section(w, node, platforms, kind, depth)
           children == Children(w, node, platforms, kind, depth)
           marker == [is |-> kind, kind |-> kind, parent |-> node, node |-> node, depth |-> depth]
<1>1. /\ Group(children, w, platforms, node, depth, kind)
      /\ Covers(children, w, node, edges) /\ Len(children) = Cardinality(edges)
      /\ \A i \in 1..Len(children) : children[i].kind = kind
  BY ChildrenGroup
<1>2. Cardinality(edges) \in Nat
  BY EdgesOfType, FS_CardinalityType
<1>3. s = IF kind = "normal" \/ children = <<>> THEN children ELSE <<marker>> \o children
  BY DEF Section
<1> HIDE DEF s, children, edges
<1>4. CASE kind = "normal"
  <2>1. s = children
    BY <1>3, <1>4
  <2>2. QED
    BY <1>1, <1>2, <1>4, <2>1 DEF s, edges
<1>5. CASE kind # "normal" /\ children = <<>>
  <2>1. s = <<>> /\ Len(<<>>) = 0
    BY <1>3, <1>5
  <2>2. MarkedGroup(s, w, platforms, node, depth)
    BY <2>1 DEF Group, MarkedGroup
  <2>3. QED
    BY <1>1, <1>2, <1>5, <2>1, <2>2 DEF s, edges
<1>6. CASE kind # "normal" /\ children # <<>>
  <2>1. s = <<marker>> \o children /\ kind \in {"build", "dev"}
    BY <1>3, <1>6 DEF Kind
  <2>2. /\ marker \in Item /\ marker.is = kind /\ marker.is # "crate" /\ marker.kind = kind
        /\ marker.depth = depth /\ marker.parent = node /\ marker.node = node
    BY <2>1 DEF Item
  <2>3. ItemOK(w, platforms, marker)
    <3> HIDE DEF marker
    <3>1. QED
      BY <2>2 DEF ItemOK
  <2> HIDE DEF marker
  <2>4. /\ children \in Seq(Item) /\ <<marker>> \in Seq(Item) /\ Len(<<marker>>) = 1
        /\ <<marker>>[1] = marker
    BY <1>1, <2>2 DEF Group
  <2>5. /\ s \in Seq(Item) /\ Len(s) = Len(children) + 1 /\ Len(children) \in Nat
        /\ s[1] = marker /\ \A i \in 1..Len(children) : s[i + 1] = children[i]
    <3>1. /\ <<marker>> \o children \in Seq(Item)
          /\ Len(<<marker>> \o children) = 1 + Len(children)
          /\ \A i \in 1..(1 + Len(children)) :
               (<<marker>> \o children)[i] = IF i <= 1 THEN <<marker>>[i] ELSE children[i - 1]
      BY <2>4, ConcatProperties
    <3>2. Len(children) \in Nat
      BY <2>4
    <3>3. \A i \in 1..Len(children) : i + 1 \in 1..(1 + Len(children)) /\ ~(i + 1 <= 1) /\ i + 1 - 1 = i
      BY <3>2
    <3>4. 1 \in 1..(1 + Len(children)) /\ 1 <= 1
      BY <3>2
    <3>5. QED
      BY <2>1, <2>4, <3>1, <3>2, <3>3, <3>4
  <2>6. MarkedGroup(s, w, platforms, node, depth)
    <3> SUFFICES ASSUME NEW x \in Kind, NEW i \in 1..Len(s)
                 PROVE  /\ ItemOK(w, platforms, s[i]) /\ s[i].depth = depth /\ s[i].parent = node
                        /\ s[i].is = "crate" =>
                             (Builds(s[i].kind) <=> Builds(IF i > 1 THEN s[i - 1].kind ELSE x))
      BY <2>5 DEF Group, MarkedGroup
    <3>1. CASE i = 1
      BY <2>2, <2>3, <2>5, <3>1
    <3>2. CASE i # 1
      <4>1. i - 1 \in 1..Len(children) /\ i > 1 /\ i - 1 + 1 = i
        BY <2>5, <3>2
      <4>2. s[i] = children[i - 1]
        BY <2>5, <4>1
      <4>3. ItemOK(w, platforms, s[i]) /\ s[i].depth = depth /\ s[i].parent = node
        BY <1>1, <4>1, <4>2 DEF Group
      <4>4. s[i - 1].kind = kind
        <5>1. CASE i = 2
          BY <2>2, <2>5, <5>1
        <5>2. CASE i # 2
          <6>1. i - 2 \in 1..Len(children) /\ i - 2 + 1 = i - 1
            BY <2>5, <4>1, <5>2
          <6>2. QED
            BY <1>1, <2>5, <6>1
        <5>3. QED
          BY <5>1, <5>2
      <4>5. s[i].kind = kind
        BY <1>1, <4>1, <4>2
      <4>6. QED
        BY <4>1, <4>3, <4>4, <4>5 DEF Builds
    <3>3. QED
      BY <3>1, <3>2
  <2>7. Covers(s, w, node, edges)
    <3>1. \A i \in 1..Len(children) : i + 1 \in 1..Len(s) /\ s[i + 1] = children[i]
      BY <2>5
    <3>2. QED
      BY <1>1, <3>1 DEF Covers
  <2>8. QED
    BY <1>1, <1>2, <1>6, <2>5, <2>6, <2>7 DEF s, edges
<1>7. QED
  BY <1>4, <1>5, <1>6 DEF s, edges

LEMMA DisjointUnion ==
  ASSUME NEW a, NEW b, IsFiniteSet(a), IsFiniteSet(b), a \intersect b = {}
  PROVE  /\ IsFiniteSet(a \union b)
         /\ Cardinality(a \union b) = Cardinality(a) + Cardinality(b)
<1>1. /\ IsFiniteSet(a \union b)
      /\ Cardinality(a \union b) = Cardinality(a) + Cardinality(b) - Cardinality(a \intersect b)
  BY FS_Union
<1>2. Cardinality(a \intersect b) = 0
  <2>1. Cardinality({}) = 0
    BY FS_EmptySet
  <2>2. QED
    BY <2>1
<1>3. Cardinality(a) \in Nat /\ Cardinality(b) \in Nat
  BY FS_CardinalityType
<1>4. QED
  BY <1>1, <1>2, <1>3

LEMMA SectionsGroup ==
  ASSUME NEW w \in Workspace, NEW platforms \in PlatformOf, NEW node \in Node,
         NEW depth \in Nat \ {0}
  PROVE  LET s == Sections(w, node, platforms, depth)
         IN  /\ Group(s, w, platforms, node, depth, "normal")
             /\ Covers(s, w, node, ActiveEdges(w, node, platforms[node[1]]))
             /\ Len(s) <= Len(w.edges) + 2
<1> DEFINE active == ActiveEdges(w, node, platforms[node[1]])
           a == EdgesOfKind(w, platforms, node, "normal")
           b == EdgesOfKind(w, platforms, node, "build")
           c == EdgesOfKind(w, platforms, node, "dev")
           s == Section(w, node, platforms, "normal", depth)
           t == Section(w, node, platforms, "build", depth)
           u == Section(w, node, platforms, "dev", depth)
<1>1. Kind = {"normal", "build", "dev"}
  BY DEF Kind
<1>2. /\ Group(s, w, platforms, node, depth, "normal") /\ Covers(s, w, node, a)
      /\ Len(s) <= Cardinality(a) + 0
  <2>1. "normal" \in Kind
    BY <1>1
  <2> HIDE DEF s, a
  <2>2. QED
    BY <2>1, SectionGroup DEF s, a
<1>3. /\ MarkedGroup(t, w, platforms, node, depth)
      /\ Covers(t, w, node, b) /\ Len(t) <= Cardinality(b) + 1
  <2>1. "build" \in Kind /\ "build" # "normal"
    BY <1>1
  <2> HIDE DEF t, b
  <2>2. QED
    BY <2>1, SectionGroup DEF t, b
<1>4. /\ MarkedGroup(u, w, platforms, node, depth)
      /\ Covers(u, w, node, c) /\ Len(u) <= Cardinality(c) + 1
  <2>1. "dev" \in Kind /\ "dev" # "normal"
    BY <1>1
  <2> HIDE DEF u, c
  <2>2. QED
    BY <2>1, SectionGroup DEF u, c
<1>5. a \intersect b = {} /\ (a \union b) \intersect c = {}
  BY DEF EdgesOfKind
<1>6. active = a \union b \union c
  <2>1. \A e \in active : e.kind \in Kind
    BY ChildType DEF ActiveEdges, Edge
  <2>2. QED
    BY <1>1, <2>1 DEF EdgesOfKind
<1>7. IsFiniteSet(ToSet(w.edges)) /\ Cardinality(ToSet(w.edges)) <= Len(w.edges) /\ Len(w.edges) \in Nat
  <2>1. w.edges \in Seq(Edge)
    BY DEF Workspace
  <2>2. QED
    BY <2>1, ElementsBound
<1>8. active \in SUBSET ToSet(w.edges)
  BY DEF ActiveEdges
<1> HIDE DEF active, a, b, c
<1>9. IsFiniteSet(active) /\ Cardinality(active) <= Cardinality(ToSet(w.edges))
  BY <1>7, <1>8, FS_Subset
<1>10. IsFiniteSet(a) /\ IsFiniteSet(b) /\ IsFiniteSet(c)
  BY <1>6, <1>9, FS_Subset
<1>11. IsFiniteSet(a \union b) /\ Cardinality(a \union b) = Cardinality(a) + Cardinality(b)
  BY <1>5, <1>10, DisjointUnion
<1>12. Cardinality(active) = Cardinality(a \union b) + Cardinality(c)
  BY <1>5, <1>6, <1>10, <1>11, DisjointUnion
<1>13. /\ Cardinality(a) \in Nat /\ Cardinality(b) \in Nat /\ Cardinality(c) \in Nat
       /\ Cardinality(ToSet(w.edges)) \in Nat
  BY <1>7, <1>10, FS_CardinalityType
<1>14. Sections(w, node, platforms, depth) = s \o t \o u
  BY DEF Sections
<1> HIDE DEF s, t, u
<1> DEFINE st == s \o t
<1>15. /\ Group(st \o u, w, platforms, node, depth, "normal")
       /\ Covers(st \o u, w, node, (a \union b) \union c)
       /\ Len(st \o u) = Len(s) + Len(t) + Len(u)
  <2>1. Group(st, w, platforms, node, depth, "normal") /\ s \in Seq(Item) /\ t \in Seq(Item)
    <3>1. Group(s, w, platforms, node, depth, "normal")
      BY <1>2
    <3>2. MarkedGroup(t, w, platforms, node, depth)
      BY <1>3
    <3>3. QED
      BY <3>1, <3>2, GroupConcat
  <2>2. Covers(st, w, node, a \union b)
    BY <1>2, <1>3, <2>1, CoversConcat
  <2>3. Len(st) = Len(s) + Len(t)
    BY <2>1
  <2> HIDE DEF st
  <2>4. Group(st \o u, w, platforms, node, depth, "normal") /\ st \in Seq(Item) /\ u \in Seq(Item)
    <3>1. MarkedGroup(u, w, platforms, node, depth)
      BY <1>4
    <3>2. QED
      BY <2>1, <3>1, GroupConcat
  <2>5. Covers(st \o u, w, node, (a \union b) \union c)
    BY <1>4, <2>2, <2>4, CoversConcat
  <2>6. Len(st \o u) = Len(st) + Len(u)
    BY <2>4
  <2>7. QED
    BY <2>3, <2>4, <2>5, <2>6
<1>16. Len(s) \in Nat /\ Len(t) \in Nat /\ Len(u) \in Nat
  <2>1. s \in Seq(Item)
    BY <1>2 DEF Group
  <2>2. t \in Seq(Item)
    BY <1>3 DEF Group, MarkedGroup, Kind
  <2>3. u \in Seq(Item)
    BY <1>4 DEF Group, MarkedGroup, Kind
  <2>4. QED
    BY <2>1, <2>2, <2>3
<1>17. Len(s \o t \o u) <= Len(w.edges) + 2
  BY <1>2, <1>3, <1>4, <1>7, <1>9, <1>11, <1>12, <1>13, <1>15, <1>16
<1>18. QED
  BY <1>6, <1>14, <1>15, <1>17 DEF active
------------------------------------------------------------------------------
(***************************************************************************)
(* Printing keeps to its types: what is still to be printed is a root or   *)
(* below a crate.                                                          *)
(***************************************************************************)
Good(w, platforms) == {item \in Item : ItemOK(w, platforms, item)}
Printing(w, platforms) == [todo : Seq(Good(w, platforms)), seen : SUBSET Node, lines : Seq(Line)]

LEMMA LineOfType ==
  ASSUME NEW w \in Workspace, NEW platforms \in PlatformOf, NEW item \in Good(w, platforms)
  PROVE  /\ LineOf(w, platforms, item) \in Line
         /\ item.is # "crate" => item.depth - 1 \in Nat
<1>1. item \in Item /\ (item.is # "crate" => item.is = item.kind /\ item.depth > 0)
  BY DEF Good, ItemOK
<1>2. CASE item.is = "crate"
  <2>1. item.node[1] \in Side /\ item.node[2] \in Crate /\ item.depth \in Nat
    BY <1>1 DEF Item, Node
  <2>2. w.features[item.node[2]][item.node[1]][platforms[item.node[1]]] \in SUBSET Feature
    BY <2>1 DEF Workspace, PlatformOf
  <2>3. QED
    BY <1>2, <2>1, <2>2 DEF LineOf, CrateLine, Line
<1>3. CASE item.is # "crate"
  <2>1. item.is \in {"build", "dev"} /\ item.depth - 1 \in Nat
    BY <1>1, <1>3 DEF Item
  <2>2. QED
    BY <1>1, <1>3, <2>1 DEF LineOf, Marker, Line
<1>4. QED
  BY <1>2, <1>3

LEMMA PrintStartType ==
  ASSUME NEW w \in Workspace, NEW platforms \in PlatformOf
  PROVE  /\ PrintStart(w) \in Printing(w, platforms)
         /\ Len(PrintStart(w).todo) = Len(w.roots) /\ Len(w.roots) \in Nat
         /\ \A i \in 1..Len(w.roots) : PrintStart(w).todo[i] = Root(w, w.roots[i])
<1>1. w.roots \in Seq(Crate) /\ DOMAIN w.roots = 1..Len(w.roots) /\ Len(w.roots) \in Nat
  BY DEF Workspace
<1>2. \A i \in 1..Len(w.roots) : Root(w, w.roots[i]) \in Good(w, platforms)
  <2> SUFFICES ASSUME NEW i \in 1..Len(w.roots) PROVE Root(w, w.roots[i]) \in Good(w, platforms)
    OBVIOUS
  <2>1. w.roots[i] \in ToSet(w.roots)
    BY <1>1 DEF ToSet
  <2>2. RootNode(w, w.roots[i]) \in Node
    BY <2>1, RootType
  <2>3. QED
    BY <2>1, <2>2 DEF Root, Good, ItemOK, Item, Kind
<1>3. [i \in DOMAIN w.roots |-> Root(w, w.roots[i])] \in [1..Len(w.roots) -> Good(w, platforms)]
  BY <1>1, <1>2
<1>4. QED
  BY <1>1, <1>3 DEF PrintStart, Printing

LEMMA GroupGood ==
  ASSUME NEW w, NEW platforms, NEW node, NEW depth, NEW before, NEW items,
         Group(items, w, platforms, node, depth, before)
  PROVE  items \in Seq(Good(w, platforms))
<1>1. items \in Seq(Item) /\ \A i \in 1..Len(items) : ItemOK(w, platforms, items[i])
  BY DEF Group
<1>2. \A i \in 1..Len(items) : items[i] \in Good(w, platforms)
  BY <1>1 DEF Good, ItemOK
<1>3. QED
  BY <1>1, <1>2

IsNew(print) == Head(print.todo).is = "crate" /\ Head(print.todo).node \notin print.seen

Below1(w, platforms, print) ==
  IF IsNew(print)
  THEN Sections(w, Head(print.todo).node, platforms, Head(print.todo).depth + 1) ELSE <<>>

LEMMA PrintNextIs ==
  ASSUME NEW w, NEW platforms, NEW print, print.todo # <<>>
  PROVE  PrintNext(w, platforms, print) =
           [todo |-> Below1(w, platforms, print) \o Tail(print.todo),
            seen |-> IF IsNew(print) THEN print.seen \union {Head(print.todo).node} ELSE print.seen,
            lines |-> Append(print.lines, LineOf(w, platforms, Head(print.todo)))]
BY Zenon DEF PrintNext, Below1, IsNew

LEMMA PrintNextType ==
  ASSUME NEW w \in Workspace, NEW platforms \in PlatformOf, NEW print \in Printing(w, platforms)
  PROVE  PrintNext(w, platforms, print) \in Printing(w, platforms)
<1> DEFINE item == Head(print.todo)
           below == Below1(w, platforms, print)
<1>1. CASE print.todo = <<>>
  BY <1>1 DEF PrintNext
<1>2. CASE print.todo # <<>>
  <2>1. print.todo \in Seq(Good(w, platforms)) /\ print.seen \in SUBSET Node /\ print.lines \in Seq(Line)
    BY DEF Printing
  <2>2. item \in Good(w, platforms) /\ Tail(print.todo) \in Seq(Good(w, platforms))
    BY <1>2, <2>1
  <2> HIDE DEF item
  <2>3. item.node \in Node /\ item.depth + 1 \in Nat \ {0}
    BY <2>2 DEF Good, Item
  <2>4. below \in Seq(Good(w, platforms))
    <3>1. CASE ~IsNew(print)
      BY <3>1 DEF Below1
    <3>2. CASE IsNew(print)
      <4>1. below = Sections(w, item.node, platforms, item.depth + 1)
        BY <3>2 DEF Below1, item
      <4> HIDE DEF below
      <4>2. Group(below, w, platforms, item.node, item.depth + 1, "normal")
        BY <2>3, <4>1, SectionsGroup
      <4>3. QED
        BY <4>2, GroupGood
    <3>3. QED
      BY <3>1, <3>2
  <2> HIDE DEF below
  <2>5. below \o Tail(print.todo) \in Seq(Good(w, platforms))
    BY <2>2, <2>4, ConcatProperties
  <2>6. Append(print.lines, LineOf(w, platforms, item)) \in Seq(Line)
    BY <2>1, <2>2, LineOfType, AppendProperties
  <2>7. PrintNext(w, platforms, print) =
           [todo |-> below \o Tail(print.todo),
            seen |-> IF IsNew(print) THEN print.seen \union {item.node} ELSE print.seen,
            lines |-> Append(print.lines, LineOf(w, platforms, item))]
    BY <1>2, PrintNextIs, Zenon DEF item, below
  <2>8. (IF IsNew(print) THEN print.seen \union {item.node} ELSE print.seen) \in SUBSET Node
    BY <2>1, <2>3
  <2>9. QED
    BY <2>5, <2>6, <2>7, <2>8 DEF Printing
<1>3. QED
  BY <1>1, <1>2

LEMMA LinesBoundType ==
  ASSUME NEW w \in Workspace
  PROVE  LinesBound(w) \in Nat /\ Len(w.edges) + 2 \in Nat
<1>1. Len(w.roots) \in Nat /\ Len(w.edges) + 2 \in Nat
  BY DEF Workspace
<1>2. Cardinality(Node) * (Len(w.edges) + 2) \in Nat
  BY <1>1, NodeFinite
<1>3. QED
  BY <1>1, <1>2 DEF LinesBound

LEMMA PrintUnfolds ==
  ASSUME NEW w \in Workspace, NEW platforms \in PlatformOf
  PROVE  \E f \in [0..LinesBound(w) -> Printing(w, platforms)] :
           /\ f[0] = PrintStart(w)
           /\ \A n \in 1..LinesBound(w) : f[n] = PrintNext(w, platforms, f[n - 1])
           /\ Printed(w, platforms) = f[LinesBound(w)]
<1> DEFINE N == LinesBound(w)
           V == Printing(w, platforms)
           Base == PrintStart(w)
           Step(v, n) == PrintNext(w, platforms, v)
           step == [n \in 1..N |-> [v \in V |-> Step(v, n)]]
           printed[n \in 0..N] == IF n = 0 THEN Base ELSE Step(printed[n - 1], n)
           Is(f) == f = [n \in 0..N |-> IF n = 0 THEN Base ELSE Step(f[n - 1], n)]
           chosen == CHOOSE f : Is(f)
<1>1. Printed(w, platforms) = printed[LinesBound(w)]
  BY DEF Printed
<1>2. printed = chosen
  BY Zenon
<1>3. N \in Nat /\ Base \in V /\ \A n \in 1..N, v \in V : Step(v, n) \in V
  BY PrintStartType, PrintNextType, LinesBoundType
<1> HIDE DEF N, V, Base, Step, printed
<1>4. step \in [1..N -> [V -> V]] /\ \A n \in 1..N, v \in V : step[n][v] = Step(v, n)
  <2>1. \A n \in 1..N : [v \in V |-> Step(v, n)] \in [V -> V]
    BY <1>3
  <2>2. QED
    BY <2>1
<1> HIDE DEF step
<1>5. PICK f \in [0..N -> V] : Recurs(f, N, Base, step)
  BY <1>3, <1>4, Recursion
<1>6. \A n \in 1..N : n - 1 \in 0..N /\ step[n][f[n - 1]] = Step(f[n - 1], n)
  <2>1. \A n \in 1..N : n - 1 \in 0..N
    BY <1>3
  <2>2. QED
    BY <1>4, <1>5, <2>1
<1>7. Is(f)
  <2>1. [n \in 0..N |-> IF n = 0 THEN Base ELSE step[n][f[n - 1]]]
          = [n \in 0..N |-> IF n = 0 THEN Base ELSE Step(f[n - 1], n)]
    BY <1>3, <1>6
  <2>2. QED
    BY <1>5, <2>1, Zenon DEF Recurs
<1> HIDE DEF Is
<1>8. Is(chosen)
  BY <1>7, Zenon
<1>9. chosen[0] = Base /\ \A n \in 1..N : chosen[n] = Step(chosen[n - 1], n)
  <2> HIDE DEF chosen
  <2>1. \A n \in 0..N : chosen[n] = IF n = 0 THEN Base ELSE Step(chosen[n - 1], n)
    BY <1>8 DEF Is
  <2>2. QED
    BY <1>3, <2>1
<1> HIDE DEF chosen
<1>10. chosen[N] = f[N] /\ f[0] = Base /\ \A n \in 1..N : f[n] = Step(f[n - 1], n)
  <2>1. Follows(chosen, V, N, Base, step)
    BY <1>4, <1>9 DEF Follows
  <2>2. chosen[N] = f[N]
    <3>1. N \in Nat /\ Base \in V /\ step \in [1..N -> [V -> V]]
      BY <1>3, <1>4
    <3>2. f \in [0..N -> V] /\ Recurs(f, N, Base, step)
      BY <1>5
    <3>3. QED
      BY <2>1, <3>1, <3>2, RecursionIs
  <2>3. \A n \in 0..N : f[n] = IF n = 0 THEN Base ELSE Step(f[n - 1], n)
    BY <1>7 DEF Is
  <2>4. QED
    BY <1>3, <2>2, <2>3
<1>11. QED
  BY <1>1, <1>2, <1>5, <1>10 DEF N, V, Base, Step
------------------------------------------------------------------------------
(***************************************************************************)
(* The parser's stack while a queue of items is printed: it holds the      *)
(* parents of all that is in the queue, and of the topmost group whether   *)
(* it is build dependencies.                                               *)
(***************************************************************************)
OnStack(item, parents) ==
  /\ item.depth <= Len(parents)
  /\ item.depth > 0 => /\ parents[item.depth].crate = item.parent[2]
                       /\ parents[item.depth].host <=> item.parent[1] = "host"

Settled(queue, parents, i) ==
  queue[i].is = "crate" /\ queue[i].depth > 0 =>
    IF i > 1 /\ queue[i - 1].depth = queue[i].depth
    THEN Builds(queue[i].kind) <=> Builds(queue[i - 1].kind)
    ELSE Builds(queue[i].kind) <=> parents[queue[i].depth].building

Queue(queue, parents) ==
  \A i \in 1..Len(queue) :
    /\ OnStack(queue[i], parents)
    /\ Settled(queue, parents, i)
    /\ i > 1 => queue[i].depth <= queue[i - 1].depth

\* What a line for an item leaves of the stack.
Keeps(parents, after, depth, kind) ==
  /\ depth <= Len(after)
  /\ \A i \in 1..depth : after[i].crate = parents[i].crate /\ after[i].host = parents[i].host
  /\ \A i \in 1..depth : i < depth => after[i].building = parents[i].building
  /\ depth > 0 => (after[depth].building <=> Builds(kind))

LEMMA DepthsFall ==
  ASSUME NEW S, NEW queue \in Seq(S), \A i \in 1..Len(queue) : queue[i].depth \in Nat,
         NEW parents, Queue(queue, parents)
  PROVE  \A i \in 1..Len(queue) : queue[i].depth <= queue[1].depth
<1> DEFINE T == {n \in Nat : n + 1 \in 1..Len(queue) => queue[n + 1].depth <= queue[1].depth}
<1>1. Len(queue) \in Nat
  OBVIOUS
<1>2. 0 \in T
  BY <1>1
<1>3. ASSUME NEW n \in Nat, n \in T PROVE n + 1 \in T
  <2> SUFFICES ASSUME n + 1 + 1 \in 1..Len(queue)
               PROVE  queue[n + 1 + 1].depth <= queue[1].depth
    OBVIOUS
  <2>1. n + 1 \in 1..Len(queue) /\ n + 1 + 1 > 1 /\ n + 1 + 1 - 1 = n + 1 /\ 1 \in 1..Len(queue)
    BY <1>1
  <2>2. queue[n + 1].depth <= queue[1].depth
    BY <1>3, <2>1
  <2>3. queue[n + 1 + 1].depth <= queue[n + 1].depth
    BY <2>1 DEF Queue
  <2>4. QED
    BY <2>1, <2>2, <2>3
<1> HIDE DEF T
<1>4. Nat \subseteq T
  BY <1>2, <1>3, Induct
<1>5. \A i \in 1..Len(queue) : i - 1 \in T /\ i - 1 + 1 = i
  BY <1>1, <1>4
<1>6. QED
  BY <1>5 DEF T

LEMMA ItemDepth ==
  ASSUME NEW items \in Seq(Item)
  PROVE  \A i \in 1..Len(items) : items[i] \in Item /\ items[i].depth \in Nat
<1>1. \A i \in 1..Len(items) : items[i] \in Item
  OBVIOUS
<1>2. \A item \in Item : item.depth \in Nat
  BY DEF Item
<1>3. QED
  BY <1>1, <1>2

\* The queue without its head, once that is printed.
LEMMA QueueTail ==
  ASSUME NEW queue \in Seq(Item), queue # <<>>,
         NEW parents, NEW after, Queue(queue, parents),
         Keeps(parents, after, Head(queue).depth, Head(queue).kind)
  PROVE  /\ Queue(Tail(queue), after)
         /\ \A i \in 1..Len(Tail(queue)) : Tail(queue)[i].depth <= Head(queue).depth
<1> DEFINE t == Tail(queue)
           d == Head(queue).depth
<1>1. /\ t \in Seq(Item) /\ Len(t) \in Nat /\ Len(queue) = Len(t) + 1 /\ Head(queue) = queue[1]
      /\ \A i \in 1..Len(t) : t[i] = queue[i + 1] /\ i + 1 \in 1..Len(queue) /\ i + 1 - 1 = i
  BY HeadTailProperties, LenProperties
<1>2. \A i \in 1..Len(queue) : queue[i] \in Item /\ queue[i].depth \in Nat
  BY ItemDepth
<1>3. \A i \in 1..Len(queue) : queue[i].depth <= d
  BY <1>1, <1>2, DepthsFall
<1>4. d \in Nat
  BY <1>1, <1>2
<1>5. /\ Keeps(parents, after, d, queue[1].kind) /\ queue[1].depth = d
  BY <1>1
<1> HIDE DEF t, d
<1>6. ASSUME NEW i \in 1..Len(t)
      PROVE  /\ OnStack(t[i], after) /\ Settled(t, after, i)
             /\ (i > 1 => t[i].depth <= t[i - 1].depth) /\ t[i].depth <= d
  <2> DEFINE item == queue[i + 1]
  <2>1. /\ t[i] = item /\ i + 1 \in 1..Len(queue) /\ i + 1 - 1 = i /\ i + 1 > 1 /\ i \in 1..Len(queue)
        /\ item.depth \in Nat /\ item.depth <= d
    BY <1>1, <1>2, <1>3
  <2>2. OnStack(item, parents) /\ Settled(queue, parents, i + 1) /\ item.depth <= queue[i].depth
    BY <2>1 DEF Queue
  <2>3. i > 1 => t[i - 1] = queue[i]
    BY <1>1
  <2>4. item.depth > 0 => item.depth \in 1..d
    BY <1>4, <2>1
  <2> HIDE DEF item
  <2>5. OnStack(item, after)
    <3>1. item.depth <= Len(after)
      BY <1>4, <1>5, <2>1 DEF Keeps
    <3>2. QED
      BY <1>5, <2>2, <2>4, <3>1 DEF Keeps, OnStack
  <2>6. Settled(t, after, i)
    <3> SUFFICES ASSUME item.is = "crate", item.depth > 0
                 PROVE  IF i > 1 /\ t[i - 1].depth = item.depth
                        THEN Builds(item.kind) <=> Builds(t[i - 1].kind)
                        ELSE Builds(item.kind) <=> after[item.depth].building
      BY <2>1 DEF Settled
    <3>1. IF queue[i].depth = item.depth
          THEN Builds(item.kind) <=> Builds(queue[i].kind)
          ELSE Builds(item.kind) <=> parents[item.depth].building
      BY <2>1, <2>2 DEF Settled, item
    <3>2. CASE i > 1
      <4>1. CASE queue[i].depth = item.depth
        BY <2>3, <3>1, <3>2, <4>1
      <4>2. CASE queue[i].depth # item.depth
        <5>1. item.depth < d
          <6>1. queue[i].depth <= d /\ queue[i].depth \in Nat
            BY <1>2, <1>3, <2>1
          <6>2. QED
            BY <1>4, <2>1, <2>2, <4>2, <6>1
        <5>2. after[item.depth].building = parents[item.depth].building
          BY <1>5, <2>4, <5>1 DEF Keeps
        <5>3. QED
          BY <2>3, <3>1, <3>2, <4>2, <5>2
      <4>3. QED
        BY <4>1, <4>2
    <3>3. CASE i = 1
      <4>1. CASE d = item.depth
        BY <1>5, <3>1, <3>3, <4>1 DEF Keeps
      <4>2. CASE d # item.depth
        <5>1. item.depth < d
          BY <1>4, <2>1, <4>2
        <5>2. after[item.depth].building = parents[item.depth].building
          BY <1>5, <2>4, <5>1 DEF Keeps
        <5>3. QED
          BY <1>5, <3>1, <3>3, <4>2, <5>2
      <4>3. QED
        BY <4>1, <4>2
    <3>4. i \in Nat /\ i >= 1
      BY <1>1
    <3>5. QED
      BY <3>2, <3>3, <3>4
  <2>7. QED
    BY <2>1, <2>2, <2>3, <2>5, <2>6
<1>7. QED
  BY <1>6 DEF Queue, t, d

\* The group below a crate is printed first.
LEMMA QueueConcat ==
  ASSUME NEW w, NEW platforms, NEW node \in Node, NEW d \in Nat,
         NEW group, Group(group, w, platforms, node, d + 1, "normal"),
         NEW rest \in Seq(Item), NEW after, Queue(rest, after),
         \A i \in 1..Len(rest) : rest[i].depth <= d,
         Len(after) = d + 1, after[d + 1].crate = node[2],
         after[d + 1].host <=> node[1] = "host", ~after[d + 1].building
  PROVE  Queue(group \o rest, after)
<1> DEFINE q == group \o rest
<1>1. group \in Seq(Item)
  BY DEF Group
<1>2. /\ q \in Seq(Item) /\ Len(q) = Len(group) + Len(rest)
      /\ Len(group) \in Nat /\ Len(rest) \in Nat
      /\ \A i \in 1..Len(group) : q[i] = group[i]
      /\ \A i \in 1..Len(rest) : q[Len(group) + i] = rest[i]
  BY <1>1, ConcatProperties, LenProperties
<1>3. \A i \in 1..Len(rest) : rest[i].depth \in Nat
  BY ItemDepth
<1> HIDE DEF q
<1> SUFFICES ASSUME NEW i \in 1..Len(q)
             PROVE  /\ OnStack(q[i], after) /\ Settled(q, after, i)
                    /\ i > 1 => q[i].depth <= q[i - 1].depth
  BY DEF Queue, q
<1>4. CASE i \in 1..Len(group)
  <2>1. q[i] = group[i] /\ (i > 1 => i - 1 \in 1..Len(group) /\ q[i - 1] = group[i - 1])
    BY <1>2, <1>4
  <2>2. /\ group[i].depth = d + 1 /\ group[i].parent = node
        /\ group[i].is = "crate" =>
             (Builds(group[i].kind) <=> Builds(IF i > 1 THEN group[i - 1].kind ELSE "normal"))
    BY <1>4 DEF Group
  <2>3. i > 1 => group[i - 1].depth = d + 1
    BY <2>1 DEF Group
  <2>4. OnStack(q[i], after)
    BY <2>1, <2>2 DEF OnStack
  <2>5. Settled(q, after, i)
    BY <2>1, <2>2, <2>3 DEF Settled, Builds
  <2>6. QED
    BY <2>1, <2>2, <2>3, <2>4, <2>5
<1>5. CASE i \notin 1..Len(group)
  <2> DEFINE j == i - Len(group)
  <2>1. j \in 1..Len(rest) /\ i = Len(group) + j
    BY <1>2, <1>5
  <2> HIDE DEF j
  <2>2. q[i] = rest[j]
    BY <1>2, <2>1
  <2>3. OnStack(rest[j], after) /\ Settled(rest, after, j)
        /\ (j > 1 => rest[j].depth <= rest[j - 1].depth)
    BY <2>1 DEF Queue
  <2>4. CASE j > 1
    <3>1. i > 1 /\ q[i - 1] = rest[j - 1]
      <4>1. j - 1 \in 1..Len(rest) /\ i - 1 = Len(group) + (j - 1) /\ i > 1
        BY <1>2, <2>1, <2>4
      <4>2. QED
        BY <1>2, <4>1
    <3>2. QED
      BY <2>2, <2>3, <2>4, <3>1 DEF Settled
  <2>5. CASE ~(j > 1)
    <3>1. j = 1 /\ i - 1 = Len(group)
      BY <1>2, <2>1, <2>5
    <3>2. i > 1 => q[i - 1].depth = d + 1
      <4> SUFFICES ASSUME i > 1 PROVE q[i - 1].depth = d + 1
        OBVIOUS
      <4>1. i - 1 \in 1..Len(group)
        BY <1>2, <3>1
      <4>2. QED
        BY <1>2, <4>1 DEF Group
    <3>3. rest[j].depth <= d /\ rest[j].depth \in Nat
      BY <1>3, <2>1
    <3>4. rest[j].depth <= d + 1 /\ rest[j].depth # d + 1
      BY <3>3
    <3>5. Settled(q, after, i)
      BY <2>2, <2>3, <2>5, <3>2, <3>4 DEF Settled
    <3>6. QED
      BY <2>2, <2>3, <3>2, <3>4, <3>5
  <2>6. QED
    BY <2>4, <2>5
<1>6. QED
  BY <1>4, <1>5
------------------------------------------------------------------------------
(***************************************************************************)
(* What is made of the line for an item: the parser takes the crate for    *)
(* that of the right side, below the right parent.                         *)
(***************************************************************************)
FeaturesOf(w, platforms, node) == w.features[node[2]][node[1]][platforms[node[1]]]

\* The parser and the printer agree on where an item is.
Placed(item, parents) ==
  /\ OnStack(item, parents)
  /\ item.is = "crate" /\ item.depth > 0 => (Builds(item.kind) <=> parents[item.depth].building)

LEMMA GoodItem ==
  ASSUME NEW w, NEW platforms, NEW item \in Good(w, platforms)
  PROVE  /\ item.node = <<item.node[1], item.node[2]>> /\ item.node \in Node
         /\ item.node[1] \in Side /\ item.node[2] \in Crate
         /\ item.parent = <<item.parent[1], item.parent[2]>> /\ item.parent \in Node
         /\ item.parent[1] \in Side /\ item.parent[2] \in Crate
         /\ item.depth \in Nat /\ item.kind \in Kind /\ item \in Item
BY DEF Good, Item, Node

LEMMA HostRight ==
  ASSUME NEW w \in Workspace, NEW platforms \in PlatformOf,
         NEW item \in Good(w, platforms), item.is = "crate",
         NEW above \in Seq(Parent), Len(above) = item.depth, Placed(item, above)
  PROVE  LET line == LineOf(w, platforms, item)
         IN  /\ HostLine(above, line) <=> item.node[1] = "host"
             /\ item.depth > 0 =>
                  <<SideIf(Last(above).host), Last(above).crate>> = item.parent
<1> DEFINE line == LineOf(w, platforms, item)
           last == Last(above)
<1>1. line.procMacro = (item.node[2] \in w.procMacros)
  BY DEF LineOf, CrateLine
<1>2. /\ item.node = <<item.node[1], item.node[2]>> /\ item.node[1] \in Side
      /\ item.parent = <<item.parent[1], item.parent[2]>> /\ item.parent[1] \in Side
      /\ item.depth \in Nat
  BY GoodItem
<1>3. ItemOK(w, platforms, item)
  BY DEF Good
<1>4. CASE item.depth = 0
  <2>1. above = <<>>
    BY <1>4
  <2>2. PICK c \in ToSet(w.roots) : item.node = RootNode(w, c)
    BY <1>3, <1>4 DEF ItemOK
  <2>3. item.node[1] = "host" <=> item.node[2] \in w.procMacros
    BY <2>2 DEF RootNode
  <2>4. HostLine(above, line) <=> line.procMacro
    BY <2>1 DEF HostLine
  <2> HIDE DEF line
  <2>5. HostLine(above, line) <=> item.node[1] = "host"
    BY <1>1, <2>3, <2>4
  <2>6. QED
    BY <1>4, <2>5 DEF line
<1>5. CASE item.depth > 0
  <2>1. /\ above # <<>> /\ last = above[item.depth] /\ last \in Parent
    BY <1>2, <1>5 DEF Last
  <2>2. /\ last.crate = item.parent[2] /\ (last.host <=> item.parent[1] = "host")
        /\ (last.building <=> item.kind = "build")
    BY <1>5, <2>1 DEF Placed, OnStack, Builds
  <2>3. PICK e \in ActiveEdges(w, item.parent, platforms[item.parent[1]]) :
          e.kind = item.kind /\ item.node = Child(w, item.parent, e)
    BY <1>2, <1>3, <1>5 DEF ItemOK, IsBelow
  <2>4. item.node[1] = "host" <=>
          item.parent[1] = "host" \/ item.kind = "build" \/ item.node[2] \in w.procMacros
    BY <2>3 DEF Child, SideOf
  <2> HIDE DEF line, last
  <2>5. HostLine(above, line) <=> line.procMacro \/ last.host \/ last.building
    BY <2>1 DEF HostLine, last
  <2>6. HostLine(above, line) <=> item.node[1] = "host"
    BY <1>1, <2>2, <2>4, <2>5
  <2>7. SideIf(last.host) = item.parent[1]
    BY <1>2, <2>2 DEF SideIf, Side
  <2>8. <<SideIf(last.host), last.crate>> = item.parent
    BY <1>2, <2>2, <2>7
  <2>9. QED
    BY <2>6, <2>8 DEF line, last
<1>6. QED
  BY <1>2, <1>4, <1>5

LEMMA CrateParsed ==
  ASSUME NEW w \in Workspace, NEW platforms \in PlatformOf, NEW p \in Parsing, ~p.error,
         NEW item \in Good(w, platforms), item.is = "crate", Placed(item, p.parents)
  PROVE  LET after == ParseLine(p, LineOf(w, platforms, item))
             attributed == IF item.depth = 0 THEN p.entries
                           ELSE Extended(p.entries, item.parent, {}, {item.node[2]})
         IN  /\ ~after.error /\ Len(after.parents) = item.depth + 1
             /\ Keeps(p.parents, after.parents, item.depth, item.kind)
             /\ after.parents[item.depth + 1].crate = item.node[2]
             /\ after.parents[item.depth + 1].host <=> item.node[1] = "host"
             /\ ~after.parents[item.depth + 1].building
             /\ after.entries =
                  Extended(attributed, item.node, FeaturesOf(w, platforms, item.node), {})
<1> DEFINE line == LineOf(w, platforms, item)
           above == Cut(p.parents, line.depth)
           d == item.depth
           host == HostLine(above, line)
           new == [crate |-> line.crate, host |-> host, building |-> FALSE]
           after == ParseLine(p, line)
<1>1. /\ line.is = "crate" /\ line.depth = d /\ line.crate = item.node[2]
      /\ line.features = FeaturesOf(w, platforms, item.node)
  BY DEF LineOf, CrateLine, FeaturesOf
<1>2. /\ item.node = <<item.node[1], item.node[2]>> /\ item.node[1] \in Side /\ d \in Nat
      /\ item.node[2] \in Crate
  BY GoodItem
<1> HIDE DEF line
<1>3. p.parents \in Seq(Parent) /\ d <= Len(p.parents)
  BY DEF Parsing, Placed, OnStack
<1>4. /\ above \in Seq(Parent) /\ Len(above) = d
      /\ \A i \in 1..d : above[i] = p.parents[i]
  <2>1. /\ above \in Seq(Parent)
        /\ Len(above) = IF Len(p.parents) > d THEN d ELSE Len(p.parents)
        /\ \A i \in 1..Len(above) : above[i] = p.parents[i]
    BY <1>1, <1>2, <1>3, CutProperties
  <2>2. Len(above) = d
    BY <1>2, <1>3, <2>1
  <2>3. QED
    BY <2>1, <2>2
<1>5. AddCrate(p, line) =
           IF Len(above) # line.depth THEN [p EXCEPT !.error = TRUE]
           ELSE [p EXCEPT
                   !.parents = Append(above, new),
                   !.entries = Extended(AttributedTo(p.entries, above, line),
                                        <<SideIf(host), line.crate>>, line.features, {})]
  BY AddCrateIs
<1> HIDE DEF above
<1>6. Placed(item, above)
  <2>1. d > 0 => d \in 1..d
    BY <1>2
  <2>2. QED
    BY <1>2, <1>4, <2>1 DEF Placed, OnStack
<1>7. /\ host <=> item.node[1] = "host"
      /\ d > 0 => <<SideIf(Last(above).host), Last(above).crate>> = item.parent
  BY <1>4, <1>6, HostRight DEF line
<1>17. host \in BOOLEAN
  BY DEF HostLine
<1> HIDE DEF host
<1>8. <<SideIf(host), line.crate>> = item.node
  <2>1. SideIf(host) = item.node[1]
    BY <1>2, <1>7 DEF SideIf, Side
  <2>2. QED
    BY <1>1, <1>2, <2>1
<1>9. AttributedTo(p.entries, above, line) =
        IF d = 0 THEN p.entries ELSE Extended(p.entries, item.parent, {}, {item.node[2]})
  <2>1. above = <<>> <=> d = 0
    BY <1>2, <1>4
  <2>2. CASE d = 0
    BY <2>1, <2>2 DEF AttributedTo
  <2>3. CASE d # 0
    <3>1. d > 0
      BY <1>2, <2>3
    <3>2. QED
      BY <1>1, <1>7, <2>1, <2>3, <3>1 DEF AttributedTo
  <2>4. QED
    BY <2>2, <2>3
<1>10. after = AddCrate(p, line)
  BY <1>1 DEF ParseLine
<1> DEFINE attributed == IF d = 0 THEN p.entries ELSE Extended(p.entries, item.parent, {}, {item.node[2]})
<1>11. after = [p EXCEPT
                  !.parents = Append(above, new),
                  !.entries = Extended(attributed, item.node, FeaturesOf(w, platforms, item.node), {})]
  <2>1. AddCrate(p, line) = [p EXCEPT
                   !.parents = Append(above, new),
                   !.entries = Extended(AttributedTo(p.entries, above, line),
                                        <<SideIf(host), line.crate>>, line.features, {})]
    BY <1>1, <1>4, <1>5
  <2> HIDE DEF new
  <2>2. QED
    BY <1>1, <1>8, <1>9, <1>10, <2>1
<1> HIDE DEF after, attributed
<1>12. /\ after.parents = Append(above, new) /\ ~after.error
       /\ after.entries = Extended(attributed, item.node, FeaturesOf(w, platforms, item.node), {})
  BY <1>11 DEF Parsing
<1>13. new \in Parent /\ new.crate = item.node[2] /\ (new.host <=> item.node[1] = "host") /\ ~new.building
  BY <1>1, <1>2, <1>7, <1>17 DEF Parent
<1> HIDE DEF new
<1>14. /\ Len(after.parents) = d + 1 /\ after.parents[d + 1] = new
       /\ \A i \in 1..d : after.parents[i] = p.parents[i]
  <2>1. /\ Len(Append(above, new)) = d + 1 /\ Append(above, new)[d + 1] = new
        /\ \A i \in 1..d : Append(above, new)[i] = above[i]
    BY <1>4, <1>13, AppendProperties
  <2>2. QED
    BY <1>4, <1>12, <2>1
<1>15. Keeps(p.parents, after.parents, d, item.kind)
  <2>1. d > 0 => d \in 1..d
    BY <1>2
  <2>2. d <= d + 1
    BY <1>2
  <2>3. QED
    BY <1>14, <2>1, <2>2 DEF Keeps, Placed
<1>16. QED
  BY <1>12, <1>13, <1>14, <1>15 DEF after, attributed, line

LEMMA MarkerParsed ==
  ASSUME NEW w \in Workspace, NEW platforms \in PlatformOf, NEW p \in Parsing, ~p.error,
         NEW item \in Good(w, platforms), item.is # "crate", OnStack(item, p.parents)
  PROVE  LET after == ParseLine(p, LineOf(w, platforms, item))
         IN  /\ ~after.error /\ after.entries = p.entries
             /\ Keeps(p.parents, after.parents, item.depth, item.kind)
<1> DEFINE line == LineOf(w, platforms, item)
           above == Cut(p.parents, line.depth + 1)
           d == item.depth
           build == line.is = "build"
           marked == [above EXCEPT ![Len(above)].building = build]
           after == ParseLine(p, line)
<1>1. item.is = item.kind /\ d > 0 /\ d \in Nat
  BY GoodItem DEF Good, ItemOK
<1>2. line.is = item.kind /\ line.is # "crate" /\ line.depth + 1 = d
  <2>1. line = [is |-> item.kind, depth |-> d - 1]
    BY DEF LineOf, Marker
  <2> HIDE DEF line
  <2>2. QED
    BY <1>1, <2>1
<1> HIDE DEF line
<1>3. p.parents \in Seq(Parent) /\ d <= Len(p.parents)
  BY DEF Parsing, OnStack
<1>4. /\ above \in Seq(Parent) /\ Len(above) = d
      /\ \A i \in 1..d : above[i] = p.parents[i]
  <2>1. /\ above \in Seq(Parent)
        /\ Len(above) = IF Len(p.parents) > d THEN d ELSE Len(p.parents)
        /\ \A i \in 1..Len(above) : above[i] = p.parents[i]
    BY <1>1, <1>2, <1>3, CutProperties
  <2>2. Len(above) = d
    BY <1>1, <1>3, <2>1
  <2>3. QED
    BY <2>1, <2>2
<1>5. above = Cut(p.parents, line.depth + 1) /\ build = (line.is = "build") /\ build \in BOOLEAN
      /\ (build <=> item.kind = "build")
  BY <1>2
<1>12. MarkSection(p, line) = IF above = <<>> THEN [p EXCEPT !.error = TRUE]
                             ELSE [p EXCEPT !.parents = marked]
  BY Zenon DEF MarkSection
<1> HIDE DEF above, build
<1>6. above # <<>>
  BY <1>1, <1>4
<1>7. MarkSection(p, line) = [p EXCEPT !.parents = marked]
  BY <1>6, <1>12
<1>8. /\ Len(marked) = d
      /\ \A i \in 1..d : /\ marked[i].crate = above[i].crate /\ marked[i].host = above[i].host
                         /\ i # d => marked[i].building = above[i].building
      /\ marked[d].building = build
  <2> DEFINE n == Len(above)
  <2>1. /\ Len(marked) = n
        /\ \A i \in 1..n : /\ marked[i].crate = above[i].crate /\ marked[i].host = above[i].host
                           /\ i # n => marked[i].building = above[i].building
        /\ marked[n].building = build
    BY <1>4, <1>5, <1>6, Marked
  <2>2. QED
    BY <1>4, <2>1
<1> HIDE DEF marked
<1>9. after = [p EXCEPT !.parents = marked]
  BY <1>2, <1>7 DEF ParseLine
<1> HIDE DEF after
<1>10. after.parents = marked /\ ~after.error /\ after.entries = p.entries
  BY <1>9 DEF Parsing
<1>11. Keeps(p.parents, after.parents, d, item.kind)
  <2>1. \A i \in 1..d : /\ marked[i].crate = p.parents[i].crate
                        /\ marked[i].host = p.parents[i].host
                        /\ i < d => marked[i].building = p.parents[i].building
    BY <1>1, <1>4, <1>8
  <2>2. marked[d].building <=> item.kind = "build"
    BY <1>5, <1>8
  <2>3. d <= Len(after.parents)
    BY <1>1, <1>8, <1>10
  <2>4. QED
    BY <1>10, <2>1, <2>2, <2>3 DEF Keeps, Builds
<1>13. QED
  BY <1>10, <1>11 DEF after, line
------------------------------------------------------------------------------
LEMMA ConcatElements ==
  ASSUME NEW S, NEW s \in Seq(S), NEW t \in Seq(S)
  PROVE  ToSet(s \o t) = ToSet(s) \union ToSet(t)
<1> DEFINE st == s \o t
<1>1. /\ Len(s) \in Nat /\ Len(t) \in Nat /\ Len(st) = Len(s) + Len(t)
      /\ DOMAIN s = 1..Len(s) /\ DOMAIN t = 1..Len(t) /\ DOMAIN st = 1..Len(st)
      /\ \A i \in 1..Len(s) : st[i] = s[i]
      /\ \A i \in 1..Len(t) : st[Len(s) + i] = t[i]
  BY ConcatProperties, LenProperties
<1> HIDE DEF st
<1>2. /\ \A i \in 1..Len(s) : i \in 1..Len(st)
      /\ \A i \in 1..Len(t) : Len(s) + i \in 1..Len(st)
  BY <1>1
<1>3. ToSet(s) \union ToSet(t) \subseteq ToSet(st)
  BY <1>1, <1>2 DEF ToSet
<1>4. ASSUME NEW i \in 1..Len(st) PROVE st[i] \in ToSet(s) \union ToSet(t)
  <2>1. CASE i \in 1..Len(s)
    BY <1>1, <2>1 DEF ToSet
  <2>2. CASE i \notin 1..Len(s)
    <3>1. i - Len(s) \in 1..Len(t) /\ Len(s) + (i - Len(s)) = i
      BY <1>1, <2>2
    <3>2. st[i] = t[i - Len(s)]
      BY <1>1, <3>1
    <3>3. QED
      BY <1>1, <3>1, <3>2 DEF ToSet
  <2>3. QED
    BY <2>1, <2>2
<1>5. ToSet(st) \subseteq ToSet(s) \union ToSet(t)
  BY <1>1, <1>4 DEF ToSet
<1>6. QED
  BY <1>3, <1>5 DEF st

LEMMA TailElements ==
  ASSUME NEW S, NEW s \in Seq(S), s # <<>>
  PROVE  ToSet(s) = {Head(s)} \union ToSet(Tail(s))
<1> DEFINE t == Tail(s)
<1>1. /\ Head(s) = s[1] /\ t \in Seq(S) /\ Len(s) \in Nat /\ Len(s) >= 1 /\ Len(t) = Len(s) - 1
      /\ DOMAIN s = 1..Len(s) /\ DOMAIN t = 1..(Len(s) - 1)
      /\ \A i \in 1..(Len(s) - 1) : t[i] = s[i + 1]
  BY HeadTailProperties, LenProperties, EmptySeq
<1> HIDE DEF t
<1>2. ToSet(s) \subseteq {s[1]} \union ToSet(t)
  <2> SUFFICES ASSUME NEW i \in 1..Len(s), i # 1 PROVE s[i] \in ToSet(t)
    BY <1>1 DEF ToSet
  <2>1. i - 1 \in 1..(Len(s) - 1) /\ t[i - 1] = s[i]
    BY <1>1
  <2>2. QED
    BY <1>1, <2>1 DEF ToSet
<1>3. s[1] \in ToSet(s)
  BY <1>1 DEF ToSet
<1>4. ToSet(t) \subseteq ToSet(s)
  <2>1. \A i \in 1..(Len(s) - 1) : i + 1 \in 1..Len(s)
    BY <1>1
  <2>2. QED
    BY <1>1, <2>1 DEF ToSet
<1>5. QED
  BY <1>1, <1>2, <1>3, <1>4 DEF t
-----------------------------------------------------------------------------
(***************************************************************************)
(* Printer and parser in step: the parser knows the crates that were       *)
(* printed, with their features and some of their dependencies, and those  *)
(* it does not know of yet are still to be printed.                        *)
(***************************************************************************)
Pending(todo, parent, node) ==
  \E x \in ToSet(todo) : x.is = "crate" /\ x.depth > 0 /\ x.parent = parent /\ x.node = node

Attached(todo, seen) == \A x \in ToSet(todo) : x.depth > 0 => x.parent \in seen

EntriesRight(w, platforms, seen, entries) ==
  \A n \in Node :
    IF n \in seen
    THEN /\ entries[n].known = TRUE /\ entries[n].features = FeaturesOf(w, platforms, n)
         /\ entries[n].deps \subseteq DepsOf(w, n, platforms[n[1]])
    ELSE entries[n] = Unknown

Complete(w, platforms, todo, seen, entries) ==
  \A n \in seen : \A e \in ActiveEdges(w, n, platforms[n[1]]) :
    \/ e.to \in entries[n].deps /\ Child(w, n, e) \in seen
    \/ Pending(todo, n, Child(w, n, e))

RootsPrinted(w, todo, seen) ==
  \A c \in ToSet(w.roots) :
    \/ RootNode(w, c) \in seen
    \/ \E x \in ToSet(todo) : x.is = "crate" /\ x.node = RootNode(w, c)

Sync(w, platforms, print, parse) ==
  /\ print \in Printing(w, platforms) /\ parse \in Parsing /\ ~parse.error
  /\ Queue(print.todo, parse.parents)
  /\ Attached(print.todo, print.seen)
  /\ EntriesRight(w, platforms, print.seen, parse.entries)
  /\ Complete(w, platforms, print.todo, print.seen, parse.entries)
  /\ RootsPrinted(w, print.todo, print.seen)
  /\ print.seen \subseteq Built(w, platforms)

LEMMA SyncStart ==
  ASSUME NEW w \in Workspace, NEW platforms \in PlatformOf
  PROVE  Sync(w, platforms, PrintStart(w), NothingParsed)
<1> DEFINE start == PrintStart(w)
           todo == start.todo
<1>1. start \in Printing(w, platforms) /\ NothingParsed \in Parsing /\ ~NothingParsed.error
  BY PrintStartType, NothingType DEF NothingParsed
<1>2. start.seen = {}
  BY DEF PrintStart
<1>3. /\ Len(todo) = Len(w.roots) /\ Len(w.roots) \in Nat /\ todo \in Seq(Good(w, platforms))
      /\ \A i \in 1..Len(w.roots) : todo[i] = Root(w, w.roots[i])
  BY PrintStartType DEF Printing
<1>4. \A i \in 1..Len(todo) : todo[i].depth = 0 /\ todo[i].is = "crate"
                              /\ todo[i].node = RootNode(w, w.roots[i])
  <2>1. \A c : Root(w, c).depth = 0 /\ Root(w, c).is = "crate" /\ Root(w, c).node = RootNode(w, c)
    BY DEF Root
  <2>2. QED
    BY <1>3, <2>1
<1> HIDE DEF start
<1>5. Queue(todo, NothingParsed.parents)
  <2>1. NothingParsed.parents = <<>> /\ Len(<<>>) = 0
    BY DEF NothingParsed
  <2>2. \A i \in 1..Len(todo) : i > 1 => i - 1 \in 1..Len(todo)
    BY <1>3
  <2>3. QED
    BY <1>4, <2>1, <2>2 DEF Queue, OnStack, Settled
<1>6. Attached(todo, start.seen)
  BY <1>3, <1>4 DEF Attached, ToSet
<1>7. EntriesRight(w, platforms, start.seen, NothingParsed.entries)
  BY <1>2 DEF EntriesRight, NothingParsed, NoEntries
<1>8. Complete(w, platforms, todo, start.seen, NothingParsed.entries)
  BY <1>2 DEF Complete
<1>9. RootsPrinted(w, todo, start.seen)
  <2> SUFFICES ASSUME NEW c \in ToSet(w.roots)
               PROVE  \E x \in ToSet(todo) : x.is = "crate" /\ x.node = RootNode(w, c)
    BY DEF RootsPrinted
  <2>1. DOMAIN w.roots = 1..Len(w.roots) /\ DOMAIN todo = 1..Len(todo)
    BY <1>3 DEF Workspace
  <2>2. PICK i \in 1..Len(w.roots) : w.roots[i] = c
    BY <2>1 DEF ToSet
  <2>3. todo[i] \in ToSet(todo)
    BY <1>3, <2>1 DEF ToSet
  <2>4. QED
    BY <1>3, <1>4, <2>2, <2>3
<1>10. start.seen \subseteq Built(w, platforms)
  BY <1>2
<1>11. QED
  BY <1>1, <1>5, <1>6, <1>7, <1>8, <1>9, <1>10 DEF Sync, start
------------------------------------------------------------------------------
\* What the parser knows after the line of a crate.
LEMMA EntriesStep ==
  ASSUME NEW w \in Workspace, NEW platforms \in PlatformOf,
         NEW entries \in [Node -> Entry], NEW seen \in SUBSET Node,
         NEW item \in Good(w, platforms), item.is = "crate",
         item.depth > 0 => item.parent \in seen,
         EntriesRight(w, platforms, seen, entries)
  PROVE  LET attributed == IF item.depth = 0 THEN entries
                           ELSE Extended(entries, item.parent, {}, {item.node[2]})
             after == Extended(attributed, item.node, FeaturesOf(w, platforms, item.node), {})
         IN  /\ EntriesRight(w, platforms, seen \union {item.node}, after)
             /\ \A n \in seen : entries[n].deps \subseteq after[n].deps
             /\ item.depth > 0 => item.node[2] \in after[item.parent].deps
<1> DEFINE attributed == IF item.depth = 0 THEN entries
                         ELSE Extended(entries, item.parent, {}, {item.node[2]})
           features == FeaturesOf(w, platforms, item.node)
           after == Extended(attributed, item.node, features, {})
<1>1. /\ item.node \in Node /\ item.node[2] \in Crate /\ item.parent \in Node /\ item.depth \in Nat
      /\ item.node[1] \in Side
  BY GoodItem
<1>2. features \in SUBSET Feature
  BY <1>1 DEF FeaturesOf, Workspace, PlatformOf
<1>3. /\ attributed \in [Node -> Entry]
      /\ EntriesRight(w, platforms, seen, attributed)
      /\ \A n \in Node : entries[n].deps \subseteq attributed[n].deps
      /\ item.depth > 0 => item.node[2] \in attributed[item.parent].deps
  <2>1. CASE item.depth = 0
    BY <2>1
  <2>2. CASE item.depth # 0
    <3> DEFINE extended == Extended(entries, item.parent, {}, {item.node[2]})
    <3>1. attributed = extended /\ item.parent \in seen
      BY <1>1, <2>2
    <3>2. item.node[2] \in DepsOf(w, item.parent, platforms[item.parent[1]])
      <4>1. IsBelow(w, platforms, item)
        BY <2>2 DEF Good, ItemOK
      <4>2. PICK e \in ActiveEdges(w, item.parent, platforms[item.parent[1]]) :
              item.node = Child(w, item.parent, e)
        BY <4>1 DEF IsBelow
      <4>3. item.node[2] = e.to
        BY <4>2 DEF Child
      <4>4. QED
        BY <4>3 DEF DepsOf
    <3>3. /\ extended \in [Node -> Entry]
          /\ \A n \in Node : extended[n] =
               IF n = item.parent
               THEN [known |-> TRUE, features |-> entries[n].features \union {},
                     deps |-> entries[n].deps \union {item.node[2]}]
               ELSE entries[n]
      <4> DEFINE node == item.parent
                 deps == {item.node[2]}
                 none == {}
      <4>1. deps \in SUBSET Crate /\ none \in SUBSET Feature /\ node \in Node
        BY <1>1
      <4> HIDE DEF node, deps, none
      <4>2. /\ Extended(entries, node, none, deps) \in [Node -> Entry]
            /\ \A n \in Node : Extended(entries, node, none, deps)[n] =
                 IF n = node THEN [known |-> TRUE, features |-> entries[n].features \union none,
                                   deps |-> entries[n].deps \union deps]
                 ELSE entries[n]
        BY <4>1, ExtendedType
      <4>3. QED
        BY <4>2 DEF node, deps, none
    <3> HIDE DEF extended, attributed
    <3>4. EntriesRight(w, platforms, seen, extended)
      <4> SUFFICES ASSUME NEW n \in Node
                   PROVE  IF n \in seen
                          THEN /\ extended[n].known = TRUE
                               /\ extended[n].features = FeaturesOf(w, platforms, n)
                               /\ extended[n].deps \subseteq DepsOf(w, n, platforms[n[1]])
                          ELSE extended[n] = Unknown
        BY DEF EntriesRight
      <4>1. IF n \in seen
            THEN /\ entries[n].known = TRUE
                 /\ entries[n].features = FeaturesOf(w, platforms, n)
                 /\ entries[n].deps \subseteq DepsOf(w, n, platforms[n[1]])
            ELSE entries[n] = Unknown
        BY DEF EntriesRight
      <4>2. CASE n = item.parent
        <5>1. extended[n] = [known |-> TRUE, features |-> entries[n].features \union {},
                             deps |-> entries[n].deps \union {item.node[2]}]
          BY <3>3, <4>2
        <5>2. /\ extended[n].known = TRUE /\ extended[n].features = entries[n].features
              /\ extended[n].deps = entries[n].deps \union {item.node[2]}
          BY <5>1
        <5>3. QED
          BY <3>1, <3>2, <4>1, <4>2, <5>2
      <4>3. CASE n # item.parent
        BY <3>3, <4>1, <4>3
      <4>4. QED
        BY <4>2, <4>3
    <3>5. \A n \in Node : entries[n].deps \subseteq extended[n].deps
      BY <3>3
    <3>6. item.node[2] \in extended[item.parent].deps
      BY <1>1, <3>3
    <3>7. QED
      BY <3>1, <3>3, <3>4, <3>5, <3>6
  <2>3. QED
    BY <2>1, <2>2
<1> HIDE DEF attributed, features
<1>4. /\ after \in [Node -> Entry]
      /\ \A n \in Node : after[n] =
           IF n = item.node
           THEN [known |-> TRUE, features |-> attributed[n].features \union features,
                 deps |-> attributed[n].deps \union {}]
           ELSE attributed[n]
  <2> DEFINE node == item.node
             none == {}
  <2>1. node \in Node /\ none \in SUBSET Crate /\ attributed \in [Node -> Entry]
    BY <1>1, <1>3
  <2> HIDE DEF node, none
  <2>2. /\ Extended(attributed, node, features, none) \in [Node -> Entry]
        /\ \A n \in Node : Extended(attributed, node, features, none)[n] =
             IF n = node THEN [known |-> TRUE, features |-> attributed[n].features \union features,
                               deps |-> attributed[n].deps \union none]
             ELSE attributed[n]
    BY <1>2, <2>1, ExtendedType
  <2>3. QED
    BY <2>2 DEF node, none
<1> HIDE DEF after
<1>5. EntriesRight(w, platforms, seen \union {item.node}, after)
  <2> SUFFICES ASSUME NEW n \in Node
               PROVE  IF n \in seen \union {item.node}
                      THEN /\ after[n].known = TRUE
                           /\ after[n].features = FeaturesOf(w, platforms, n)
                           /\ after[n].deps \subseteq DepsOf(w, n, platforms[n[1]])
                      ELSE after[n] = Unknown
    BY DEF EntriesRight
  <2>1. IF n \in seen
        THEN /\ attributed[n].known = TRUE
             /\ attributed[n].features = FeaturesOf(w, platforms, n)
             /\ attributed[n].deps \subseteq DepsOf(w, n, platforms[n[1]])
        ELSE attributed[n] = Unknown
    BY <1>3 DEF EntriesRight
  <2>2. CASE n = item.node
    <3>1. after[n] = [known |-> TRUE, features |-> attributed[n].features \union features,
                      deps |-> attributed[n].deps \union {}]
      BY <1>4, <2>2
    <3>2. /\ after[n].known = TRUE /\ after[n].features = attributed[n].features \union features
          /\ after[n].deps = attributed[n].deps
      BY <3>1
    <3>3. features = FeaturesOf(w, platforms, n)
      BY <2>2 DEF features
    <3>4. n \notin seen => attributed[n].features = {} /\ attributed[n].deps = {}
      BY <2>1 DEF Unknown
    <3>5. QED
      BY <2>1, <2>2, <3>2, <3>3, <3>4
  <2>3. CASE n # item.node
    BY <1>4, <2>1, <2>3
  <2>4. QED
    BY <2>2, <2>3
<1>6. \A n \in Node : attributed[n].deps \subseteq after[n].deps
  BY <1>4
<1>7. QED
  BY <1>1, <1>3, <1>5, <1>6 DEF attributed, features, after
------------------------------------------------------------------------------
LEMMA BelowGroup ==
  ASSUME NEW w \in Workspace, NEW platforms \in PlatformOf, NEW print \in Printing(w, platforms),
         print.todo # <<>>, IsNew(print)
  PROVE  LET item == Head(print.todo)
             below == Below1(w, platforms, print)
         IN  /\ Group(below, w, platforms, item.node, item.depth + 1, "normal")
             /\ Len(below) <= Len(w.edges) + 2
             /\ \A e \in ActiveEdges(w, item.node, platforms[item.node[1]]) :
                  Pending(below, item.node, Child(w, item.node, e))
<1> DEFINE item == Head(print.todo)
           below == Below1(w, platforms, print)
           d == item.depth + 1
<1>1. item \in Good(w, platforms)
  BY DEF Printing
<1>2. item.node \in Node /\ d \in Nat \ {0} /\ d > 0
  BY <1>1, GoodItem
<1>3. below = Sections(w, item.node, platforms, d)
  BY DEF Below1
<1> HIDE DEF below, item, d
<1>4. /\ Group(below, w, platforms, item.node, d, "normal")
      /\ Covers(below, w, item.node, ActiveEdges(w, item.node, platforms[item.node[1]]))
      /\ Len(below) <= Len(w.edges) + 2
  BY <1>2, <1>3, SectionsGroup
<1>5. ASSUME NEW e \in ActiveEdges(w, item.node, platforms[item.node[1]])
      PROVE  Pending(below, item.node, Child(w, item.node, e))
  <2>1. PICK i \in 1..Len(below) :
          below[i].is = "crate" /\ below[i].node = Child(w, item.node, e)
    BY <1>4 DEF Covers
  <2>2. below[i].depth = d /\ below[i].parent = item.node
    BY <1>4, <2>1 DEF Group
  <2>3. below[i] \in ToSet(below)
    <3>1. below \in Seq(Item)
      BY <1>4 DEF Group
    <3>2. QED
      BY <2>1, <3>1 DEF ToSet
  <2>4. QED
    BY <1>2, <2>1, <2>2, <2>3 DEF Pending
<1>6. QED
  BY <1>4, <1>5 DEF below, item, d

\* The crate of a line is built, if its parent is.
LEMMA ItemBuilt ==
  ASSUME NEW w \in Workspace, NEW platforms \in PlatformOf, NEW item \in Good(w, platforms),
         item.is = "crate", item.depth > 0 => item.parent \in Built(w, platforms)
  PROVE  item.node \in Built(w, platforms)
<1>1. Closed(w, platforms, Built(w, platforms))
  BY BuiltLeast
<1>2. item.depth \in Nat /\ ItemOK(w, platforms, item)
  BY GoodItem DEF Good
<1>3. CASE item.depth = 0
  <2>1. PICK c \in ToSet(w.roots) : item.node = RootNode(w, c)
    BY <1>2, <1>3 DEF ItemOK
  <2>2. QED
    BY <1>1, <2>1 DEF Closed
<1>4. CASE item.depth # 0
  <2>1. PICK e \in ActiveEdges(w, item.parent, platforms[item.parent[1]]) :
          item.node = Child(w, item.parent, e)
    BY <1>2, <1>4 DEF ItemOK, IsBelow
  <2>2. item.parent \in Built(w, platforms)
    BY <1>2, <1>4
  <2>3. QED
    BY <1>1, <2>1, <2>2 DEF Closed
<1>5. QED
  BY <1>3, <1>4

LEMMA SyncStep ==
  ASSUME NEW w \in Workspace, NEW platforms \in PlatformOf, NEW print, NEW parse,
         Sync(w, platforms, print, parse), print.todo # <<>>
  PROVE  Sync(w, platforms, PrintNext(w, platforms, print),
              ParseLine(parse, LineOf(w, platforms, Head(print.todo))))
<1> DEFINE todo == print.todo
           item == Head(todo)
           rest == Tail(todo)
           below == Below1(w, platforms, print)
           line == LineOf(w, platforms, item)
           next == PrintNext(w, platforms, print)
           after == ParseLine(parse, line)
           new == IsNew(print)
           crate == item.is = "crate"
           good == Good(w, platforms)
<1>1. /\ print \in Printing(w, platforms) /\ parse \in Parsing /\ ~parse.error
      /\ todo \in Seq(good) /\ print.seen \in SUBSET Node
      /\ parse.entries \in [Node -> Entry]
  BY DEF Sync, Printing, Parsing
<1>2. item \in good /\ rest \in Seq(good) /\ todo[1] = item /\ 1 \in 1..Len(todo)
  BY <1>1
<1>3. next \in Printing(w, platforms)
  BY <1>1, PrintNextType
<1>4. after \in Parsing
  BY <1>1, <1>2, LineOfType, ParseLineType
<1>5. /\ next.todo = below \o rest
      /\ next.seen = IF new THEN print.seen \union {item.node} ELSE print.seen
      /\ new <=> crate /\ item.node \notin print.seen
      /\ ~new => below = <<>>
  <2>1. next = [todo |-> below \o rest,
                seen |-> IF new THEN print.seen \union {item.node} ELSE print.seen,
                lines |-> Append(print.lines, line)]
    BY PrintNextIs, Zenon
  <2>2. new <=> crate /\ item.node \notin print.seen
    BY DEF IsNew
  <2>3. ~new => below = <<>>
    BY DEF Below1
  <2> HIDE DEF next, below, rest, new, item, line
  <2>4. next.todo = below \o rest /\ next.seen = IF new THEN print.seen \union {item.node} ELSE print.seen
    BY <2>1
  <2>5. QED
    BY <2>2, <2>3, <2>4
<1>6. /\ Queue(todo, parse.parents)
      /\ Attached(todo, print.seen)
      /\ EntriesRight(w, platforms, print.seen, parse.entries)
      /\ Complete(w, platforms, todo, print.seen, parse.entries)
      /\ RootsPrinted(w, todo, print.seen)
      /\ print.seen \subseteq Built(w, platforms)
  BY DEF Sync
<1>7. todo \in Seq(Item) /\ rest \in Seq(Item)
  BY <1>1, <1>2 DEF Good
<1>8. ToSet(todo) = {item} \union ToSet(rest)
  BY <1>1, TailElements
<1>9. new => /\ Group(below, w, platforms, item.node, item.depth + 1, "normal")
             /\ \A e \in ActiveEdges(w, item.node, platforms[item.node[1]]) :
                  Pending(below, item.node, Child(w, item.node, e))
  <2> SUFFICES ASSUME IsNew(print)
               PROVE  /\ Group(below, w, platforms, item.node, item.depth + 1, "normal")
                      /\ \A e \in ActiveEdges(w, item.node, platforms[item.node[1]]) :
                           Pending(below, item.node, Child(w, item.node, e))
    OBVIOUS
  <2>1. print.todo # <<>> /\ print \in Printing(w, platforms)
    BY <1>1
  <2>2. QED
    BY <2>1, BelowGroup
<1>10. below \in Seq(Item)
  <2> HIDE DEF below, new, item
  <2>1. CASE new
    BY <1>9, <2>1 DEF Group
  <2>2. CASE ~new
    BY <1>5, <2>2
  <2>3. QED
    BY <2>1, <2>2
<1> HIDE DEF item, rest, below, line, next, after, todo, crate, good, new
<1>11. ToSet(next.todo) = ToSet(below) \union ToSet(rest)
  BY <1>5, <1>7, <1>10, ConcatElements
<1>12. print.seen \subseteq next.seen /\ (crate => item.node \in next.seen)
       /\ next.seen \subseteq print.seen \union {item.node}
       /\ (~crate => next.seen = print.seen)
  BY <1>5
<1>13. Placed(item, parse.parents)
  <2>1. OnStack(todo[1], parse.parents) /\ Settled(todo, parse.parents, 1)
    BY <1>2, <1>6 DEF Queue
  <2>2. ~(1 > 1)
    OBVIOUS
  <2>3. QED
    BY <1>2, <2>1, <2>2 DEF Placed, Settled
<1>14. item.depth > 0 => item.parent \in print.seen
  BY <1>6, <1>8 DEF Attached
<1>15. /\ item.node \in Node /\ item.depth \in Nat
  BY <1>2, GoodItem DEF good
<1> DEFINE attributed == IF item.depth = 0 THEN parse.entries
                         ELSE Extended(parse.entries, item.parent, {}, {item.node[2]})
           features == FeaturesOf(w, platforms, item.node)
<1>16. crate => /\ ~after.error /\ Len(after.parents) = item.depth + 1
                /\ Keeps(parse.parents, after.parents, item.depth, item.kind)
                /\ after.parents[item.depth + 1].crate = item.node[2]
                /\ after.parents[item.depth + 1].host <=> item.node[1] = "host"
                /\ ~after.parents[item.depth + 1].building
                /\ after.entries = Extended(attributed, item.node, features, {})
  <2> SUFFICES ASSUME item.is = "crate"
               PROVE  /\ ~after.error /\ Len(after.parents) = item.depth + 1
                      /\ Keeps(parse.parents, after.parents, item.depth, item.kind)
                      /\ after.parents[item.depth + 1].crate = item.node[2]
                      /\ after.parents[item.depth + 1].host <=> item.node[1] = "host"
                      /\ ~after.parents[item.depth + 1].building
                      /\ after.entries = Extended(attributed, item.node, features, {})
    BY DEF crate
  <2>1. item \in Good(w, platforms)
    BY <1>2 DEF good
  <2>2. QED
    BY <1>1, <1>13, <2>1, CrateParsed DEF after, line
<1>17. ~crate => /\ ~after.error /\ after.entries = parse.entries
                 /\ Keeps(parse.parents, after.parents, item.depth, item.kind)
  BY <1>1, <1>2, <1>13, MarkerParsed DEF after, line, crate, good, Placed
<1>18. crate => /\ EntriesRight(w, platforms, print.seen \union {item.node},
                                Extended(attributed, item.node, features, {}))
                /\ \A n \in print.seen :
                     parse.entries[n].deps \subseteq Extended(attributed, item.node, features, {})[n].deps
                /\ item.depth > 0 =>
                     item.node[2] \in Extended(attributed, item.node, features, {})[item.parent].deps
  BY <1>1, <1>2, <1>6, <1>14, EntriesStep DEF crate, good
<1> HIDE DEF attributed, features
<1>19. Queue(next.todo, after.parents)
  <2>1. Keeps(parse.parents, after.parents, Head(todo).depth, Head(todo).kind)
    BY <1>16, <1>17 DEF item
  <2>2. /\ Queue(rest, after.parents)
        /\ \A i \in 1..Len(rest) : rest[i].depth <= item.depth
    BY <1>6, <1>7, <2>1, QueueTail DEF rest, item, todo
  <2>3. CASE ~new
    <3>1. next.todo = rest
      BY <1>5, <1>7, <2>3
    <3>2. QED
      BY <2>2, <3>1
  <2>4. CASE new
    <3>1. crate
      BY <1>5, <2>4
    <3>2. Queue(below \o rest, after.parents)
      BY <1>7, <1>9, <1>15, <1>16, <2>2, <2>4, <3>1, QueueConcat
    <3>3. QED
      BY <1>5, <3>2
  <2>5. QED
    BY <2>3, <2>4
<1>20. Attached(next.todo, next.seen)
  <2> SUFFICES ASSUME NEW x \in ToSet(next.todo), x.depth > 0 PROVE x.parent \in next.seen
    BY DEF Attached
  <2>1. CASE x \in ToSet(rest)
    BY <1>6, <1>8, <1>12, <2>1 DEF Attached
  <2>2. CASE x \in ToSet(below)
    <3>1. new
      BY <1>5, <2>2 DEF ToSet
    <3>2. x.parent = item.node
      BY <1>9, <1>10, <2>2, <3>1 DEF Group, ToSet
    <3>3. QED
      BY <1>5, <1>12, <3>1, <3>2
  <2>3. QED
    BY <1>11, <2>1, <2>2
<1>21. EntriesRight(w, platforms, next.seen, after.entries)
  <2>1. CASE ~crate
    BY <1>6, <1>12, <1>17, <2>1
  <2>2. CASE crate
    <3>1. next.seen = print.seen \union {item.node}
      BY <1>5, <2>2
    <3>2. QED
      BY <1>16, <1>18, <2>2, <3>1
  <2>3. QED
    BY <2>1, <2>2
<1>22. /\ \A n \in print.seen : parse.entries[n].deps \subseteq after.entries[n].deps
       /\ crate /\ item.depth > 0 => item.node[2] \in after.entries[item.parent].deps
  BY <1>16, <1>17, <1>18
<1>23. Complete(w, platforms, next.todo, next.seen, after.entries)
  <2> SUFFICES ASSUME NEW n \in next.seen, NEW e \in ActiveEdges(w, n, platforms[n[1]])
               PROVE  \/ e.to \in after.entries[n].deps /\ Child(w, n, e) \in next.seen
                      \/ Pending(next.todo, n, Child(w, n, e))
    BY DEF Complete
  <2>1. CASE n \in print.seen
    <3>1. \/ e.to \in parse.entries[n].deps /\ Child(w, n, e) \in print.seen
          \/ Pending(todo, n, Child(w, n, e))
      BY <1>6, <2>1 DEF Complete
    <3>2. CASE e.to \in parse.entries[n].deps /\ Child(w, n, e) \in print.seen
      BY <1>12, <1>22, <2>1, <3>2
    <3>3. CASE Pending(todo, n, Child(w, n, e))
      <4>1. PICK x \in ToSet(todo) :
              x.is = "crate" /\ x.depth > 0 /\ x.parent = n /\ x.node = Child(w, n, e)
        BY <3>3 DEF Pending
      <4>2. CASE x = item
        <5>1. item.node[2] = e.to
          BY <4>1, <4>2 DEF Child
        <5>2. crate
          BY <4>1, <4>2 DEF crate
        <5>3. QED
          BY <1>12, <1>22, <4>1, <4>2, <5>1, <5>2
      <4>3. CASE x \in ToSet(rest)
        BY <1>11, <4>1, <4>3 DEF Pending
      <4>4. QED
        BY <1>8, <4>1, <4>2, <4>3
    <3>4. QED
      BY <3>1, <3>2, <3>3
  <2>2. CASE n \notin print.seen
    <3>1. new /\ n = item.node
      BY <1>5, <2>2
    <3>2. Pending(below, n, Child(w, n, e))
      BY <1>9, <3>1
    <3>3. QED
      BY <1>11, <3>2 DEF Pending
  <2>3. QED
    BY <2>1, <2>2
<1>24. RootsPrinted(w, next.todo, next.seen)
  <2> SUFFICES ASSUME NEW c \in ToSet(w.roots)
               PROVE  \/ RootNode(w, c) \in next.seen
                      \/ \E x \in ToSet(next.todo) : x.is = "crate" /\ x.node = RootNode(w, c)
    BY DEF RootsPrinted
  <2>1. CASE RootNode(w, c) \in print.seen
    BY <1>12, <2>1
  <2>2. CASE \E x \in ToSet(todo) : x.is = "crate" /\ x.node = RootNode(w, c)
    <3>1. PICK x \in ToSet(todo) : x.is = "crate" /\ x.node = RootNode(w, c)
      BY <2>2
    <3>2. CASE x = item
      BY <1>12, <3>1, <3>2 DEF crate
    <3>3. CASE x \in ToSet(rest)
      BY <1>11, <3>1, <3>3
    <3>4. QED
      BY <1>8, <3>1, <3>2, <3>3
  <2>3. QED
    BY <1>6, <2>1, <2>2 DEF RootsPrinted
<1>25. next.seen \subseteq Built(w, platforms)
  <2>1. crate => item.node \in Built(w, platforms)
    BY <1>2, <1>6, <1>14, ItemBuilt DEF crate, good
  <2>2. QED
    BY <1>6, <1>12, <2>1
<1>26. ~after.error
  BY <1>16, <1>17
<1>27. QED
  BY <1>3, <1>4, <1>19, <1>20, <1>21, <1>23, <1>24, <1>25, <1>26 DEF Sync, next, after, line, item, todo
------------------------------------------------------------------------------
\* How many lines there can still be.
Left(w, print) ==
  Len(print.todo) + (Cardinality(Node) - Cardinality(print.seen)) * (Len(w.edges) + 2)

LEMMA Fewer ==
  ASSUME NEW a \in Int, NEW k \in Nat
  PROVE  (a - 1) * k = a * k - k
OBVIOUS

LEMMA LeftFalls ==
  ASSUME NEW w \in Workspace, NEW platforms \in PlatformOf, NEW print \in Printing(w, platforms),
         print.todo # <<>>
  PROVE  Left(w, PrintNext(w, platforms, print)) <= Left(w, print) - 1
<1> DEFINE next == PrintNext(w, platforms, print)
           below == Below1(w, platforms, print)
           rest == Tail(print.todo)
           k == Len(w.edges) + 2
           node == Head(print.todo).node
           new == IsNew(print)
<1>1. /\ print.todo \in Seq(Good(w, platforms)) /\ print.seen \in SUBSET Node
      /\ next \in Printing(w, platforms)
  BY PrintNextType DEF Printing
<1>2. /\ next.todo = below \o rest
      /\ next.seen = IF new THEN print.seen \union {node} ELSE print.seen
  <2>1. next = [todo |-> below \o rest,
                seen |-> IF new THEN print.seen \union {node} ELSE print.seen,
                lines |-> Append(print.lines, LineOf(w, platforms, Head(print.todo)))]
    BY PrintNextIs, Zenon
  <2> HIDE DEF next, below, rest, new, node
  <2>2. QED
    BY <2>1
<1>3. /\ rest \in Seq(Good(w, platforms)) /\ Len(print.todo) = Len(rest) + 1 /\ Len(rest) \in Nat
  BY <1>1
<1>4. k \in Nat
  BY LinesBoundType
<1>5. IsFiniteSet(print.seen) /\ Cardinality(print.seen) \in Nat /\ Cardinality(Node) \in Nat
  BY <1>1, NodeFinite, FS_Subset, FS_CardinalityType
<1>6. CASE ~new
  <2>1. below = <<>>
    BY <1>6 DEF Below1
  <2> HIDE DEF below, rest, next, k, new
  <2>2. next.todo = rest /\ next.seen = print.seen
    BY <1>2, <1>3, <1>6, <2>1
  <2>3. (Cardinality(Node) - Cardinality(print.seen)) * k \in Int
    BY <1>4, <1>5
  <2>4. QED
    BY <1>3, <2>2, <2>3 DEF Left, next, k
<1>7. CASE new
  <2>1. Len(below) <= k /\ node \notin print.seen
    BY <1>1, <1>7, BelowGroup DEF IsNew
  <2>2. below \in Seq(Good(w, platforms))
    <3>1. Group(below, w, platforms, node, Head(print.todo).depth + 1, "normal")
      BY <1>1, <1>7, BelowGroup
    <3> HIDE DEF below, node
    <3>2. QED
      BY <3>1, GroupGood
  <2> HIDE DEF below, rest, next, k, new, node
  <2>3. Len(next.todo) = Len(below) + Len(rest) /\ Len(below) \in Nat
    BY <1>2, <1>3, <2>2
  <2>4. Cardinality(next.seen) = Cardinality(print.seen) + 1
    BY <1>2, <1>5, <1>7, <2>1, FS_AddElement
  <2> DEFINE a == Cardinality(Node) - Cardinality(print.seen)
             b == Cardinality(Node) - Cardinality(next.seen)
  <2>5. a \in Int /\ b = a - 1
    BY <1>5, <2>4
  <2> HIDE DEF a, b
  <2>6. b * k = a * k - k /\ a * k \in Int
    BY <1>4, <2>5, Fewer
  <2>7. Left(w, print) = Len(print.todo) + a * k /\ Left(w, next) = Len(next.todo) + b * k
    BY DEF Left, a, b, k
  <2>8. QED
    BY <1>3, <1>4, <2>1, <2>3, <2>6, <2>7 DEF next
<1>8. QED
  BY <1>6, <1>7

\* Everything is printed, and the parser then knows what Cargo resolved.
LEMMA SyncEnd ==
  ASSUME NEW w \in Workspace, NEW platforms \in PlatformOf, NEW print, NEW parse,
         Sync(w, platforms, print, parse), print.todo = <<>>
  PROVE  ~parse.error /\ parse.entries = Resolution(w, platforms)
<1> DEFINE built == Built(w, platforms)
<1>1. ToSet(print.todo) = {}
  BY EmptyElements
<1>2. Closed(w, platforms, print.seen)
  <2>1. \A n \in print.seen : \A e \in ActiveEdges(w, n, platforms[n[1]]) :
          e.to \in parse.entries[n].deps /\ Child(w, n, e) \in print.seen
    BY <1>1 DEF Sync, Complete, Pending
  <2>2. \A c \in ToSet(w.roots) : RootNode(w, c) \in print.seen
    BY <1>1 DEF Sync, RootsPrinted
  <2>3. QED
    BY <2>1, <2>2 DEF Closed
<1>3. print.seen = built
  <2>1. print.seen \in SUBSET Node /\ print.seen \subseteq built
    BY DEF Sync, Printing
  <2>2. built \subseteq print.seen
    BY <1>2, <2>1, BuiltLeast
  <2>3. QED
    BY <2>1, <2>2
<1> HIDE DEF built
<1>4. \A n \in built : DepsOf(w, n, platforms[n[1]]) \subseteq parse.entries[n].deps
  <2>1. \A n \in print.seen : \A e \in ActiveEdges(w, n, platforms[n[1]]) :
          e.to \in parse.entries[n].deps
    BY <1>1 DEF Sync, Complete, Pending
  <2>2. QED
    BY <1>3, <2>1 DEF DepsOf
<1>5. parse.entries \in [Node -> Entry] /\ ~parse.error
  BY DEF Sync, Parsing
<1>6. ASSUME NEW n \in Node
      PROVE  parse.entries[n] =
               IF n \in built
               THEN [known |-> TRUE, features |-> w.features[n[2]][n[1]][platforms[n[1]]],
                     deps |-> DepsOf(w, n, platforms[n[1]])]
               ELSE Unknown
  <2>1. IF n \in built
        THEN /\ parse.entries[n].known = TRUE /\ parse.entries[n].features = FeaturesOf(w, platforms, n)
             /\ parse.entries[n].deps \subseteq DepsOf(w, n, platforms[n[1]])
        ELSE parse.entries[n] = Unknown
    BY <1>3 DEF Sync, EntriesRight
  <2>2. CASE n \notin built
    BY <2>1, <2>2
  <2>3. CASE n \in built
    <3>1. parse.entries[n].deps = DepsOf(w, n, platforms[n[1]])
      BY <1>4, <2>1, <2>3
    <3>2. parse.entries[n].known = TRUE /\ parse.entries[n].features = FeaturesOf(w, platforms, n)
      BY <2>1, <2>3
    <3>3. parse.entries[n] = [known |-> parse.entries[n].known, features |-> parse.entries[n].features,
                              deps |-> parse.entries[n].deps]
      BY <1>5 DEF Entry
    <3>4. QED
      BY <2>3, <3>1, <3>2, <3>3, Zenon DEF FeaturesOf
  <2>4. QED
    BY <2>2, <2>3
<1>7. parse.entries =
        [n \in Node |-> IF n \in built
               THEN [known |-> TRUE, features |-> w.features[n[2]][n[1]][platforms[n[1]]],
                     deps |-> DepsOf(w, n, platforms[n[1]])]
               ELSE Unknown]
  <2>1. parse.entries = [n \in Node |-> parse.entries[n]]
    BY <1>5
  <2>2. QED
    BY <1>6, <2>1, Zenon
<1>8. QED
  BY <1>5, <1>7, Zenon DEF Resolution, built

\* For whatever workspace, what is parsed of the output of cargo tree is what Cargo resolved.
LEMMA TreeParsed ==
  ASSUME NEW w \in Workspace, NEW host \in Platform, NEW target \in Platform
  PROVE  /\ ~Parse(CargoTree(w, host, target)).error
         /\ Parse(CargoTree(w, host, target)).entries = Resolution(w, Platforms(host, target))
<1> DEFINE platforms == Platforms(host, target)
           N == LinesBound(w)
<1>1. platforms \in PlatformOf
  BY PlatformsType
<1>2. CargoTree(w, host, target) = Printed(w, platforms).lines
  BY DEF CargoTree
<1> HIDE DEF platforms
<1>3. N \in Nat
  BY LinesBoundType
<1>4. PICK f \in [0..N -> Printing(w, platforms)] :
        /\ f[0] = PrintStart(w)
        /\ \A n \in 1..N : f[n] = PrintNext(w, platforms, f[n - 1])
        /\ Printed(w, platforms) = f[N]
  BY <1>1, PrintUnfolds
<1> DEFINE S == {n \in Nat : n <= N =>
                   /\ Sync(w, platforms, f[n], Parse(f[n].lines))
                   /\ f[n].todo = <<>> \/ Left(w, f[n]) + n <= N}
<1>5. \A n \in Nat : n <= N => f[n] \in Printing(w, platforms) /\ f[n].lines \in Seq(Line)
  BY <1>4 DEF Printing
<1>6. \A n \in Nat : n <= N => Left(w, f[n]) \in Int
  <2> SUFFICES ASSUME NEW n \in Nat, n <= N PROVE Left(w, f[n]) \in Int
    OBVIOUS
  <2> DEFINE s == f[n]
  <2>1. s \in Printing(w, platforms)
    BY <1>5
  <2> HIDE DEF s
  <2>2. Len(s.todo) \in Nat /\ s.seen \in SUBSET Node
    BY <2>1 DEF Printing
  <2>3. Cardinality(s.seen) \in Nat /\ Cardinality(Node) \in Nat /\ Len(w.edges) + 2 \in Nat
    BY <2>2, NodeFinite, FS_Subset, FS_CardinalityType, LinesBoundType
  <2>4. Left(w, s) \in Int
    BY <2>2, <2>3 DEF Left
  <2>5. QED
    BY <2>4 DEF s
<1> HIDE DEF N
<1>7. 0 \in S
  <2>1. f[0].lines = <<>> /\ f[0].seen = {}
    BY <1>4 DEF PrintStart
  <2>2. Sync(w, platforms, f[0], Parse(f[0].lines))
    BY <1>1, <1>4, <2>1, ParseEmpty, SyncStart
  <2>3. Left(w, f[0]) = N
    <3>1. Len(f[0].todo) = Len(w.roots) /\ Len(w.roots) \in Nat
      BY <1>1, <1>4, PrintStartType
    <3>2. Cardinality(f[0].seen) = 0
      BY <2>1, FS_EmptySet
    <3>3. Cardinality(Node) - 0 = Cardinality(Node)
      BY NodeFinite
    <3>4. QED
      BY <3>1, <3>2, <3>3 DEF Left, N, LinesBound
  <2>4. QED
    BY <1>3, <2>2, <2>3
<1>8. ASSUME NEW n \in Nat, n \in S PROVE n + 1 \in S
  <2> SUFFICES ASSUME n + 1 <= N
               PROVE  /\ Sync(w, platforms, f[n + 1], Parse(f[n + 1].lines))
                      /\ f[n + 1].todo = <<>> \/ Left(w, f[n + 1]) + (n + 1) <= N
    OBVIOUS
  <2> DEFINE s == f[n]
             s2 == f[n + 1]
             item == Head(s.todo)
  <2>1. n + 1 \in 1..N /\ n + 1 - 1 = n /\ n <= N
    BY <1>3
  <2>2. s2 = PrintNext(w, platforms, s)
    BY <1>4, <2>1
  <2>3. Sync(w, platforms, s, Parse(s.lines)) /\ (s.todo = <<>> \/ Left(w, s) + n <= N)
    BY <1>8, <2>1
  <2>4. /\ s \in Printing(w, platforms) /\ s.lines \in Seq(Line)
        /\ Left(w, s) \in Int /\ Left(w, s2) \in Int
    BY <1>5, <1>6, <2>1
  <2> HIDE DEF s, s2
  <2>5. CASE s.todo = <<>>
    <3>1. s2 = s
      BY <2>2, <2>5 DEF PrintNext
    <3>2. QED
      BY <2>3, <2>5, <3>1 DEF s2
  <2>6. CASE s.todo # <<>>
    <3>1. s2.lines = Append(s.lines, LineOf(w, platforms, item))
      BY <2>2, <2>6, PrintNextIs
    <3>2. item \in Good(w, platforms)
      BY <2>4, <2>6 DEF Printing
    <3>3. Parse(s2.lines) = ParseLine(Parse(s.lines), LineOf(w, platforms, item))
      BY <1>1, <2>4, <3>1, <3>2, LineOfType, ParseAppend
    <3>4. Sync(w, platforms, s2, Parse(s2.lines))
      BY <1>1, <2>2, <2>3, <2>6, <3>3, SyncStep
    <3>5. Left(w, s2) <= Left(w, s) - 1
      BY <1>1, <2>2, <2>4, <2>6, LeftFalls
    <3>6. Left(w, s2) + (n + 1) <= N
      BY <1>3, <2>3, <2>4, <2>6, <3>5
    <3>7. QED
      BY <3>4, <3>6 DEF s2
  <2>7. QED
    BY <2>5, <2>6
<1> HIDE DEF S
<1>9. N \in S /\ N <= N
  BY <1>3, <1>7, <1>8, Induct
<1>10. Sync(w, platforms, f[N], Parse(f[N].lines)) /\ (f[N].todo = <<>> \/ Left(w, f[N]) + N <= N)
  BY <1>9 DEF S
<1>11. f[N].todo = <<>>
  <2> SUFFICES ASSUME Left(w, f[N]) + N <= N PROVE f[N].todo = <<>>
    BY <1>10
  <2> DEFINE s == f[N]
             a == Cardinality(Node) - Cardinality(s.seen)
             k == Len(w.edges) + 2
  <2>1. s \in Printing(w, platforms) /\ Left(w, s) \in Int
    BY <1>3, <1>5, <1>6
  <2>2. Left(w, s) <= 0
    BY <1>3, <2>1
  <2> HIDE DEF s
  <2>3. s.todo \in Seq(Good(w, platforms)) /\ s.seen \in SUBSET Node
    BY <2>1 DEF Printing
  <2>4. Cardinality(s.seen) \in Nat /\ Cardinality(Node) \in Nat /\ Cardinality(s.seen) <= Cardinality(Node)
    BY <2>3, NodeFinite, FS_Subset, FS_CardinalityType
  <2>5. a \in Nat /\ k \in Nat /\ Left(w, s) = Len(s.todo) + a * k
    BY <2>4, LinesBoundType DEF Left
  <2> HIDE DEF a, k
  <2>6. a * k \in Nat
    BY <2>5
  <2> DEFINE m == a * k
             len == Len(s.todo)
  <2>10. m \in Nat /\ Left(w, s) = len + m
    BY <2>5, <2>6
  <2>11. len \in Nat
    BY <2>3
  <2> HIDE DEF m, len
  <2>7. len + m <= 0
    BY <2>2, <2>10
  <2>12. len = 0
    BY <2>7, <2>10, <2>11
  <2>9. Len(s.todo) = 0
    BY <2>12 DEF len
  <2>8. QED
    BY <2>3, <2>9 DEF s
<1>12. ~Parse(f[N].lines).error /\ Parse(f[N].lines).entries = Resolution(w, platforms)
  BY <1>1, <1>10, <1>11, SyncEnd
<1>13. QED
  BY <1>2, <1>4, <1>12 DEF platforms
------------------------------------------------------------------------------
(***************************************************************************)
(* The copy with macros injected is a workspace too.                       *)
(***************************************************************************)
Macros(w) == w.procMacros \ ToSet(w.roots)
RootOf(w) == IF w.virtual THEN FakeRoot ELSE w.roots[1]
InjectedEdge(w, m) == [from |-> RootOf(w), to |-> m, kind |-> "normal", on |-> Platform]

LEMMA InjectType ==
  ASSUME NEW w \in Workspace, ~w.virtual => w.roots # <<>>
  PROVE  /\ Inject(w) \in Workspace
         /\ Inject(w).procMacros = w.procMacros /\ Inject(w).features = w.features
         /\ ToSet(w.roots) \subseteq ToSet(Inject(w).roots)
         /\ ToSet(w.edges) \subseteq ToSet(Inject(w).edges)
         /\ Macros(w) # {} => RootOf(w) \in ToSet(Inject(w).roots)
         /\ \A m \in Macros(w) : InjectedEdge(w, m) \in ToSet(Inject(w).edges)
<1> DEFINE macros == Macros(w)
           root == RootOf(w)
           edges == {InjectedEdge(w, m) : m \in macros}
           more == w.edges \o SetToSeq(edges)
           roots == IF w.virtual THEN Append(w.roots, FakeRoot) ELSE w.roots
           all == [w EXCEPT !.edges = more, !.roots = roots]
<1>1. Inject(w) = IF macros = {} THEN w ELSE all
  BY Zenon DEF Inject, InjectedEdge, Macros, RootOf
<1>2. /\ w.roots \in Seq(Crate) /\ w.edges \in Seq(Edge) /\ w.procMacros \in SUBSET Crate
      /\ w.virtual \in BOOLEAN
  BY DEF Workspace
<1>3. root \in Crate
  BY <1>2, ResolverAssumption DEF RootOf
<1>4. edges \in SUBSET Edge
  BY <1>2, <1>3 DEF InjectedEdge, Macros, Edge, Kind
<1>5. IsFiniteSet(edges)
  <2> DEFINE f == [m \in macros |-> InjectedEdge(w, m)]
  <2>1. f \in Surjection(macros, edges)
    BY Fun_IsSurj
  <2>2. IsFiniteSet(macros)
    BY <1>2, ResolverAssumption, FS_Subset DEF Macros
  <2>3. QED
    BY <2>1, <2>2, FS_Surjection
<1> DEFINE seq == SetToSeq(edges)
<1> HIDE DEF edges
<1>6. seq \in Seq(edges) /\ ToSet(seq) = edges
  BY <1>5, SetToSeqElements
<1>7. seq \in Seq(Edge)
  BY <1>4, <1>6
<1> HIDE DEF seq
<1>8. more \in Seq(Edge) /\ ToSet(more) = ToSet(w.edges) \union edges
  BY <1>2, <1>6, <1>7, ConcatProperties, ConcatElements DEF seq
<1>9. /\ roots \in Seq(Crate) /\ ToSet(w.roots) \subseteq ToSet(roots)
      /\ root \in ToSet(roots)
  <2>1. CASE w.virtual
    <3> DEFINE r == Append(w.roots, FakeRoot)
    <3>1. /\ r \in Seq(Crate) /\ Len(r) = Len(w.roots) + 1 /\ Len(w.roots) \in Nat
          /\ r[Len(w.roots) + 1] = FakeRoot
          /\ \A i \in 1..Len(w.roots) : r[i] = w.roots[i]
      BY <1>2, ResolverAssumption, AppendProperties
    <3>2. roots = r /\ root = FakeRoot
      BY <2>1 DEF RootOf
    <3> HIDE DEF r
    <3>3. DOMAIN r = 1..Len(r) /\ DOMAIN w.roots = 1..Len(w.roots)
      BY <1>2, <3>1
    <3>4. Len(w.roots) + 1 \in 1..Len(r) /\ \A i \in 1..Len(w.roots) : i \in 1..Len(r)
      BY <3>1
    <3>5. FakeRoot \in ToSet(r) /\ ToSet(w.roots) \subseteq ToSet(r)
      BY <3>1, <3>3, <3>4 DEF ToSet
    <3>6. QED
      BY <3>1, <3>2, <3>5
  <2>2. CASE ~w.virtual
    <3>1. roots = w.roots /\ root = w.roots[1] /\ w.roots # <<>>
      BY <2>2 DEF RootOf
    <3>2. 1 \in DOMAIN w.roots
      BY <1>2, <3>1
    <3>3. QED
      BY <1>2, <3>1, <3>2 DEF ToSet
  <2>3. QED
    BY <2>1, <2>2
<1> HIDE DEF more, roots
<1>10. /\ all \in Workspace
       /\ all.procMacros = w.procMacros /\ all.features = w.features
       /\ all.roots = roots /\ all.edges = more
  BY <1>8, <1>9 DEF Workspace
<1> HIDE DEF all
<1>11. CASE macros = {}
  BY <1>1, <1>11
<1>12. CASE macros # {}
  <2>1. Inject(w) = all
    BY <1>1, <1>12
  <2>2. \A m \in macros : InjectedEdge(w, m) \in edges
    BY DEF edges
  <2>3. QED
    BY <1>8, <1>9, <1>10, <2>1, <2>2
<1>13. QED
  BY <1>11, <1>12
-----------------------------------------------------------------------------
(***************************************************************************)
(* What each stage has made, of the copy and of what cargo printed for it. *)
(***************************************************************************)
TreeOf(p) == Parse(CargoTree(copy, p[1], p[2]))

StageInv ==
  /\ pc \notin {"starting", "ended"} \/ result = "success" \/ trees # <<>> =>
       copy = Inject(request.workspace)
  /\ pc \in {"starting", "spawning", "joining", "parsing"} => trees = <<>>
  /\ pc = "parsing" => outputs = [p \in Pairs |-> CargoTree(copy, p[1], p[2])]
  /\ pc \in {"merging", "splitting"} \/ result = "success" \/ trees # <<>> =>
       trees = [p \in Pairs |-> TreeOf(p)]
  /\ pc = "splitting" \/ result = "success" => data = [c \in Known |-> TreeData(c)]
  /\ result = "success" => metadata = [c \in DOMAIN data |-> Divided(c)]

LEMMA StageInit == Init => StageInv
BY DEF Init, StageInv

LEMMA StageStep == IInv /\ StageInv /\ [Next]_vars => StageInv'
<1> SUFFICES ASSUME IInv, StageInv, [Next]_vars
             PROVE  StageInv'
  OBVIOUS
<1>1. TypeOK /\ PoolInv
  BY DEF IInv
<1>2. /\ pc = "ended" <=> result # "none"
      /\ pc \in {"starting", "spawning", "joining", "parsing", "merging", "splitting", "ended"}
  BY <1>1 DEF TypeOK
<1>3. CASE UNCHANGED vars
  <2>1. UNCHANGED <<request, pc, copy, outputs, trees, data, metadata, result>>
    BY <1>3 DEF vars
  <2>2. Pairs' = Pairs /\ Known' = Known /\ \A c : TreeData(c)' = TreeData(c) /\ Divided(c)' = Divided(c)
    BY <2>1 DEF Pairs, Targets, Hosts, Known, TreeData, EntriesFor, Tree, Divided, Rest, Common
  <2>3. QED
    BY <2>1, <2>2 DEF StageInv, TreeOf
<1>4. CASE Start
  <2>1. /\ pc = "starting" /\ pc' \in {"spawning", "ended"} /\ result' \in {"none", "failed"}
        /\ copy' = Inject(request.workspace) /\ request' = request /\ trees' = trees
    BY <1>2, <1>4 DEF Start, Return
  <2>2. QED
    BY <1>2, <2>1 DEF StageInv
<1>5. CASE StartFails
  <2>1. pc = "starting" /\ pc' = "ended" /\ result' = "failed" /\ trees' = trees
    BY <1>5 DEF StartFails, Return
  <2>2. QED
    BY <1>2, <2>1 DEF StageInv
<1>6. CASE Spawn \/ SpawnDone \/ JoinOldest \/ \E p \in Pairs : ThreadEnds(p)
  <2>1. /\ UNCHANGED <<request, copy, outputs, trees, data, metadata>>
        /\ \/ pc' = pc /\ result' = result
           \/ pc \in {"spawning", "joining"} /\ pc' = "joining" /\ result' = result
           \/ pc \in {"spawning", "joining"} /\ pc' = "ended" /\ result' = "failed"
    BY <1>6 DEF Spawn, SpawnDone, JoinOldest, Join, ThreadEnds, Return
  <2>2. Pairs' = Pairs /\ Known' = Known /\ \A c : TreeData(c)' = TreeData(c) /\ Divided(c)' = Divided(c)
    BY <2>1 DEF Pairs, Targets, Hosts, Known, TreeData, EntriesFor, Tree, Divided, Rest, Common
  <2>3. \A p : TreeOf(p)' = TreeOf(p)
    BY <2>1 DEF TreeOf
  <2>4. CASE pc' = pc /\ result' = result
    BY <2>1, <2>2, <2>3, <2>4 DEF StageInv
  <2>5. CASE pc \in {"spawning", "joining"} /\ pc' = "joining" /\ result' = result
    BY <1>2, <2>1, <2>5 DEF StageInv
  <2>6. CASE pc \in {"spawning", "joining"} /\ pc' = "ended" /\ result' = "failed"
    BY <1>2, <2>1, <2>6 DEF StageInv
  <2>7. QED
    BY <2>1, <2>4, <2>5, <2>6
<1>7. CASE Process
  <2>1. pc = "joining" /\ inFlight = <<>> /\ jobs = <<>> /\ result = "none"
        /\ UNCHANGED <<request, copy, trees>>
    BY <1>1, <1>7 DEF Process, TypeOK, PoolInv
  <2>2. ToSet(results) = Pairs
    BY <1>1, <2>1, EmptyElements DEF TypeOK
  <2>3. trees = <<>> /\ copy = Inject(request.workspace)
    BY <2>1 DEF StageInv
  <2>4. Pairs' = Pairs
    BY <2>1 DEF Pairs, Targets, Hosts
  <2>5. \/ pc' = "ended" /\ result' = "failed"
        \/ /\ pc' = "parsing" /\ result' = "none"
           /\ outputs' = [p \in Pairs |-> CargoTree(copy, p[1], p[2])]
    BY <1>7, <2>1, <2>2 DEF Process, Return
  <2>6. QED
    BY <2>1, <2>3, <2>4, <2>5 DEF StageInv
<1>8. CASE ParseTrees
  <2>1. /\ pc = "parsing" /\ pc' = "merging" /\ result' = "none"
        /\ UNCHANGED <<request, copy, outputs, data, metadata>>
        /\ trees' = [p \in DOMAIN outputs |-> Parse(outputs[p])]
    BY <1>2, <1>8 DEF ParseTrees
  <2>2. outputs = [p \in Pairs |-> CargoTree(copy, p[1], p[2])] /\ copy = Inject(request.workspace)
    BY <2>1 DEF StageInv
  <2>3. Pairs' = Pairs
    BY <2>1 DEF Pairs, Targets, Hosts
  <2>4. trees' = [p \in Pairs |-> Parse(CargoTree(copy, p[1], p[2]))]
    BY <2>1, <2>2
  <2>5. QED
    BY <2>1, <2>2, <2>3, <2>4 DEF StageInv, TreeOf
<1>9. CASE Merge
  <2>1. /\ pc = "merging" /\ result = "none" /\ UNCHANGED <<request, copy, trees>>
        /\ \/ pc' = "ended" /\ result' = "failed"
           \/ pc' = "splitting" /\ result' = "none" /\ data' = [c \in Known |-> TreeData(c)]
    BY <1>2, <1>9 DEF Merge, Return
  <2>2. Pairs' = Pairs /\ Known' = Known /\ \A c : TreeData(c)' = TreeData(c)
    BY <2>1 DEF Pairs, Targets, Hosts, Known, TreeData, EntriesFor, Tree
  <2>3. \A p : TreeOf(p)' = TreeOf(p)
    BY <2>1 DEF TreeOf
  <2>4. copy = Inject(request.workspace) /\ trees = [p \in Pairs |-> TreeOf(p)]
    BY <2>1 DEF StageInv
  <2>5. QED
    BY <2>1, <2>2, <2>3, <2>4 DEF StageInv
<1>10. CASE Split
  <2>1. /\ pc = "splitting" /\ pc' = "ended" /\ result' = "success"
        /\ UNCHANGED <<request, copy, trees, data>>
        /\ metadata' = [c \in DOMAIN data |-> Divided(c)]
    BY <1>2, <1>10 DEF Split, Return
  <2>2. Pairs' = Pairs /\ Known' = Known /\ \A c : TreeData(c)' = TreeData(c) /\ Divided(c)' = Divided(c)
    BY <2>1 DEF Pairs, Targets, Hosts, Known, TreeData, EntriesFor, Tree, Divided, Rest, Common
  <2>3. \A p : TreeOf(p)' = TreeOf(p)
    BY <2>1 DEF TreeOf
  <2>4. copy = Inject(request.workspace) /\ trees = [p \in Pairs |-> TreeOf(p)]
        /\ data = [c \in Known |-> TreeData(c)]
    BY <2>1 DEF StageInv
  <2>5. QED
    BY <2>1, <2>2, <2>3, <2>4 DEF StageInv
<1>11. QED
  BY <1>3, <1>4, <1>5, <1>6, <1>7, <1>8, <1>9, <1>10 DEF Next, Pool, Ended

\* The parser understands whatever cargo prints.
LEMMA Understood == IInv /\ StageInv => OutputsUnderstood
<1> SUFFICES ASSUME IInv, StageInv, NEW p \in DOMAIN trees
             PROVE  ~trees[p].error /\ trees[p].entries = Resolution(copy, Platforms(p[1], p[2]))
  BY DEF OutputsUnderstood
<1>1. trees # <<>>
  OBVIOUS
<1>2. trees = [q \in Pairs |-> TreeOf(q)] /\ copy = Inject(request.workspace)
  BY <1>1 DEF StageInv
<1>3. p \in Pairs /\ trees[p] = Parse(CargoTree(copy, p[1], p[2]))
  BY <1>2 DEF TreeOf
<1>4. request \in Requests
  BY DEF IInv, TypeOK
<1>5. copy \in Workspace
  BY <1>2, <1>4, ResolverAssumption, InjectType
<1>6. p[1] \in Platform /\ p[2] \in Platform
  BY <1>3, <1>4, ResolverAssumption DEF Pairs, CargoPlatforms, Hosts, Targets
<1>7. QED
  BY <1>3, <1>5, <1>6, TreeParsed
------------------------------------------------------------------------------
(***************************************************************************)
(* Merging: the entries of a crate for a triple are those of the sides it  *)
(* is built on for it.                                                     *)
(***************************************************************************)
BuiltFor(h, t) == Built(copy, Platforms(CargoOf[h], CargoOf[t]))
SidesOf(c, triple) == {x.side : x \in {x \in Contexts : x.crate = c /\ x.triple = triple}}
BuiltOn(c, side, triple) ==
  \E h \in Hosts, t \in Targets :
    <<side, c>> \in BuiltFor(h, t) /\ triple = IF side = "host" THEN h ELSE t
SideEntry(c, side, triple) ==
  [known |-> TRUE, features |-> copy.features[c][side][CargoOf[triple]],
   deps |-> DepsOf(copy, <<side, c>>, CargoOf[triple])]

Merged == IInv /\ StageInv /\ result = "success"

LEMMA MergedFacts ==
  ASSUME Merged
  PROVE  /\ copy \in Workspace /\ copy = Inject(request.workspace)
         /\ request.workspace \in Workspace
         /\ ~request.workspace.virtual => request.workspace.roots # <<>>
         /\ Hosts \subseteq Targets /\ Targets \subseteq Triple
         /\ trees = [p \in Pairs |-> TreeOf(p)]
         /\ data = [c \in Known |-> TreeData(c)]
         /\ metadata = [c \in DOMAIN data |-> Divided(c)]
<1>1. request \in Requests
  BY DEF Merged, IInv, TypeOK
<1>2. /\ copy = Inject(request.workspace) /\ trees = [p \in Pairs |-> TreeOf(p)]
      /\ data = [c \in Known |-> TreeData(c)]
      /\ metadata = [c \in DOMAIN data |-> Divided(c)]
  BY DEF Merged, StageInv
<1>3. copy \in Workspace
  BY <1>1, <1>2, ResolverAssumption, InjectType
<1>4. Targets \subseteq Triple /\ Hosts \subseteq Targets
  BY <1>1, ResolverAssumption DEF Targets, Hosts
<1>5. QED
  BY <1>1, <1>2, <1>3, <1>4, ResolverAssumption

LEMMA PlatformsFor ==
  ASSUME Merged, NEW h \in Hosts, NEW t \in Targets
  PROVE  /\ Platforms(CargoOf[h], CargoOf[t]) \in PlatformOf
         /\ <<CargoOf[h], CargoOf[t]>> \in Pairs
         /\ BuiltFor(h, t) \in SUBSET Node
<1>1. CargoOf[h] \in Platform /\ CargoOf[t] \in Platform
  BY MergedFacts, ResolverAssumption
<1>2. Platforms(CargoOf[h], CargoOf[t]) \in PlatformOf
  BY <1>1, PlatformsType
<1>3. <<CargoOf[h], CargoOf[t]>> \in Pairs
  BY DEF Pairs, CargoPlatforms
<1>4. BuiltFor(h, t) \in SUBSET Node
  BY <1>2, MergedFacts, BuiltLeast DEF BuiltFor
<1>5. QED
  BY <1>2, <1>3, <1>4

LEMMA TreeEntry ==
  ASSUME Merged, NEW h \in Hosts, NEW t \in Targets, NEW side \in Side, NEW c \in Crate
  PROVE  Tree(h, t)[<<side, c>>] =
           IF <<side, c>> \in BuiltFor(h, t)
           THEN SideEntry(c, side, IF side = "host" THEN h ELSE t) ELSE Unknown
<1> DEFINE p == <<CargoOf[h], CargoOf[t]>>
           platforms == Platforms(CargoOf[h], CargoOf[t])
           n == <<side, c>>
<1>1. p \in DOMAIN trees /\ p[1] = CargoOf[h] /\ p[2] = CargoOf[t]
  BY PlatformsFor, MergedFacts
<1>2. trees[p].entries = Resolution(copy, Platforms(p[1], p[2]))
  BY <1>1, Understood DEF OutputsUnderstood, Merged
<1>3. Tree(h, t) = Resolution(copy, platforms)
  BY <1>1, <1>2, Zenon DEF Tree
<1>4. n \in Node /\ n[1] = side /\ n[2] = c
  BY DEF Node
<1> HIDE DEF platforms, p
<1>5. Resolution(copy, platforms)[n] =
        IF n \in Built(copy, platforms)
        THEN [known |-> TRUE, features |-> copy.features[n[2]][n[1]][platforms[n[1]]],
              deps |-> DepsOf(copy, n, platforms[n[1]])]
        ELSE Unknown
  <2> HIDE DEF n
  <2>1. QED
    BY <1>4 DEF Resolution
<1>6. platforms[side] = CargoOf[IF side = "host" THEN h ELSE t]
  BY DEF Platforms, platforms
<1>7. BuiltFor(h, t) = Built(copy, platforms)
  BY DEF BuiltFor, platforms
<1>8. CASE n \notin Built(copy, platforms)
  BY <1>3, <1>5, <1>7, <1>8
<1>9. CASE n \in Built(copy, platforms)
  <2>1. Resolution(copy, platforms)[n] =
          [known |-> TRUE, features |-> copy.features[c][side][platforms[side]],
           deps |-> DepsOf(copy, n, platforms[side])]
    BY <1>4, <1>5, <1>9
  <2>2. Resolution(copy, platforms)[n] = SideEntry(c, side, IF side = "host" THEN h ELSE t)
    BY <1>6, <2>1, Zenon DEF SideEntry
  <2>3. QED
    BY <1>3, <1>7, <1>9, <2>2
<1>10. QED
  BY <1>8, <1>9

LEMMA ContextsAre ==
  ASSUME Merged
  PROVE  /\ \A c, side, triple : side \in SidesOf(c, triple) <=>
              BuiltOn(c, side, triple)
         /\ \A c : (\E x \in Contexts : x.crate = c) <=>
              \E side, triple : BuiltOn(c, side, triple)
         /\ \A x \in Contexts : BuiltOn(x.crate, x.side, x.triple)
         /\ \A c, side, triple : BuiltOn(c, side, triple) =>
              c \in Crate /\ side \in Side /\ triple \in Targets
                /\ (side = "host" => triple \in Hosts)
<1> DEFINE Context(n, h, t) ==
             [crate |-> n[2], side |-> n[1], triple |-> IF n[1] = "host" THEN h ELSE t]
<1>1. \A x : x \in Contexts <=> \E h \in Hosts, t \in Targets : \E n \in BuiltFor(h, t) : x = Context(n, h, t)
  <2> DEFINE S(h, t) == {Context(n, h, t) : n \in BuiltFor(h, t)}
  <2>1. Contexts = UNION {S(h, t) : h \in Hosts, t \in Targets}
    BY DEF Contexts, BuiltFor
  <2>2. \A x, h, t : x \in S(h, t) <=> \E n \in BuiltFor(h, t) : x = Context(n, h, t)
    OBVIOUS
  <2> HIDE DEF Context, S
  <2>3. \A x : x \in UNION {S(h, t) : h \in Hosts, t \in Targets}
                 <=> \E h \in Hosts, t \in Targets : x \in S(h, t)
    OBVIOUS
  <2>4. \A x : x \in Contexts <=> \E h \in Hosts, t \in Targets : x \in S(h, t)
    BY <2>1, <2>3
  <2>5. QED
    BY <2>2, <2>4
<1>2. \A h \in Hosts, t \in Targets : \A n \in BuiltFor(h, t) :
        n = <<n[1], n[2]>> /\ n[1] \in Side /\ n[2] \in Crate
  <2>1. \A h \in Hosts, t \in Targets : BuiltFor(h, t) \in SUBSET Node
    BY PlatformsFor
  <2>2. \A n \in Node : n = <<n[1], n[2]>> /\ n[1] \in Side /\ n[2] \in Crate
    BY DEF Node
  <2>3. QED
    BY <2>1, <2>2
<1>3. \A x \in Contexts : BuiltOn(x.crate, x.side, x.triple)
  <2> SUFFICES ASSUME NEW x \in Contexts PROVE BuiltOn(x.crate, x.side, x.triple)
    OBVIOUS
  <2>1. PICK h \in Hosts, t \in Targets : \E n \in BuiltFor(h, t) : x = Context(n, h, t)
    BY <1>1
  <2>2. PICK n \in BuiltFor(h, t) : x = Context(n, h, t)
    BY <2>1
  <2>3. x.crate = n[2] /\ x.side = n[1] /\ x.triple = IF n[1] = "host" THEN h ELSE t
    BY <2>2
  <2>4. n = <<n[1], n[2]>>
    BY <1>2, <2>2
  <2>5. QED
    BY <2>2, <2>3, <2>4 DEF BuiltOn
<1>4. ASSUME NEW c, NEW side, NEW triple, BuiltOn(c, side, triple)
      PROVE  /\ c \in Crate /\ side \in Side /\ triple \in Targets
             /\ side = "host" => triple \in Hosts
             /\ \E x \in Contexts : x.crate = c /\ x.side = side /\ x.triple = triple
  <2>1. PICK h \in Hosts, t \in Targets :
          <<side, c>> \in BuiltFor(h, t) /\ triple = IF side = "host" THEN h ELSE t
    BY <1>4 DEF BuiltOn
  <2> DEFINE n == <<side, c>>
  <2>2. n[1] = side /\ n[2] = c /\ n \in BuiltFor(h, t)
    BY <2>1
  <2>3. Context(n, h, t) \in Contexts
    BY <1>1, <2>2
  <2>4. Context(n, h, t).crate = c /\ Context(n, h, t).side = side /\ Context(n, h, t).triple = triple
    BY <2>1, <2>2
  <2>5. side \in Side /\ c \in Crate
    BY <1>2, <2>2
  <2>6. triple \in Targets /\ (side = "host" => triple \in Hosts)
    BY <2>1, MergedFacts
  <2> HIDE DEF Context, n
  <2>7. QED
    BY <2>3, <2>4, <2>5, <2>6
<1>5. \A c, side, triple : side \in SidesOf(c, triple) <=> BuiltOn(c, side, triple)
  BY <1>3, <1>4 DEF SidesOf
<1>6. \A c : (\E x \in Contexts : x.crate = c) <=> \E side, triple : BuiltOn(c, side, triple)
  BY <1>3, <1>4
<1>7. QED
  BY <1>3, <1>4, <1>5, <1>6

LEMMA KnownEntries ==
  ASSUME Merged, NEW c \in Crate, NEW triple \in Targets
  PROVE  {e \in EntriesFor(c, triple) : e.known}
           = {SideEntry(c, side, triple) : side \in SidesOf(c, triple)}
<1> DEFINE target(h) == Tree(h, triple)[<<"target", c>>]
           host(h, t) == Tree(h, t)[<<"host", c>>]
<1>1. \A e : e \in EntriesFor(c, triple) <=>
        \/ \E h \in Hosts : e = target(h)
        \/ triple \in Hosts /\ \E t \in Targets : e = host(triple, t)
  BY DEF EntriesFor
<1>2. "target" \in Side /\ "host" \in Side /\ "target" # "host"
      /\ \A side \in Side : side = "target" \/ side = "host"
  BY DEF Side
<1>3. \A h \in Hosts : target(h) =
        IF <<"target", c>> \in BuiltFor(h, triple) THEN SideEntry(c, "target", triple) ELSE Unknown
  BY <1>2, TreeEntry
<1>4. triple \in Hosts => \A t \in Targets : host(triple, t) =
        IF <<"host", c>> \in BuiltFor(triple, t) THEN SideEntry(c, "host", triple) ELSE Unknown
  BY <1>2, TreeEntry
<1>5. ~Unknown.known /\ \A side : SideEntry(c, side, triple).known
  BY DEF Unknown, SideEntry
<1> HIDE DEF target, host
<1>6. \A side : side \in SidesOf(c, triple) <=> BuiltOn(c, side, triple)
  BY ContextsAre
<1>7. \A side : BuiltOn(c, side, triple) =>
        side \in Side /\ (side = "host" => triple \in Hosts)
  BY ContextsAre
<1>8. BuiltOn(c, "target", triple) <=> \E h \in Hosts : <<"target", c>> \in BuiltFor(h, triple)
  BY <1>2 DEF BuiltOn
<1>9. BuiltOn(c, "host", triple) <=>
        triple \in Hosts /\ \E t \in Targets : <<"host", c>> \in BuiltFor(triple, t)
  BY DEF BuiltOn
<1>10. ASSUME NEW e \in EntriesFor(c, triple), e.known
       PROVE  \E side \in SidesOf(c, triple) : e = SideEntry(c, side, triple)
  <2>1. CASE \E h \in Hosts : e = target(h)
    <3>1. PICK h \in Hosts : e = target(h)
      BY <2>1
    <3>2. <<"target", c>> \in BuiltFor(h, triple) /\ e = SideEntry(c, "target", triple)
      BY <1>3, <1>5, <1>10, <3>1
    <3>3. QED
      BY <1>6, <1>8, <3>2
  <2>2. CASE triple \in Hosts /\ \E t \in Targets : e = host(triple, t)
    <3>1. PICK t \in Targets : e = host(triple, t)
      BY <2>2
    <3>2. <<"host", c>> \in BuiltFor(triple, t) /\ e = SideEntry(c, "host", triple)
      BY <1>4, <1>5, <1>10, <2>2, <3>1
    <3>3. QED
      BY <1>6, <1>9, <2>2, <3>2
  <2>3. QED
    BY <1>1, <1>10, <2>1, <2>2
<1>11. ASSUME NEW side \in SidesOf(c, triple)
       PROVE  SideEntry(c, side, triple) \in EntriesFor(c, triple)
  <2>1. BuiltOn(c, side, triple)
    BY <1>6
  <2>2. CASE side = "target"
    <3>1. PICK h \in Hosts : <<"target", c>> \in BuiltFor(h, triple)
      BY <1>8, <2>1, <2>2
    <3>2. target(h) = SideEntry(c, side, triple)
      BY <1>3, <2>2, <3>1
    <3>3. QED
      BY <1>1, <3>2
  <2>3. CASE side = "host"
    <3>1. triple \in Hosts
      BY <1>9, <2>1, <2>3
    <3>2. PICK t \in Targets : <<"host", c>> \in BuiltFor(triple, t)
      BY <1>9, <2>1, <2>3
    <3>3. host(triple, t) = SideEntry(c, side, triple)
      BY <1>4, <2>3, <3>1, <3>2
    <3>4. QED
      BY <1>1, <3>1, <3>3
  <2>4. QED
    BY <1>2, <1>7, <2>1, <2>2, <2>3
<1>12. QED
  BY <1>5, <1>10, <1>11

\* What is known of a crate for a triple is what Cargo resolved for its contexts there.
LEMMA TreeDataIs ==
  ASSUME Merged, NEW c \in Crate
  PROVE  /\ DOMAIN TreeData(c) = {t \in Targets : SidesOf(c, t) # {}}
         /\ \A t \in DOMAIN TreeData(c) : TreeData(c)[t] = Resolved(Contexts, c, t)
<1> DEFINE known(t) == {e \in EntriesFor(c, t) : e.known}
           triples == {t \in Targets : known(t) # {}}
<1>1. TreeData(c) = [t \in triples |-> Consumed(known(t))]
  BY Zenon DEF TreeData
<1>2. \A t \in Targets : known(t) = {SideEntry(c, side, t) : side \in SidesOf(c, t)}
  BY KnownEntries
<1> HIDE DEF known
<1>3. triples = {t \in Targets : SidesOf(c, t) # {}}
  BY <1>2
<1>4. ASSUME NEW t \in Targets
      PROVE  Consumed(known(t)) = Resolved(Contexts, c, t)
  <2> DEFINE sides == SidesOf(c, t)
  <2>1. known(t) = {SideEntry(c, side, t) : side \in sides}
    BY <1>2
  <2>2. \A side : /\ SideEntry(c, side, t).features = copy.features[c][side][CargoOf[t]]
                  /\ SideEntry(c, side, t).deps = DepsOf(copy, <<side, c>>, CargoOf[t])
    BY DEF SideEntry
  <2>3. Resolved(Contexts, c, t) =
          [features |-> UNION {copy.features[c][side][CargoOf[t]] : side \in sides},
           deps |-> UNION {DepsOf(copy, <<side, c>>, CargoOf[t]) : side \in sides}]
    BY DEF Resolved, SidesOf
  <2> HIDE DEF sides
  <2>4. {e.features : e \in known(t)} = {copy.features[c][side][CargoOf[t]] : side \in sides}
    BY <2>1, <2>2
  <2>5. {e.deps : e \in known(t)} = {DepsOf(copy, <<side, c>>, CargoOf[t]) : side \in sides}
    <3> DEFINE entry(side) == SideEntry(c, side, t)
               D(side) == DepsOf(copy, <<side, c>>, CargoOf[t])
    <3>1. known(t) = {entry(side) : side \in sides}
      BY <2>1
    <3>2. \A side : entry(side).deps = D(side)
      BY <2>2
    <3> HIDE DEF entry, D
    <3>3. {e.deps : e \in known(t)} = {D(side) : side \in sides}
      BY <3>1, <3>2
    <3>4. QED
      BY <3>3 DEF D
  <2>6. QED
    BY <2>3, <2>4, <2>5 DEF Consumed
<1>5. QED
  BY <1>1, <1>3, <1>4
------------------------------------------------------------------------------
\* What is known of a crate, by triple, is of features and crates.
LEMMA DataType ==
  ASSUME Merged, NEW c \in DOMAIN data
  PROVE  /\ c \in Crate /\ data[c] = TreeData(c)
         /\ \A t \in DOMAIN data[c] :
              /\ data[c][t] = [features |-> data[c][t].features, deps |-> data[c][t].deps]
              /\ data[c][t].features \in SUBSET Feature /\ data[c][t].deps \in SUBSET Crate
<1>1. c \in Crate /\ data[c] = TreeData(c)
  BY MergedFacts DEF Known
<1>2. ASSUME NEW t \in DOMAIN data[c]
      PROVE  /\ data[c][t] = [features |-> data[c][t].features, deps |-> data[c][t].deps]
             /\ data[c][t].features \in SUBSET Feature /\ data[c][t].deps \in SUBSET Crate
  <2> DEFINE features(side) == copy.features[c][side][CargoOf[t]]
             deps(side) == DepsOf(copy, <<side, c>>, CargoOf[t])
             sides == SidesOf(c, t)
  <2>1. t \in Targets /\ data[c][t] = Resolved(Contexts, c, t)
    BY <1>1, <1>2, TreeDataIs
  <2>2. data[c][t] = [features |-> UNION {features(side) : side \in sides},
                      deps |-> UNION {deps(side) : side \in sides}]
    BY <2>1 DEF Resolved, SidesOf
  <2>3. \A side \in sides : side \in Side
    BY ContextsAre
  <2>4. CargoOf[t] \in Platform /\ copy \in Workspace
    BY <2>1, MergedFacts, ResolverAssumption
  <2>5. \A side \in sides : features(side) \in SUBSET Feature
    BY <1>1, <2>3, <2>4 DEF Workspace
  <2>6. \A e \in ToSet(copy.edges) : e.to \in Crate
    <3>1. copy.edges \in Seq(Edge)
      BY <2>4 DEF Workspace
    <3>2. ToSet(copy.edges) \subseteq Edge
      BY <3>1 DEF ToSet
    <3>3. QED
      BY <3>2 DEF Edge
  <2>7. \A side \in sides : deps(side) \in SUBSET Crate
    BY <2>6 DEF DepsOf, ActiveEdges
  <2> HIDE DEF features, deps, sides
  <2>8. QED
    BY <2>2, <2>5, <2>7
<1>3. QED
  BY <1>1, <1>2

\* A triple's part is not what is common, so that nothing is dropped from it.
LEMMA RestIsNotCommon ==
  ASSUME Merged, NEW c \in DOMAIN data, NEW t \in DOMAIN data[c]
  PROVE  /\ Rest(c, t) # Nothing => <<Rest(c, t)>> # <<Common(c)>>
         /\ Rest(c, t).features \union Common(c).features = data[c][t].features
         /\ Rest(c, t).deps \union Common(c).deps = data[c][t].deps
         /\ Rest(c, t) = [features |-> Rest(c, t).features, deps |-> Rest(c, t).deps]
<1> DEFINE features == data[c][t].features
           deps == data[c][t].deps
           f == Common(c).features
           d == Common(c).deps
<1>1. features \in SUBSET Feature /\ deps \in SUBSET Crate
  BY DataType
<1>2. f \subseteq features /\ d \subseteq deps
  BY <1>1 DEF Common
<1>3. Rest(c, t) = [features |-> features \ f, deps |-> deps \ d]
  BY Zenon DEF Rest
<1>4. Common(c) = [features |-> f, deps |-> d]
  BY DEF Common
<1> HIDE DEF features, deps, f, d
<1>5. ASSUME Rest(c, t) = Common(c)
      PROVE  Rest(c, t) = Nothing
  <2>1. features \ f = f /\ deps \ d = d
    BY <1>3, <1>4, <1>5
  <2>2. features \ f = {} /\ deps \ d = {}
    BY <2>1
  <2>3. QED
    BY <1>3, <2>2 DEF Nothing
<1>6. \A x, y : <<x>> = <<y>> => x = y
  OBVIOUS
<1>7. QED
  BY <1>2, <1>3, <1>4, <1>5, <1>6 DEF features, deps, f, d

LEMMA DividedIs ==
  ASSUME Merged, NEW c \in DOMAIN data
  PROVE  /\ Divided(c).common = IF Common(c) = Nothing THEN <<>> ELSE <<Common(c)>>
         /\ Divided(c).selects =
              [t \in {t \in DOMAIN data[c] : Rest(c, t) # Nothing} |-> <<Rest(c, t)>>]
<1> DEFINE branching == {t \in DOMAIN data[c] : Rest(c, t) # Nothing}
           selects == [t \in branching |-> <<Rest(c, t)>>]
           branches == [EmptyScalar EXCEPT !.selects = selects]
           common == Common(c)
<1>1. Divided(c) = IF common = Nothing THEN branches ELSE InsertScalar(branches, common, None)
  BY Zenon DEF Divided
<1>2. \A t \in branching : selects[t] # <<common>>
  BY RestIsNotCommon
<1>3. DOMAIN selects = branching
  OBVIOUS
<1>4. selects = [t \in DOMAIN selects |-> selects[t]]
  OBVIOUS
<1> HIDE DEF selects, branching, common
<1>5. branches.selects = selects /\ branches.common = <<>>
  BY DEF EmptyScalar
<1> HIDE DEF branches
<1>6. InsertScalar(branches, common, None) =
        [common |-> <<common>>,
         selects |-> Restrict(branches.selects,
                       {t \in DOMAIN branches.selects : branches.selects[t] # <<common>>})]
  BY Zenon DEF InsertScalar, Filtered
<1>7. {t \in DOMAIN selects : selects[t] # <<common>>} = DOMAIN selects
  BY <1>2, <1>3
<1>8. Restrict(selects, DOMAIN selects) = selects
  BY <1>4 DEF Restrict
<1>9. InsertScalar(branches, common, None) = [common |-> <<common>>, selects |-> selects]
  BY <1>5, <1>6, <1>7, <1>8
<1>10. QED
  BY <1>1, <1>5, <1>9 DEF selects, branching, common

\* The division into what triples share and the rest loses nothing and adds nothing.
LEMMA SplitIsLossless ==
  ASSUME Merged, NEW c \in DOMAIN data, NEW t \in DOMAIN data[c]
  PROVE  Selected(c, t) = data[c][t]
<1> DEFINE s == metadata[c]
           common == Common(c)
           rest == Rest(c, t)
           parts == ToSet(s.common) \union ToSet(Get(s.selects, t, <<>>))
<1>1. s = Divided(c)
  BY MergedFacts
<1>2. /\ s.common = IF common = Nothing THEN <<>> ELSE <<common>>
      /\ s.selects = [u \in {u \in DOMAIN data[c] : Rest(c, u) # Nothing} |-> <<Rest(c, u)>>]
  BY <1>1, DividedIs
<1>3. Get(s.selects, t, <<>>) = IF rest = Nothing THEN <<>> ELSE <<rest>>
  BY <1>2 DEF Get
<1>4. \A x : ToSet(<<x>>) = {x}
  BY DEF ToSet
<1>5. ToSet(<<>>) = {}
  BY EmptyElements
<1> HIDE DEF s, common, rest
<1>6. parts = (IF common = Nothing THEN {} ELSE {common}) \union (IF rest = Nothing THEN {} ELSE {rest})
  BY <1>2, <1>3, <1>4, <1>5
<1> HIDE DEF parts
<1>7. Nothing.features = {} /\ Nothing.deps = {}
  BY DEF Nothing
<1>8. UNION {p.features : p \in parts} = rest.features \union common.features
  BY <1>6, <1>7
<1>9. UNION {p.deps : p \in parts} = rest.deps \union common.deps
  BY <1>6, <1>7
<1>10. Selected(c, t) = [features |-> UNION {p.features : p \in parts},
                         deps |-> UNION {p.deps : p \in parts}]
  BY Zenon DEF Selected, parts, s
<1>11. /\ rest.features \union common.features = data[c][t].features
       /\ rest.deps \union common.deps = data[c][t].deps
  BY RestIsNotCommon DEF rest, common
<1>12. data[c][t] = [features |-> data[c][t].features, deps |-> data[c][t].deps]
  BY DataType
<1>13. QED
  BY <1>8, <1>9, <1>10, <1>11, <1>12

LEMMA KnownAre ==
  ASSUME Merged, NEW c
  PROVE  c \in Known <=> \E x \in Contexts : x.crate = c
<1>1. c \in Known <=> c \in Crate /\ \E p \in Pairs, side \in Side : trees[p].entries[<<side, c>>].known
  BY MergedFacts DEF Known
<1>2. ASSUME NEW h \in Hosts, NEW t \in Targets, NEW side \in Side, c \in Crate
      PROVE  Tree(h, t)[<<side, c>>].known <=> <<side, c>> \in BuiltFor(h, t)
  <2>1. \A triple : SideEntry(c, side, triple).known
    BY DEF SideEntry
  <2>2. ~Unknown.known
    BY DEF Unknown
  <2>3. QED
    BY <1>2, <2>1, <2>2, TreeEntry
<1>3. ASSUME NEW p \in Pairs, NEW side \in Side, c \in Crate, trees[p].entries[<<side, c>>].known
      PROVE  \E triple : BuiltOn(c, side, triple)
  <2>1. PICK h \in Hosts, t \in Targets : p = <<CargoOf[h], CargoOf[t]>>
    BY DEF Pairs, CargoPlatforms
  <2>2. Tree(h, t) = trees[p].entries
    BY <2>1 DEF Tree
  <2>3. <<side, c>> \in BuiltFor(h, t)
    BY <1>2, <1>3, <2>2
  <2>4. QED
    BY <2>3 DEF BuiltOn
<1>4. ASSUME NEW side, NEW triple, BuiltOn(c, side, triple)
      PROVE  c \in Crate /\ \E p \in Pairs, s \in Side : trees[p].entries[<<s, c>>].known
  <2>1. c \in Crate /\ side \in Side
    BY <1>4, ContextsAre
  <2>2. PICK h \in Hosts, t \in Targets : <<side, c>> \in BuiltFor(h, t)
    BY <1>4 DEF BuiltOn
  <2>3. Tree(h, t)[<<side, c>>].known
    BY <1>2, <2>1, <2>2
  <2>4. <<CargoOf[h], CargoOf[t]>> \in Pairs
    BY PlatformsFor
  <2>5. QED
    BY <2>1, <2>3, <2>4 DEF Tree
<1>5. (\E x \in Contexts : x.crate = c) <=> \E side, triple : BuiltOn(c, side, triple)
  BY ContextsAre
<1>6. QED
  BY <1>1, <1>3, <1>4, <1>5

\* What is found of a crate under a triple it is built for is what Cargo resolved for it there.
LEMMA SelectedIs ==
  ASSUME Merged, NEW c, NEW side, NEW t, BuiltOn(c, side, t)
  PROVE  /\ c \in DOMAIN metadata
         /\ Selected(c, t) = Resolved(Contexts, c, t)
<1>1. c \in Crate /\ t \in Targets /\ side \in SidesOf(c, t) /\ \E x \in Contexts : x.crate = c
  BY ContextsAre
<1>2. c \in DOMAIN data /\ DOMAIN metadata = DOMAIN data
  BY <1>1, KnownAre, MergedFacts
<1>3. data[c] = TreeData(c)
  BY <1>2, DataType
<1>4. t \in DOMAIN data[c] /\ data[c][t] = Resolved(Contexts, c, t)
  BY <1>1, <1>3, TreeDataIs
<1>5. QED
  BY <1>2, <1>4, SplitIsLossless

LEMMA Exactly == Merged => ResolvesExactly
<1> SUFFICES ASSUME Merged
             PROVE  /\ DOMAIN metadata = {x.crate : x \in Contexts}
                    /\ \A x \in Contexts :
                         Selected(x.crate, x.triple) = Resolved(Contexts, x.crate, x.triple)
  BY Zenon DEF ResolvesExactly
<1>1. DOMAIN metadata = Known
  BY MergedFacts
<1>2. \A c : c \in Known <=> \E x \in Contexts : x.crate = c
  BY KnownAre
<1>3. \A x \in Contexts : BuiltOn(x.crate, x.side, x.triple)
  BY ContextsAre
<1>4. \A x \in Contexts : Selected(x.crate, x.triple) = Resolved(Contexts, x.crate, x.triple)
  BY <1>3, SelectedIs
<1>5. QED
  BY <1>1, <1>2, <1>4

(***************************************************************************)
(* An injected macro is built for every host, by the pair of the host and  *)
(* itself, and so known there with all it has in the workspace.            *)
(***************************************************************************)
LEMMA MacroBuilt ==
  ASSUME Merged, NEW m \in Macros(request.workspace), NEW h \in Hosts
  PROVE  BuiltOn(m, "host", h)
<1> DEFINE w == request.workspace
           e == InjectedEdge(w, m)
           platforms == Platforms(CargoOf[h], CargoOf[h])
           root == RootNode(copy, RootOf(w))
           built == BuiltFor(h, h)
<1>1. h \in Targets /\ platforms \in PlatformOf /\ platforms[root[1]] = CargoOf[h]
      /\ CargoOf[h] \in Platform
  BY MergedFacts, PlatformsType, ResolverAssumption DEF Platforms, RootNode, Side
<1>2. /\ copy.procMacros = w.procMacros /\ RootOf(w) \in ToSet(copy.roots)
      /\ e \in ToSet(copy.edges) /\ copy \in Workspace
  BY MergedFacts, InjectType
<1>3. Closed(copy, platforms, built)
  BY <1>1, <1>2, BuiltLeast DEF BuiltFor
<1>4. root \in built
  BY <1>2, <1>3 DEF Closed
<1>5. root[2] = RootOf(w)
  BY DEF RootNode
<1>6. e \in ActiveEdges(copy, root, platforms[root[1]])
  BY <1>1, <1>2, <1>5 DEF ActiveEdges, Active, InjectedEdge
<1>7. Child(copy, root, e) \in built
  BY <1>3, <1>4, <1>6 DEF Closed
<1>8. Child(copy, root, e) = <<"host", m>>
  <2>1. e.to = m /\ m \in copy.procMacros
    BY <1>2 DEF InjectedEdge, Macros
  <2>2. QED
    BY <2>1 DEF Child, SideOf
<1>9. QED
  BY <1>1, <1>7, <1>8 DEF BuiltOn

LEMMA MacroDeps ==
  ASSUME Merged, NEW m \in Macros(request.workspace), NEW platform
  PROVE  DepsOf(request.workspace, <<"host", m>>, platform) \subseteq DepsOf(copy, <<"host", m>>, platform)
<1> DEFINE w == request.workspace
           n == <<"host", m>>
<1>1. ToSet(w.edges) \subseteq ToSet(copy.edges) /\ ToSet(w.roots) \subseteq ToSet(copy.roots)
  BY MergedFacts, InjectType
<1>2. w \in Workspace /\ copy \in Workspace
  BY MergedFacts
<1>3. \A x \in Workspace : \A r : Contains(x.roots, r) <=> r \in ToSet(x.roots)
  <2>1. \A x \in Workspace : DOMAIN x.roots = 1..Len(x.roots)
    BY DEF Workspace
  <2>2. QED
    BY <2>1 DEF Contains, ToSet
<1>4. \A e : Active(w, n, platform, e) => Active(copy, n, platform, e)
  BY <1>1, <1>2, <1>3 DEF Active
<1>5. ActiveEdges(w, n, platform) \subseteq ActiveEdges(copy, n, platform)
  BY <1>1, <1>4 DEF ActiveEdges
<1>6. QED
  BY <1>5 DEF DepsOf

LEMMA OnEveryHost == Merged => MacrosOnEveryHost
<1> SUFFICES ASSUME Merged, NEW m \in Macros(request.workspace), NEW h \in Hosts
             PROVE  /\ m \in DOMAIN metadata
                    /\ DepsOf(request.workspace, <<"host", m>>, CargoOf[h]) \subseteq Selected(m, h).deps
                    /\ request.workspace.features[m]["host"][CargoOf[h]] \subseteq Selected(m, h).features
  BY Zenon DEF MacrosOnEveryHost, Macros
<1>1. BuiltOn(m, "host", h)
  BY MacroBuilt
<1>2. "host" \in SidesOf(m, h)
  BY <1>1, ContextsAre
<1>3. m \in DOMAIN metadata /\ Selected(m, h) = Resolved(Contexts, m, h)
  BY <1>1, SelectedIs
<1> DEFINE sides == SidesOf(m, h)
           features(side) == copy.features[m][side][CargoOf[h]]
           deps(side) == DepsOf(copy, <<side, m>>, CargoOf[h])
<1>4. Selected(m, h) = [features |-> UNION {features(side) : side \in sides},
                        deps |-> UNION {deps(side) : side \in sides}]
  BY <1>3 DEF Resolved, SidesOf
<1>5. copy.features = request.workspace.features
  BY MergedFacts, InjectType
<1>6. features("host") = request.workspace.features[m]["host"][CargoOf[h]]
  BY <1>5
<1>7. DepsOf(request.workspace, <<"host", m>>, CargoOf[h]) \subseteq deps("host")
  BY MacroDeps
<1> HIDE DEF features, deps, sides
<1>8. features("host") \subseteq Selected(m, h).features /\ deps("host") \subseteq Selected(m, h).deps
  BY <1>2, <1>4 DEF sides
<1>9. QED
  BY <1>3, <1>6, <1>7, <1>8

(***************************************************************************)
(* The resolver makes of the outputs of cargo what Cargo resolved, whatever *)
(* the workspace, the triples and the platforms (generate).                *)
(***************************************************************************)
THEOREM TreesAreMerged == Spec => []TreesMerged
<1>1. Init => IInv /\ StageInv
  BY IInvInit, StageInit
<1>2. IInv /\ StageInv /\ [Next]_vars => IInv' /\ StageInv'
  BY IInvStep, StageStep
<1>3. IInv /\ StageInv => TreesMerged
  <2>1. Merged => ResolvesExactly /\ MacrosOnEveryHost
    BY Exactly, OnEveryHost
  <2>2. result # "success" => ResolvesExactly /\ MacrosOnEveryHost
    BY Zenon DEF ResolvesExactly, MacrosOnEveryHost
  <2>3. QED
    BY <2>1, <2>2, Understood DEF TreesMerged, Merged
<1>4. QED
  BY <1>1, <1>2, <1>3, PTL DEF Spec
=============================================================================
