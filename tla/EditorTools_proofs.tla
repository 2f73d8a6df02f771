------------------------- MODULE EditorTools_proofs -------------------------
(***************************************************************************)
(* Proofs about the two tools that write files for an editor.              *)
(* RustProject, for any workspace with finitely many targets that have     *)
(* labels of their own: what its specs are merged to, how its crates are   *)
(* ordered, and when a cycle is reported.  LaunchJson, for any workspace   *)
(* and any edits: that Label's parser and its grammar agree, and what      *)
(* becomes of the configurations in launch.json.                           *)
(***************************************************************************)
EXTENDS RustProject, LaunchJson, FiniteSetTheorems, FunctionTheorems, NaturalsInduction,
        WellFoundedInduction, TLAPS

(***************************************************************************)
(* Induction, for a set instead of a predicate.                            *)
(***************************************************************************)
Less == {pair \in Nat \X Nat : pair[1] < pair[2]}

LEMMA Induct ==
  ASSUME NEW S, 0 \in S, \A n \in Nat : n \in S => n + 1 \in S
  PROVE  Nat \subseteq S
<1> SUFFICES ASSUME Nat \ S # {} PROVE FALSE
  OBVIOUS
<1>1. IsWellFoundedOn(Less, Nat)
  BY NatLessThanWellFounded DEF OpToRel, Less
<1>2. PICK n \in Nat \ S : \A m \in Nat \ S : ~(<<m, n>> \in Less)
  BY <1>1, WFMin
<1>3. n # 0 /\ n - 1 \in Nat /\ n - 1 + 1 = n
  BY <1>2
<1>4. n - 1 \in S
  <2> SUFFICES ASSUME n - 1 \in Nat \ S PROVE FALSE
    BY <1>3
  <2>1. <<n - 1, n>> \in Nat \X Nat /\ <<n - 1, n>>[1] = n - 1 /\ <<n - 1, n>>[2] = n
    BY <1>2, <1>3
  <2>2. <<n - 1, n>> \in Less
    BY <1>2, <2>1 DEF Less
  <2>3. QED
    BY <1>2, <2>2
<1>5. QED
  BY <1>2, <1>3, <1>4

(***************************************************************************)
(* What the spec of a crate is when a set of files for it was read.        *)
(***************************************************************************)
Of(f) == Target(f[1])

SpecFields == {"id", "name", "type", "test", "deps", "aliases", "cfg", "build", "dylib"}

SpecIs(spec, id, files) ==
  /\ DOMAIN spec = SpecFields /\ spec.id = id
  /\ spec.cfg = UNION {Of(f).cfg : f \in files}
  /\ spec.deps = (UNION {{IdOf(l) : l \in Of(f).deps} : f \in files}) \ {id}
  /\ DOMAIN spec.aliases = UNION {{IdOf(l) : l \in DOMAIN Of(f).aliases} : f \in files}
  /\ \A dep \in DOMAIN spec.aliases : \E f \in files : \E l \in DOMAIN Of(f).aliases :
       IdOf(l) = dep /\ spec.aliases[dep] = Of(f).aliases[l]
  /\ (\E f \in files : Of(f).type = "rlib") =>
       /\ spec.type = "rlib"
       /\ \E f \in files : Of(f).type = "rlib" /\ spec.name = Of(f).name
  /\ (\E f \in files : Of(f).test /\ ~Of(f).external) =>
       \E f \in files : Of(f).test /\ ~Of(f).external /\ spec.build = Of(f).label
  /\ (\E f \in files : Of(f).type = "proc-macro" /\ f[2] = "opt-exec") => spec.dylib = "opt-exec"

FilesRead == ReadFiles \ unread
FilesOf(id, files) == {f \in files : IdOf(f[1]) = id}

(* The spec of one file. *)
LEMMA SpecOfOne ==
  ASSUME NEW f
  PROVE  SpecIs(SpecOf(Of(f), f[2]), IdOf(f[1]), {f})
<1> DEFINE t == Of(f)
           spec == SpecOf(t, f[2])
           id == IdOf(f[1])
<1>1. /\ DOMAIN spec = SpecFields /\ spec.id = t.root /\ spec.name = t.name /\ spec.type = t.type
      /\ spec.deps = {IdOf(l) : l \in t.deps} \ {t.root} /\ spec.cfg = t.cfg
      /\ spec.build = (IF t.external THEN None ELSE t.label)
      /\ spec.dylib = (IF t.type = "proc-macro" THEN f[2] ELSE None)
      /\ spec.aliases = [i \in {IdOf(l) : l \in DOMAIN t.aliases} |->
           t.aliases[CHOOSE l \in DOMAIN t.aliases : IdOf(l) = i]]
  BY DEF SpecOf, SpecFields
<1>2. id = t.root
  BY DEF IdOf, Of
<1>3. /\ DOMAIN spec.aliases = {IdOf(l) : l \in DOMAIN t.aliases}
      /\ \A dep \in DOMAIN spec.aliases : \E l \in DOMAIN t.aliases :
           IdOf(l) = dep /\ spec.aliases[dep] = t.aliases[l]
  <2>1. DOMAIN spec.aliases = {IdOf(l) : l \in DOMAIN t.aliases}
    BY <1>1
  <2>2. ASSUME NEW dep \in DOMAIN spec.aliases
        PROVE  \E l \in DOMAIN t.aliases : IdOf(l) = dep /\ spec.aliases[dep] = t.aliases[l]
    <3> DEFINE c == CHOOSE l \in DOMAIN t.aliases : IdOf(l) = dep
    <3>1. c \in DOMAIN t.aliases /\ IdOf(c) = dep
      BY <2>1
    <3>2. spec.aliases[dep] = t.aliases[c]
      BY <1>1, <2>1
    <3>3. QED
      BY <3>1, <3>2
  <2>3. QED
    BY <2>1, <2>2
<1> HIDE DEF spec, t, id
<1>4. /\ UNION {Of(g).cfg : g \in {f}} = t.cfg
      /\ UNION {{IdOf(l) : l \in Of(g).deps} : g \in {f}} = {IdOf(l) : l \in t.deps}
      /\ UNION {{IdOf(l) : l \in DOMAIN Of(g).aliases} : g \in {f}} = {IdOf(l) : l \in DOMAIN t.aliases}
  BY DEF t
<1>5. SpecIs(spec, id, {f})
  <2>1. spec.deps = (UNION {{IdOf(l) : l \in Of(g).deps} : g \in {f}}) \ {id}
    <3>1. spec.deps = {IdOf(l) : l \in t.deps} \ {id}
      BY <1>1, <1>2
    <3>2. QED
      BY <3>1, <1>4
  <2>2. \A dep \in DOMAIN spec.aliases : \E g \in {f} : \E l \in DOMAIN Of(g).aliases :
          IdOf(l) = dep /\ spec.aliases[dep] = Of(g).aliases[l]
    BY <1>3 DEF t
  <2>3. (\E g \in {f} : Of(g).type = "rlib") =>
          /\ spec.type = "rlib"
          /\ \E g \in {f} : Of(g).type = "rlib" /\ spec.name = Of(g).name
    BY <1>1 DEF t
  <2>4. (\E g \in {f} : Of(g).test /\ ~Of(g).external) =>
          \E g \in {f} : Of(g).test /\ ~Of(g).external /\ spec.build = Of(g).label
    BY <1>1 DEF t
  <2>5. (\E g \in {f} : Of(g).type = "proc-macro" /\ g[2] = "opt-exec") => spec.dylib = "opt-exec"
    BY <1>1 DEF t
  <2>6. QED
    BY <1>1, <1>2, <1>3, <1>4, <2>1, <2>2, <2>3, <2>4, <2>5 DEF SpecIs
<1>6. QED
  BY <1>5 DEF spec, id, t

(* Merging in one file's spec more. *)
LEMMA MergedSpec ==
  ASSUME NEW f, NEW files, NEW old, SpecIs(old, IdOf(f[1]), files),
         Of(f).label # None
  PROVE  SpecIs(MergeSpec(old, SpecOf(Of(f), f[2])), IdOf(f[1]), files \union {f})
<1> DEFINE id == IdOf(f[1])
           spec == SpecOf(Of(f), f[2])
           new == MergeSpec(old, spec)
           all == files \union {f}
<1>1. SpecIs(spec, id, {f})
  BY SpecOfOne
<1>2. /\ spec.name = Of(f).name /\ spec.type = Of(f).type /\ spec.test = Of(f).test
      /\ spec.build = (IF Of(f).external THEN None ELSE Of(f).label)
  BY DEF SpecOf
<1>3. /\ DOMAIN new = SpecFields /\ new.id = old.id /\ new.deps = old.deps \union spec.deps
      /\ new.aliases = BothAliases(old, spec) /\ new.cfg = old.cfg \union spec.cfg
      /\ new.name = (IF spec.type = "rlib" THEN spec.name ELSE old.name)
      /\ new.type = (IF spec.type = "rlib" THEN spec.type ELSE old.type)
      /\ new.build = (IF spec.test /\ spec.build # None THEN spec.build ELSE old.build)
      /\ new.dylib = (IF spec.dylib = "opt-exec" THEN spec.dylib ELSE old.dylib)
  <2>1. DOMAIN old = SpecFields
    BY DEF SpecIs
  <2>2. QED
    BY <2>1 DEF MergeSpec, SpecFields
<1> HIDE DEF id, spec, new
<1>4. new.id = id /\ new.cfg = UNION {Of(g).cfg : g \in all}
  <2>1. old.id = id /\ old.cfg = UNION {Of(g).cfg : g \in files} /\ spec.cfg = UNION {Of(g).cfg : g \in {f}}
    BY <1>1 DEF SpecIs, id
  <2>2. QED
    BY <1>3, <2>1
<1>5. new.deps = (UNION {{IdOf(l) : l \in Of(g).deps} : g \in all}) \ {id}
  <2>1. /\ old.deps = (UNION {{IdOf(l) : l \in Of(g).deps} : g \in files}) \ {id}
        /\ spec.deps = (UNION {{IdOf(l) : l \in Of(g).deps} : g \in {f}}) \ {id}
    BY <1>1 DEF SpecIs, id
  <2>2. QED
    BY <1>3, <2>1
<1>6. DOMAIN new.aliases = UNION {{IdOf(l) : l \in DOMAIN Of(g).aliases} : g \in all}
  <2>1. /\ DOMAIN old.aliases = UNION {{IdOf(l) : l \in DOMAIN Of(g).aliases} : g \in files}
        /\ DOMAIN spec.aliases = UNION {{IdOf(l) : l \in DOMAIN Of(g).aliases} : g \in {f}}
    BY <1>1 DEF SpecIs, id
  <2>2. DOMAIN new.aliases = DOMAIN old.aliases \union DOMAIN spec.aliases
    BY <1>3 DEF BothAliases
  <2>3. QED
    BY <2>1, <2>2
<1>7. ASSUME NEW dep \in DOMAIN new.aliases
      PROVE  \E g \in all : \E l \in DOMAIN Of(g).aliases :
               IdOf(l) = dep /\ new.aliases[dep] = Of(g).aliases[l]
  <2>1. DOMAIN new.aliases = DOMAIN old.aliases \union DOMAIN spec.aliases
    BY <1>3 DEF BothAliases
  <2>2. CASE dep \in DOMAIN spec.aliases
    <3>1. new.aliases[dep] = spec.aliases[dep]
      BY <1>3, <2>2 DEF BothAliases
    <3>2. \E l \in DOMAIN Of(f).aliases : IdOf(l) = dep /\ spec.aliases[dep] = Of(f).aliases[l]
      BY <1>1, <2>2 DEF SpecIs
    <3>3. QED
      BY <3>1, <3>2
  <2>3. CASE dep \notin DOMAIN spec.aliases
    <3>1. dep \in DOMAIN old.aliases /\ new.aliases[dep] = old.aliases[dep]
      BY <1>3, <2>1, <2>3 DEF BothAliases
    <3>2. \E g \in files : \E l \in DOMAIN Of(g).aliases :
            IdOf(l) = dep /\ old.aliases[dep] = Of(g).aliases[l]
      BY <3>1 DEF SpecIs
    <3>3. QED
      BY <3>1, <3>2
  <2>4. QED
    BY <2>2, <2>3
<1>8. (\E g \in all : Of(g).type = "rlib") =>
        /\ new.type = "rlib"
        /\ \E g \in all : Of(g).type = "rlib" /\ new.name = Of(g).name
  <2>1. (\E g \in files : Of(g).type = "rlib") =>
          old.type = "rlib" /\ \E g \in files : Of(g).type = "rlib" /\ old.name = Of(g).name
    BY DEF SpecIs
  <2>2. QED
    BY <1>2, <1>3, <2>1
<1>9. (\E g \in all : Of(g).test /\ ~Of(g).external) =>
        \E g \in all : Of(g).test /\ ~Of(g).external /\ new.build = Of(g).label
  <2>1. (\E g \in files : Of(g).test /\ ~Of(g).external) =>
          \E g \in files : Of(g).test /\ ~Of(g).external /\ old.build = Of(g).label
    BY DEF SpecIs
  <2>2. CASE spec.test /\ spec.build # None
    BY <1>2, <1>3, <2>2
  <2>3. CASE ~(spec.test /\ spec.build # None)
    <3>1. ~(Of(f).test /\ ~Of(f).external) /\ new.build = old.build
      BY <1>2, <1>3, <2>3
    <3>2. QED
      BY <2>1, <3>1
  <2>4. QED
    BY <2>2, <2>3
<1>10. (\E g \in all : Of(g).type = "proc-macro" /\ g[2] = "opt-exec") => new.dylib = "opt-exec"
  BY <1>1, <1>3 DEF SpecIs
<1>11. SpecIs(new, id, all)
  BY <1>3, <1>4, <1>5, <1>6, <1>7, <1>8, <1>9, <1>10 DEF SpecIs
<1>12. QED
  BY <1>11 DEF new, spec, id
-----------------------------------------------------------------------------
(***************************************************************************)
(* The search for a cycle finds one exactly where crates wait for each     *)
(* other: crates of which each has a dependency among them.  (detect_cycle)*)
(***************************************************************************)
Waiting(set) == \A id \in set : specs[id].deps \intersect set # {}

LEMMA CycleIsDetected ==
  ASSUME NEW left, IsFiniteSet(left)
  PROVE  DetectsCycle(left) <=> \E set \in SUBSET left : set # {} /\ Waiting(set)
<1> DEFINE detect[path \in SUBSET left] ==
             {id \in left : id \in path \/ specs[id].deps \intersect detect[path \union {id}] # {}}
           Next_(d) ==
             [path \in SUBSET left |->
               {id \in left : id \in path \/ specs[id].deps \intersect d[path \union {id}] # {}}]
           IsDetect(d) == d = Next_(d)
           chosen == CHOOSE d : IsDetect(d)
           reach == [path \in SUBSET left |->
                      {id \in left : \E s \in SUBSET left :
                         id \in s /\ \A x \in s \ path : specs[x].deps \intersect s # {}}]
<1>1. DetectsCycle(left) <=> chosen[{}] # {}
  <2>1. DetectsCycle(left) <=> detect[{}] # {}
    BY DEF DetectsCycle
  <2>2. detect = chosen
    BY Zenon DEF detect, chosen, IsDetect, Next_
  <2> HIDE DEF detect, chosen
  <2>3. QED
    BY <2>1, <2>2
<1>2. IsDetect(reach)
  <2> HIDE DEF detect, chosen
  <2>1. ASSUME NEW path \in SUBSET left, NEW id \in left
        PROVE  id \in reach[path] <=>
                 id \in path \/ specs[id].deps \intersect reach[path \union {id}] # {}
    <3> DEFINE there == path \union {id}
    <3>1. there \in SUBSET left
      OBVIOUS
    <3>2. CASE id \in path
      <4>1. {id} \in SUBSET left
        OBVIOUS
      <4>2. QED
        BY <3>2, <4>1
    <3>3. ASSUME id \notin path, id \in reach[path]
          PROVE  specs[id].deps \intersect reach[there] # {}
      <4>1. PICK s \in SUBSET left :
              id \in s /\ \A x \in s \ path : specs[x].deps \intersect s # {}
        BY <3>3
      <4>2. PICK dep \in s : dep \in specs[id].deps
        BY <3>3, <4>1
      <4>3. \A x \in s \ there : specs[x].deps \intersect s # {}
        BY <4>1
      <4>4. dep \in reach[there]
        BY <3>1, <4>2, <4>3
      <4>5. QED
        BY <4>2, <4>4
    <3>4. ASSUME NEW dep \in specs[id].deps, dep \in reach[there]
          PROVE  id \in reach[path]
      <4>1. PICK s \in SUBSET left :
              dep \in s /\ \A x \in s \ there : specs[x].deps \intersect s # {}
        BY <3>1, <3>4
      <4>2. s \union {id} \in SUBSET left
        OBVIOUS
      <4>3. \A x \in (s \union {id}) \ path : specs[x].deps \intersect (s \union {id}) # {}
        BY <3>4, <4>1
      <4>4. QED
        BY <4>2, <4>3
    <3>5. QED
      BY <3>2, <3>3, <3>4
  <2>2. QED
    BY <2>1
<1> HIDE DEF detect, reach
<1>3. IsDetect(chosen)
  <2> HIDE DEF IsDetect
  <2>1. QED
    BY <1>2, Zenon DEF chosen
<1> HIDE DEF chosen
<1>4. \A path \in SUBSET left : chosen[path] = reach[path]
  <2> DEFINE S == {n \in Nat : \A path \in SUBSET left :
                     Cardinality(left \ path) <= n => chosen[path] = reach[path]}
  <2>1. ASSUME NEW path \in SUBSET left,
               \A id \in left \ path : chosen[path \union {id}] = reach[path \union {id}]
        PROVE  chosen[path] = reach[path]
    <3>1. /\ chosen[path] = {id \in left : id \in path \/
                               specs[id].deps \intersect chosen[path \union {id}] # {}}
          /\ reach[path] = {id \in left : id \in path \/
                              specs[id].deps \intersect reach[path \union {id}] # {}}
      BY <1>2, <1>3
    <3>2. QED
      BY <2>1, <3>1
  <2>2. \A path \in SUBSET left :
          IsFiniteSet(left \ path) /\ Cardinality(left \ path) \in Nat
    BY FS_Subset, FS_CardinalityType
  <2>3. 0 \in S
    <3> SUFFICES ASSUME NEW path \in SUBSET left, Cardinality(left \ path) <= 0
                 PROVE  chosen[path] = reach[path]
      OBVIOUS
    <3>1. left \ path = {}
      BY <2>2, FS_EmptySet
    <3>2. QED
      BY <2>1, <3>1
  <2>4. ASSUME NEW n \in Nat, n \in S PROVE n + 1 \in S
    <3> SUFFICES ASSUME NEW path \in SUBSET left, Cardinality(left \ path) <= n + 1
                 PROVE  chosen[path] = reach[path]
      OBVIOUS
    <3>1. ASSUME NEW id \in left \ path
          PROVE  chosen[path \union {id}] = reach[path \union {id}]
      <4>1. left \ (path \union {id}) = (left \ path) \ {id} /\ path \union {id} \in SUBSET left
        OBVIOUS
      <4>2. Cardinality((left \ path) \ {id}) = Cardinality(left \ path) - 1
        BY <2>2, FS_RemoveElement
      <4> DEFINE m == Cardinality(left \ path)
      <4>3. m - 1 <= n
        <5>1. m \in Nat /\ m <= n + 1
          BY <2>2
        <5> HIDE DEF m
        <5>2. QED
          BY <5>1
      <4>4. Cardinality(left \ (path \union {id})) <= n
        BY <4>1, <4>2, <4>3
      <4>5. QED
        BY <2>4, <4>1, <4>4
    <3>2. QED
      BY <2>1, <3>1
  <2> HIDE DEF S
  <2>5. Nat \subseteq S
    BY <2>3, <2>4, Induct
  <2>6. ASSUME NEW path \in SUBSET left PROVE chosen[path] = reach[path]
    <3>1. Cardinality(left \ path) \in S /\ Cardinality(left \ path) \in Nat
      BY <2>2, <2>5
    <3>2. Cardinality(left \ path) <= Cardinality(left \ path)
      BY <3>1
    <3>3. QED
      BY <3>1, <3>2 DEF S
  <2>7. QED
    BY <2>6
<1>5. reach[{}] # {} <=> \E set \in SUBSET left : set # {} /\ Waiting(set)
  BY DEF reach, Waiting
<1>6. QED
  BY <1>1, <1>4, <1>5
-----------------------------------------------------------------------------
(***************************************************************************)
(* The request stays what it is, and with it the files and the targets.    *)
(***************************************************************************)
LEMMA Frozen ==
  ASSUME request' = request
  PROVE  /\ ReadFiles' = ReadFiles /\ ReadIds' = ReadIds
         /\ \A f : Of(f)' = Of(f)
         /\ \A l : IdOf(l)' = IdOf(l)
<1>1. \A l : Target(l)' = Target(l)
  BY DEF Target, Ws
<1>2. \A l : IdOf(l)' = IdOf(l)
  BY <1>1 DEF IdOf
<1>3. \A f : Of(f)' = Of(f)
  BY <1>1 DEF Of
<1>4. ReadFiles' = ReadFiles
  <2>1. Labels' = Labels /\ Ws' = Ws /\ Requested' = Requested
    BY DEF Labels, Ws, Requested, TargetsOf, Buildfile
  <2>2. \A set : Closure(set)' = Closure(set)
    BY <1>1, <2>1 DEF Closure
  <2>3. \A set : SpecFiles(set)' = SpecFiles(set)
    BY <1>1, <2>2 DEF SpecFiles
  <2>4. QED
    BY <2>1, <2>3 DEF ReadFiles
<1>5. QED
  BY <1>2, <1>3, <1>4 DEF ReadIds

LEMMA FrozenSpec ==
  ASSUME request' = request
  PROVE  \A spec, id, files : SpecIs(spec, id, files)' <=> SpecIs(spec, id, files)
BY Frozen DEF SpecIs

LEMMA FileFacts ==
  ASSUME request \in Requests
  PROVE  /\ IsFiniteSet(ReadIds)
         /\ \A f \in ReadFiles :
              /\ Of(f) \in Ws.targets /\ Of(f).label = f[1] /\ Of(f).label # None
              /\ f = <<f[1], f[2]>> /\ IdOf(f[1]) \in ReadIds
<1>1. IsFiniteSet(Ws.targets) /\ \A t, u \in Ws.targets : t.label # None /\ (t.label = u.label => t = u)
  BY RequestsAssumption DEF Ws
<1>2. ASSUME NEW f \in ReadFiles
      PROVE  /\ Of(f) \in Ws.targets /\ Of(f).label = f[1] /\ f = <<f[1], f[2]>>
             /\ IdOf(f[1]) \in {t.root : t \in Ws.targets}
  <2> DEFINE set == Closure(Local(Requested[1]))
  <2>1. f \in set \X {"target", "opt-exec"}
    BY DEF ReadFiles, SpecFiles
  <2>2. f[1] \in set /\ f = <<f[1], f[2]>>
    <3> HIDE DEF set
    <3>1. QED
      BY <2>1
  <2>3. \E t \in Ws.targets : t.label = f[1]
    BY <2>2 DEF Closure, Labels
  <2>4. Target(f[1]) \in Ws.targets /\ Target(f[1]).label = f[1]
    BY <2>3 DEF Target
  <2>5. QED
    BY <2>2, <2>4 DEF Of, IdOf
<1>3. IsFiniteSet({t.root : t \in Ws.targets})
  <2> DEFINE S == Ws.targets
             root == [t \in S |-> t.root]
  <2>1. root \in Surjection(S, {t.root : t \in S})
    BY Fun_IsSurj
  <2>2. QED
    BY <1>1, <2>1, FS_Surjection
<1>4. ReadIds \subseteq {t.root : t \in Ws.targets}
  BY <1>2 DEF ReadIds
<1>5. QED
  BY <1>1, <1>2, <1>3, <1>4, FS_Subset DEF ReadIds
-----------------------------------------------------------------------------
(***************************************************************************)
(* The invariant.  Until the files are read there are no crates; each spec *)
(* is what the files read so far make of it; then every crate is in the    *)
(* project or in the pass, one that was skipped in a pass that has merged  *)
(* nothing waits for a crate that is not there, and a crate's dependencies *)
(* are those of its spec, by the indices of crates before it.              *)
(***************************************************************************)
SpecsRight ==
  /\ unread \subseteq ReadFiles
  /\ DOMAIN specs = {IdOf(f[1]) : f \in FilesRead}
  /\ \A id \in DOMAIN specs : SpecIs(specs[id], id, FilesOf(id, FilesRead))

CrateIs(n) ==
  LET crate == crates[n]
      spec  == specs[crate.id]
  IN  /\ crate.id \in DOMAIN specs
      /\ crate.name = spec.name /\ crate.kind = KindOf(spec) /\ crate.cfg = spec.cfg
      /\ crate.build = spec.build /\ crate.dylib = spec.dylib
      /\ \A d \in crate.deps :
           /\ d.index \in 1..(n - 1) /\ crates[d.index].id \in spec.deps
           /\ d.name = IF crates[d.index].id \in DOMAIN spec.aliases
                       THEN spec.aliases[crates[d.index].id] ELSE crates[d.index].name
      /\ \A dep \in spec.deps : \E d \in crate.deps : crates[d.index].id = dep

CratesRight ==
  /\ Len(crates) \in Nat /\ crates = [n \in 1..Len(crates) |-> crates[n]]
  /\ \A n \in 1..Len(crates) : CrateIs(n)
  /\ \A n, k \in 1..Len(crates) : crates[n].id = crates[k].id => n = k

Progress ==
  /\ todo \union skipped \subseteq pass /\ todo \intersect skipped = {}
  /\ Ids \union pass = DOMAIN specs /\ Ids \intersect (todo \union skipped) = {}
  /\ pass \subseteq todo \union skipped \union Ids
  /\ pass \subseteq todo \union skipped =>
       \A id \in skipped : \E dep \in specs[id].deps : dep \notin Ids

NoCrates == pass = {} /\ todo = {} /\ skipped = {} /\ crates = <<>>

Before ==
  stage \in {"info", "build", "failed", "killed"} /\ specs = <<>> /\ NoCrates

Reading ==
  /\ stage \in {"read", "locate", "failed", "killed"} /\ SpecsRight /\ NoCrates
  /\ stage = "locate" => unread = {}

Ordering ==
  /\ stage \in {"assemble", "write", "create", "flush", "done", "failed", "killed"}
  /\ SpecsRight /\ unread = {} /\ CratesRight /\ Progress
  /\ stage \in {"write", "create", "flush", "done"} => pass = {}
  /\ stage \in {"write", "create", "flush"} => request.tool = "gen"
  /\ stage = "failed" /\ pass # {} =>
       todo = {} /\ skipped = pass /\ warned = DetectsCycle(pass)

Outside ==
  /\ request \in Requests /\ warned \in BOOLEAN /\ file \in {"none", "old", "partial", "new"}
  /\ stage \notin Ended => lines = <<>>
  /\ Len(lines) <= 1

IInv == Outside /\ (Before \/ Reading \/ Ordering)

LEMMA InitIInv == Init => IInv
<1> SUFFICES ASSUME Init PROVE IInv
  OBVIOUS
<1>1. Before
  BY DEF Init, Before, NoCrates
<1>2. Outside
  <2>1. request \in Requests /\ file \in {"none", "old"} /\ lines = <<>> /\ warned = FALSE
    BY RequestsAssumption DEF Init
  <2>2. Len(<<>>) <= 1
    OBVIOUS
  <2>3. QED
    BY <2>1, <2>2 DEF Outside
<1>3. QED
  BY <1>1, <1>2 DEF IInv

(* What the steps do outside of the project. *)
LEMMA OutsideStep ==
  ASSUME Outside, [Next]_vars
  PROVE  Outside' /\ request' = request
<1> USE DEF Outside
<1>1. request' = request
  BY DEF Next, Proceed, Killed, vars, Info, Build, Read, ReadFails, AllRead, Locate,
         Assemble, NextPass, NoProgress, Assembled, RemoveOld, Write, Flush
<1>2. warned' \in BOOLEAN
  BY DEF Next, Proceed, Killed, vars, Info, Build, Read, ReadFails, AllRead, Locate,
         Assemble, NextPass, NoProgress, Assembled, RemoveOld, Write, Flush, Project, DetectsCycle
<1>3. file' \in {"none", "old", "partial", "new"}
  BY DEF Next, Proceed, Killed, vars, Info, Build, Read, ReadFails, AllRead, Locate,
         Assemble, NextPass, NoProgress, Assembled, RemoveOld, Write, Flush
<1>4. (stage' \notin Ended => lines' = <<>>) /\ Len(lines') <= 1
  <2>1. ASSUME NEW kind, lines = <<>>, Answer(kind) PROVE Len(lines') <= 1
    <3>1. Len(<<>>) <= 1 /\ Len(<<kind>>) <= 1 /\ Append(<<>>, kind) = <<kind>>
      OBVIOUS
    <3>2. QED
      BY <2>1, <3>1 DEF Answer
  <2>2. CASE UNCHANGED <<stage, lines>>
    BY <2>2
  <2>3. CASE lines' = lines /\ stage \notin Ended
    BY <2>3
  <2>4. ASSUME NEW kind, Answer(kind), stage \notin Ended, stage' \in Ended
        PROVE  (stage' \notin Ended => lines' = <<>>) /\ Len(lines') <= 1
    BY <2>1, <2>4
  <2>5. \/ UNCHANGED <<stage, lines>>
        \/ lines' = lines /\ stage \notin Ended
        \/ (Answer("error") \/ Answer("finished")) /\ stage \notin Ended /\ stage' \in Ended
    BY DEF Next, Proceed, Killed, vars, Info, Build, Read, ReadFails, AllRead, Locate,
           Assemble, NextPass, NoProgress, Assembled, RemoveOld, Write, Flush, Fail, Ended
  <2>6. QED
    BY <2>2, <2>3, <2>4, <2>5
<1>5. QED
  BY <1>1, <1>2, <1>3, <1>4
-----------------------------------------------------------------------------
(***************************************************************************)
(* Reading.  Nothing of the project changes in the other steps before the  *)
(* crates are ordered.                                                     *)
(***************************************************************************)
LEMMA SpecsRightSame ==
  ASSUME SpecsRight, request' = request, UNCHANGED <<unread, specs>>
  PROVE  SpecsRight'
<1>1. FilesRead' = FilesRead /\ ReadFiles' = ReadFiles /\ \A f : IdOf(f[1])' = IdOf(f[1])
  BY Frozen DEF FilesRead
<1>2. \A id, files : FilesOf(id, files)' = FilesOf(id, files)
  BY <1>1 DEF FilesOf
<1>3. QED
  BY <1>1, <1>2, FrozenSpec DEF SpecsRight

(* The first step of reading: no file is read, and no crate has a spec. *)
LEMMA BuildStep ==
  ASSUME Before, Build, request' = request
  PROVE  Before' \/ Reading'
<1>1. specs = <<>> /\ NoCrates /\ UNCHANGED <<specs, pass, todo, skipped, crates>>
  BY DEF Before, Build, Project
<1>2. NoCrates' /\ specs' = <<>>
  BY <1>1 DEF NoCrates
<1>3. CASE stage' = "failed"
  BY <1>2, <1>3 DEF Before
<1>4. CASE stage' # "failed"
  <2>1. stage' = "read" /\ unread' = ReadFiles
    BY <1>4 DEF Build, Fail, ReadFiles
  <2>2. unread' = ReadFiles' /\ FilesRead' = {}
    BY <2>1, Frozen DEF FilesRead
  <2>3. DOMAIN specs' = {}
    BY <1>2
  <2>4. SpecsRight'
    BY <2>2, <2>3 DEF SpecsRight
  <2>5. QED
    BY <1>2, <2>1, <2>4 DEF Reading
<1>5. QED
  BY <1>3, <1>4

LEMMA ReadStep ==
  ASSUME Reading, Read, request' = request, request \in Requests
  PROVE  Reading'
<1>1. PICK f \in unread :
        unread' = unread \ {f} /\ specs' = Consolidate(SpecOf(Of(f), f[2]))
  BY DEF Read, Of
<1>2. /\ stage = "read" /\ stage' = "read" /\ SpecsRight /\ NoCrates
      /\ UNCHANGED <<pass, todo, skipped, crates>>
  BY DEF Reading, Read
<1> DEFINE key == IdOf(f[1])
           spec == SpecOf(Of(f), f[2])
<1>3. f \in ReadFiles /\ Of(f).label # None
  BY <1>1, <1>2, FileFacts DEF SpecsRight
<1>4. FilesRead' = FilesRead \union {f} /\ ReadFiles' = ReadFiles
  BY <1>1, <1>3, Frozen DEF FilesRead
<1>5. spec.id = key
  BY DEF SpecOf, IdOf, Of
<1>6. /\ DOMAIN specs' = DOMAIN specs \union {key}
      /\ \A id \in DOMAIN specs : id # key => specs'[id] = specs[id]
      /\ specs'[key] = IF key \in DOMAIN specs THEN MergeSpec(specs[key], spec) ELSE spec
  <2> HIDE DEF spec, key
  <2>1. specs' = Consolidate(spec)
    BY <1>1 DEF spec
  <2>2. QED
    BY <1>5, <2>1 DEF Consolidate
<1>7. DOMAIN specs' = {IdOf(g[1]) : g \in FilesRead \union {f}}
  BY <1>2, <1>6 DEF SpecsRight
<1>8. ASSUME NEW id \in DOMAIN specs'
      PROVE  SpecIs(specs'[id], id, FilesOf(id, FilesRead \union {f}))
  <2> HIDE DEF spec
  <2>1. CASE id # key
    <3>1. FilesOf(id, FilesRead \union {f}) = FilesOf(id, FilesRead)
      BY <2>1 DEF FilesOf
    <3>2. id \in DOMAIN specs /\ specs'[id] = specs[id]
      BY <1>6, <2>1
    <3>3. QED
      BY <1>2, <3>1, <3>2 DEF SpecsRight
  <2>2. CASE id = key /\ key \in DOMAIN specs
    <3>1. FilesOf(key, FilesRead \union {f}) = FilesOf(key, FilesRead) \union {f}
      BY DEF FilesOf
    <3>2. SpecIs(specs[key], key, FilesOf(key, FilesRead))
      BY <1>2, <2>2 DEF SpecsRight
    <3>3. SpecIs(MergeSpec(specs[key], spec), key, FilesOf(key, FilesRead) \union {f})
      BY <1>3, <3>2, MergedSpec DEF spec
    <3>4. QED
      BY <1>6, <2>2, <3>1, <3>3
  <2>3. CASE id = key /\ key \notin DOMAIN specs
    <3>1. FilesOf(key, FilesRead) = {}
      BY <1>2, <2>3 DEF SpecsRight, FilesOf
    <3>2. FilesOf(key, FilesRead \union {f}) = {f}
      BY <3>1 DEF FilesOf
    <3>3. SpecIs(spec, key, {f})
      BY SpecOfOne DEF spec
    <3>4. QED
      BY <1>6, <2>3, <3>2, <3>3
  <2>4. QED
    BY <1>6, <2>1, <2>2, <2>3
<1>9. SpecsRight'
  <2> HIDE DEF spec, key
  <2>1. unread' \subseteq ReadFiles'
    BY <1>1, <1>2, <1>4 DEF SpecsRight
  <2>2. DOMAIN specs' = {IdOf(g[1])' : g \in FilesRead'}
    BY <1>4, <1>7, Frozen
  <2>3. ASSUME NEW id \in DOMAIN specs' PROVE SpecIs(specs[id], id, FilesOf(id, FilesRead))'
    <3>1. FilesOf(id, FilesRead)' = FilesOf(id, FilesRead \union {f})
      BY <1>4, Frozen DEF FilesOf
    <3>2. QED
      BY <1>8, <3>1, FrozenSpec
  <2>4. QED
    BY <2>1, <2>2, <2>3 DEF SpecsRight
<1>10. NoCrates'
  BY <1>2 DEF NoCrates
<1>11. QED
  BY <1>2, <1>9, <1>10 DEF Reading

LEMMA LocateStep ==
  ASSUME Reading, Locate, request' = request
  PROVE  Reading' \/ Ordering'
<1>1. /\ SpecsRight /\ NoCrates /\ unread = {} /\ stage = "locate"
      /\ UNCHANGED <<unread, specs, skipped, crates>>
  BY DEF Reading, Locate
<1>2. SpecsRight' /\ unread' = {}
  BY <1>1, SpecsRightSame
<1>3. CASE toolchain = {}
  <2>1. stage' = "failed" /\ UNCHANGED <<pass, todo>>
    BY <1>3 DEF Locate, Fail
  <2>2. NoCrates'
    BY <1>1, <2>1 DEF NoCrates
  <2>3. QED
    BY <1>2, <2>1, <2>2 DEF Reading
<1>4. CASE toolchain # {}
  <2>1. stage' = "assemble" /\ pass' = DOMAIN specs' /\ todo' = DOMAIN specs' /\ skipped' = {}
    BY <1>1, <1>4 DEF Locate, NoCrates
  <2>2. crates' = <<>>
    BY <1>1 DEF NoCrates
  <2>3. Len(crates') = 0 /\ DOMAIN crates' = {}
    BY <2>2
  <2>4. Ids' = {}
    BY <2>3 DEF Ids
  <2>5. Progress'
    BY <2>1, <2>4 DEF Progress
  <2>6. CratesRight'
    <3>1. 1..Len(crates') = {}
      BY <2>3
    <3>2. crates' = [n \in 1..Len(crates') |-> crates'[n]]
      BY <2>2, <3>1
    <3>3. QED
      BY <2>3, <3>1, <3>2 DEF CratesRight
  <2>7. QED
    BY <1>2, <2>1, <2>5, <2>6 DEF Ordering
<1>5. QED
  BY <1>3, <1>4
-----------------------------------------------------------------------------
(***************************************************************************)
(* Ordering.                                                               *)
(***************************************************************************)
LEMMA IndexFound ==
  ASSUME NEW id, Merged(id)
  PROVE  IndexOf(id) \in DOMAIN crates /\ crates[IndexOf(id)].id = id
BY DEF Merged, IndexOf

LEMMA AppendAt ==
  ASSUME NEW s, NEW x, Len(s) \in Nat, s = [n \in 1..Len(s) |-> s[n]]
  PROVE  /\ Len(Append(s, x)) = Len(s) + 1
         /\ Append(s, x) = [n \in 1..(Len(s) + 1) |-> Append(s, x)[n]]
         /\ Append(s, x)[Len(s) + 1] = x
         /\ \A n \in 1..Len(s) : Append(s, x)[n] = s[n]
<1> DEFINE S == {s[n] : n \in 1..Len(s)} \union {x}
<1>1. s \in Seq(S)
  <2>1. [n \in 1..Len(s) |-> s[n]] \in [1..Len(s) -> S]
    OBVIOUS
  <2>2. QED
    BY <2>1
<1>2. x \in S
  OBVIOUS
<1> HIDE DEF S
<1>3. Append(s, x) \in Seq(S) /\ Len(Append(s, x)) = Len(s) + 1
  BY <1>1, <1>2
<1>4. \A n \in 1..(Len(s) + 1) : Append(s, x)[n] = IF n = Len(s) + 1 THEN x ELSE s[n]
  BY <1>1, <1>2
<1>5. Append(s, x) \in [1..(Len(s) + 1) -> S]
  <2> DEFINE t == Append(s, x)
  <2>1. t \in Seq(S) /\ Len(t) = Len(s) + 1
    BY <1>3
  <2> HIDE DEF t
  <2>2. t \in [1..Len(t) -> S]
    BY <2>1
  <2>3. QED
    BY <2>1, <2>2 DEF t
<1>6. Append(s, x) = [n \in 1..(Len(s) + 1) |-> Append(s, x)[n]]
  BY <1>5
<1>7. QED
  BY <1>3, <1>4, <1>6

(* A crate whose dependencies all are in the project is what CrateIs says. *)
LEMMA CrateOfIs ==
  ASSUME CratesRight, NEW id \in DOMAIN specs, specs[id].id = id,
         \A dep \in specs[id].deps : Merged(dep)
  PROVE  LET crate == CrateOf(specs[id])
             spec  == specs[id]
         IN  /\ crate.id = id
             /\ crate.name = spec.name /\ crate.kind = KindOf(spec) /\ crate.cfg = spec.cfg
             /\ crate.build = spec.build /\ crate.dylib = spec.dylib
             /\ \A d \in crate.deps :
                  /\ d.index \in 1..Len(crates) /\ crates[d.index].id \in spec.deps
                  /\ d.name = IF crates[d.index].id \in DOMAIN spec.aliases
                              THEN spec.aliases[crates[d.index].id] ELSE crates[d.index].name
             /\ \A dep \in spec.deps : \E d \in crate.deps : crates[d.index].id = dep
<1> DEFINE spec == specs[id]
           crate == CrateOf(spec)
<1>1. /\ crate.id = spec.id /\ crate.name = spec.name /\ crate.kind = KindOf(spec)
      /\ crate.cfg = spec.cfg /\ crate.build = spec.build /\ crate.dylib = spec.dylib
      /\ crate.deps = {[index |-> IndexOf(dep), name |-> DepName(spec, dep)] : dep \in spec.deps}
  BY DEF CrateOf
<1>2. DOMAIN crates = 1..Len(crates)
  BY DEF CratesRight
<1> HIDE DEF crate
<1>3. ASSUME NEW d \in crate.deps
      PROVE  /\ d.index \in 1..Len(crates) /\ crates[d.index].id \in spec.deps
             /\ d.name = IF crates[d.index].id \in DOMAIN spec.aliases
                         THEN spec.aliases[crates[d.index].id] ELSE crates[d.index].name
  <2>1. PICK dep \in spec.deps : d.index = IndexOf(dep) /\ d.name = DepName(spec, dep)
    BY <1>1
  <2>2. IndexOf(dep) \in 1..Len(crates) /\ crates[IndexOf(dep)].id = dep
    BY <1>2, <2>1, IndexFound
  <2>3. QED
    BY <2>1, <2>2 DEF DepName
<1>4. ASSUME NEW dep \in spec.deps PROVE \E d \in crate.deps : crates[d.index].id = dep
  <2> DEFINE d == [index |-> IndexOf(dep), name |-> DepName(spec, dep)]
  <2>1. d \in crate.deps /\ d.index = IndexOf(dep)
    BY <1>1
  <2>2. crates[d.index].id = dep
    BY <2>1, IndexFound
  <2>3. QED
    BY <2>1, <2>2
<1>5. QED
  BY <1>1, <1>3, <1>4 DEF crate

LEMMA AssembleStep ==
  ASSUME Ordering, Assemble, request' = request
  PROVE  Ordering'
<1>1. PICK id \in todo :
        /\ todo' = todo \ {id}
        /\ IF \E dep \in specs[id].deps : ~Merged(dep)
           THEN skipped' = skipped \union {id} /\ UNCHANGED crates
           ELSE crates' = Append(crates, CrateOf(specs[id])) /\ UNCHANGED skipped
  BY DEF Assemble
<1>2. /\ stage = "assemble" /\ stage' = "assemble" /\ UNCHANGED <<unread, specs, pass>>
      /\ SpecsRight /\ unread = {} /\ CratesRight /\ Progress
  BY DEF Ordering, Assemble
<1>3. SpecsRight' /\ unread' = {}
  BY <1>2, SpecsRightSame
<1>4. DOMAIN crates = 1..Len(crates) /\ Len(crates) \in Nat /\ id \in DOMAIN specs /\ id \notin Ids
  BY <1>2 DEF CratesRight, Progress
<1>5. \A i : i \in Ids <=> Merged(i)
  BY DEF Ids, Merged
<1>6. CASE \E dep \in specs[id].deps : ~Merged(dep)
  <2>1. skipped' = skipped \union {id} /\ crates' = crates
    BY <1>1, <1>6
  <2>2. CratesRight' /\ Ids' = Ids
    BY <1>2, <2>1 DEF CratesRight, CrateIs, Ids, KindOf
  <2>3. Progress'
    BY <1>1, <1>2, <1>4, <1>5, <1>6, <2>1, <2>2 DEF Progress
  <2>4. QED
    BY <1>2, <1>3, <2>2, <2>3 DEF Ordering
<1>7. CASE \A dep \in specs[id].deps : Merged(dep)
  <2> DEFINE crate == CrateOf(specs[id])
  <2>0. PICK last \in Nat : last = Len(crates) + 1
    BY <1>4
  <2>1. skipped' = skipped /\ crates' = Append(crates, crate)
    BY <1>1, <1>7
  <2>2. specs[id].id = id
    BY <1>2, <1>4 DEF SpecsRight, SpecIs
  <2>3. /\ crate.id = id
        /\ crate.name = specs[id].name /\ crate.kind = KindOf(specs[id]) /\ crate.cfg = specs[id].cfg
        /\ crate.build = specs[id].build /\ crate.dylib = specs[id].dylib
        /\ \A d \in crate.deps :
             /\ d.index \in 1..Len(crates) /\ crates[d.index].id \in specs[id].deps
             /\ d.name = IF crates[d.index].id \in DOMAIN specs[id].aliases
                         THEN specs[id].aliases[crates[d.index].id] ELSE crates[d.index].name
        /\ \A dep \in specs[id].deps : \E d \in crate.deps : crates[d.index].id = dep
    BY <1>2, <1>4, <1>7, <2>2, CrateOfIs
  <2> HIDE DEF crate
  <2>4. /\ Len(crates') = last /\ crates' = [n \in 1..last |-> crates'[n]]
        /\ crates'[last] = crate
        /\ \A n \in 1..Len(crates) : crates'[n] = crates[n]
    BY <1>2, <2>0, <2>1, AppendAt DEF CratesRight
  <2>5. DOMAIN crates' = 1..last
    BY <2>4
  <2>6. Ids' = Ids \union {id}
    <3>1. 1..last = (1..Len(crates)) \union {last}
      BY <1>4, <2>0
    <3>2. QED
      BY <1>4, <2>3, <2>4, <2>5, <3>1 DEF Ids
  <2>7. Progress'
    BY <1>1, <1>2, <1>4, <2>1, <2>6 DEF Progress
  <2>8. ASSUME NEW n \in 1..Len(crates) PROVE CrateIs(n)'
    <3>1. CrateIs(n)
      BY <1>2 DEF CratesRight
    <3>2. n - 1 \in Nat /\ 1..(n - 1) \subseteq 1..Len(crates) /\ crates'[n] = crates[n]
      BY <1>4, <2>4
    <3>3. \A d \in crates[n].deps : crates'[d.index] = crates[d.index]
      BY <2>4, <3>1, <3>2 DEF CrateIs
    <3>4. QED
      BY <1>2, <3>1, <3>2, <3>3 DEF CrateIs, KindOf
  <2>9. CrateIs(last)'
    <3>1. last - 1 = Len(crates)
      BY <1>4, <2>0
    <3>2. \A d \in crate.deps : crates'[d.index] = crates[d.index]
      BY <2>3, <2>4
    <3>3. QED
      BY <1>2, <1>4, <2>3, <2>4, <3>1, <3>2 DEF CrateIs, KindOf
  <2>10. CratesRight'
    <3>1. \A n \in 1..last : n \in 1..Len(crates) \/ n = last
      BY <1>4, <2>0
    <3>2. \A n \in 1..last : CrateIs(n)'
      BY <2>8, <2>9, <3>1
    <3>3. \A n, k \in 1..last : crates'[n].id = crates'[k].id => n = k
      <4>1. \A n \in 1..Len(crates) : crates[n].id \in Ids
        BY <1>4 DEF Ids
      <4>2. QED
        BY <1>2, <1>4, <2>3, <2>4, <3>1, <4>1 DEF CratesRight
    <3>4. QED
      BY <2>4, <3>2, <3>3 DEF CratesRight
  <2>11. QED
    BY <1>2, <1>3, <2>7, <2>10 DEF Ordering
<1>8. QED
  BY <1>6, <1>7

LEMMA OrderingSame ==
  ASSUME Ordering, request' = request,
         UNCHANGED <<unread, specs, pass, todo, skipped, crates>>
  PROVE  SpecsRight' /\ unread' = {} /\ CratesRight' /\ Progress'
<1>1. SpecsRight' /\ unread' = {}
  BY SpecsRightSame DEF Ordering
<1>2. CratesRight'
  BY DEF Ordering, CratesRight, CrateIs, KindOf
<1>3. Progress'
  BY DEF Ordering, Progress, Ids
<1>4. QED
  BY <1>1, <1>2, <1>3

LEMMA NextPassStep ==
  ASSUME Ordering, NextPass, request' = request
  PROVE  Ordering'
<1>1. /\ stage = "assemble" /\ stage' = "assemble" /\ UNCHANGED <<unread, specs, crates>>
      /\ todo = {} /\ pass' = skipped /\ todo' = skipped /\ skipped' = {}
      /\ SpecsRight /\ unread = {} /\ CratesRight /\ Progress
  BY DEF Ordering, NextPass
<1>2. SpecsRight' /\ unread' = {}
  BY <1>1, SpecsRightSame
<1>3. CratesRight'
  BY <1>1 DEF CratesRight, CrateIs, KindOf
<1>4. Progress'
  <2>1. Ids' = Ids
    BY <1>1 DEF Ids
  <2>2. Ids \union skipped = DOMAIN specs /\ Ids \intersect skipped = {}
    BY <1>1 DEF Progress
  <2>3. QED
    BY <1>1, <2>1, <2>2 DEF Progress
<1>5. QED
  BY <1>1, <1>2, <1>3, <1>4 DEF Ordering

(* A pass that made no progress has skipped all of its crates. *)
LEMMA NoProgressStep ==
  ASSUME Ordering, NoProgress, request' = request, request \in Requests
  PROVE  Ordering'
<1>1. /\ stage' = "failed" /\ UNCHANGED <<unread, specs, pass, todo, skipped, crates>>
      /\ todo = {} /\ Cardinality(pass) = Cardinality(skipped)
      /\ warned' = DetectsCycle(pass)
      /\ SpecsRight /\ unread = {} /\ Progress
  BY DEF Ordering, NoProgress, Fail
<1>2. SpecsRight' /\ unread' = {} /\ CratesRight' /\ Progress'
  BY <1>1, OrderingSame
<1>3. skipped = pass
  <2>1. DOMAIN specs = ReadIds
    BY <1>1 DEF SpecsRight, FilesRead, ReadIds
  <2>2. IsFiniteSet(pass) /\ skipped \subseteq pass
    BY <1>1, <2>1, FileFacts, FS_Subset DEF Progress
  <2>3. QED
    BY <1>1, <2>2, FS_Subset
<1>4. warned' = DetectsCycle(pass)'
  BY <1>1 DEF DetectsCycle
<1>5. QED
  BY <1>1, <1>2, <1>3, <1>4 DEF Ordering

(* The steps that leave the specs and the crates what they are. *)
LEMMA AssembledStep ==
  ASSUME Ordering, Assembled, request' = request, request \in Requests
  PROVE  Ordering'
<1>1. /\ pass = {} /\ UNCHANGED <<unread, specs, pass, todo, skipped, crates>>
      /\ stage' = "done" \/ (stage' = "write" /\ request.tool # "discover")
  BY DEF Assembled, Project
<1>2. request.tool \in {"gen", "discover"}
  BY RequestsAssumption
<1>3. SpecsRight' /\ unread' = {} /\ CratesRight' /\ Progress'
  BY <1>1, OrderingSame
<1>4. QED
  BY <1>1, <1>2, <1>3 DEF Ordering

LEMMA OutputStep ==
  ASSUME Ordering, RemoveOld \/ Write \/ Flush, request' = request
  PROVE  Ordering'
<1>1. /\ stage \in {"write", "create", "flush"} /\ stage' \in {"create", "flush", "done", "failed"}
      /\ UNCHANGED <<unread, specs, pass, todo, skipped, crates>>
  BY DEF RemoveOld, Write, Flush, Fail, Project
<1>2. SpecsRight' /\ unread' = {} /\ CratesRight' /\ Progress'
  BY <1>1, OrderingSame
<1>3. pass' = {} /\ request'.tool = "gen"
  BY <1>1 DEF Ordering
<1>4. QED
  BY <1>1, <1>2, <1>3 DEF Ordering
-----------------------------------------------------------------------------
LEMMA BeforeStep ==
  ASSUME Before, Next, request' = request
  PROVE  Before' \/ Reading'
<1>1. CASE Build
  BY <1>1, BuildStep
<1>2. CASE Info \/ Killed
  <2>1. stage' \in {"build", "failed", "killed"} /\ UNCHANGED <<specs, pass, todo, skipped, crates>>
    BY <1>2 DEF Info, Killed, Fail, Project
  <2>2. QED
    BY <2>1 DEF Before, NoCrates
<1>3. stage \in {"info", "build", "failed", "killed"}
  BY DEF Before
<1>4. Build \/ Info \/ Killed
  BY <1>3 DEF Next, Proceed, Read, ReadFails, AllRead, Locate, Assemble, NextPass,
              NoProgress, Assembled, RemoveOld, Write, Flush
<1>5. QED
  BY <1>1, <1>2, <1>4

LEMMA ReadingStep ==
  ASSUME Reading, Next, request' = request, request \in Requests
  PROVE  Reading' \/ Ordering'
<1>1. CASE Read
  BY <1>1, ReadStep
<1>2. CASE Locate
  BY <1>2, LocateStep
<1>3. CASE ReadFails \/ AllRead \/ Killed
  <2>1. /\ stage' \in {"locate", "failed", "killed"} /\ (stage' = "locate" => unread = {})
        /\ UNCHANGED <<unread, specs, pass, todo, skipped, crates>>
    BY <1>3 DEF ReadFails, AllRead, Killed, Fail, Project
  <2>2. SpecsRight' /\ NoCrates'
    BY <2>1, SpecsRightSame DEF Reading, NoCrates
  <2>3. QED
    BY <2>1, <2>2 DEF Reading
<1>4. stage \in {"read", "locate", "failed", "killed"}
  BY DEF Reading
<1>5. Read \/ Locate \/ ReadFails \/ AllRead \/ Killed
  BY <1>4 DEF Next, Proceed, Info, Build, Assemble, NextPass, NoProgress, Assembled, RemoveOld, Write, Flush
<1>6. QED
  BY <1>1, <1>2, <1>3, <1>5

LEMMA OrderingStep ==
  ASSUME Ordering, Next, request' = request, request \in Requests
  PROVE  Ordering'
<1>1. CASE Assemble
  BY <1>1, AssembleStep
<1>2. CASE NextPass
  BY <1>2, NextPassStep
<1>3. CASE NoProgress
  BY <1>3, NoProgressStep
<1>4. CASE Assembled
  BY <1>4, AssembledStep
<1>5. CASE RemoveOld \/ Write \/ Flush
  BY <1>5, OutputStep
<1>6. CASE Killed
  <2>1. stage' = "killed" /\ UNCHANGED <<unread, specs, pass, todo, skipped, crates>>
    BY <1>6 DEF Killed, Project
  <2>2. SpecsRight' /\ unread' = {} /\ CratesRight' /\ Progress'
    BY <2>1, OrderingSame
  <2>3. QED
    BY <2>1, <2>2 DEF Ordering
<1>7. stage \in {"assemble", "write", "create", "flush", "done", "failed", "killed"}
  BY DEF Ordering
<1>8. Assemble \/ NextPass \/ NoProgress \/ Assembled \/ RemoveOld \/ Write \/ Flush \/ Killed
  BY <1>7 DEF Next, Proceed, Info, Build, Read, ReadFails, AllRead, Locate
<1>9. QED
  BY <1>1, <1>2, <1>3, <1>4, <1>5, <1>6, <1>8

LEMMA IInvStep == IInv /\ [Next]_vars => IInv'
<1> SUFFICES ASSUME IInv, [Next]_vars PROVE IInv'
  OBVIOUS
<1>1. Outside' /\ request' = request /\ request \in Requests
  BY OutsideStep DEF IInv, Outside
<1>2. CASE Next
  <2>1. Before' \/ Reading' \/ Ordering'
    BY <1>1, <1>2, BeforeStep, ReadingStep, OrderingStep DEF IInv
  <2>2. QED
    BY <1>1, <2>1 DEF IInv
<1>3. CASE UNCHANGED vars
  <2>1. UNCHANGED <<stage, unread, specs, pass, todo, skipped, crates, warned>>
    BY <1>3 DEF vars
  <2>2. ASSUME Before PROVE Before'
    BY <2>1, <2>2 DEF Before, NoCrates
  <2>3. ASSUME Reading PROVE Reading'
    <3>1. SpecsRight' /\ NoCrates'
      BY <1>1, <2>1, <2>3, SpecsRightSame DEF Reading, NoCrates
    <3>2. QED
      BY <2>1, <2>3, <3>1 DEF Reading
  <2>4. ASSUME Ordering PROVE Ordering'
    <3>1. SpecsRight' /\ unread' = {} /\ CratesRight' /\ Progress'
      BY <1>1, <2>1, <2>4, OrderingSame
    <3>2. DetectsCycle(pass)' = DetectsCycle(pass)
      BY <2>1 DEF DetectsCycle
    <3>3. QED
      BY <1>1, <2>1, <2>4, <3>1, <3>2 DEF Ordering
  <2>5. Before' \/ Reading' \/ Ordering'
    BY <2>2, <2>3, <2>4 DEF IInv
  <2>6. QED
    BY <1>1, <2>5 DEF IInv
<1>4. QED
  BY <1>2, <1>3

LEMMA IInvHolds == Spec => []IInv
<1>1. Init => IInv
  BY InitIInv
<1>2. IInv /\ [Next]_vars => IInv'
  BY IInvStep
<1>3. QED
  BY <1>1, <1>2, PTL DEF Spec
-----------------------------------------------------------------------------
(***************************************************************************)
(* What the invariant says of the project.                                 *)
(***************************************************************************)
LEMMA TargetsAtIs ==
  ASSUME NEW id
  PROVE  TargetsAt(id) = {Of(f) : f \in FilesOf(id, ReadFiles)}
BY DEF TargetsAt, Of, FilesOf

LEMMA AllIsRead ==
  ASSUME Ordering
  PROVE  /\ DOMAIN specs = ReadIds /\ Ids \union pass = ReadIds
         /\ \A id \in DOMAIN specs : SpecIs(specs[id], id, FilesOf(id, ReadFiles))
<1>1. SpecsRight /\ FilesRead = ReadFiles /\ Progress
  BY DEF Ordering, FilesRead
<1>2. QED
  BY <1>1 DEF SpecsRight, ReadIds, Progress

LEMMA MergesExact ==
  ASSUME Ordering, request \in Requests
  PROVE  CratesAreMerges
<1> SUFFICES ASSUME NEW n \in DOMAIN crates
             PROVE  LET crate == crates[n]
                        at    == TargetsAt(crate.id)
                        libs  == {t \in at : t.type = "rlib"}
                        testing == {t \in at : t.test /\ ~t.external}
                    IN  /\ libs # {} => crate.kind = "lib" /\ \E t \in libs : crate.name = t.name
                        /\ crate.cfg = UNION {t.cfg : t \in at}
                        /\ {crates[d.index].id : d \in crate.deps}
                             = (UNION {{IdOf(l) : l \in t.deps} : t \in at}) \ {crate.id}
                        /\ testing # {} => \E t \in testing : crate.build = t.label
                        /\ (\E t \in at : t.type = "proc-macro" /\ <<t.label, "opt-exec">> \in ReadFiles)
                             => crate.dylib = "opt-exec"
  BY DEF CratesAreMerges
<1> DEFINE crate == crates[n]
           files == FilesOf(crate.id, ReadFiles)
           at == TargetsAt(crate.id)
           spec == specs[crate.id]
<1>1. n \in 1..Len(crates) /\ CrateIs(n)
  BY DEF Ordering, CratesRight
<1>2. SpecIs(spec, crate.id, files)
  BY <1>1, AllIsRead DEF CrateIs
<1>3. at = {Of(f) : f \in files}
  BY TargetsAtIs
<1>4. /\ crate.name = spec.name /\ crate.kind = KindOf(spec) /\ crate.cfg = spec.cfg
      /\ crate.build = spec.build /\ crate.dylib = spec.dylib
      /\ {crates[d.index].id : d \in crate.deps} = spec.deps
  BY <1>1 DEF CrateIs
<1>5. ASSUME NEW t \in at, t.type = "proc-macro", <<t.label, "opt-exec">> \in ReadFiles
      PROVE  \E f \in files : Of(f).type = "proc-macro" /\ f[2] = "opt-exec"
  <2> DEFINE f == <<t.label, "opt-exec">>
  <2>1. PICK g \in files : t = Of(g)
    BY <1>3
  <2>2. g \in ReadFiles /\ IdOf(g[1]) = crate.id
    BY <2>1 DEF FilesOf
  <2>3. t \in Ws.targets /\ t.root = crate.id
    BY <2>1, <2>2, FileFacts DEF IdOf, Of
  <2>4. Of(f) \in Ws.targets /\ Of(f).label = t.label /\ f[2] = "opt-exec"
    BY <1>5, FileFacts
  <2>5. Of(f) = t
    BY <2>3, <2>4, RequestsAssumption DEF Ws
  <2>6. IdOf(f[1]) = crate.id
    BY <2>3, <2>5 DEF IdOf, Of
  <2>7. f \in files
    BY <1>5, <2>6 DEF FilesOf
  <2>8. QED
    BY <1>5, <2>4, <2>5, <2>7
<1> HIDE DEF crate, files, at, spec
<1>6. ASSUME NEW t \in at, t.type = "rlib"
      PROVE  crate.kind = "lib" /\ \E u \in at : u.type = "rlib" /\ crate.name = u.name
  <2>1. \E f \in files : Of(f).type = "rlib"
    BY <1>3, <1>6
  <2>2. spec.type = "rlib" /\ \E f \in files : Of(f).type = "rlib" /\ spec.name = Of(f).name
    BY <1>2, <2>1 DEF SpecIs
  <2>3. QED
    BY <1>3, <1>4, <2>2 DEF KindOf
<1>7. crate.cfg = UNION {t.cfg : t \in at}
  BY <1>2, <1>3, <1>4 DEF SpecIs
<1>8. {crates[d.index].id : d \in crate.deps}
        = (UNION {{IdOf(l) : l \in t.deps} : t \in at}) \ {crate.id}
  BY <1>2, <1>3, <1>4 DEF SpecIs
<1>9. ASSUME NEW t \in at, t.test, ~t.external
      PROVE  \E u \in at : u.test /\ ~u.external /\ crate.build = u.label
  <2>1. \E f \in files : Of(f).test /\ ~Of(f).external
    BY <1>3, <1>9
  <2>2. \E f \in files : Of(f).test /\ ~Of(f).external /\ spec.build = Of(f).label
    BY <1>2, <2>1 DEF SpecIs
  <2>3. QED
    BY <1>3, <1>4, <2>2
<1>10. (\E t \in at : t.type = "proc-macro" /\ <<t.label, "opt-exec">> \in ReadFiles)
         => crate.dylib = "opt-exec"
  BY <1>2, <1>4, <1>5 DEF SpecIs
<1>11. QED
  BY <1>6, <1>7, <1>8, <1>9, <1>10 DEF crate, at

LEMMA DepsExact ==
  ASSUME Ordering, request \in Requests
  PROVE  DepsFound
<1>1. ASSUME NEW n \in DOMAIN crates, NEW d \in crates[n].deps
      PROVE  /\ d.index \in 1..n - 1
             /\ LET dep     == crates[d.index]
                    aliases == UNION {{t.aliases[l] : l \in {k \in DOMAIN t.aliases : IdOf(k) = dep.id}}
                                        : t \in TargetsAt(crates[n].id)}
                IN  d.name \in IF aliases = {} THEN {dep.name} ELSE aliases
  <2> DEFINE dep == crates[d.index]
             id == crates[n].id
             spec == specs[id]
             files == FilesOf(id, ReadFiles)
             at == TargetsAt(id)
             aliases == UNION {{t.aliases[l] : l \in {k \in DOMAIN t.aliases : IdOf(k) = dep.id}} : t \in at}
  <2>1. n \in 1..Len(crates) /\ CrateIs(n)
    BY DEF Ordering, CratesRight
  <2>2. SpecIs(spec, id, files)
    BY <2>1, AllIsRead DEF CrateIs
  <2>3. /\ d.index \in 1..(n - 1)
        /\ d.name = IF dep.id \in DOMAIN spec.aliases THEN spec.aliases[dep.id] ELSE dep.name
    BY <2>1 DEF CrateIs
  <2>4. at = {Of(f) : f \in files}
    BY TargetsAtIs
  <2>5. \A a : a \in aliases <=>
          \E f \in files : \E l \in DOMAIN Of(f).aliases : IdOf(l) = dep.id /\ a = Of(f).aliases[l]
    <3> HIDE DEF files, at, dep
    <3>1. QED
      BY <2>4
  <2> HIDE DEF spec, files, at, dep, aliases, id
  <2>6. CASE dep.id \in DOMAIN spec.aliases
    <3>1. \E f \in files : \E l \in DOMAIN Of(f).aliases :
            IdOf(l) = dep.id /\ spec.aliases[dep.id] = Of(f).aliases[l]
      BY <2>2, <2>6 DEF SpecIs
    <3>2. spec.aliases[dep.id] \in aliases
      BY <2>5, <3>1
    <3>3. d.name \in IF aliases = {} THEN {dep.name} ELSE aliases
      BY <2>3, <2>6, <3>2
    <3>4. QED
      BY <2>3, <3>3 DEF aliases, at, dep, id
  <2>7. CASE dep.id \notin DOMAIN spec.aliases
    <3>1. \A f \in files : \A l \in DOMAIN Of(f).aliases : IdOf(l) # dep.id
      BY <2>2, <2>7 DEF SpecIs
    <3>2. aliases = {}
      BY <2>5, <3>1
    <3>3. d.name \in IF aliases = {} THEN {dep.name} ELSE aliases
      BY <2>3, <2>7, <3>2
    <3>4. QED
      BY <2>3, <3>3 DEF aliases, at, dep, id
  <2>8. QED
    BY <2>6, <2>7
<1>2. \A n, k \in DOMAIN crates : crates[n].id = crates[k].id => n = k
  BY DEF Ordering, CratesRight
<1>3. QED
  BY <1>1, <1>2 DEF DepsFound

LEMMA CompleteExact ==
  ASSUME Ordering, request \in Requests
  PROVE  ProjectComplete
<1>1. DOMAIN specs = ReadIds /\ Ids \union pass = ReadIds /\ Progress
  BY AllIsRead DEF Ordering
<1>2. stage = "done" => Ids = ReadIds
  BY <1>1 DEF Ordering
<1>3. ASSUME stage = "failed", pass # {}
      PROVE  /\ \A id \in pass :
                  specs[id].deps \intersect
                    (pass \union ((UNION {specs[i].deps : i \in pass}) \ ReadIds)) # {}
             /\ warned = \E left \in SUBSET pass :
                           left # {} /\ \A id \in left : specs[id].deps \intersect left # {}
  <2>1. todo = {} /\ skipped = pass /\ warned = DetectsCycle(pass)
    BY <1>3 DEF Ordering
  <2>2. ASSUME NEW id \in pass
        PROVE  specs[id].deps \intersect
                 (pass \union ((UNION {specs[i].deps : i \in pass}) \ ReadIds)) # {}
    <3>1. PICK dep \in specs[id].deps : dep \notin Ids
      BY <1>1, <2>1 DEF Progress
    <3>2. dep \in UNION {specs[i].deps : i \in pass}
      BY <3>1
    <3>3. dep \in pass \/ dep \notin ReadIds
      BY <1>1, <3>1
    <3>4. QED
      BY <3>1, <3>2, <3>3
  <2>3. IsFiniteSet(pass)
    BY <1>1, FileFacts, FS_Subset
  <2>4. DetectsCycle(pass) <=> \E left \in SUBSET pass : left # {} /\ Waiting(left)
    BY <2>3, CycleIsDetected
  <2>5. warned = \E left \in SUBSET pass :
                   left # {} /\ \A id \in left : specs[id].deps \intersect left # {}
    <3> DEFINE cycle == \E left \in SUBSET pass :
                          left # {} /\ \A id \in left : specs[id].deps \intersect left # {}
    <3>1. (DetectsCycle(pass) <=> cycle) /\ cycle \in BOOLEAN
      BY <2>4 DEF Waiting
    <3>2. DetectsCycle(pass) \in BOOLEAN
      BY DEF DetectsCycle
    <3> HIDE DEF cycle
    <3>3. warned = cycle
      BY <2>1, <3>1, <3>2, Zenon
    <3>4. QED
      BY <3>3 DEF cycle
  <2>6. QED
    BY <2>2, <2>5
<1>4. QED
  BY <1>2, <1>3 DEF ProjectComplete

LEMMA IInvGivesProject == IInv => ProjectExact
<1> SUFFICES ASSUME IInv PROVE ProjectExact
  OBVIOUS
<1>1. Outside /\ request \in Requests
  BY DEF IInv, Outside
<1>2. stage \in {"info", "build", "read", "locate", "assemble", "write", "create", "flush"} \union Ended
  BY DEF IInv, Before, Reading, Ordering, Ended
<1>3. ASSUME Before \/ Reading PROVE ProjectExact
  <2>1. NoCrates /\ stage # "done" /\ \A id \in DOMAIN specs : specs[id].id = id
    <3>1. ASSUME Before PROVE \A id \in DOMAIN specs : specs[id].id = id
      <4>1. DOMAIN specs = {}
        BY <3>1 DEF Before
      <4>2. QED
        BY <4>1
    <3>2. ASSUME Reading PROVE \A id \in DOMAIN specs : specs[id].id = id
      BY <3>2 DEF Reading, SpecsRight, SpecIs
    <3>3. QED
      BY <1>3, <3>1, <3>2 DEF Before, Reading
  <2>2. DOMAIN crates = {} /\ pass = {} /\ todo = {} /\ skipped = {}
    BY <2>1 DEF NoCrates
  <2>3. TypeOK
    BY <1>1, <1>2, <2>1, <2>2 DEF TypeOK, Outside
  <2>4. CratesAreMerges /\ DepsFound /\ ProjectComplete
    BY <2>1, <2>2 DEF CratesAreMerges, DepsFound, ProjectComplete
  <2>5. QED
    BY <2>3, <2>4 DEF ProjectExact
<1>4. ASSUME Ordering PROVE ProjectExact
  <2>1. \A id \in DOMAIN specs : specs[id].id = id
    BY <1>4, AllIsRead DEF SpecIs
  <2>2. /\ {crates[n].id : n \in DOMAIN crates} \subseteq DOMAIN specs
        /\ todo \union skipped \subseteq pass /\ todo \intersect skipped = {}
        /\ pass \subseteq DOMAIN specs
    BY <1>4 DEF Ordering, Progress, Ids
  <2>3. TypeOK
    BY <1>1, <1>2, <2>1, <2>2 DEF TypeOK, Outside
  <2>4. QED
    BY <1>1, <1>4, <2>3, MergesExact, DepsExact, CompleteExact DEF ProjectExact
<1>5. QED
  BY <1>3, <1>4 DEF IInv

\* Every crate of a project is what all the targets on its root file make of it, whatever
\* the order of their specs; its dependencies are crates before it under the names the
\* targets gave them; none is lost, and a cycle is reported exactly where there is one.
\* (consolidate_crate_specs, assemble_rust_project, detect_cycle)
THEOREM ProjectIsExact == Spec => []ProjectExact
<1>1. IInv => ProjectExact
  BY IInvGivesProject
<1>2. QED
  BY <1>1, IInvHolds, PTL

\* The project file of before is touched only by gen_rust_project, and only when the new
\* project has a crate for everything that was read.  (write_rust_project)
THEOREM OldProjectKept == Spec => ReplacedByProject
<1>1. ASSUME IInv, [Next]_vars, file' # file
      PROVE  request.tool = "gen" /\ Ids = ReadIds
  <2>1. RemoveOld \/ Write \/ Flush
    BY <1>1 DEF Next, Proceed, Killed, vars, Info, Build, Read, ReadFails, AllRead, Locate,
                Assemble, NextPass, NoProgress, Assembled
  <2>2. stage \in {"write", "create", "flush"}
    BY <2>1 DEF RemoveOld, Write, Flush
  <2>3. Ordering
    BY <1>1, <2>2 DEF IInv, Before, Reading
  <2>4. request.tool = "gen" /\ pass = {} /\ Ids \union pass = ReadIds
    BY <2>2, <2>3, AllIsRead DEF Ordering
  <2>5. QED
    BY <2>4
<1>2. IInv /\ [Next]_vars => [file' # file => request.tool = "gen" /\ Ids = ReadIds]_vars
  BY <1>1
<1>3. QED
  BY <1>2, IInvHolds, PTL DEF Spec, ReplacedByProject
-----------------------------------------------------------------------------
(***************************************************************************)
(* What an editor is told of a file.                                       *)
(***************************************************************************)
LEMMA NearestIs ==
  ASSUME NEW dir \in Seq(STRING), NEW owners \in SUBSET Above(dir), NEW own \in owners,
         \A d \in owners : Len(d) <= Len(own)
  PROVE  Nearest(owners) = own
<1>1. \A d \in owners : \E n \in 0..Len(dir) : d = SubSeq(dir, 1, n) /\ Len(d) = n
  BY DEF Above
<1>2. \A d, e \in owners : Len(d) = Len(e) => d = e
  BY <1>1
<1>3. PICK near \in owners : near = Nearest(owners) /\ \A e \in owners : Len(e) <= Len(near)
  BY DEF Nearest
<1>4. Len(near) <= Len(own) /\ Len(own) <= Len(near) /\ Len(near) \in Nat /\ Len(own) \in Nat
  BY <1>1, <1>3
<1>5. QED
  BY <1>2, <1>3, <1>4

LEMMA RequestedOwns ==
  ASSUME request \in Requests, request.tool = "discover", request.argument.kind = "path",
         NEW t \in Ws.targets, ~t.external, request.argument.dir \in t.sources
  PROVE  t \in Requested[1]
<1> DEFINE dir == request.argument.dir
           owners == Above(dir) \intersect Ws.buildfiles
<1>1. /\ dir \in Seq(STRING) /\ t.dir \in owners /\ \A d \in owners : Len(d) <= Len(t.dir)
      /\ IsPrefix(Root, t.dir)
  BY PackagesAssumption DEF Ws
<1>2. Nearest(owners) = t.dir
  BY <1>1, NearestIs
<1>3. Buildfile(dir) = {t.dir}
  BY <1>1, <1>2 DEF Buildfile
<1>4. Requested = TargetsOf(t.dir)
  BY <1>3 DEF Requested
<1>5. QED
  BY <1>1, <1>4 DEF TargetsOf

LEMMA OwnFileIsRead ==
  ASSUME request \in Requests, NEW t \in Ws.targets, ~t.external, t.label \notin Ws.unbuilt,
         t \in Requested[1]
  PROVE  t.root \in ReadIds
<1>1. Target(t.label) = t
  BY RequestsAssumption DEF Target, Ws
<1>2. PICK c \in t.configurations : c \in {"target", "opt-exec"}
  BY PackagesAssumption DEF Ws
<1>3. t.label \in Local(Requested[1]) /\ t.label \in Labels
  BY DEF Local, Labels
<1>4. t.label \in Closure(Local(Requested[1]))
  BY <1>3 DEF Closure
<1>5. <<t.label, c>> \in ReadFiles
  BY <1>1, <1>2, <1>4 DEF ReadFiles, SpecFiles
<1>6. QED
  BY <1>1, <1>5 DEF ReadIds, IdOf

\* An editor that asks about a file gets a project with every crate the file is in, for any
\* layout of packages that Bazel accepts: the nearest build file is found, and what it
\* declares is asked for and gets into the project.  (source_file_to_buildfile,
\* buildfile_to_targets, assemble_rust_project)
THEOREM OwnersAreDiscovered == Spec => []OwnersDiscovered
<1>1. ASSUME IInv PROVE OwnersDiscovered
  <2>1. stage = "done" => Ids = ReadIds
    BY <1>1, IInvGivesProject DEF ProjectExact, ProjectComplete
  <2>2. request \in Requests
    BY <1>1 DEF IInv, Outside
  <2>3. QED
    BY <2>1, <2>2, RequestedOwns, OwnFileIsRead DEF OwnersDiscovered
<1>2. QED
  BY <1>1, IInvHolds, PTL

(*****************************************************************************)
(* Label's parser and its grammar (see LabelParsed): parts of strings.       *)
(*****************************************************************************)
LEMMA LeastOf ==
  ASSUME NEW S \in SUBSET Nat, S # {}
  PROVE  \E n \in S : \A k \in S : n <= k
<1>1. IsWellFoundedOn(Less, Nat)
  BY NatLessThanWellFounded DEF OpToRel, Less
<1>2. PICK n \in S : \A m \in S : ~(<<m, n>> \in Less)
  BY <1>1, WFMin
<1>3. ASSUME NEW m \in S PROVE n <= m
  <2> SUFFICES ASSUME m < n PROVE FALSE
    BY <1>2
  <2>1. <<m, n>> \in Nat \X Nat /\ <<m, n>>[1] = m /\ <<m, n>>[2] = n
    BY <1>2
  <2>2. QED
    BY <1>2, <2>1 DEF Less
<1>4. QED
  BY <1>2, <1>3

\* First is the least.
LEMMA FirstIs ==
  ASSUME NEW S \in SUBSET Nat, S # {}
  PROVE  First(S) \in S /\ \A k \in S : First(S) <= k
  BY LeastOf DEF First

LEMMA GreatestOf ==
  ASSUME NEW n \in Nat, NEW S \in SUBSET (0..n), S # {}
  PROVE  \E m \in S : \A k \in S : m >= k
<1> DEFINE T == {n - k : k \in S}
<1>1. T # {}
  OBVIOUS
<1>0. T \in SUBSET Nat
  <2>1. ASSUME NEW k \in S PROVE n - k \in Nat
    OBVIOUS
  <2>2. QED
    BY <2>1
<1>2. PICK t \in T : \A k \in T : t <= k
  BY <1>0, <1>1, LeastOf
<1>3. PICK m \in S : t = n - m
  BY <1>2
<1>4. ASSUME NEW k \in S PROVE m >= k
  <2>1. n - m <= n - k
    BY <1>2, <1>3
  <2>2. QED
    BY <2>1
<1>5. QED
  BY <1>4

LEMMA SeqEqual ==
  ASSUME NEW S, NEW s \in Seq(S), NEW T, NEW t \in Seq(T), Len(s) = Len(t),
         \A k \in 1..Len(s) : s[k] = t[k]
  PROVE  s = t
  OBVIOUS

LEMMA PartIs ==
  ASSUME NEW S, NEW s \in Seq(S), NEW m \in 1..Len(s) + 1, NEW n \in m - 1..Len(s)
  PROVE  /\ SubSeq(s, m, n) \in Seq(S)
         /\ Len(SubSeq(s, m, n)) = n + 1 - m
         /\ \A k \in 1..n + 1 - m : SubSeq(s, m, n)[k] = s[m + k - 1]
  OBVIOUS

LEMMA FromIs ==
  ASSUME NEW s \in Seq(Characters), NEW m \in 1..Len(s) + 1
  PROVE  /\ From(s, m) \in Seq(Characters)
         /\ Len(From(s, m)) = Len(s) + 1 - m
         /\ \A k \in 1..Len(s) + 1 - m : From(s, m)[k] = s[m + k - 1]
  BY PartIs DEF From

LEMMA UpToIs ==
  ASSUME NEW s \in Seq(Characters), NEW n \in 0..Len(s)
  PROVE  /\ UpTo(s, n) \in Seq(Characters)
         /\ Len(UpTo(s, n)) = n
         /\ \A k \in 1..n : UpTo(s, n)[k] = s[k]
  BY PartIs DEF UpTo


\* AtSigns is the number of "@"s at the front.
LEMMA AtSignsAre ==
  ASSUME NEW s \in Seq(Characters)
  PROVE  /\ AtSigns(s) \in 0..Len(s)
         /\ \A k \in 1..AtSigns(s) : s[k] = "@"
         /\ AtSigns(s) < Len(s) => s[AtSigns(s) + 1] # "@"
<1> DEFINE FromAtOn == {m \in 0..Len(s) : m = Len(s) \/ s[m + 1] # "@"}
<1>1. Len(s) \in Nat /\ FromAtOn \in SUBSET Nat /\ Len(s) \in FromAtOn
  OBVIOUS
<1>2. PICK n \in FromAtOn : \A k \in FromAtOn : n <= k
  BY <1>1, LeastOf
<1>3. ASSUME NEW k \in 1..n PROVE s[k] = "@"
  <2>0. n \in 0..Len(s)
    BY <1>2
  <2>1. k - 1 \in 0..Len(s) /\ ~(n <= k - 1) /\ k - 1 + 1 = k
    BY <2>0
  <2>2. k - 1 \notin FromAtOn
    BY <1>2, <2>1, Zenon
  <2>3. s[k - 1 + 1] = "@"
    BY <2>1, <2>2
  <2>4. QED
    BY <2>1, <2>3
<1>4. {m \in DOMAIN s : \A k \in 1..m : s[k] = "@"} = 1..n
  BY <1>2, <1>3
<1>5. AtSigns(s) = Cardinality(1..n)
  BY <1>4 DEF AtSigns
<1>6. n \in 0..Len(s)
  BY <1>2
<1>7. Cardinality(1..n) = n
  BY <1>6, FS_Interval
<1>8. n < Len(s) => s[n + 1] # "@"
  BY <1>2
<1>9. QED
  BY <1>3, <1>5, <1>6, <1>7, <1>8

\* The number is the only one.
LEMMA AtSignsOnly ==
  ASSUME NEW s \in Seq(Characters), NEW n \in 0..Len(s), \A k \in 1..n : s[k] = "@",
         n < Len(s) => s[n + 1] # "@"
  PROVE  AtSigns(s) = n
<1>1. ASSUME AtSigns(s) < n PROVE FALSE
  BY <1>1, AtSignsAre
<1>2. ASSUME AtSigns(s) > n PROVE FALSE
  BY <1>2, AtSignsAre
<1>3. QED
  BY <1>1, <1>2, AtSignsAre

\* Behind the last "/" there is none.
LEMMA LastSlashIs ==
  ASSUME NEW s \in Seq(Characters)
  PROVE  /\ LastSlash(s) \in 0..Len(s)
         /\ LastSlash(s) # 0 => s[LastSlash(s)] = "/"
         /\ \A k \in LastSlash(s) + 1..Len(s) : s[k] # "/"
<1> DEFINE I == {k \in 1..Len(s) : s[k] = "/"}
<1>1. LastSlash(s) = IF I # {} THEN Max(I) ELSE 0
  BY DEF LastSlash, SelectLastInSeq
<1>2. CASE I = {}
  BY <1>1, <1>2
<1>3. CASE I # {}
  <2>1. Len(s) \in Nat /\ I \in SUBSET (0..Len(s))
    OBVIOUS
  <2>2. \E m \in I : \A k \in I : m >= k
    BY <1>3, <2>1, GreatestOf
  <2>3. Max(I) \in I /\ \A k \in I : Max(I) >= k
    BY <2>2, Zenon DEF Max
  <2>4. LastSlash(s) \in I /\ \A k \in I : LastSlash(s) >= k
    BY <1>1, <1>3, <2>3
  <2>5. ASSUME NEW k \in LastSlash(s) + 1..Len(s) PROVE s[k] # "/"
    <3>1. LastSlash(s) \in 1..Len(s)
      BY <2>4
    <3>2. k \in 1..Len(s) /\ ~(LastSlash(s) >= k)
      BY <3>1
    <3>3. QED
      BY <2>4, <3>2
  <2>6. QED
    BY <2>4, <2>5
<1>4. QED
  BY <1>2, <1>3

(*****************************************************************************)
(* Names, which consume_name reads.                                          *)
(*****************************************************************************)
LEMMA NoNameLeft == ConsumeName(<<>>) = [ok |-> TRUE, name |-> <<>>]
  BY Zenon DEF ConsumeName

LEMMA Pair ==
  ASSUME NEW S, NEW a \in S, NEW b \in S
  PROVE  <<a, b>> \in Seq(S) /\ Len(<<a, b>>) = 2 /\ <<a, b>>[1] = a /\ <<a, b>>[2] = b
  OBVIOUS

\* A string that begins with "//".
LEMMA MarkIs ==
  ASSUME NEW s \in Seq(Characters), s # <<>>
  PROVE  IsPrefix(<<"/", "/">>, s) <=> Len(s) >= 2 /\ s[1] = "/" /\ s[2] = "/"
<1> DEFINE two == <<"/", "/">>
<1>1. two \in Seq({"/"}) /\ Len(two) = 2 /\ two[1] = "/" /\ two[2] = "/"
  BY Pair, Zenon
<1>2. IsPrefix(two, s) <=> Len(two) <= Len(s) /\ SubSeq(two, 1, Len(two)) = SubSeq(s, 1, Len(two))
  BY DEF IsPrefix
<1> HIDE DEF two
<1>3. SubSeq(two, 1, 2) \in Seq({"/"}) /\ Len(SubSeq(two, 1, 2)) = 2
      /\ SubSeq(two, 1, 2)[1] = "/" /\ SubSeq(two, 1, 2)[2] = "/"
  BY <1>1, PartIs
<1>4. CASE Len(s) >= 2
  <2>1. SubSeq(s, 1, 2) \in Seq(Characters) /\ Len(SubSeq(s, 1, 2)) = 2
        /\ SubSeq(s, 1, 2)[1] = s[1] /\ SubSeq(s, 1, 2)[2] = s[2]
    BY <1>4, PartIs
  <2>2. s[1] = "/" /\ s[2] = "/" => SubSeq(two, 1, 2) = SubSeq(s, 1, 2)
    <3>1. 1..2 = {1, 2}
      OBVIOUS
    <3>2. QED
      BY <1>3, <2>1, <3>1, SeqEqual
  <2>3. QED
    BY <1>1, <1>2, <1>3, <1>4, <2>1, <2>2
<1>5. CASE ~(Len(s) >= 2)
  BY <1>1, <1>2, <1>5
<1>6. QED
  BY <1>4, <1>5 DEF two

\* A mark of one or two characters, and then the name.
LEMMA NameIs ==
  ASSUME NEW s \in Seq(Characters), NEW n \in {1, 2}, Len(s) >= n - 1, s # <<>>, s # <<":">>,
         n = 1 => s[1] \notin {"/", ":"},
         n = 2 => s[1] = ":" \/ (s[1] = "/" /\ ~(Len(s) >= 2 /\ s[2] = "/"))
  PROVE  ConsumeName(s) =
           IF From(s, n) # <<>> /\ From(s, n)[1] \in {"/", ":"} THEN Error
           ELSE [ok |-> TRUE, name |-> From(s, n)]
<1>1. (CASE s # <<>> /\ s[1] = ":" -> 1
         [] IsPrefix(<<"/", "/">>, s) -> 2
         [] ~IsPrefix(<<"/", "/">>, s) /\ s # <<>> /\ s[1] = "/" -> 1
         [] OTHER -> 0) = n - 1
  BY MarkIs
<1>2. n - 1 + 1 = n
  OBVIOUS
<1> DEFINE marked == CASE s # <<>> /\ s[1] = ":" -> 1
                       [] IsPrefix(<<"/", "/">>, s) -> 2
                       [] ~IsPrefix(<<"/", "/">>, s) /\ s # <<>> /\ s[1] = "/" -> 1
                       [] OTHER -> 0
<1>3. ConsumeName(s) =
        IF From(s, marked + 1) # <<>> /\ From(s, marked + 1)[1] \in {"/", ":"} THEN Error
        ELSE [ok |-> TRUE, name |-> From(s, marked + 1)]
  BY Zenon DEF ConsumeName
<1>4. marked + 1 = n
  BY <1>1, <1>2
<1>5. QED
  BY <1>3, <1>4, Zenon

\* What the grammar has behind the repository.
WithName(repo, s) ==
  {Absolute(repo, SubSeq(s, 3, j - 1), From(s, j + 1)) :
     j \in {k \in 3..Len(s) : 1 \in Slashes(s) /\ s[k] = ":"
                              /\ IsPackage(SubSeq(s, 3, k - 1)) /\ IsName(From(s, k + 1))}}
WithoutName(repo, s) ==
  {Absolute(repo, From(t, 3), NameFromPackage(From(t, 3))) :
     t \in {u \in {s} : 1 \in Slashes(u) /\ 2 < Len(u) /\ IsPackage(From(u, 3))}}

LEMMA ConsumedNothing ==
  ASSUME NEW repo, NEW s, ConsumePackage(s) = Error
  PROVE  AnalyzePackage(repo, s) = Error
  BY DEF AnalyzePackage, Error

LEMMA NoNameConsumed ==
  ASSUME NEW repo, NEW s, NEW p, NEW r, ConsumePackage(s) = [ok |-> TRUE, package |-> p, rest |-> r],
         ConsumeName(r) = Error
  PROVE  AnalyzePackage(repo, s) = Error
  BY DEF AnalyzePackage, Error

LEMMA NameConsumed ==
  ASSUME NEW repo, NEW s, NEW p, NEW r, NEW m, ConsumePackage(s) = [ok |-> TRUE, package |-> p, rest |-> r],
         ConsumeName(r) = [ok |-> TRUE, name |-> m], m # <<>>
  PROVE  AnalyzePackage(repo, s) = Absolute(repo, p, m)
  BY DEF AnalyzePackage

LEMMA NothingLeft ==
  ASSUME NEW repo, NEW s, ConsumePackage(s) = [ok |-> TRUE, package |-> <<>>, rest |-> <<>>]
  PROVE  AnalyzePackage(repo, s) = Error
  BY NoNameLeft DEF AnalyzePackage

(*****************************************************************************)
(* Packages, and "//" in a string and in its parts.                          *)
(*****************************************************************************)
LEMMA SlashesAre ==
  ASSUME NEW s \in Seq(Characters), NEW k
  PROVE  k \in Slashes(s) <=> k \in 1..Len(s) - 1 /\ s[k] = "/" /\ s[k + 1] = "/"
  BY DEF Slashes

LEMMA ElementsAre ==
  ASSUME NEW s \in Seq(Characters), NEW T
  PROVE  ToSet(s) \subseteq T <=> \A k \in 1..Len(s) : s[k] \in T
  BY DEF ToSet

\* What IsPackage says, character by character.
LEMMA PackageIs ==
  ASSUME NEW p \in Seq(Characters)
  PROVE  IsPackage(p) <=>
           /\ \A k \in 1..Len(p) : p[k] \in PackageChars \union {"/"}
           /\ p # <<>> => p[1] # "/" /\ p[Len(p)] # "/" /\ Slashes(p) = {}
  BY ElementsAre, Zenon DEF IsPackage, Last

\* A part of a string has the slashes of the string that lie in it.
LEMMA SlashesOfPart ==
  ASSUME NEW s \in Seq(Characters), NEW m \in 1..Len(s) + 1, NEW n \in m - 1..Len(s), NEW k
  PROVE  k \in Slashes(SubSeq(s, m, n)) <=> k \in 1..n - m /\ m + k - 1 \in Slashes(s)
<1>1. SubSeq(s, m, n) \in Seq(Characters) /\ Len(SubSeq(s, m, n)) = n + 1 - m
  BY PartIs
<1>2. k \in Slashes(SubSeq(s, m, n)) <=>
        k \in 1..n - m /\ SubSeq(s, m, n)[k] = "/" /\ SubSeq(s, m, n)[k + 1] = "/"
  <2>1. 1..Len(SubSeq(s, m, n)) - 1 = 1..n - m
    BY <1>1
  <2>2. QED
    BY <1>1, <2>1, SlashesAre, Zenon
<1>3. ASSUME k \in 1..n - m
      PROVE  SubSeq(s, m, n)[k] = s[m + k - 1] /\ SubSeq(s, m, n)[k + 1] = s[m + k]
  BY <1>3, PartIs
<1>4. ASSUME k \in 1..n - m PROVE m + k - 1 \in 1..Len(s) - 1 /\ m + k - 1 + 1 = m + k
  BY <1>4
<1>5. CASE k \in 1..n - m
  BY <1>2, <1>3, <1>4, <1>5, SlashesAre
<1>6. CASE k \notin 1..n - m
  BY <1>2, <1>6
<1>7. QED
  BY <1>5, <1>6

LEMMA NoMark ==
  ASSUME NEW repo, NEW s \in Seq(Characters), 1 \notin Slashes(s)
  PROVE  /\ AnalyzePackage(repo, s) = Error
         /\ WithName(repo, s) = {} /\ WithoutName(repo, s) = {}
<1>1. ConsumePackage(s) = Error
  BY DEF ConsumePackage
<1>2. QED
  BY <1>1, ConsumedNothing DEF WithName, WithoutName

\* "//" a second time.
LEMMA SecondMark ==
  ASSUME CharsOK, NEW repo, NEW s \in Seq(Characters), 1 \in Slashes(s), Slashes(s) # {1}
  PROVE  /\ AnalyzePackage(repo, s) = Error
         /\ WithName(repo, s) = {} /\ WithoutName(repo, s) = {}
<1>1. ConsumePackage(s) = Error
  BY DEF ConsumePackage
<1>2. PICK k \in Slashes(s) : k # 1
  OBVIOUS
<1>3. k \in 2..Len(s) - 1 /\ s[k] = "/" /\ s[k + 1] = "/"
  BY <1>2, SlashesAre
<1>4. ASSUME NEW j \in 3..Len(s), s[j] = ":", IsPackage(SubSeq(s, 3, j - 1)), IsName(From(s, j + 1))
      PROVE  FALSE
  <2> DEFINE p == SubSeq(s, 3, j - 1)
  <2>1. p \in Seq(Characters) /\ Len(p) = j - 3 /\ \A i \in 1..j - 3 : p[i] = s[i + 2]
    BY <1>4, PartIs
  <2>2. j # k /\ j # k + 1
    BY <1>3, <1>4
  <2>3. CASE k + 1 < j /\ k = 2
    <3>1. p[1] = "/" /\ p # <<>>
      BY <1>3, <2>1, <2>3
    <3>2. QED
      BY <1>4, <2>1, <3>1, PackageIs
  <2>4. CASE k + 1 < j /\ k # 2
    <3>1. k - 2 \in 1..j - 1 - 3 /\ 3 + (k - 2) - 1 = k /\ 3 \in 1..Len(s) + 1 /\ j - 1 \in 3 - 1..Len(s)
      BY <1>3, <1>4, <2>4
    <3>2. k - 2 \in Slashes(p)
      BY <1>2, <3>1, SlashesOfPart
    <3>3. p # <<>>
      BY <2>1, <3>1
    <3>4. QED
      BY <1>4, <2>1, <3>2, <3>3, PackageIs
  <2>5. CASE k > j
    <3>1. k - j \in 1..Len(s) - (j + 1) /\ (j + 1) + (k - j) - 1 = k /\ j + 1 \in 1..Len(s) + 1
          /\ Len(s) \in (j + 1) - 1..Len(s)
      BY <1>3, <1>4, <2>5
    <3>2. k - j \in Slashes(From(s, j + 1))
      BY <1>2, <3>1, SlashesOfPart DEF From
    <3>3. QED
      BY <1>4, <3>2 DEF IsName
  <2>6. QED
    BY <1>3, <1>4, <2>2, <2>3, <2>4, <2>5
<1>5. ASSUME 2 < Len(s), IsPackage(From(s, 3)) PROVE FALSE
  <2> DEFINE p == From(s, 3)
  <2>1. p \in Seq(Characters) /\ Len(p) = Len(s) - 2 /\ \A i \in 1..Len(s) - 2 : p[i] = s[i + 2]
    BY <1>5, FromIs
  <2>2. p # <<>>
    BY <1>5, <2>1
  <2>3. CASE k = 2
    <3>1. p[1] = "/"
      BY <1>3, <2>1, <2>3
    <3>2. QED
      BY <1>5, <2>1, <2>2, <3>1, PackageIs
  <2>4. CASE k # 2
    <3>1. k - 2 \in 1..Len(s) - 3 /\ 3 + (k - 2) - 1 = k /\ 3 \in 1..Len(s) + 1 /\ Len(s) \in 3 - 1..Len(s)
      BY <1>3, <2>4
    <3>2. k - 2 \in Slashes(p)
      BY <1>2, <3>1, SlashesOfPart DEF From
    <3>3. QED
      BY <1>5, <2>1, <2>2, <3>2, PackageIs
  <2>5. QED
    BY <2>3, <2>4
<1>6. WithName(repo, s) = {}
  BY <1>4 DEF WithName
<1>7. WithoutName(repo, s) = {}
  BY <1>5 DEF WithoutName
<1>8. QED
  BY <1>1, <1>6, <1>7, ConsumedNothing

(*****************************************************************************)
(* A package without a name: the name is the package's last part.            *)
(*****************************************************************************)
LEMMA NoColon ==
  ASSUME NEW s \in Seq(Characters), Colon(s) = 0
  PROVE  \A k \in 1..Len(s) : s[k] # ":"
<1> DEFINE T == {k \in DOMAIN s : s[k] = ":"}
<1>1. T \in SUBSET Nat
  OBVIOUS
<1>2. ASSUME T # {} PROVE FALSE
  <2>1. First(T) \in T
    BY <1>1, <1>2, FirstIs
  <2>2. Colon(s) = First(T)
    BY DEF Colon
  <2>3. QED
    BY <2>1, <2>2
<1>3. QED
  BY <1>2

\* Colon is the first one.
LEMMA ColonIs ==
  ASSUME NEW s \in Seq(Characters), Colon(s) # 0
  PROVE  /\ Colon(s) \in 1..Len(s) /\ s[Colon(s)] = ":"
         /\ \A k \in 1..Colon(s) - 1 : s[k] # ":"
<1> DEFINE T == {k \in DOMAIN s : s[k] = ":"}
<1>1. T \in SUBSET Nat
  OBVIOUS
<1>2. Colon(s) = First(T)
  BY DEF Colon
<1>3. T # {}
  BY <1>2 DEF First
<1>4. First(T) \in T /\ \A k \in T : First(T) <= k
  BY <1>1, <1>3, FirstIs
<1>5. Colon(s) \in T /\ \A k \in T : Colon(s) <= k
  BY <1>2, <1>4
<1>6. ASSUME NEW k \in 1..Colon(s) - 1 PROVE s[k] # ":"
  <2>1. k \in 1..Len(s) /\ ~(Colon(s) <= k)
    BY <1>5
  <2>2. QED
    BY <1>5, <2>1
<1>7. QED
  BY <1>5, <1>6

\* A package by itself: its last part is the name.
LEMMA NameOfPackage ==
  ASSUME CharsOK, NEW p \in Seq(Characters), p # <<>>, IsPackage(p)
  PROVE  /\ ConsumeName(IF LastSlash(p) = 0 THEN p ELSE From(p, LastSlash(p)))
              = [ok |-> TRUE, name |-> NameFromPackage(p)]
         /\ NameFromPackage(p) # <<>>
<1>1. /\ \A k \in 1..Len(p) : p[k] # ":"
      /\ p[1] # "/" /\ p[Len(p)] # "/" /\ Slashes(p) = {} /\ Len(p) >= 1
  BY PackageIs DEF CharsOK
<1> DEFINE l == LastSlash(p)
           r == IF l = 0 THEN p ELSE From(p, l)
           n == IF l = 0 THEN 1 ELSE 2
<1>2. l \in 0..Len(p) /\ (l # 0 => p[l] = "/") /\ \A k \in l + 1..Len(p) : p[k] # "/"
  BY LastSlashIs
<1>3. l \in 0..Len(p) - 1
  BY <1>1, <1>2
<1>4. NameFromPackage(p) = From(p, l + 1)
  BY DEF NameFromPackage
<1> HIDE DEF l
<1>5. /\ From(p, l + 1) \in Seq(Characters) /\ Len(From(p, l + 1)) = Len(p) - l
      /\ From(p, l + 1)[1] = p[l + 1]
  <2>1. l + 1 \in 1..Len(p) + 1 /\ 1 \in 1..Len(p) + 1 - (l + 1) /\ l + 1 + 1 - 1 = l + 1 /\ Len(p) + 1 - (l + 1) = Len(p) - l
    BY <1>3
  <2>2. QED
    BY <2>1, FromIs
<1>6. From(p, l + 1) # <<>> /\ From(p, l + 1)[1] \notin {"/", ":"}
  <2>1. l + 1 \in 1..Len(p) /\ l + 1 \in l + 1..Len(p) /\ Len(p) - l >= 1
    BY <1>3
  <2>2. QED
    BY <1>1, <1>2, <1>5, <2>1
<1>7. /\ r \in Seq(Characters) /\ r # <<>> /\ r # <<":">> /\ Len(r) >= n - 1
      /\ (n = 1 => r[1] \notin {"/", ":"})
      /\ (n = 2 => r[1] = ":" \/ (r[1] = "/" /\ ~(Len(r) >= 2 /\ r[2] = "/")))
  <2>1. CASE l = 0
    BY <1>1, <1>2, <2>1
  <2>2. CASE l # 0
    <3>1. /\ From(p, l) \in Seq(Characters) /\ Len(From(p, l)) = Len(p) + 1 - l
          /\ \A k \in 1..Len(p) + 1 - l : From(p, l)[k] = p[l + k - 1]
      BY <1>3, <2>2, FromIs
    <3>2. 1 \in 1..Len(p) + 1 - l /\ 2 \in 1..Len(p) + 1 - l /\ l + 1 - 1 = l /\ l + 2 - 1 = l + 1 /\ l + 1 \in l + 1..Len(p)
      BY <1>3, <2>2
    <3>3. From(p, l)[1] = "/" /\ From(p, l)[2] # "/" /\ Len(From(p, l)) >= 2
      BY <1>2, <2>2, <3>1, <3>2
    <3>4. QED
      BY <2>2, <3>1, <3>3
  <2>3. QED
    BY <2>1, <2>2
<1>8. From(r, n) = From(p, l + 1)
  <2>1. CASE l = 0
    BY <2>1
  <2>2. CASE l # 0
    <3>1. /\ From(p, l) \in Seq(Characters) /\ Len(From(p, l)) = Len(p) + 1 - l
          /\ \A k \in 1..Len(p) + 1 - l : From(p, l)[k] = p[l + k - 1]
      BY <1>3, <2>2, FromIs
    <3>2. 2 \in 1..Len(From(p, l)) + 1
      BY <1>3, <2>2, <3>1
    <3>3. /\ From(From(p, l), 2) \in Seq(Characters) /\ Len(From(From(p, l), 2)) = Len(p) - l
          /\ \A k \in 1..Len(p) - l : From(From(p, l), 2)[k] = From(p, l)[k + 1]
      <4> DEFINE f == From(p, l)
      <4>1. f \in Seq(Characters) /\ Len(f) + 1 - 2 = Len(p) - l
        BY <1>3, <3>1
      <4> HIDE DEF f
      <4>2. /\ From(f, 2) \in Seq(Characters) /\ Len(From(f, 2)) = Len(f) + 1 - 2
            /\ \A k \in 1..Len(f) + 1 - 2 : From(f, 2)[k] = f[2 + k - 1]
        BY <3>2, <4>1, FromIs DEF f
      <4>3. ASSUME NEW k \in 1..Len(p) - l PROVE 2 + k - 1 = k + 1
        OBVIOUS
      <4>4. QED
        BY <4>1, <4>2, <4>3 DEF f
    <3>4. l + 1 \in 1..Len(p) + 1 /\ Len(p) + 1 - (l + 1) = Len(p) - l
      BY <1>3
    <3>5. \A k \in 1..Len(p) - l : From(p, l + 1)[k] = p[l + 1 + k - 1]
      BY <3>4, FromIs
    <3>6. ASSUME NEW k \in 1..Len(p) - l PROVE From(From(p, l), 2)[k] = From(p, l + 1)[k]
      <4>1. k + 1 \in 1..Len(p) + 1 - l /\ l + (k + 1) - 1 = l + 1 + k - 1
        BY <1>3
      <4>2. QED
        BY <3>1, <3>3, <3>5, <4>1
    <3>7. From(From(p, l), 2) = From(p, l + 1)
      <4> DEFINE a == From(From(p, l), 2)
                 b == From(p, l + 1)
      <4>1. a \in Seq(Characters) /\ b \in Seq(Characters) /\ Len(a) = Len(b) /\ \A k \in 1..Len(a) : a[k] = b[k]
        BY <1>5, <3>3, <3>6
      <4> HIDE DEF a, b
      <4>2. a = b
        BY <4>1, SeqEqual
      <4>3. QED
        BY <4>2 DEF a, b
    <3>8. QED
      BY <2>2, <3>7
  <2>3. QED
    BY <2>1, <2>2
<1>9. n \in {1, 2}
  OBVIOUS
<1> HIDE DEF r, n
<1>10. ConsumeName(r) = [ok |-> TRUE, name |-> From(r, n)]
  BY <1>6, <1>7, <1>8, <1>9, NameIs
<1>11. QED
  BY <1>4, <1>6, <1>8, <1>10 DEF r, l

\* "//" once, at the front.
LEMMA PackageAlone ==
  ASSUME CharsOK, NEW s \in Seq(Characters), Slashes(s) = {1}, NEW n \in 2..Len(s), NEW p, p = SubSeq(s, 3, n)
  PROVE  /\ p \in Seq(Characters)
         /\ IsPackage(p) <=> p = <<>> \/ (ToSet(p) \subseteq PackageChars \union {"/"} /\ Last(p) # "/")
<1>1. 3 \in 1..Len(s) + 1 /\ n \in 3 - 1..Len(s)
  OBVIOUS
<1>2. p \in Seq(Characters) /\ Len(p) = n + 1 - 3 /\ \A k \in 1..n + 1 - 3 : p[k] = s[3 + k - 1]
  BY <1>1, PartIs
<1>3. Slashes(p) = {}
  <2> SUFFICES ASSUME NEW k \in Slashes(p) PROVE FALSE
    OBVIOUS
  <2>1. k \in 1..n - 3 /\ 3 + k - 1 \in Slashes(s)
    BY <1>1, SlashesOfPart
  <2>2. QED
    BY <2>1
<1>4. ASSUME p # <<>> PROVE p[1] # "/"
  <2>1. 1 \in 1..n + 1 - 3 /\ 3 + 1 - 1 = 3 /\ 2 \in 1..Len(s) - 1
    BY <1>2, <1>4
  <2>2. p[1] = s[3]
    BY <1>2, <2>1
  <2>3. 2 \notin Slashes(s) /\ s[2] = "/"
    <3>1. 1 \in Slashes(s)
      OBVIOUS
    <3>2. s[1 + 1] = "/"
      BY <3>1, SlashesAre
    <3>3. QED
      BY <3>2
  <2>4. s[3] # "/"
    <3>1. s[2 + 1] # "/"
      BY <2>1, <2>3, SlashesAre
    <3>2. QED
      BY <3>1
  <2>5. QED
    BY <2>2, <2>4
<1>5. p = <<>> => \A k \in 1..Len(p) : p[k] \in PackageChars \union {"/"}
  BY <1>2
<1>6. QED
  BY <1>2, <1>3, <1>4, <1>5, PackageIs, ElementsAre, Zenon DEF Last

\* The parser and the grammar agree on a package without a name,
LEMMA WithoutColon ==
  ASSUME CharsOK, NEW repo, NEW s \in Seq(Characters), Slashes(s) = {1}, Colon(s) = 0
  PROVE  /\ WithName(repo, s) = {}
         /\ IF AnalyzePackage(repo, s).ok THEN WithoutName(repo, s) = {AnalyzePackage(repo, s)}
            ELSE WithoutName(repo, s) = {}
<1>1. WithName(repo, s) = {}
  <2>1. ASSUME NEW j \in 3..Len(s), s[j] = ":" PROVE FALSE
    <3>1. j \in 1..Len(s)
      OBVIOUS
    <3>2. QED
      BY <2>1, <3>1, NoColon
  <2>2. QED
    BY <2>1 DEF WithName
<1> DEFINE p == From(s, 3)
<1>2. Len(s) >= 2
  <2>1. 1 \in Slashes(s)
    OBVIOUS
  <2>2. 1 \in 1..Len(s) - 1
    BY <2>1, SlashesAre
  <2>3. QED
    BY <2>2
<1>3. /\ p = SubSeq(s, 3, Len(s)) /\ p \in Seq(Characters)
      /\ IsPackage(p) <=> p = <<>> \/ (ToSet(p) \subseteq PackageChars \union {"/"} /\ Last(p) # "/")
  <2>1. p = SubSeq(s, 3, Len(s)) /\ Len(s) \in 2..Len(s)
    BY <1>2 DEF From
  <2> HIDE DEF p
  <2>2. QED
    BY <2>1, PackageAlone
<1>4. p # <<>> <=> 2 < Len(s)
  <2>1. 3 \in 1..Len(s) + 1 /\ Len(s) + 1 - 3 = Len(s) - 2
    BY <1>2
  <2>2. Len(p) = Len(s) - 2 /\ p \in Seq(Characters)
    BY <2>1, FromIs
  <2> HIDE DEF p
  <2>3. p # <<>> <=> Len(p) > 0
    BY <2>2
  <2>4. QED
    BY <2>2, <2>3
<1>5. WithoutName(repo, s) = {Absolute(repo, From(t, 3), NameFromPackage(From(t, 3))) : t \in {u \in {s} : From(u, 3) # <<>> /\ IsPackage(From(u, 3))}}
  BY <1>4, Zenon DEF WithoutName
<1> DEFINE r == IF LastSlash(p) = 0 THEN p ELSE From(p, LastSlash(p))
<1>6. ConsumePackage(s) =
        IF p = <<>> THEN [ok |-> TRUE, package |-> <<>>, rest |-> <<>>]
        ELSE IF ~ToSet(p) \subseteq PackageChars \union {"/"} \/ Last(p) = "/" THEN Error
        ELSE [ok |-> TRUE, package |-> p, rest |-> r]
  <2>1. ConsumePackage(s) =
          IF SubSeq(s, 3, Len(s)) = <<>> THEN [ok |-> TRUE, package |-> SubSeq(s, 3, Len(s)), rest |-> <<>>]
          ELSE IF ~ToSet(SubSeq(s, 3, Len(s))) \subseteq PackageChars \union {"/"} \/ Last(SubSeq(s, 3, Len(s))) = "/" THEN Error
          ELSE [ok |-> TRUE, package |-> SubSeq(s, 3, Len(s)),
                rest |-> IF LastSlash(SubSeq(s, 3, Len(s))) = 0 THEN SubSeq(s, 3, Len(s))
                         ELSE From(SubSeq(s, 3, Len(s)), LastSlash(SubSeq(s, 3, Len(s))))]
    BY Zenon DEF ConsumePackage
  <2>2. QED
    BY <1>3, <2>1, Zenon
<1> HIDE DEF p, r
<1>7. CASE p = <<>>
  <2>1. AnalyzePackage(repo, s) = Error
    BY <1>6, <1>7, NothingLeft
  <2>2. WithoutName(repo, s) = {}
    BY <1>5, <1>7, Zenon DEF p
  <2>3. QED
    BY <1>1, <2>1, <2>2 DEF Error
<1>8. CASE p # <<>> /\ ~IsPackage(p)
  <2>1. AnalyzePackage(repo, s) = Error
    BY <1>3, <1>6, <1>8, ConsumedNothing
  <2>2. WithoutName(repo, s) = {}
    BY <1>5, <1>8, Zenon DEF p
  <2>3. QED
    BY <1>1, <2>1, <2>2 DEF Error
<1>9. CASE p # <<>> /\ IsPackage(p)
  <2>1. ConsumePackage(s) = [ok |-> TRUE, package |-> p, rest |-> r]
    BY <1>3, <1>6, <1>9
  <2>2. ConsumeName(r) = [ok |-> TRUE, name |-> NameFromPackage(p)] /\ NameFromPackage(p) # <<>>
    BY <1>3, <1>9, NameOfPackage DEF r
  <2>3. AnalyzePackage(repo, s) = Absolute(repo, p, NameFromPackage(p))
    BY <2>1, <2>2, NameConsumed
  <2>4. WithoutName(repo, s) = {Absolute(repo, p, NameFromPackage(p))}
    BY <1>5, <1>9 DEF p
  <2>5. AnalyzePackage(repo, s).ok
    BY <2>3 DEF Absolute
  <2>6. QED
    BY <1>1, <2>3, <2>4, <2>5
<1>10. QED
  BY <1>7, <1>8, <1>9

(*****************************************************************************)
(* A package with a name behind a colon.                                     *)
(*****************************************************************************)
\* What follows a colon is a name, or it is not.
LEMMA NameBehindColon ==
  ASSUME NEW s \in Seq(Characters), Slashes(s) = {1}, NEW c \in 3..Len(s), s[c] = ":"
  PROVE  ConsumeName(From(s, c)) =
           IF IsName(From(s, c + 1)) THEN [ok |-> TRUE, name |-> From(s, c + 1)] ELSE Error
<1> DEFINE r == From(s, c)
           m == From(s, c + 1)
<1>1. /\ r \in Seq(Characters) /\ Len(r) = Len(s) + 1 - c
      /\ \A k \in 1..Len(s) + 1 - c : r[k] = s[c + k - 1]
  BY FromIs
<1>2. /\ m \in Seq(Characters) /\ Len(m) = Len(s) - c
      /\ \A k \in 1..Len(s) - c : m[k] = s[c + k]
  <2>1. c + 1 \in 1..Len(s) + 1 /\ Len(s) + 1 - (c + 1) = Len(s) - c /\ \A k \in 1..Len(s) - c : c + 1 + k - 1 = c + k
    OBVIOUS
  <2>2. Len(m) = Len(s) + 1 - (c + 1) /\ m \in Seq(Characters) /\ \A k \in 1..Len(s) + 1 - (c + 1) : m[k] = s[c + 1 + k - 1]
    BY <2>1, FromIs
  <2> HIDE DEF m
  <2>3. QED
    BY <2>1, <2>2
<1>3. r # <<>> /\ r[1] = ":" /\ Len(r) >= 1
  <2>1. 1 \in 1..Len(s) + 1 - c /\ c + 1 - 1 = c
    OBVIOUS
  <2>2. r[1] = s[c]
    BY <1>1, <2>1
  <2> HIDE DEF r
  <2>3. QED
    BY <1>1, <2>1, <2>2
<1>4. Slashes(m) = {}
  <2> SUFFICES ASSUME NEW k \in Slashes(m) PROVE FALSE
    OBVIOUS
  <2>1. c + 1 \in 1..Len(s) + 1 /\ Len(s) \in c + 1 - 1..Len(s)
    OBVIOUS
  <2>2. k \in 1..Len(s) - (c + 1) /\ c + 1 + k - 1 \in Slashes(s)
    BY <2>1, SlashesOfPart DEF From
  <2>3. QED
    BY <2>2
<1>5. IsName(m) <=> m # <<>> /\ m[1] \notin {"/", ":"}
  BY <1>4 DEF IsName
<1>6. r = <<":">> <=> m = <<>>
  <2> HIDE DEF r, m
  <2> DEFINE one == <<":">>
  <2>3. one \in Seq({":"}) /\ Len(one) = 1 /\ one[1] = ":"
    OBVIOUS
  <2> HIDE DEF one
  <2>4. Len(r) = 1 => r = one
    <3>1. ASSUME Len(r) = 1 PROVE Len(r) = Len(one) /\ \A k \in 1..Len(r) : r[k] = one[k]
      <4>1. 1..Len(r) = {1}
        BY <3>1
      <4>2. QED
        BY <1>3, <2>3, <3>1, <4>1
    <3>2. QED
      BY <1>1, <2>3, <3>1, SeqEqual
  <2>1. r = <<":">> <=> Len(r) = 1
    BY <2>3, <2>4 DEF one
  <2>2. m = <<>> <=> Len(m) = 0
    BY <1>2
  <2>5. QED
    BY <1>1, <1>2, <2>1, <2>2
<1>7. CASE m = <<>>
  <2>1. ConsumeName(r) = Error
    BY <1>3, <1>6, <1>7, Zenon DEF ConsumeName
  <2>2. QED
    BY <1>5, <1>7, <2>1
<1>8. CASE m # <<>>
  <2>1. From(r, 2) = m
    <3>1. 2 \in 1..Len(r) + 1
      BY <1>3, <1>1
    <3> HIDE DEF r, m
    <3>2. /\ From(r, 2) \in Seq(Characters) /\ Len(From(r, 2)) = Len(r) + 1 - 2
          /\ \A k \in 1..Len(r) + 1 - 2 : From(r, 2)[k] = r[2 + k - 1]
      BY <1>1, <3>1, FromIs
    <3>3. Len(r) + 1 - 2 = Len(s) - c
      BY <1>1
    <3>4. ASSUME NEW k \in 1..Len(s) - c PROVE From(r, 2)[k] = m[k]
      <4>1. 2 + k - 1 \in 1..Len(s) + 1 - c /\ c + (2 + k - 1) - 1 = c + k
        OBVIOUS
      <4>2. QED
        BY <1>1, <1>2, <3>2, <3>3, <4>1
    <3> DEFINE f == From(r, 2)
    <3>5. f \in Seq(Characters) /\ Len(f) = Len(m) /\ \A k \in 1..Len(f) : f[k] = m[k]
      BY <1>2, <3>2, <3>3, <3>4
    <3> HIDE DEF f
    <3>6. f = m
      BY <1>2, <3>5, SeqEqual
    <3>7. QED
      BY <3>6 DEF f
  <2> HIDE DEF r, m
  <2>2. Len(r) >= 2 - 1 /\ r # <<":">> /\ 2 # 1
    BY <1>3, <1>6, <1>8
  <2>3. ConsumeName(r) = IF From(r, 2) # <<>> /\ From(r, 2)[1] \in {"/", ":"} THEN Error
                          ELSE [ok |-> TRUE, name |-> From(r, 2)]
    BY <1>1, <1>3, <2>2, NameIs
  <2>4. QED
    BY <1>5, <1>8, <2>1, <2>3 DEF r, m
<1>9. QED
  BY <1>7, <1>8

\* ... and on one with a name,
LEMMA WithColon ==
  ASSUME CharsOK, NEW repo, NEW s \in Seq(Characters), Slashes(s) = {1}, Colon(s) # 0
  PROVE  /\ WithoutName(repo, s) = {}
         /\ IF AnalyzePackage(repo, s).ok THEN WithName(repo, s) = {AnalyzePackage(repo, s)}
            ELSE WithName(repo, s) = {}
<1> DEFINE c == Colon(s)
           p == SubSeq(s, 3, c - 1)
           r == From(s, c)
           m == From(s, c + 1)
<1>1. c \in 3..Len(s) /\ s[c] = ":" /\ \A k \in 1..c - 1 : s[k] # ":"
  <2>1. c \in 1..Len(s) /\ s[c] = ":" /\ \A k \in 1..c - 1 : s[k] # ":"
    BY ColonIs
  <2>2. s[1] = "/" /\ s[1 + 1] = "/"
    <3>1. 1 \in Slashes(s)
      OBVIOUS
    <3>2. QED
      BY <3>1, SlashesAre
  <2> HIDE DEF c
  <2>3. c # 1 /\ c # 2
    BY <2>1, <2>2
  <2>4. QED
    BY <2>1, <2>3
<1> HIDE DEF c
<1>2. /\ p \in Seq(Characters)
      /\ IsPackage(p) <=> p = <<>> \/ (ToSet(p) \subseteq PackageChars \union {"/"} /\ Last(p) # "/")
  <2>1. c - 1 \in 2..Len(s)
    BY <1>1
  <2> HIDE DEF p
  <2>2. p = SubSeq(s, 3, c - 1)
    BY DEF p
  <2>3. QED
    BY <2>1, <2>2, PackageAlone
<1>3. ConsumeName(r) = IF IsName(m) THEN [ok |-> TRUE, name |-> m] ELSE Error
  BY <1>1, NameBehindColon
<1>4. r # <<>>
  <2>1. Len(r) = Len(s) + 1 - c /\ r \in Seq(Characters)
    BY <1>1, FromIs
  <2> HIDE DEF r
  <2>2. QED
    BY <1>1, <2>1
<1>5. ConsumePackage(s) =
        IF p = <<>> THEN [ok |-> TRUE, package |-> p, rest |-> r]
        ELSE IF ~ToSet(p) \subseteq PackageChars \union {"/"} \/ Last(p) = "/" THEN Error
        ELSE [ok |-> TRUE, package |-> p, rest |-> r]
  <2>1. 1 \in Slashes(s) /\ Slashes(s) = {1} /\ Colon(s) = c /\ c # 0
    BY <1>1 DEF c
  <2>2. QED
    BY <1>4, <2>1, Zenon DEF ConsumePackage
\* The package of a label ends at the first colon.
<1>6. ASSUME NEW j \in 3..Len(s), s[j] = ":", IsPackage(SubSeq(s, 3, j - 1)) PROVE j = c
  <2>1. ~(j < c)
    <3>1. ASSUME j < c PROVE j \in 1..c - 1
      BY <1>1, <3>1
    <3>2. QED
      BY <1>1, <1>6, <3>1
  <2>2. ~(c < j)
    <3> SUFFICES ASSUME c < j PROVE FALSE
      OBVIOUS
    <3> DEFINE q == SubSeq(s, 3, j - 1)
    <3>1. 3 \in 1..Len(s) + 1 /\ j - 1 \in 3 - 1..Len(s) /\ c - 2 \in 1..j - 1 + 1 - 3 /\ 3 + (c - 2) - 1 = c
      BY <1>1
    <3>2. q \in Seq(Characters) /\ Len(q) = j - 1 + 1 - 3 /\ q[c - 2] = s[3 + (c - 2) - 1]
      BY <3>1, PartIs
    <3> HIDE DEF q
    <3>3. IsPackage(q)
      BY <1>6 DEF q
    <3>4. q[c - 2] \in PackageChars \union {"/"}
      BY <3>1, <3>2, <3>3, PackageIs
    <3>5. QED
      BY <1>1, <3>1, <3>2, <3>4 DEF CharsOK
  <2>3. QED
    BY <1>1, <2>1, <2>2
<1>7. WithName(repo, s) = {Absolute(repo, SubSeq(s, 3, j - 1), From(s, j + 1)) :
                             j \in {k \in {c} : IsPackage(SubSeq(s, 3, k - 1)) /\ IsName(From(s, k + 1))}}
  <2>1. {k \in 3..Len(s) : /\ 1 \in Slashes(s) /\ s[k] = ":"
                           /\ IsPackage(SubSeq(s, 3, k - 1)) /\ IsName(From(s, k + 1))}
          = {k \in {c} : IsPackage(SubSeq(s, 3, k - 1)) /\ IsName(From(s, k + 1))}
    BY <1>1, <1>6
  <2>2. QED
    BY <2>1, Zenon DEF WithName
<1>8. WithoutName(repo, s) = {}
  <2>1. ASSUME 2 < Len(s), IsPackage(From(s, 3)) PROVE FALSE
    <3> DEFINE q == From(s, 3)
    <3>1. 3 \in 1..Len(s) + 1 /\ c - 2 \in 1..Len(s) + 1 - 3 /\ 3 + (c - 2) - 1 = c
      BY <1>1
    <3>2. q \in Seq(Characters) /\ Len(q) = Len(s) + 1 - 3 /\ q[c - 2] = s[3 + (c - 2) - 1]
      BY <3>1, FromIs
    <3> HIDE DEF q
    <3>3. IsPackage(q)
      BY <2>1 DEF q
    <3>4. q[c - 2] \in PackageChars \union {"/"}
      BY <3>1, <3>2, <3>3, PackageIs
    <3>5. QED
      BY <1>1, <3>1, <3>2, <3>4 DEF CharsOK
  <2>2. QED
    BY <2>1 DEF WithoutName
<1> DEFINE whole == IsPackage(p) /\ IsName(m)
<1>9. CASE whole
  <2>1. ConsumePackage(s) = [ok |-> TRUE, package |-> p, rest |-> r]
    BY <1>2, <1>5, <1>9
  <2>2. ConsumeName(r) = [ok |-> TRUE, name |-> m] /\ m # <<>>
    BY <1>3, <1>9 DEF IsName
  <2> HIDE DEF p, r, m
  <2>3. AnalyzePackage(repo, s) = Absolute(repo, p, m)
    BY <2>1, <2>2, NameConsumed
  <2>4. WithName(repo, s) = {Absolute(repo, p, m)}
    BY <1>7, <1>9 DEF p, m
  <2>5. AnalyzePackage(repo, s).ok
    BY <2>3 DEF Absolute
  <2>6. QED
    BY <1>8, <2>3, <2>4, <2>5
<1>10. CASE ~whole
  <2>1. WithName(repo, s) = {}
    BY <1>7, <1>10
  <2>2. AnalyzePackage(repo, s) = Error
    <3>1. CASE ~IsPackage(p)
      <4>1. ConsumePackage(s) = Error
        BY <1>2, <1>5, <3>1
      <4>2. QED
        BY <4>1, ConsumedNothing
    <3>2. CASE IsPackage(p)
      <4>1. ConsumePackage(s) = [ok |-> TRUE, package |-> p, rest |-> r]
        BY <1>2, <1>5, <3>2
      <4>2. ConsumeName(r) = Error
        BY <1>3, <1>10, <3>2
      <4> HIDE DEF p, r, m
      <4>3. QED
        BY <4>1, <4>2, NoNameConsumed
    <3>3. QED
      BY <3>1, <3>2
  <2>3. QED
    BY <1>8, <2>1, <2>2 DEF Error
<1>11. QED
  BY <1>9, <1>10

\* ... so that they agree on all that can follow a repository.
LEMMA PackageParsed ==
  ASSUME CharsOK, NEW repo, NEW s \in Seq(Characters)
  PROVE  WithName(repo, s) \union WithoutName(repo, s) =
           IF AnalyzePackage(repo, s).ok THEN {AnalyzePackage(repo, s)} ELSE {}
<1>1. CASE 1 \notin Slashes(s)
  BY <1>1, NoMark DEF Error
<1>2. CASE 1 \in Slashes(s) /\ Slashes(s) # {1}
  BY <1>2, SecondMark DEF Error
<1>3. CASE Slashes(s) = {1} /\ Colon(s) = 0
  BY <1>3, WithoutColon
<1>4. CASE Slashes(s) = {1} /\ Colon(s) # 0
  BY <1>4, WithColon
<1>5. QED
  BY <1>1, <1>2, <1>3, <1>4

(*****************************************************************************)
(* The grammar in parts: where the repository ends, and what follows it.     *)
(*****************************************************************************)
LEMMA PartOfRest ==
  ASSUME NEW s \in Seq(Characters), NEW i \in 0..Len(s), NEW a \in 1..Len(s) - i + 1, NEW b \in a - 1..Len(s) - i
  PROVE  SubSeq(From(s, i + 1), a, b) = SubSeq(s, i + a, i + b)
<1> DEFINE r == From(s, i + 1)
<1>1. /\ r \in Seq(Characters) /\ Len(r) = Len(s) - i
      /\ \A k \in 1..Len(s) - i : r[k] = s[i + k]
  <2>1. i + 1 \in 1..Len(s) + 1 /\ Len(s) + 1 - (i + 1) = Len(s) - i /\ \A k \in 1..Len(s) - i : i + 1 + k - 1 = i + k
    OBVIOUS
  <2>2. Len(r) = Len(s) + 1 - (i + 1) /\ r \in Seq(Characters) /\ \A k \in 1..Len(s) + 1 - (i + 1) : r[k] = s[i + 1 + k - 1]
    BY <2>1, FromIs
  <2> HIDE DEF r
  <2>3. QED
    BY <2>1, <2>2
<1> HIDE DEF r
<1> DEFINE x == SubSeq(r, a, b)
           y == SubSeq(s, i + a, i + b)
<1>2. x \in Seq(Characters) /\ Len(x) = b + 1 - a /\ \A k \in 1..b + 1 - a : x[k] = r[a + k - 1]
  <2>1. a \in 1..Len(r) + 1 /\ b \in a - 1..Len(r)
    BY <1>1
  <2>2. QED
    BY <1>1, <2>1, PartIs
<1>3. y \in Seq(Characters) /\ Len(y) = b + 1 - a /\ \A k \in 1..b + 1 - a : y[k] = s[i + a + k - 1]
  <2>1. i + a \in 1..Len(s) + 1 /\ i + b \in i + a - 1..Len(s) /\ i + b + 1 - (i + a) = b + 1 - a
    OBVIOUS
  <2>2. Len(y) = i + b + 1 - (i + a) /\ y \in Seq(Characters) /\ \A k \in 1..i + b + 1 - (i + a) : y[k] = s[i + a + k - 1]
    BY <2>1, PartIs
  <2> HIDE DEF y
  <2>3. QED
    BY <2>1, <2>2
<1> HIDE DEF x, y
<1>4. ASSUME NEW k \in 1..b + 1 - a PROVE x[k] = y[k]
  <2>1. a + k - 1 \in 1..Len(s) - i /\ i + (a + k - 1) = i + a + k - 1
    OBVIOUS
  <2>2. QED
    BY <1>1, <1>2, <1>3, <2>1
<1>5. x = y
  BY <1>2, <1>3, <1>4, SeqEqual
<1>6. QED
  BY <1>5 DEF x, y, r

LEMMA RestIs ==
  ASSUME NEW s \in Seq(Characters), NEW i \in 0..Len(s)
  PROVE  /\ From(s, i + 1) \in Seq(Characters) /\ Len(From(s, i + 1)) = Len(s) - i
         /\ \A k \in 1..Len(s) - i : From(s, i + 1)[k] = s[i + k]
<1> DEFINE r == From(s, i + 1)
<1>1. i + 1 \in 1..Len(s) + 1 /\ Len(s) + 1 - (i + 1) = Len(s) - i /\ \A k \in 1..Len(s) - i : i + 1 + k - 1 = i + k
  OBVIOUS
<1>2. Len(r) = Len(s) + 1 - (i + 1) /\ r \in Seq(Characters) /\ \A k \in 1..Len(s) + 1 - (i + 1) : r[k] = s[i + 1 + k - 1]
  BY <1>1, FromIs
<1> HIDE DEF r
<1>3. Len(r) = Len(s) - i /\ r \in Seq(Characters) /\ \A k \in 1..Len(s) - i : r[k] = s[i + k]
  BY <1>1, <1>2
<1>4. QED
  BY <1>3 DEF r

LEMMA FromRest ==
  ASSUME NEW s \in Seq(Characters), NEW i \in 0..Len(s), NEW a \in 1..Len(s) - i + 1
  PROVE  From(From(s, i + 1), a) = From(s, i + a)
<1> DEFINE r == From(s, i + 1)
<1>1. Len(r) = Len(s) - i
  BY RestIs
<1>2. Len(s) - i \in a - 1..Len(s) - i /\ i + (Len(s) - i) = Len(s)
  OBVIOUS
<1>3. SubSeq(r, a, Len(s) - i) = SubSeq(s, i + a, i + (Len(s) - i))
  BY <1>2, PartOfRest
<1>4. QED
  BY <1>1, <1>2, <1>3 DEF From

\* The grammar's four forms.
Relatives(s) ==
  {Relative(Tail(t)) : t \in {u \in {s} : u # <<>> /\ u[1] = ":" /\ u # <<":">> /\ u[2] \notin {"/", ":"}}}
EndsAt(s, i) == i + 2 <= Len(s) /\ s[i + 1] = "/" /\ s[i + 2] = "/"
Named(s) ==
  {Absolute(UpTo(s, p[1]), SubSeq(s, p[1] + 3, p[2] - 1), From(s, p[2] + 1)) :
     p \in {q \in (0..Len(s)) \X (1..Len(s)) :
              /\ EndsAt(s, q[1]) /\ IsRepo(UpTo(s, q[1])) /\ q[2] > q[1] + 2 /\ s[q[2]] = ":"
              /\ IsPackage(SubSeq(s, q[1] + 3, q[2] - 1)) /\ IsName(From(s, q[2] + 1))}}
Unnamed(s) ==
  {Absolute(UpTo(s, i), From(s, i + 3), NameFromPackage(From(s, i + 3))) :
     i \in {k \in 0..Len(s) : EndsAt(s, k) /\ IsRepo(UpTo(s, k)) /\ k + 2 < Len(s) /\ IsPackage(From(s, k + 3))}}
Repositories(s) ==
  {Absolute(t, <<>>, From(t, AtSigns(t) + 1)) : t \in {u \in {s} : IsRepo(u) /\ u \notin {<<>>, <<"@">>}}}

\* Denotes, by these names.
LEMMA DenotesIs ==
  ASSUME NEW s
  PROVE  Denotes(s) = Relatives(s) \union Named(s) \union Unnamed(s) \union Repositories(s)
  BY Zenon DEF Denotes, Relatives, EndsAt, Named, Unnamed, Repositories

RepoEnds(s) == {i \in 0..Len(s) : EndsAt(s, i) /\ IsRepo(UpTo(s, i))}

LEMMA NoRepoEnds ==
  ASSUME NEW s, RepoEnds(s) = {}
  PROVE  Named(s) = {} /\ Unnamed(s) = {}
<1>1. \A k \in 0..Len(s) : ~(EndsAt(s, k) /\ IsRepo(UpTo(s, k)))
  BY DEF RepoEnds
<1>2. Named(s) = {}
  <2>1. ASSUME NEW q \in (0..Len(s)) \X (1..Len(s)) PROVE q[1] \in 0..Len(s)
    OBVIOUS
  <2>2. QED
    BY <1>1, <2>1 DEF Named
<1>3. Unnamed(s) = {}
  BY <1>1 DEF Unnamed
<1>4. QED
  BY <1>2, <1>3

LEMMA OneRepoEnd ==
  ASSUME NEW s \in Seq(Characters), NEW i, RepoEnds(s) = {i}
  PROVE  /\ Named(s) = WithName(UpTo(s, i), From(s, i + 1))
         /\ Unnamed(s) = WithoutName(UpTo(s, i), From(s, i + 1))
<1> DEFINE r == From(s, i + 1)
           u == UpTo(s, i)
<1>1. i \in 0..Len(s) /\ EndsAt(s, i) /\ IsRepo(u)
  BY DEF RepoEnds
<1>2. \A k \in 0..Len(s) : EndsAt(s, k) /\ IsRepo(UpTo(s, k)) => k = i
  BY DEF RepoEnds
<1>3. /\ r \in Seq(Characters) /\ Len(r) = Len(s) - i
      /\ \A k \in 1..Len(s) - i : r[k] = s[i + k]
  BY <1>1, RestIs
<1>4. 1 \in Slashes(r)
  <2>1. 1 \in 1..Len(r) - 1 /\ 1 \in 1..Len(s) - i /\ 1 + 1 \in 1..Len(s) - i /\ i + (1 + 1) = i + 2
    BY <1>1, <1>3 DEF EndsAt
  <2> HIDE DEF r
  <2>2. r[1] = "/" /\ r[1 + 1] = "/"
    BY <1>1, <1>3, <2>1 DEF EndsAt
  <2>3. QED
    BY <1>3, <2>1, <2>2, SlashesAre
<1> HIDE DEF u, r
<1>5. ASSUME NEW k \in 3..Len(r)
      PROVE  \A a, j : a = i /\ j = i + k =>
               /\ j \in 1..Len(s) /\ j > a + 2 /\ r[k] = s[j]
               /\ SubSeq(r, 3, k - 1) = SubSeq(s, a + 3, j - 1)
               /\ From(r, k + 1) = From(s, j + 1)
  <2> SUFFICES ASSUME NEW a, NEW j, a = i, j = i + k
               PROVE  /\ j \in 1..Len(s) /\ j > a + 2 /\ r[k] = s[j]
                      /\ SubSeq(r, 3, k - 1) = SubSeq(s, a + 3, j - 1)
                      /\ From(r, k + 1) = From(s, j + 1)
    OBVIOUS
  <2>1. i + k \in 1..Len(s) /\ i + k > i + 2 /\ k \in 1..Len(s) - i
    BY <1>1, <1>3
  <2>2. SubSeq(r, 3, k - 1) = SubSeq(s, i + 3, i + (k - 1))
    <3>1. 3 \in 1..Len(s) - i + 1 /\ k - 1 \in 3 - 1..Len(s) - i
      BY <1>1, <1>3
    <3>2. QED
      BY <1>1, <3>1, PartOfRest DEF r
  <2>3. i + (k - 1) = j - 1 /\ i + (k + 1) = j + 1
    BY <1>1
  <2>4. From(r, k + 1) = From(s, i + (k + 1))
    <3>1. k + 1 \in 1..Len(s) - i + 1
      BY <1>1, <1>3
    <3>2. QED
      BY <1>1, <3>1, FromRest DEF r
  <2>5. QED
    BY <1>3, <2>1, <2>2, <2>3, <2>4
<1>6. ASSUME NEW x \in WithName(u, r) PROVE x \in Named(s)
  <2>1. PICK k \in 3..Len(r) : /\ r[k] = ":" /\ IsPackage(SubSeq(r, 3, k - 1)) /\ IsName(From(r, k + 1))
                               /\ x = Absolute(u, SubSeq(r, 3, k - 1), From(r, k + 1))
    BY <1>6, Zenon DEF WithName
  <2> DEFINE q == <<i, i + k>>
  <2>2. q \in (0..Len(s)) \X (1..Len(s)) /\ q[1] = i /\ q[2] = i + k
    BY <1>1, <1>5
  <2> HIDE DEF q
  <2>6. /\ SubSeq(r, 3, k - 1) = SubSeq(s, q[1] + 3, q[2] - 1) /\ From(r, k + 1) = From(s, q[2] + 1)
        /\ q[2] > q[1] + 2 /\ r[k] = s[q[2]]
    <3>1. q[1] = i
      BY <2>2
    <3>2. q[2] = i + k
      BY <2>2
    <3>3. k \in 3..Len(r)
      OBVIOUS
    <3>4. \A a, j : a = i /\ j = i + k =>
            SubSeq(r, 3, k - 1) = SubSeq(s, a + 3, j - 1) /\ From(r, k + 1) = From(s, j + 1)
            /\ j > a + 2 /\ r[k] = s[j]
      BY <1>5, <3>3, Zenon
    <3>5. QED
      BY <3>1, <3>2, <3>4, Zenon
  <2>3. x = Absolute(UpTo(s, q[1]), SubSeq(s, q[1] + 3, q[2] - 1), From(s, q[2] + 1))
    BY <2>1, <2>2, <2>6, Zenon DEF u
  <2>4. /\ EndsAt(s, q[1]) /\ IsRepo(UpTo(s, q[1])) /\ q[2] > q[1] + 2 /\ s[q[2]] = ":"
        /\ IsPackage(SubSeq(s, q[1] + 3, q[2] - 1)) /\ IsName(From(s, q[2] + 1))
    BY <1>1, <2>1, <2>2, <2>6, Zenon DEF u
  <2>5. QED
    BY <2>2, <2>3, <2>4, Zenon DEF Named
<1>7. ASSUME NEW x \in Named(s) PROVE x \in WithName(u, r)
  <2>1. PICK q \in (0..Len(s)) \X (1..Len(s)) :
              /\ EndsAt(s, q[1]) /\ IsRepo(UpTo(s, q[1])) /\ q[2] > q[1] + 2 /\ s[q[2]] = ":"
              /\ IsPackage(SubSeq(s, q[1] + 3, q[2] - 1)) /\ IsName(From(s, q[2] + 1))
              /\ x = Absolute(UpTo(s, q[1]), SubSeq(s, q[1] + 3, q[2] - 1), From(s, q[2] + 1))
    BY <1>7, Zenon DEF Named
  <2>2. q[1] \in 0..Len(s) /\ q[2] \in 1..Len(s)
    OBVIOUS
  <2>3. q[1] = i
    BY <1>2, <2>1, <2>2
  <2> DEFINE k == q[2] - i
  <2>4. k \in 3..Len(r) /\ i + k = q[2]
    BY <1>1, <1>3, <2>1, <2>2, <2>3
  <2> HIDE DEF k
  <2>5. /\ r[k] = s[q[2]] /\ SubSeq(r, 3, k - 1) = SubSeq(s, i + 3, q[2] - 1)
        /\ From(r, k + 1) = From(s, q[2] + 1)
    BY <1>5, <2>4, Zenon
  <2>6. /\ r[k] = ":" /\ IsPackage(SubSeq(r, 3, k - 1)) /\ IsName(From(r, k + 1))
        /\ x = Absolute(u, SubSeq(r, 3, k - 1), From(r, k + 1))
    BY <2>1, <2>3, <2>5 DEF u
  <2>7. QED
    BY <1>4, <2>4, <2>6, Zenon DEF WithName
<1>8. Unnamed(s) = WithoutName(u, r)
  <2>1. Unnamed(s) = {Absolute(UpTo(s, j), From(s, j + 3), NameFromPackage(From(s, j + 3))) :
                        j \in {k \in {i} : k + 2 < Len(s) /\ IsPackage(From(s, k + 3))}}
    <3>1. {k \in 0..Len(s) : EndsAt(s, k) /\ IsRepo(UpTo(s, k)) /\ k + 2 < Len(s) /\ IsPackage(From(s, k + 3))}
            = {k \in {i} : k + 2 < Len(s) /\ IsPackage(From(s, k + 3))}
      BY <1>1, <1>2 DEF u
    <3>2. QED
      BY <3>1, Zenon DEF Unnamed
  <2>2. i + 2 < Len(s) <=> 2 < Len(r)
    BY <1>1, <1>3
  <2>3. From(r, 3) = From(s, i + 3)
    <3>1. 3 \in 1..Len(s) - i + 1
      BY <1>1 DEF EndsAt
    <3>2. QED
      BY <1>1, <3>1, FromRest DEF r
  <2>4. WithoutName(u, r) = IF 2 < Len(r) /\ IsPackage(From(r, 3))
                            THEN {Absolute(u, From(r, 3), NameFromPackage(From(r, 3)))} ELSE {}
    BY <1>4 DEF WithoutName
  <2>5. Unnamed(s) = IF i + 2 < Len(s) /\ IsPackage(From(s, i + 3))
                     THEN {Absolute(u, From(s, i + 3), NameFromPackage(From(s, i + 3)))} ELSE {}
    BY <2>1 DEF u
  <2>6. QED
    BY <2>2, <2>3, <2>4, <2>5
<1>9. QED
  BY <1>6, <1>7, <1>8 DEF u, r

(*****************************************************************************)
(* Repositories, which consume_repository_name reads.                        *)
(*****************************************************************************)
LEMMA EmptyRepo == IsRepo(<<>>)
  BY DEF IsRepo

LEMMA OtherRepo ==
  ASSUME NEW r \in Seq(Characters), r # <<>>, r[1] # "@"
  PROVE  ~IsRepo(r) /\ AtSigns(r) = 0
<1>1. AtSigns(r) = 0
  <2>1. 0 \in 0..Len(r) /\ (\A k \in 1..0 : r[k] = "@") /\ 0 + 1 = 1
    OBVIOUS
  <2>2. QED
    BY <2>1, AtSignsOnly
<1>2. r # <<"@">>
  OBVIOUS
<1>3. QED
  BY <1>1, <1>2 DEF IsRepo

LEMMA AtRepo ==
  ASSUME NEW r \in Seq(Characters), r # <<>>, r[1] = "@", NEW n, n = From(r, AtSigns(r) + 1)
  PROVE  /\ IsRepo(r) <=>
              /\ AtSigns(r) <= 2
              /\ IF n = <<>> THEN AtSigns(r) # 2
                 ELSE n[1] \in Letters /\ ToSet(n) \subseteq RepoChars
         /\ n = <<>> /\ AtSigns(r) = 1 <=> r = <<"@">>
         /\ AtSigns(r) >= 1
<1> DEFINE a == AtSigns(r)
<1>1. a \in 1..Len(r)
  <2>1. a \in 0..Len(r) /\ (a < Len(r) => r[a + 1] # "@")
    BY AtSignsAre
  <2> HIDE DEF a
  <2>2. a # 0
    BY <2>1
  <2>3. QED
    BY <2>1, <2>2
<1>2. n \in Seq(Characters) /\ Len(n) = Len(r) - a
  <2>1. a \in 0..Len(r)
    BY <1>1
  <2> HIDE DEF a
  <2>2. /\ From(r, a + 1) \in Seq(Characters) /\ Len(From(r, a + 1)) = Len(r) - a
    BY <2>1, RestIs
  <2>3. QED
    BY <2>2 DEF a
<1>3. n = <<>> <=> Len(r) = a
  BY <1>1, <1>2
<1>4. r = <<"@">> <=> Len(r) = 1
  <2> DEFINE one == <<"@">>
  <2>1. one \in Seq({"@"}) /\ Len(one) = 1 /\ one[1] = "@"
    OBVIOUS
  <2> HIDE DEF one
  <2>2. Len(r) = 1 => r = one
    <3>1. ASSUME Len(r) = 1 PROVE Len(r) = Len(one) /\ \A k \in 1..Len(r) : r[k] = one[k]
      <4>1. 1..Len(r) = {1}
        BY <3>1
      <4>2. QED
        BY <2>1, <3>1, <4>1
    <3>2. QED
      BY <2>1, <3>1, SeqEqual
  <2>3. QED
    BY <2>1, <2>2 DEF one
<1>5. r = <<"@">> => a = 1
  BY <1>1, <1>4
<1> HIDE DEF a
<1>6. n = <<>> /\ a = 1 <=> r = <<"@">>
  BY <1>3, <1>4, <1>5
<1>7. IsRepo(r) <=>
        r = <<"@">> \/ (a \in {1, 2} /\ n # <<>> /\ n[1] \in Letters /\ ToSet(n) \subseteq RepoChars)
  BY DEF IsRepo, a
<1>8. IsRepo(r) <=>
        a <= 2 /\ IF n = <<>> THEN a # 2 ELSE n[1] \in Letters /\ ToSet(n) \subseteq RepoChars
  BY <1>1, <1>6, <1>7
<1>9. QED
  BY <1>1, <1>6, <1>8 DEF a

\* There is no "/" in a repository.
LEMMA RepoNoSlash ==
  ASSUME CharsOK, NEW r \in Seq(Characters), IsRepo(r)
  PROVE  \A k \in 1..Len(r) : r[k] # "/"
<1>1. CASE r = <<>>
  BY <1>1
<1>2. CASE r # <<>> /\ r[1] = "@"
  <2> DEFINE a == AtSigns(r)
             n == From(r, a + 1)
  <2>1. a \in 0..Len(r) /\ \A k \in 1..a : r[k] = "@"
    BY AtSignsAre
  <2> HIDE DEF a
  <2>2. n \in Seq(Characters) /\ Len(n) = Len(r) - a /\ \A k \in 1..Len(r) - a : n[k] = r[a + k]
    BY <2>1, RestIs
  <2>3. n = <<>> \/ ToSet(n) \subseteq RepoChars
    BY <1>2, AtRepo DEF a
  <2> HIDE DEF n
  <2>4. \A k \in 1..Len(n) : n[k] \in RepoChars
    BY <2>2, <2>3, ElementsAre
  <2>5. ASSUME NEW k \in 1..Len(r) PROVE r[k] # "/"
    <3>1. CASE k \in 1..a
      BY <2>1, <3>1
    <3>2. CASE k \notin 1..a
      <4>1. k - a \in 1..Len(r) - a /\ a + (k - a) = k
        BY <2>1, <3>2
      <4>2. r[k] \in RepoChars
        BY <2>2, <2>4, <4>1
      <4>3. QED
        BY <4>2 DEF CharsOK
    <3>3. QED
      BY <3>1, <3>2
  <2>6. QED
    BY <2>5
<1>3. CASE r # <<>> /\ r[1] # "@"
  BY <1>3, OtherRepo
<1>4. QED
  BY <1>1, <1>2, <1>3

RepoLength(s) == IF Slashes(s) = {} THEN Len(s) ELSE First(Slashes(s)) - 1

\* RepoLength is where consume_repository_name takes the repository to end.
LEMMA RepoLengthIs ==
  ASSUME NEW s \in Seq(Characters), s # <<>>, s[1] = "@"
  PROVE  /\ RepoLength(s) \in 1..Len(s)
         /\ Slashes(s) # {} => EndsAt(s, RepoLength(s)) /\ RepoLength(s) + 1 \in Slashes(s)
         /\ \A k \in Slashes(s) : RepoLength(s) + 1 <= k
<1>1. CASE Slashes(s) = {}
  BY <1>1 DEF RepoLength
<1>2. CASE Slashes(s) # {}
  <2>1. Slashes(s) \in SUBSET Nat
    BY SlashesAre
  <2> DEFINE f == First(Slashes(s))
  <2>2. f \in Slashes(s) /\ \A k \in Slashes(s) : f <= k
    BY <1>2, <2>1, FirstIs
  <2>3. RepoLength(s) = f - 1
    BY <1>2 DEF RepoLength
  <2> HIDE DEF f
  <2>4. f \in 1..Len(s) - 1 /\ s[f] = "/" /\ s[f + 1] = "/"
    BY <2>2, SlashesAre
  <2>5. f # 1
    BY <2>4
  <2>6. f - 1 \in 1..Len(s) /\ f - 1 + 1 = f /\ f - 1 + 2 = f + 1 /\ f + 1 <= Len(s)
    BY <2>4, <2>5
  <2>7. EndsAt(s, f - 1)
    BY <2>4, <2>6 DEF EndsAt
  <2>8. QED
    BY <2>2, <2>3, <2>6, <2>7
<1>3. QED
  BY <1>1, <1>2

LEMMA PartBehind ==
  ASSUME NEW S, NEW s \in Seq(S), NEW a \in 0..Len(s), NEW e \in a..Len(s)
  PROVE  /\ SubSeq(s, a + 1, e) \in Seq(S) /\ Len(SubSeq(s, a + 1, e)) = e - a
         /\ \A k \in 1..e - a : SubSeq(s, a + 1, e)[k] = s[a + k]
<1>1. a + 1 \in 1..Len(s) + 1 /\ e \in a + 1 - 1..Len(s) /\ e + 1 - (a + 1) = e - a
      /\ \A k \in 1..e - a : a + 1 + k - 1 = a + k
  OBVIOUS
<1> DEFINE n == SubSeq(s, a + 1, e)
<1>2. n \in Seq(S) /\ Len(n) = e + 1 - (a + 1) /\ \A k \in 1..e + 1 - (a + 1) : n[k] = s[a + 1 + k - 1]
  BY <1>1, PartIs
<1> HIDE DEF n
<1>3. n \in Seq(S) /\ Len(n) = e - a /\ \A k \in 1..e - a : n[k] = s[a + k]
  BY <1>1, <1>2
<1>4. QED
  BY <1>3 DEF n

\* consume_repository_name takes what the grammar takes for a repository.
LEMMA ConsumedRepo ==
  ASSUME NEW s \in Seq(Characters), s # <<>>, s[1] = "@"
  PROVE  ConsumeRepository(s) =
           IF IsRepo(UpTo(s, RepoLength(s)))
           THEN [ok |-> TRUE, repo |-> UpTo(s, RepoLength(s)), rest |-> From(s, RepoLength(s) + 1)] ELSE Error
<1> DEFINE e == RepoLength(s)
           r == UpTo(s, e)
           a == AtSigns(s)
           n == SubSeq(s, a + 1, e)
<1>1. e \in 1..Len(s) /\ (e < Len(s) => s[e + 1] = "/")
  <2>1. CASE Slashes(s) = {}
    BY <2>1, RepoLengthIs DEF RepoLength
  <2>2. CASE Slashes(s) # {}
    BY <2>2, RepoLengthIs DEF EndsAt
  <2>3. QED
    BY <2>1, <2>2
<1> HIDE DEF e
<1>2. r \in Seq(Characters) /\ Len(r) = e /\ \A k \in 1..e : r[k] = s[k]
  <2>1. e \in 0..Len(s)
    BY <1>1
  <2>2. QED
    BY <2>1, UpToIs
<1>3. a \in 0..Len(s) /\ (\A k \in 1..a : s[k] = "@") /\ (a < Len(s) => s[a + 1] # "@")
  BY AtSignsAre
<1> HIDE DEF a
<1>4. a \in 1..e
  <2>1. a # 0
    BY <1>1, <1>3
  <2>2. ASSUME e < a PROVE FALSE
    <3>1. e < Len(s) /\ e + 1 \in 1..a
      BY <1>1, <1>3, <2>2
    <3>2. QED
      BY <1>1, <1>3, <3>1
  <2>3. QED
    BY <1>1, <1>3, <2>1, <2>2
<1> HIDE DEF r
<1>5. AtSigns(r) = a
  <2>1. ASSUME NEW k \in 1..a PROVE r[k] = "@"
    <3>1. k \in 1..e
      BY <1>1, <1>4
    <3>2. QED
      BY <1>2, <1>3, <3>1
  <2>2. ASSUME a < Len(r) PROVE r[a + 1] # "@"
    <3>1. a + 1 \in 1..e /\ a < Len(s)
      BY <1>1, <1>2, <1>4, <2>2
    <3>2. QED
      BY <1>2, <1>3, <3>1
  <2>3. a \in 0..Len(r)
    BY <1>2, <1>4
  <2>4. QED
    BY <1>2, <2>1, <2>2, <2>3, AtSignsOnly
<1>6. n = From(r, a + 1)
  <2>1. n = SubSeq(r, a + 1, e)
    <3>1. a \in 0..Len(s) /\ e \in a..Len(s) /\ a \in 0..Len(r) /\ e \in a..Len(r)
      BY <1>1, <1>2, <1>4
    <3> DEFINE m == SubSeq(r, a + 1, e)
    <3>2. n \in Seq(Characters) /\ Len(n) = e - a /\ \A k \in 1..e - a : n[k] = s[a + k]
      BY <3>1, PartBehind
    <3>3. m \in Seq(Characters) /\ Len(m) = e - a /\ \A k \in 1..e - a : m[k] = r[a + k]
      BY <1>2, <3>1, PartBehind
    <3> HIDE DEF m, n
    <3>4. ASSUME NEW k \in 1..Len(n) PROVE n[k] = m[k]
      <4>1. k \in 1..e - a /\ a + k \in 1..e
        BY <1>1, <1>4, <3>2
      <4>2. QED
        BY <1>2, <3>2, <3>3, <4>1
    <3>5. n = m
      BY <3>2, <3>3, <3>4, SeqEqual
    <3>6. QED
      BY <3>5 DEF m
  <2>2. QED
    BY <1>2, <2>1 DEF From
<1>7. r # <<>> /\ r[1] = "@"
  <2>1. 1 \in 1..e
    BY <1>1
  <2>2. QED
    BY <1>2, <2>1
<1> HIDE DEF n
<1>8. IsRepo(r) <=> a <= 2 /\ IF n = <<>> THEN a # 2 ELSE n[1] \in Letters /\ ToSet(n) \subseteq RepoChars
  <2>1. n = From(r, AtSigns(r) + 1)
    BY <1>5, <1>6
  <2>2. IsRepo(r) <=>
          /\ AtSigns(r) <= 2
          /\ IF n = <<>> THEN AtSigns(r) # 2 ELSE n[1] \in Letters /\ ToSet(n) \subseteq RepoChars
    BY <1>2, <1>7, <2>1, AtRepo
  <2>3. QED
    BY <1>5, <2>2
<1>9. ConsumeRepository(s) =
        IF a = 0 THEN [ok |-> TRUE, repo |-> <<>>, rest |-> s]
        ELSE IF \/ a > 2
                \/ n # <<>> /\ (n[1] \notin Letters \/ ~ToSet(n) \subseteq RepoChars)
                \/ a = 2 /\ n = <<>>
             THEN Error
             ELSE [ok |-> TRUE, repo |-> UpTo(s, e), rest |-> From(s, e + 1)]
  BY Zenon DEF ConsumeRepository, RepoLength, e, n, a
<1>10. CASE IsRepo(r)
  BY <1>4, <1>8, <1>9, <1>10 DEF r, e
<1>11. CASE ~IsRepo(r)
  BY <1>4, <1>8, <1>9, <1>11 DEF r, e
<1>12. QED
  BY <1>10, <1>11

\* The grammar, too, has the repository end there.
LEMMA RepoEndIs ==
  ASSUME CharsOK, NEW s \in Seq(Characters), s # <<>>, s[1] = "@"
  PROVE  RepoEnds(s) = IF Slashes(s) # {} /\ IsRepo(UpTo(s, RepoLength(s))) THEN {RepoLength(s)} ELSE {}
<1> DEFINE e == RepoLength(s)
<1>1. /\ e \in 1..Len(s)
      /\ Slashes(s) # {} => EndsAt(s, e) /\ e + 1 \in Slashes(s)
      /\ \A k \in Slashes(s) : e + 1 <= k
  BY RepoLengthIs
<1> HIDE DEF e
<1>2. ASSUME NEW i \in RepoEnds(s) PROVE Slashes(s) # {} /\ i = e
  <2>1. i \in 0..Len(s) /\ EndsAt(s, i) /\ IsRepo(UpTo(s, i))
    BY DEF RepoEnds
  <2>2. i + 1 \in Slashes(s)
    <3>1. i + 1 \in 1..Len(s) - 1 /\ i + 1 + 1 = i + 2
      BY <2>1 DEF EndsAt
    <3>2. QED
      BY <2>1, <3>1, SlashesAre DEF EndsAt
  <2>3. ~(e < i)
    <3> SUFFICES ASSUME e < i PROVE FALSE
      OBVIOUS
    <3>1. e + 1 \in 1..i
      BY <1>1, <2>1
    <3>2. UpTo(s, i) \in Seq(Characters) /\ Len(UpTo(s, i)) = i /\ UpTo(s, i)[e + 1] = s[e + 1]
      BY <2>1, <3>1, UpToIs
    <3>3. s[e + 1] = "/"
      BY <1>1, <2>2 DEF EndsAt
    <3>4. QED
      BY <2>1, <3>1, <3>2, <3>3, RepoNoSlash
  <2>4. e + 1 <= i + 1
    BY <1>1, <2>2
  <2>5. QED
    BY <1>1, <2>1, <2>2, <2>3, <2>4
<1>3. ASSUME Slashes(s) # {}, IsRepo(UpTo(s, e)) PROVE e \in RepoEnds(s)
  BY <1>1, <1>3 DEF RepoEnds
<1>4. ASSUME NEW i \in RepoEnds(s) PROVE IsRepo(UpTo(s, i))
  BY DEF RepoEnds
<1>5. QED
  BY <1>2, <1>3, <1>4 DEF e

(*****************************************************************************)
(* The kinds of labels.                                                      *)
(*****************************************************************************)
LEMMA AtLeastTwo == ASSUME NEW n \in Nat, n # 0, n # 1 PROVE n >= 2
  OBVIOUS

\* Only a relative name.
LEMMA RelativeParsed ==
  ASSUME NEW s \in Seq(Characters), s # <<>>, s[1] = ":"
  PROVE  IF Analyze(s).ok THEN Relatives(s) = {Analyze(s)} ELSE Relatives(s) = {}
<1> DEFINE m == From(s, 2)
<1>1. Analyze(s) = IF ConsumeName(s).ok THEN Relative(ConsumeName(s).name) ELSE Error
  BY Zenon DEF Analyze
<1>2. Tail(s) = m
  <2>1. /\ From(s, 1 + 1) \in Seq(Characters) /\ Len(From(s, 1 + 1)) = Len(s) - 1
        /\ \A k \in 1..Len(s) - 1 : From(s, 1 + 1)[k] = s[1 + k]
    <3>1. 1 \in 0..Len(s)
      OBVIOUS
    <3>2. QED
      BY <3>1, RestIs
  <2>2. 1 + 1 = 2
    OBVIOUS
  <2>3. Tail(s) \in Seq(Characters) /\ Len(Tail(s)) = Len(s) - 1 /\ \A k \in 1..Len(s) - 1 : Tail(s)[k] = s[1 + k]
    OBVIOUS
  <2> DEFINE t == Tail(s)
  <2>4. m \in Seq(Characters) /\ Len(m) = Len(s) - 1 /\ \A k \in 1..Len(s) - 1 : m[k] = s[1 + k]
    BY <2>1, <2>2
  <2> HIDE DEF m, t
  <2>5. m = t
    BY <2>3, <2>4, SeqEqual DEF t
  <2>6. QED
    BY <2>5 DEF t
<1>3. CASE s = <<":">>
  <2>1. ConsumeName(s) = Error
    BY <1>3, Zenon DEF ConsumeName
  <2>2. Analyze(s) = Error
    BY <1>1, <2>1 DEF Error
  <2>3. Relatives(s) = {}
    BY <1>3 DEF Relatives
  <2>4. QED
    BY <2>2, <2>3 DEF Error
<1>4. CASE s # <<":">>
  <2>1. Len(s) >= 2
    <3> DEFINE one == <<":">>
    <3>1. one \in Seq({":"}) /\ Len(one) = 1 /\ one[1] = ":"
      OBVIOUS
    <3> HIDE DEF one
    <3>2. ASSUME Len(s) = 1 PROVE s = one
      <4>1. 1..Len(s) = {1}
        BY <3>2
      <4>2. Len(s) = Len(one) /\ \A k \in 1..Len(s) : s[k] = one[k]
        BY <3>1, <3>2, <4>1
      <4>3. QED
        BY <3>1, <4>2, SeqEqual
    <3>3. Len(s) # 1
      BY <1>4, <3>2 DEF one
    <3>4. Len(s) \in Nat /\ Len(s) # 0
      OBVIOUS
    <3> HIDE DEF m
    <3>5. QED
      BY <3>3, <3>4, AtLeastTwo, Zenon
  <2>2. m # <<>> /\ m[1] = s[2]
    <3>1. 1 \in 0..Len(s) /\ 1 \in 1..Len(s) - 1 /\ 1 + 1 = 2
      BY <2>1
    <3>2. /\ From(s, 1 + 1) \in Seq(Characters) /\ Len(From(s, 1 + 1)) = Len(s) - 1
          /\ \A k \in 1..Len(s) - 1 : From(s, 1 + 1)[k] = s[1 + k]
      BY <3>1, RestIs
    <3>3. m \in Seq(Characters) /\ Len(m) = Len(s) - 1 /\ m[1] = s[1 + 1]
      BY <3>1, <3>2
    <3> HIDE DEF m
    <3>4. QED
      BY <2>1, <3>1, <3>3
  <2>3. Relatives(s) = IF s[2] \in {"/", ":"} THEN {} ELSE {Relative(m)}
    BY <1>2, <1>4 DEF Relatives
  <2>4. ConsumeName(s) = IF m # <<>> /\ m[1] \in {"/", ":"} THEN Error ELSE [ok |-> TRUE, name |-> m]
    <3>1. Len(s) >= 2 - 1 /\ 2 # 1
      BY <2>1
    <3>2. QED
      BY <1>4, <3>1, NameIs
  <2> HIDE DEF m
  <2>5. CASE s[2] \in {"/", ":"}
    <3>1. ConsumeName(s) = Error
      BY <2>2, <2>4, <2>5
    <3>2. Analyze(s) = Error
      BY <1>1, <3>1 DEF Error
    <3>3. QED
      BY <2>3, <2>5, <3>2 DEF Error
  <2>6. CASE s[2] \notin {"/", ":"}
    <3>1. ConsumeName(s) = [ok |-> TRUE, name |-> m]
      BY <2>2, <2>4, <2>6
    <3>2. Analyze(s) = Relative(m)
      BY <1>1, <3>1
    <3>3. Analyze(s).ok
      BY <3>2 DEF Relative
    <3>4. QED
      BY <2>3, <2>6, <3>2, <3>3
  <2>7. QED
    BY <2>5, <2>6
<1>5. QED
  BY <1>3, <1>4

LEMMA NoRelative ==
  ASSUME NEW s, s = <<>> \/ s[1] # ":"
  PROVE  Relatives(s) = {}
  BY DEF Relatives

LEMMA NoAt ==
  ASSUME NEW s \in Seq(Characters), s # <<>>, s[1] # "@"
  PROVE  /\ RepoEnds(s) = IF 1 \in Slashes(s) THEN {0} ELSE {}
         /\ Repositories(s) = {}
         /\ ConsumeRepository(s) = [ok |-> TRUE, repo |-> <<>>, rest |-> s]
<1>1. ~IsRepo(s) /\ AtSigns(s) = 0
  BY OtherRepo
<1>2. Repositories(s) = {}
  BY <1>1 DEF Repositories
<1>3. ConsumeRepository(s) = [ok |-> TRUE, repo |-> <<>>, rest |-> s]
  BY <1>1, Zenon DEF ConsumeRepository
<1>4. ASSUME NEW i \in RepoEnds(s) PROVE i = 0 /\ 1 \in Slashes(s)
  <2>1. i \in 0..Len(s) /\ EndsAt(s, i) /\ IsRepo(UpTo(s, i))
    BY DEF RepoEnds
  <2>2. i = 0
    <3> SUFFICES ASSUME i # 0 PROVE FALSE
      OBVIOUS
    <3>1. 1 \in 1..i
      BY <2>1
    <3>2. UpTo(s, i) \in Seq(Characters) /\ Len(UpTo(s, i)) = i /\ UpTo(s, i)[1] = s[1]
      BY <2>1, <3>1, UpToIs
    <3>3. UpTo(s, i) # <<>>
      BY <3>1, <3>2
    <3>4. QED
      BY <2>1, <3>2, <3>3, OtherRepo
  <2>3. 1 \in Slashes(s)
    <3>1. 1 \in 1..Len(s) - 1 /\ 0 + 1 = 1 /\ 0 + 2 = 1 + 1
      BY <2>1, <2>2 DEF EndsAt
    <3>2. s[1] = "/" /\ s[1 + 1] = "/"
      BY <2>1, <2>2, <3>1 DEF EndsAt
    <3>3. QED
      BY <3>1, <3>2, SlashesAre
  <2>4. QED
    BY <2>2, <2>3
<1>5. ASSUME 1 \in Slashes(s) PROVE 0 \in RepoEnds(s)
  <2>1. 1 \in 1..Len(s) - 1 /\ s[1] = "/" /\ s[1 + 1] = "/"
    BY <1>5, SlashesAre
  <2>2. EndsAt(s, 0)
    BY <2>1 DEF EndsAt
  <2>3. UpTo(s, 0) = <<>>
    <3>1. UpTo(s, 0) \in Seq(Characters) /\ Len(UpTo(s, 0)) = 0
      BY UpToIs
    <3>2. QED
      BY <3>1
  <2>4. 0 \in 0..Len(s)
    OBVIOUS
  <2>5. QED
    BY <2>2, <2>3, <2>4, EmptyRepo DEF RepoEnds
<1>6. QED
  BY <1>2, <1>3, <1>4, <1>5

\* Parts that are all of a string, or nothing of it.
LEMMA WholeString ==
  ASSUME NEW s \in Seq(Characters)
  PROVE  /\ From(s, 1) = s /\ UpTo(s, Len(s)) = s /\ UpTo(s, 0) = <<>> /\ From(s, Len(s) + 1) = <<>>
<1>1. From(s, 1) = s /\ UpTo(s, Len(s)) = s
  BY DEF From, UpTo
<1>2. UpTo(s, 0) \in Seq(Characters) /\ Len(UpTo(s, 0)) = 0
  BY UpToIs
<1>3. From(s, Len(s) + 1) \in Seq(Characters) /\ Len(From(s, Len(s) + 1)) = 0
  <2>1. Len(s) \in 0..Len(s) /\ Len(s) - Len(s) = 0
    OBVIOUS
  <2>2. QED
    BY <2>1, RestIs
<1>4. QED
  BY <1>1, <1>2, <1>3

\* The parser and the grammar agree on the empty string, on a relative name, on a label
\* of the main repository and on one that names a repository.
LEMMA EmptyParsed ==
  Denotes(<<>>) = {} /\ Analyze(<<>>) = Error
<1> DEFINE s == <<>>
<1>1. s \in Seq(Characters) /\ Len(s) = 0
  OBVIOUS
<1>2. RepoEnds(s) = {}
  <2>1. \A i \in 0..Len(s) : ~EndsAt(s, i)
    BY <1>1 DEF EndsAt
  <2>2. QED
    BY <2>1 DEF RepoEnds
<1>3. Repositories(s) = {}
  BY DEF Repositories
<1>4. Relatives(s) = {}
  BY NoRelative
<1>5. Named(s) = {} /\ Unnamed(s) = {}
  BY <1>2, NoRepoEnds
<1>6. Denotes(s) = {}
  BY <1>3, <1>4, <1>5, DenotesIs
<1>7. Analyze(<<>>) = Error
  BY Zenon DEF Analyze
<1>8. QED
  BY <1>6, <1>7

LEMMA RelativeAlone ==
  ASSUME NEW s \in Seq(Characters), s # <<>>, s[1] = ":"
  PROVE  Denotes(s) = IF Analyze(s).ok THEN {Analyze(s)} ELSE {}
<1>1. s[1] # "@" /\ 1 \notin Slashes(s)
  BY SlashesAre
<1>2. RepoEnds(s) = {} /\ Repositories(s) = {}
  BY <1>1, NoAt
<1>3. Named(s) = {} /\ Unnamed(s) = {}
  BY <1>2, NoRepoEnds
<1>4. Denotes(s) = Relatives(s)
  BY <1>2, <1>3, DenotesIs
<1>5. QED
  BY <1>4, RelativeParsed

LEMMA MainParsed ==
  ASSUME CharsOK, NEW s \in Seq(Characters), s # <<>>, s[1] # ":", s[1] # "@"
  PROVE  Denotes(s) = IF Analyze(s).ok THEN {Analyze(s)} ELSE {}
<1>1. /\ RepoEnds(s) = (IF 1 \in Slashes(s) THEN {0} ELSE {})
      /\ Repositories(s) = {}
      /\ ConsumeRepository(s) = [ok |-> TRUE, repo |-> <<>>, rest |-> s]
  BY NoAt
<1>2. Relatives(s) = {}
  BY NoRelative
<1>3. Analyze(s) = AnalyzePackage(<<>>, s)
  BY <1>1 DEF Analyze
<1>4. Denotes(s) = Named(s) \union Unnamed(s)
  BY <1>1, <1>2, DenotesIs
<1>5. CASE 1 \in Slashes(s)
  <2>1. RepoEnds(s) = {0}
    BY <1>1, <1>5
  <2>2. 0 + 1 = 1
    OBVIOUS
  <2>3. Named(s) = WithName(UpTo(s, 0), From(s, 0 + 1)) /\ Unnamed(s) = WithoutName(UpTo(s, 0), From(s, 0 + 1))
    BY <2>1, OneRepoEnd
  <2>4. Named(s) = WithName(<<>>, s) /\ Unnamed(s) = WithoutName(<<>>, s)
    BY <2>2, <2>3, WholeString
  <2>5. QED
    BY <1>3, <1>4, <2>4, PackageParsed
<1>6. CASE 1 \notin Slashes(s)
  <2>1. Analyze(s) = Error
    BY <1>3, <1>6, NoMark
  <2>2. Named(s) = {} /\ Unnamed(s) = {}
    BY <1>1, <1>6, NoRepoEnds
  <2>3. QED
    BY <1>4, <2>1, <2>2 DEF Error
<1>7. QED
  BY <1>5, <1>6

LEMMA RepositoryParsed ==
  ASSUME CharsOK, NEW s \in Seq(Characters), s # <<>>, s[1] = "@"
  PROVE  Denotes(s) = IF Analyze(s).ok THEN {Analyze(s)} ELSE {}
<1> DEFINE e == RepoLength(s)
           r == UpTo(s, e)
           rest == From(s, e + 1)
<1>1. e \in 1..Len(s) /\ (Slashes(s) # {} => EndsAt(s, e))
  BY RepoLengthIs
<1>2. ConsumeRepository(s) = IF IsRepo(r) THEN [ok |-> TRUE, repo |-> r, rest |-> rest] ELSE Error
  BY ConsumedRepo
<1>3. RepoEnds(s) = IF Slashes(s) # {} /\ IsRepo(r) THEN {e} ELSE {}
  BY RepoEndIs
<1>4. Relatives(s) = {}
  BY NoRelative
<1>5. s[1] # ":" /\ s # <<>>
  OBVIOUS
<1>6. Slashes(s) = {} => e = Len(s)
  BY DEF RepoLength
<1> HIDE DEF e
<1>7. r \in Seq(Characters) /\ Len(r) = e
  <2>1. e \in 0..Len(s)
    BY <1>1
  <2>2. QED
    BY <2>1, UpToIs
<1>8. r # <<>>
  BY <1>1, <1>7
<1>9. rest \in Seq(Characters) /\ Len(rest) = Len(s) - e
  <2>1. e \in 0..Len(s)
    BY <1>1
  <2>2. QED
    BY <2>1, RestIs
<1>10. Slashes(s) # {} => ~IsRepo(s)
  <2> SUFFICES ASSUME Slashes(s) # {}, IsRepo(s) PROVE FALSE
    OBVIOUS
  <2>1. PICK k : k \in Slashes(s)
    OBVIOUS
  <2>2. k \in 1..Len(s) - 1 /\ s[k] = "/"
    BY <2>1, SlashesAre
  <2>3. k \in 1..Len(s)
    BY <2>2
  <2>4. QED
    BY <2>2, <2>3, RepoNoSlash
<1> HIDE DEF r, rest
<1>11. CASE ~IsRepo(r)
  <2>1. ConsumeRepository(s) = Error
    BY <1>2, <1>11
  <2>2. Analyze(s) = Error
    BY <1>5, <2>1 DEF Analyze, Error
  <2>3. RepoEnds(s) = {}
    BY <1>3, <1>11
  <2>4. ~IsRepo(s)
    <3>1. CASE Slashes(s) = {}
      BY <1>6, <1>11, <3>1, WholeString DEF r
    <3>2. QED
      BY <1>10, <3>1
  <2>5. Repositories(s) = {}
    BY <2>4 DEF Repositories
  <2>6. QED
    BY <1>4, <2>2, <2>3, <2>5, NoRepoEnds, DenotesIs DEF Error
<1>12. CASE IsRepo(r) /\ Slashes(s) # {}
  <2>1. ConsumeRepository(s) = [ok |-> TRUE, repo |-> r, rest |-> rest]
    BY <1>2, <1>12
  <2>2. rest # <<>>
    <3>1. Len(s) - e # 0
      BY <1>1, <1>12 DEF EndsAt
    <3>2. QED
      BY <1>9, <3>1
  <2>3. Analyze(s) = AnalyzePackage(r, rest)
    BY <1>5, <2>1, <2>2 DEF Analyze
  <2>4. RepoEnds(s) = {e}
    BY <1>3, <1>12
  <2>5. Named(s) = WithName(r, rest) /\ Unnamed(s) = WithoutName(r, rest)
    BY <2>4, OneRepoEnd DEF r, rest
  <2>6. Repositories(s) = {}
    BY <1>10, <1>12 DEF Repositories
  <2>7. Denotes(s) = WithName(r, rest) \union WithoutName(r, rest)
    BY <1>4, <2>5, <2>6, DenotesIs
  <2>8. QED
    BY <1>9, <2>3, <2>7, PackageParsed
<1>13. CASE IsRepo(r) /\ Slashes(s) = {}
  <2>1. r = s /\ rest = <<>>
    BY <1>6, <1>13, WholeString DEF r, rest
  <2>2. ConsumeRepository(s) = [ok |-> TRUE, repo |-> s, rest |-> <<>>]
    BY <1>2, <1>13, <2>1
  <2> DEFINE n == From(s, AtSigns(s) + 1)
  <2>3. Analyze(s) = IF n = <<>> THEN Error ELSE Absolute(s, <<>>, n)
    BY <1>5, <2>2 DEF Analyze
  <2>4. RepoEnds(s) = {}
    BY <1>3, <1>13
  <2>5. Denotes(s) = Repositories(s)
    BY <1>4, <2>4, NoRepoEnds, DenotesIs
  <2>6. Repositories(s) = IF s = <<"@">> THEN {} ELSE {Absolute(s, <<>>, n)}
    BY <1>13, <2>1 DEF Repositories
  <2> HIDE DEF n
  <2>7. /\ IsRepo(s) <=>
             /\ AtSigns(s) <= 2
             /\ IF n = <<>> THEN AtSigns(s) # 2
                ELSE n[1] \in Letters /\ ToSet(n) \subseteq RepoChars
        /\ n = <<>> /\ AtSigns(s) = 1 <=> s = <<"@">>
        /\ AtSigns(s) >= 1
    BY AtRepo DEF n
  <2>8. AtSigns(s) \in Nat
    BY AtSignsAre
  <2>9. n = <<>> <=> s = <<"@">>
    BY <1>13, <2>1, <2>7, <2>8
  <2>10. CASE s = <<"@">>
    BY <2>3, <2>5, <2>6, <2>9, <2>10 DEF Error
  <2>11. CASE s # <<"@">>
    <3>1. Analyze(s) = Absolute(s, <<>>, n)
      BY <2>3, <2>9, <2>11
    <3>2. Analyze(s).ok
      BY <3>1 DEF Absolute
    <3>3. QED
      BY <2>5, <2>6, <2>11, <3>1, <3>2
  <2>12. QED
    BY <2>10, <2>11
<1>14. QED
  BY <1>11, <1>12, <1>13

\* Any string, of any characters, is accepted when the grammar of labels has a label for it,
\* and then as that one: the parser's forms never overlap, and none is missed.  (Label::analyze)
THEOREM LabelParsed ==
  ASSUME NEW s \in Seq(Characters)
  PROVE  Denotes(s) = IF Analyze(s).ok THEN {Analyze(s)} ELSE {}
<1>1. CASE s = <<>>
  BY <1>1, EmptyParsed DEF Error
<1>2. CASE s # <<>> /\ s[1] = ":"
  BY <1>2, RelativeAlone, CharsAssumption
<1>3. CASE s # <<>> /\ s[1] = "@"
  BY <1>3, RepositoryParsed, CharsAssumption
<1>4. CASE s # <<>> /\ s[1] # ":" /\ s[1] # "@"
  BY <1>4, MainParsed, CharsAssumption
<1>5. QED
  BY <1>1, <1>2, <1>3, <1>4

(*****************************************************************************)
(* Recursive functions over an interval, and with them Without.              *)
(*****************************************************************************)
Recurs(f, N, base, grow) == f = [n \in 0..N |-> IF n = 0 THEN base ELSE grow[n][f[n - 1]]]

\* Such a function exists.
LEMMA Recursion ==
  ASSUME NEW V, NEW base \in V, NEW N \in Nat, NEW grow \in [1..N -> [V -> V]]
  PROVE  \E f \in [0..N -> V] : Recurs(f, N, base, grow)
<1> DEFINE S == {n \in Nat : n <= N => \E f \in [0..n -> V] : Recurs(f, n, base, grow)}
<1>1. 0 \in S
  <2> DEFINE f == [n \in 0..0 |-> base]
  <2>1. f \in [0..0 -> V]
    OBVIOUS
  <2>2. Recurs(f, 0, base, grow)
    BY DEF Recurs
  <2>3. QED
    BY <2>1, <2>2
<1>2. ASSUME NEW n \in Nat, n \in S PROVE n + 1 \in S
  <2> SUFFICES ASSUME n + 1 <= N
               PROVE  \E f \in [0..(n + 1) -> V] : Recurs(f, n + 1, base, grow)
    OBVIOUS
  <2>1. PICK f \in [0..n -> V] : Recurs(f, n, base, grow)
    BY <1>2
  <2> DEFINE g == [k \in 0..(n + 1) |-> IF k = n + 1 THEN grow[n + 1][f[n]] ELSE f[k]]
  <2>2. grow[n + 1][f[n]] \in V
    BY <2>1
  <2>3. g \in [0..(n + 1) -> V]
    BY <2>1, <2>2
  <2>4. ASSUME NEW k \in 0..(n + 1)
        PROVE  g[k] = IF k = 0 THEN base ELSE grow[k][g[k - 1]]
    <3>1. CASE k = n + 1
      BY <3>1
    <3>2. CASE k # n + 1
      <4>1. k \in 0..n /\ g[k] = f[k] /\ (k # 0 => k - 1 \in 0..n /\ g[k - 1] = f[k - 1])
        BY <3>2
      <4>2. QED
        BY <2>1, <4>1 DEF Recurs
    <3>3. QED
      BY <3>1, <3>2
  <2>5. Recurs(g, n + 1, base, grow)
    <3>1. g = [k \in 0..(n + 1) |-> g[k]]
      OBVIOUS
    <3> HIDE DEF g
    <3>2. QED
      BY <2>4, <3>1 DEF Recurs
  <2>6. QED
    BY <2>3, <2>5
<1> HIDE DEF S
<1>3. N \in S /\ N <= N
  BY <1>1, <1>2, Induct
<1>4. QED
  BY <1>3 DEF S
\* Any function with this recursion has the same value at the end.
Follows(g, V, N, base, grow) ==
  g[0] = base /\ \A n \in 1..N : g[n - 1] \in V => g[n] = grow[n][g[n - 1]]

LEMMA RecursionIs ==
  ASSUME NEW V, NEW base \in V, NEW N \in Nat, NEW grow \in [1..N -> [V -> V]],
         NEW f \in [0..N -> V], Recurs(f, N, base, grow),
         NEW g, Follows(g, V, N, base, grow)
  PROVE  g[N] = f[N]
<1> USE DEF Follows
<1> DEFINE S == {n \in Nat : n <= N => g[n] = f[n]}
<1>1. \A n \in 0..N : f[n] = IF n = 0 THEN base ELSE grow[n][f[n - 1]]
  BY DEF Recurs
<1>2. 0 \in S
  BY <1>1
<1>3. ASSUME NEW n \in Nat, n \in S PROVE n + 1 \in S
  <2> SUFFICES ASSUME n + 1 <= N PROVE g[n + 1] = f[n + 1]
    OBVIOUS
  <2>1. n + 1 \in 1..N /\ n \in 0..N /\ n + 1 - 1 = n /\ g[n] = f[n] /\ f[n] \in V
    BY <1>3
  <2>2. f[n + 1] = grow[n + 1][f[n]]
    BY <1>1, <2>1
  <2>3. QED
    BY <2>1, <2>2
<1> HIDE DEF S
<1>4. \A n \in Nat : n \in S
  BY <1>2, <1>3, Induct
<1>5. \A n \in 0..N : g[n] = f[n]
  BY <1>4 DEF S
<1>6. QED
  BY <1>1, <1>5

\* What a list is, up to each place, without some of its members.
Filters(w, s, some) ==
  w[0] = <<>> /\ \A n \in 1..Len(s) : w[n] = IF s[n] \in some THEN w[n - 1] ELSE Append(w[n - 1], s[n])

\* Without is such a function's last value.
LEMMA WithoutUnfolds ==
  ASSUME NEW T, NEW s \in Seq(T), NEW some
  PROVE  \E w \in [0..Len(s) -> Seq(T)] : Filters(w, s, some) /\ Without(s, some) = w[Len(s)]
<1> DEFINE N == Len(s)
           V == Seq(T)
           Base == <<>>
           Grow(v, n) == IF s[n] \in some THEN v ELSE Append(v, s[n])
           grow == [n \in 1..N |-> [v \in V |-> Grow(v, n)]]
           upTo[n \in 0..N] == IF n = 0 THEN Base ELSE IF s[n] \in some THEN upTo[n - 1] ELSE Append(upTo[n - 1], s[n])
           Is(f) == f = [n \in 0..N |-> IF n = 0 THEN Base ELSE IF s[n] \in some THEN f[n - 1] ELSE Append(f[n - 1], s[n])]
           chosen == CHOOSE f : Is(f)
<1>1. Without(s, some) = upTo[Len(s)]
  BY DEF Without
<1>2. upTo = chosen
  BY Zenon
<1>3. N \in Nat /\ Base \in V /\ \A n \in 1..N, v \in V : Grow(v, n) \in V
  <2>1. \A n \in 1..Len(s) : s[n] \in T
    OBVIOUS
  <2>2. \A n \in 1..Len(s), v \in Seq(T) : Append(v, s[n]) \in Seq(T)
    BY <2>1
  <2>3. QED
    BY <2>2
<1> HIDE DEF upTo
<1>4. grow \in [1..N -> [V -> V]] /\ \A n \in 1..N, v \in V : grow[n][v] = Grow(v, n)
  <2> HIDE DEF Grow, V, N, Base
  <2>1. \A n \in 1..N : [v \in V |-> Grow(v, n)] \in [V -> V]
    BY <1>3
  <2>2. QED
    BY <2>1
<1> HIDE DEF grow
<1>5. PICK f \in [0..N -> V] : Recurs(f, N, Base, grow)
  <2> HIDE DEF V, N, Base, Grow
  <2>1. QED
    BY <1>3, <1>4, Recursion
<1>6. \A n \in 1..N : n - 1 \in 0..N /\ grow[n][f[n - 1]] = Grow(f[n - 1], n)
  <2> HIDE DEF Grow, V, N, Base
  <2>1. \A n \in 1..N : n - 1 \in 0..N
    BY <1>3
  <2>2. QED
    BY <1>4, <1>5, <2>1
<1>7. Is(f)
  <2> HIDE DEF V, N, Base
  <2>1. [n \in 0..N |-> IF n = 0 THEN Base ELSE grow[n][f[n - 1]]]
          = [n \in 0..N |-> IF n = 0 THEN Base ELSE IF s[n] \in some THEN f[n - 1] ELSE Append(f[n - 1], s[n])]
    BY <1>3, <1>6
  <2>2. QED
    BY <1>5, <2>1, Zenon DEF Recurs
<1>8. Is(chosen)
  <2> HIDE DEF Is
  <2>1. QED
    BY <1>7, Zenon
<1> HIDE DEF chosen
<1>9. chosen[0] = Base /\ \A n \in 1..N : chosen[n] = Grow(chosen[n - 1], n)
  <2>1. \A n \in 0..N : chosen[n] = IF n = 0 THEN Base ELSE IF s[n] \in some THEN chosen[n - 1] ELSE Append(chosen[n - 1], s[n])
    <3> HIDE DEF N, Base
    <3>1. QED
      BY <1>8
  <2>2. QED
    BY <1>3, <2>1
<1> HIDE DEF V, N, Base
<1>10. chosen[N] = f[N] /\ f[0] = Base /\ \A n \in 1..N : f[n] = Grow(f[n - 1], n)
  <2>1. \A n \in 0..N : f[n] = IF n = 0 THEN Base ELSE IF s[n] \in some THEN f[n - 1] ELSE Append(f[n - 1], s[n])
    BY <1>7
  <2> HIDE DEF Is
  <2>2. f[0] = Base /\ \A n \in 1..N : f[n] = Grow(f[n - 1], n)
    <3>1. 0 \in 0..N
      BY <1>3
    <3>2. \A n \in 1..N : n \in 0..N /\ n # 0
      BY <1>3
    <3>3. QED
      BY <2>1, <3>1, <3>2
  <2> HIDE DEF Grow
  <2>3. Follows(chosen, V, N, Base, grow)
    BY <1>4, <1>9 DEF Follows
  <2>4. chosen[N] = f[N]
    <3>1. N \in Nat /\ Base \in V /\ grow \in [1..N -> [V -> V]]
      BY <1>3, <1>4
    <3>2. f \in [0..N -> V] /\ Recurs(f, N, Base, grow)
      BY <1>5
    <3>3. \A g : Follows(g, V, N, Base, grow) => g[N] = f[N]
      BY <3>1, <3>2, RecursionIs
    <3>4. QED
      BY <2>3, <3>3, Zenon
  <2>5. QED
    BY <2>2, <2>4
<1> HIDE DEF Is
<1>11. QED
  BY <1>1, <1>2, <1>5, <1>10 DEF V, N, Base, Filters

LEMMA WithoutIs ==
  ASSUME NEW T, NEW s \in Seq(T), NEW some, NEW g, Filters(g, s, some)
  PROVE  Without(s, some) = g[Len(s)]
<1>1. PICK w \in [0..Len(s) -> Seq(T)] : Filters(w, s, some) /\ Without(s, some) = w[Len(s)]
  BY WithoutUnfolds
<1> DEFINE S == {n \in Nat : n <= Len(s) => w[n] = g[n]}
<1>2. 0 \in S
  BY <1>1 DEF Filters
<1>3. ASSUME NEW n \in Nat, n \in S PROVE n + 1 \in S
  <2> SUFFICES ASSUME n + 1 <= Len(s) PROVE w[n + 1] = g[n + 1]
    OBVIOUS
  <2>1. n + 1 \in 1..Len(s) /\ n + 1 - 1 = n /\ n <= Len(s)
    OBVIOUS
  <2>2. w[n] = g[n]
    BY <1>3, <2>1
  <2>3. w[n + 1] = (IF s[n + 1] \in some THEN w[n + 1 - 1] ELSE Append(w[n + 1 - 1], s[n + 1]))
    BY <1>1, <2>1 DEF Filters
  <2>4. g[n + 1] = (IF s[n + 1] \in some THEN g[n + 1 - 1] ELSE Append(g[n + 1 - 1], s[n + 1]))
    BY <2>1 DEF Filters
  <2>5. QED
    BY <2>1, <2>2, <2>3, <2>4
<1> HIDE DEF S
<1>4. Nat \subseteq S
  BY <1>2, <1>3, Induct
<1>5. w[Len(s)] = g[Len(s)]
  <2>1. Len(s) \in S /\ Len(s) <= Len(s)
    BY <1>4
  <2>2. QED
    BY <2>1 DEF S
<1>6. QED
  BY <1>1, <1>5

LEMMA WithoutNothing ==
  ASSUME NEW some
  PROVE  Without(<<>>, some) = <<>>
<1> DEFINE e == <<>>
           g == [n \in 0..0 |-> <<>>]
<1>1. e \in Seq({}) /\ Len(e) = 0
  OBVIOUS
<1>2. Filters(g, e, some)
  BY <1>1 DEF Filters
<1>3. g[Len(e)] = <<>>
  BY <1>1
<1> HIDE DEF g, e
<1>4. Without(e, some) = g[Len(e)]
  BY <1>1, <1>2, WithoutIs
<1>5. QED
  BY <1>3, <1>4 DEF e

LEMMA WithoutAppend ==
  ASSUME NEW T, NEW s \in Seq(T), NEW c \in T, NEW some
  PROVE  Without(Append(s, c), some) = IF c \in some THEN Without(s, some) ELSE Append(Without(s, some), c)
<1> DEFINE a == Append(s, c)
<1>1. /\ a \in Seq(T) /\ Len(a) = Len(s) + 1 /\ a[Len(s) + 1] = c
      /\ \A n \in 1..Len(s) : a[n] = s[n]
  OBVIOUS
<1> HIDE DEF a
<1>2. PICK w \in [0..Len(a) -> Seq(T)] : Filters(w, a, some) /\ Without(a, some) = w[Len(a)]
  BY <1>1, WithoutUnfolds
<1>3. Filters(w, s, some)
  <2>1. w[0] = <<>>
    BY <1>2 DEF Filters
  <2>2. ASSUME NEW n \in 1..Len(s) PROVE w[n] = IF s[n] \in some THEN w[n - 1] ELSE Append(w[n - 1], s[n])
    <3>1. n \in 1..Len(a) /\ a[n] = s[n]
      BY <1>1
    <3>2. w[n] = IF a[n] \in some THEN w[n - 1] ELSE Append(w[n - 1], a[n])
      BY <1>2, <3>1 DEF Filters
    <3>3. QED
      BY <3>1, <3>2
  <2>3. QED
    BY <2>1, <2>2 DEF Filters
<1>4. Without(s, some) = w[Len(s)]
  BY <1>3, WithoutIs
<1>5. w[Len(s) + 1] = IF c \in some THEN w[Len(s)] ELSE Append(w[Len(s)], c)
  <2>1. Len(s) + 1 \in 1..Len(a) /\ Len(s) + 1 - 1 = Len(s)
    BY <1>1
  <2>2. w[Len(s) + 1] = (IF a[Len(s) + 1] \in some THEN w[Len(s) + 1 - 1] ELSE Append(w[Len(s) + 1 - 1], a[Len(s) + 1]))
    BY <1>2, <2>1 DEF Filters
  <2>3. QED
    BY <1>1, <2>1, <2>2
<1>6. QED
  BY <1>1, <1>2, <1>4, <1>5 DEF a

\* What is taken out first need not be taken out again.
LEMMA WithoutTwice ==
  ASSUME NEW T, NEW s \in Seq(T), NEW some, NEW more, \A n \in 1..Len(s) : s[n] \in some => s[n] \in more
  PROVE  Without(Without(s, some), more) = Without(s, more)
<1>1. PICK w \in [0..Len(s) -> Seq(T)] : Filters(w, s, some) /\ Without(s, some) = w[Len(s)]
  BY WithoutUnfolds
<1> DEFINE g == [n \in 0..Len(s) |-> Without(w[n], more)]
<1>2. g[0] = <<>>
  <2>1. 0 \in 0..Len(s) /\ w[0] = <<>>
    BY <1>1 DEF Filters
  <2>2. QED
    BY <2>1, WithoutNothing
<1>3. ASSUME NEW n \in 1..Len(s) PROVE g[n] = IF s[n] \in more THEN g[n - 1] ELSE Append(g[n - 1], s[n])
  <2>1. n \in 0..Len(s) /\ n - 1 \in 0..Len(s) /\ s[n] \in T
    OBVIOUS
  <2>2. w[n] = IF s[n] \in some THEN w[n - 1] ELSE Append(w[n - 1], s[n])
    BY <1>1 DEF Filters
  <2>3. g[n] = Without(w[n], more) /\ g[n - 1] = Without(w[n - 1], more) /\ w[n - 1] \in Seq(T)
    BY <2>1
  <2> HIDE DEF g
  <2>4. CASE s[n] \in some
    BY <2>2, <2>3, <2>4
  <2>5. CASE s[n] \notin some
    <3>1. g[n] = Without(Append(w[n - 1], s[n]), more)
      BY <2>2, <2>3, <2>5
    <3>2. Without(Append(w[n - 1], s[n]), more)
            = IF s[n] \in more THEN Without(w[n - 1], more) ELSE Append(Without(w[n - 1], more), s[n])
      <4>1. w[n - 1] \in Seq(T) /\ s[n] \in T
        BY <2>1, <2>3
      <4>2. \A v \in Seq(T), c \in T :
              Without(Append(v, c), more) = IF c \in more THEN Without(v, more) ELSE Append(Without(v, more), c)
        BY WithoutAppend
      <4>3. QED
        BY <4>1, <4>2, Zenon
    <3>3. QED
      BY <2>3, <3>1, <3>2
  <2>6. QED
    BY <2>4, <2>5
<1>4. g[Len(s)] = Without(Without(s, some), more)
  BY <1>1
<1> HIDE DEF g
<1>5. Filters(g, s, more)
  BY <1>2, <1>3 DEF Filters
<1>6. Without(s, more) = g[Len(s)]
  BY <1>5, WithoutIs
<1>7. QED
  BY <1>4, <1>6

\* What is taken out may as well never have been added.
LEMMA WithoutAdded ==
  ASSUME NEW T, NEW s \in Seq(T), NEW t \in Seq(T), NEW some, \A n \in 1..Len(t) : t[n] \in some
  PROVE  Without(s \o t, some) = Without(s, some)
<1> DEFINE st == s \o t
<1>1. /\ st \in Seq(T) /\ Len(st) = Len(s) + Len(t)
      /\ \A n \in 1..Len(s) : st[n] = s[n]
      /\ \A n \in 1..Len(t) : st[Len(s) + n] = t[n]
  OBVIOUS
<1> HIDE DEF st
<1>2. PICK w \in [0..Len(s) -> Seq(T)] : Filters(w, s, some) /\ Without(s, some) = w[Len(s)]
  BY WithoutUnfolds
<1> DEFINE g == [n \in 0..Len(st) |-> IF n <= Len(s) THEN w[n] ELSE w[Len(s)]]
<1>3. g[0] = <<>> /\ g[Len(st)] = w[Len(s)]
  <2>1. 0 \in 0..Len(st) /\ 0 <= Len(s) /\ Len(st) \in 0..Len(st) /\ (Len(st) <= Len(s) => Len(st) = Len(s))
    BY <1>1
  <2>2. QED
    BY <1>2, <2>1 DEF Filters
<1>4. ASSUME NEW n \in 1..Len(st) PROVE g[n] = IF st[n] \in some THEN g[n - 1] ELSE Append(g[n - 1], st[n])
  <2>1. n \in 0..Len(st) /\ n - 1 \in 0..Len(st)
    BY <1>1
  <2>2. CASE n <= Len(s)
    <3>1. n \in 1..Len(s) /\ n - 1 <= Len(s)
      BY <2>2
    <3>2. g[n] = w[n] /\ g[n - 1] = w[n - 1] /\ st[n] = s[n]
      BY <1>1, <2>1, <2>2, <3>1
    <3>3. w[n] = IF s[n] \in some THEN w[n - 1] ELSE Append(w[n - 1], s[n])
      BY <1>2, <3>1 DEF Filters
    <3> HIDE DEF g
    <3>4. QED
      BY <3>2, <3>3
  <2>3. CASE ~(n <= Len(s))
    <3>1. n - Len(s) \in 1..Len(t) /\ Len(s) + (n - Len(s)) = n /\ (n - 1 <= Len(s) => n - 1 = Len(s))
      BY <1>1, <2>3
    <3>2. st[n] \in some
      BY <1>1, <3>1
    <3>3. g[n] = w[Len(s)] /\ g[n - 1] = w[Len(s)]
      BY <2>1, <2>3, <3>1
    <3> HIDE DEF g
    <3>4. QED
      BY <3>2, <3>3
  <2>4. QED
    BY <2>2, <2>3
<1> HIDE DEF g
<1>5. Filters(g, st, some)
  BY <1>3, <1>4 DEF Filters
<1>6. Without(st, some) = g[Len(st)]
  BY <1>1, <1>5, WithoutIs
<1>7. QED
  BY <1>2, <1>3, <1>6 DEF st

\* What is taken out is not in what remains.
LEMMA WithoutElements ==
  ASSUME NEW T, NEW s \in Seq(T), NEW some
  PROVE  Without(s, some) \in Seq(T \ some)
<1>1. PICK w \in [0..Len(s) -> Seq(T)] : Filters(w, s, some) /\ Without(s, some) = w[Len(s)]
  BY WithoutUnfolds
<1> DEFINE S == {n \in Nat : n <= Len(s) => w[n] \in Seq(T \ some)}
<1>2. 0 \in S
  BY <1>1 DEF Filters
<1>3. ASSUME NEW n \in Nat, n \in S PROVE n + 1 \in S
  <2> SUFFICES ASSUME n + 1 <= Len(s) PROVE w[n + 1] \in Seq(T \ some)
    OBVIOUS
  <2>1. n + 1 \in 1..Len(s) /\ n + 1 - 1 = n /\ n <= Len(s) /\ s[n + 1] \in T
    OBVIOUS
  <2>2. w[n] \in Seq(T \ some)
    BY <1>3, <2>1
  <2>3. w[n + 1] = (IF s[n + 1] \in some THEN w[n + 1 - 1] ELSE Append(w[n + 1 - 1], s[n + 1]))
    BY <1>1, <2>1 DEF Filters
  <2>4. QED
    BY <2>1, <2>2, <2>3
<1> HIDE DEF S
<1>4. Nat \subseteq S
  BY <1>2, <1>3, Induct
<1>5. Len(s) \in S /\ Len(s) <= Len(s)
  BY <1>4
<1>6. QED
  BY <1>1, <1>5 DEF S

(*****************************************************************************)
(* The tool's configurations: their names, and the labels in them.           *)
(*****************************************************************************)
Config == [name : Seq(Characters), env : Seq(Characters), by : {"tool", "user"}]
GoodLabel == {l \in Seq(Characters) : Analyze(l).ok}
RuleTarget == [label : GoodLabel, test : BOOLEAN]
ConfigsOf(targets) == [n \in DOMAIN targets |-> Generate(targets[n])]
LabelsOf(targets) == {targets[n].label : n \in DOMAIN targets}
NamesOf(labels) == {NameOf(l) : l \in labels}



\* SetToSeq lists a finite set.
LEMMA ListedSet ==
  ASSUME NEW S, IsFiniteSet(S)
  PROVE  /\ Cardinality(S) \in Nat
         /\ SetToSeq(S) \in [1..Cardinality(S) -> S]
<1>1. Cardinality(S) \in Nat /\ ExistsBijection(1..Cardinality(S), S)
  BY FS_CardinalityType
<1>2. PICK g : g \in Bijection(1..Cardinality(S), S)
  BY <1>1 DEF ExistsBijection
<1>3. g \in [1..Cardinality(S) -> S] /\ IsInjective(g)
  BY <1>2 DEF Bijection, Injection
<1>4. \E f \in [1..Cardinality(S) -> S] : IsInjective(f)
  BY <1>3, Zenon
<1>5. SetToSeq(S) \in [1..Cardinality(S) -> S]
  BY <1>4, Zenon DEF SetToSeq
<1>6. QED
  BY <1>1, <1>5

\* The targets of a query.
LEMMA TargetsType ==
  ASSUME NEW labels, RulesOK(labels), NEW test \in BOOLEAN
  PROVE  Targets(labels, test) \in Seq(RuleTarget)
<1>1. IsFiniteSet(labels) /\ labels \in SUBSET GoodLabel
  BY DEF RulesOK, GoodLabel
<1> DEFINE N == Cardinality(labels)
           f == SetToSeq(labels)
<1>2. N \in Nat /\ Cardinality(labels) = N /\ f \in [1..N -> labels]
  BY <1>1, ListedSet
<1> HIDE DEF N, f
<1>3. Targets(labels, test) = [n \in 1..N |-> [label |-> f[n], test |-> test]]
  BY <1>2, Zenon DEF Targets, f
<1>4. \A n \in 1..N : [label |-> f[n], test |-> test] \in RuleTarget
  BY <1>1, <1>2 DEF RuleTarget
<1> DEFINE T == [n \in 1..N |-> [label |-> f[n], test |-> test]]
<1>5. T \in [1..N -> RuleTarget]
  BY <1>4
<1> HIDE DEF T
<1>6. T \in Seq(RuleTarget)
  BY <1>2, <1>5
<1>7. QED
  BY <1>3, <1>6 DEF T

LEMMA ConcatIs ==
  ASSUME NEW T, NEW s \in Seq(T), NEW t \in Seq(T)
  PROVE  /\ s \o t \in Seq(T) /\ Len(s \o t) = Len(s) + Len(t)
         /\ \A n \in 1..Len(s) : (s \o t)[n] = s[n]
         /\ \A n \in 1..Len(t) : (s \o t)[Len(s) + n] = t[n]
  OBVIOUS

LEMMA HeadAndTail ==
  ASSUME NEW T, NEW x \in T, NEW m \in Seq(T)
  PROVE  <<x>> \o m \in Seq(T) /\ <<x>> \o m # <<>> /\ Head(<<x>> \o m) = x /\ Tail(<<x>> \o m) = m
<1> DEFINE o == <<x>>
           a == o \o m
<1>1. o \in Seq(T) /\ Len(o) = 1 /\ o[1] = x
  OBVIOUS
<1> HIDE DEF o
<1>2. /\ a \in Seq(T) /\ Len(a) = Len(o) + Len(m)
      /\ \A n \in 1..Len(o) : a[n] = o[n]
      /\ \A n \in 1..Len(m) : a[Len(o) + n] = m[n]
  <2>1. \A u, v \in Seq(T) : /\ u \o v \in Seq(T) /\ Len(u \o v) = Len(u) + Len(v)
                             /\ \A n \in 1..Len(u) : (u \o v)[n] = u[n]
                             /\ \A n \in 1..Len(v) : (u \o v)[Len(u) + n] = v[n]
    BY ConcatIs
  <2>2. QED
    BY <1>1, <2>1, Zenon
<1> HIDE DEF a
<1>3. Len(m) \in Nat /\ Len(a) = 1 + Len(m) /\ a[1] = x /\ \A n \in 1..Len(m) : a[1 + n] = m[n]
  BY <1>1, <1>2
<1>4. a # <<>> /\ Head(a) = x
  BY <1>2, <1>3
<1>5. Tail(a) \in Seq(T) /\ Len(Tail(a)) = Len(m) /\ \A n \in 1..Len(m) : Tail(a)[n] = m[n]
  BY <1>2, <1>3, <1>4
<1> DEFINE t == Tail(a)
<1> HIDE DEF t
<1>6. t = m
  BY <1>5, SeqEqual DEF t
<1>7. QED
  BY <1>2, <1>4, <1>6 DEF a, o, t

\* The label is found again in the name made of it, and no other name has it.
LEMMA NameIsOf ==
  ASSUME NEW l \in Seq(Characters)
  PROVE  /\ NameOf(l) \in Seq(Characters) /\ NameOf(l) # <<>>
         /\ Head(NameOf(l)) = DebugPrefix /\ Tail(NameOf(l)) = l
<1>1. DebugPrefix \in Characters
  BY DEF Characters
<1> DEFINE p == DebugPrefix
           C == Characters
<1> HIDE DEF p, C
<1>2. p \in C /\ l \in Seq(C)
  BY <1>1 DEF p, C
<1>3. <<p>> \o l \in Seq(C) /\ <<p>> \o l # <<>> /\ Head(<<p>> \o l) = p /\ Tail(<<p>> \o l) = l
  BY <1>2, HeadAndTail
<1>4. QED
  BY <1>3 DEF NameOf, p, C

LEMMA NameByLabel ==
  ASSUME NEW n \in Seq(Characters), n # <<>>, Head(n) = DebugPrefix
  PROVE  n = NameOf(Tail(n)) /\ Tail(n) \in Seq(Characters)
<1> DEFINE l == Tail(n)
           m == NameOf(l)
<1>1. l \in Seq(Characters) /\ Len(l) = Len(n) - 1 /\ \A k \in 1..Len(l) : l[k] = n[k + 1]
  OBVIOUS
<1> HIDE DEF l
<1>2. m \in Seq(Characters) /\ m # <<>> /\ Head(m) = DebugPrefix /\ Tail(m) = l
  BY <1>1, NameIsOf
<1> HIDE DEF m
<1>3. Len(m) = Len(n)
  BY <1>1, <1>2
<1>4. ASSUME NEW k \in 1..Len(n) PROVE n[k] = m[k]
  <2>1. CASE k = 1
    BY <1>2, <2>1
  <2>2. CASE k # 1
    <3>1. k - 1 \in 1..Len(l) /\ k - 1 + 1 = k
      BY <1>1, <2>2
    <3>2. l[k - 1] = n[k]
      BY <1>1, <3>1
    <3>3. Tail(m)[k - 1] = m[k]
      BY <1>1, <1>2, <1>3, <3>1
    <3>4. QED
      BY <1>2, <3>2, <3>3
  <2>3. QED
    BY <2>1, <2>2
<1>5. n = m
  BY <1>2, <1>3, <1>4, SeqEqual
<1>6. QED
  BY <1>1, <1>5 DEF l, m

\* Taken out are the configurations that have a target's name.
LEMMA ReplacesThose ==
  ASSUME NEW c \in Config, NEW labels \in SUBSET GoodLabel
  PROVE  Replaces(c, labels) <=> c.name \in NamesOf(labels)
<1>1. c.name \in Seq(Characters)
  BY DEF Config
<1>2. ASSUME Replaces(c, labels) PROVE c.name \in NamesOf(labels)
  <2>1. c.name # <<>> /\ Head(c.name) = DebugPrefix /\ Tail(c.name) \in labels
    BY <1>2 DEF Replaces, HasLabel, LabelOf
  <2>2. c.name = NameOf(Tail(c.name))
    BY <1>1, <2>1, NameByLabel
  <2>3. QED
    BY <2>1, <2>2 DEF NamesOf
<1>3. ASSUME NEW l \in labels, c.name = NameOf(l) PROVE Replaces(c, labels)
  <2>1. l \in Seq(Characters) /\ Analyze(l).ok
    BY DEF GoodLabel
  <2>2. c.name # <<>> /\ Head(c.name) = DebugPrefix /\ Tail(c.name) = l
    BY <1>3, <2>1, NameIsOf
  <2>3. QED
    BY <2>1, <2>2 DEF Replaces, HasLabel, LabelOf
<1>4. QED
  BY <1>2, <1>3 DEF NamesOf

\* The configurations that are generated.
LEMMA ConfigsAre ==
  ASSUME NEW targets \in Seq(RuleTarget)
  PROVE  /\ ConfigsOf(targets) \in Seq(Config) /\ Len(ConfigsOf(targets)) = Len(targets)
         /\ \A n \in 1..Len(targets) :
              /\ ConfigsOf(targets)[n] = Generate(targets[n])
              /\ ConfigsOf(targets)[n].name = NameOf(targets[n].label)
              /\ ConfigsOf(targets)[n].name \in NamesOf(LabelsOf(targets))
         /\ LabelsOf(targets) \in SUBSET GoodLabel
         /\ {LabelOf(ConfigsOf(targets)[n]) : n \in DOMAIN ConfigsOf(targets)} = LabelsOf(targets)
<1>1. ASSUME NEW n \in 1..Len(targets)
      PROVE  /\ targets[n].label \in GoodLabel /\ targets[n].label \in Seq(Characters)
             /\ Generate(targets[n]) \in Config
             /\ Generate(targets[n]).name = NameOf(targets[n].label)
             /\ LabelOf(Generate(targets[n])) = targets[n].label
             /\ targets[n].label \in LabelsOf(targets)
  <2>1. targets[n] \in RuleTarget /\ n \in DOMAIN targets
    OBVIOUS
  <2> DEFINE t == targets[n]
  <2>2. t.label \in GoodLabel /\ t.label \in Seq(Characters) /\ t.label \in LabelsOf(targets)
    BY <2>1 DEF RuleTarget, GoodLabel, LabelsOf
  <2> HIDE DEF t
  <2>3. NameOf(t.label) \in Seq(Characters) /\ Tail(NameOf(t.label)) = t.label
    BY <2>2, NameIsOf
  <2> DEFINE env == IF t.test THEN t.label ELSE <<>>
  <2>4. env \in Seq(Characters)
    BY <2>2
  <2> HIDE DEF env
  <2>5. Generate(t) = [name |-> NameOf(t.label), env |-> env, by |-> "tool"]
    BY Zenon DEF Generate, Configuration, env
  <2>6. Generate(t) \in Config /\ Generate(t).name = NameOf(t.label)
    BY <2>3, <2>4, <2>5 DEF Config
  <2>7. LabelOf(Generate(t)) = t.label
    BY <2>3, <2>6 DEF LabelOf
  <2>8. QED
    BY <2>2, <2>6, <2>7 DEF t
<1> DEFINE cs == ConfigsOf(targets)
<1>2. DOMAIN targets = 1..Len(targets) /\ Len(targets) \in Nat
  OBVIOUS
<1>3. cs \in [1..Len(targets) -> Config] /\ \A n \in 1..Len(targets) : cs[n] = Generate(targets[n])
  BY <1>1, <1>2 DEF ConfigsOf
<1> HIDE DEF cs
<1>4. cs \in Seq(Config) /\ Len(cs) = Len(targets)
  BY <1>2, <1>3
<1>5. \A n \in 1..Len(targets) : cs[n].name = NameOf(targets[n].label) /\ cs[n].name \in NamesOf(LabelsOf(targets))
  BY <1>1, <1>3 DEF NamesOf
<1>6. LabelsOf(targets) \in SUBSET GoodLabel
  BY <1>1, <1>2 DEF LabelsOf
<1>7. {LabelOf(cs[n]) : n \in DOMAIN cs} = LabelsOf(targets)
  <2>1. DOMAIN cs = DOMAIN targets /\ \A n \in DOMAIN targets : LabelOf(cs[n]) = targets[n].label
    BY <1>1, <1>2, <1>3
  <2>2. QED
    BY <2>1, Zenon DEF LabelsOf
<1>8. QED
  BY <1>3, <1>4, <1>5, <1>6, <1>7 DEF cs

(*****************************************************************************)
(* What merging makes of a file.                                             *)
(*****************************************************************************)
\* As many labels as targets: each target has its own.
LEMMA LabelsApart ==
  ASSUME NEW targets \in Seq(RuleTarget), Cardinality(LabelsOf(targets)) = Len(targets),
         NEW m \in 1..Len(targets), NEW n \in 1..Len(targets), targets[m].label = targets[n].label
  PROVE  m = n
<1> DEFINE N == 1..Len(targets)
           L == LabelsOf(targets)
           f == [k \in N |-> targets[k].label]
<1>1. Len(targets) \in Nat /\ DOMAIN targets = N
  OBVIOUS
<1>2. IsFiniteSet(N) /\ Cardinality(N) = Len(targets)
  BY <1>1, FS_Interval
<1>3. \A k \in N : f[k] = targets[k].label
  OBVIOUS
<1>4. f \in [N -> L] /\ \A l \in L : \E k \in N : f[k] = l
  <2>1. \A k \in N : targets[k].label \in L
    BY <1>1 DEF LabelsOf
  <2>2. \A l \in L : \E k \in N : targets[k].label = l
    BY <1>1 DEF LabelsOf
  <2> HIDE DEF N, L
  <2>3. QED
    BY <2>1, <2>2
<1> HIDE DEF f, N, L
<1>5. f \in Surjection(N, L)
  BY <1>4 DEF Surjection
<1>6. Cardinality(N) = Cardinality(L)
  BY <1>2 DEF L
<1>7. f \in Injection(N, L)
  BY <1>2, <1>5, <1>6, FS_SurjSameCardinalityImpliesInj
<1>8. m \in N /\ n \in N
  BY DEF N
<1>9. f[m] = f[n]
  BY <1>3, <1>8
<1>10. IsInjective(f) /\ DOMAIN f = N
  BY <1>4, <1>7 DEF Injection
<1>11. QED
  BY <1>8, <1>9, <1>10, Zenon DEF IsInjective

\* A list whose first part has no configuration of a target, and then each target's.
LEMMA EachOnce ==
  ASSUME NEW targets \in Seq(RuleTarget), Cardinality(LabelsOf(targets)) = Len(targets),
         NEW kept \in Seq(Config), \A n \in 1..Len(kept) : kept[n].name \notin NamesOf(LabelsOf(targets)),
         NEW m \in 1..Len(targets)
  PROVE  /\ NamedSo(kept \o ConfigsOf(targets), NameOf(targets[m].label)) = {Len(kept) + m}
         /\ (kept \o ConfigsOf(targets))[Len(kept) + m] = Generate(targets[m])
<1> DEFINE cs == ConfigsOf(targets)
           all == kept \o cs
           name == NameOf(targets[m].label)
<1>1. /\ cs \in Seq(Config) /\ Len(cs) = Len(targets)
      /\ \A n \in 1..Len(targets) :
           /\ cs[n] = Generate(targets[n]) /\ cs[n].name = NameOf(targets[n].label)
           /\ cs[n].name \in NamesOf(LabelsOf(targets))
  BY ConfigsAre
<1>2. \A n \in 1..Len(targets) : targets[n].label \in Seq(Characters)
  <2>1. \A n \in 1..Len(targets) : targets[n] \in RuleTarget
    OBVIOUS
  <2>2. QED
    BY <2>1 DEF RuleTarget, GoodLabel
<1> HIDE DEF cs
<1>3. /\ all \in Seq(Config) /\ Len(all) = Len(kept) + Len(cs)
      /\ \A k \in 1..Len(kept) : all[k] = kept[k]
      /\ \A k \in 1..Len(cs) : all[Len(kept) + k] = cs[k]
  <2>1. \A u, v \in Seq(Config) : /\ u \o v \in Seq(Config) /\ Len(u \o v) = Len(u) + Len(v)
                                  /\ \A k \in 1..Len(u) : (u \o v)[k] = u[k]
                                  /\ \A k \in 1..Len(v) : (u \o v)[Len(u) + k] = v[k]
    BY ConcatIs
  <2>2. kept \in Seq(Config) /\ cs \in Seq(Config)
    BY <1>1
  <2> HIDE DEF name
  <2>3. \A k \in 1..Len(cs) : all[Len(kept) + k] = cs[k]
    BY <2>1, <2>2, Zenon
  <2>4. QED
    BY <2>1, <2>2, <2>3, Zenon
<1> HIDE DEF all
<1>4. name \in NamesOf(LabelsOf(targets)) /\ name = cs[m].name
  BY <1>1
<1>5. \A n \in 1..Len(targets) : NameOf(targets[n].label) = name => n = m
  <2> SUFFICES ASSUME NEW n \in 1..Len(targets), NameOf(targets[n].label) = name PROVE n = m
    OBVIOUS
  <2>1. Tail(NameOf(targets[n].label)) = targets[n].label /\ Tail(name) = targets[m].label
    BY <1>2, NameIsOf
  <2>2. targets[n].label = targets[m].label
    BY <2>1
  <2>3. QED
    BY <2>2, LabelsApart
<1> HIDE DEF name
<1>6. Len(kept) + m \in 1..Len(all) /\ all[Len(kept) + m] = cs[m] /\ DOMAIN all = 1..Len(all)
  BY <1>1, <1>3
<1>7. ASSUME NEW n \in 1..Len(all), all[n].name = name PROVE n = Len(kept) + m
  <2>1. CASE n <= Len(kept)
    <3>1. n \in 1..Len(kept)
      BY <1>3, <2>1
    <3>2. all[n] = kept[n] /\ kept[n].name \notin NamesOf(LabelsOf(targets))
      BY <1>3, <3>1
    <3>3. QED
      BY <1>4, <1>7, <3>2
  <2>2. CASE ~(n <= Len(kept))
    <3> DEFINE k == n - Len(kept)
    <3>1. k \in 1..Len(cs) /\ k \in 1..Len(targets) /\ Len(kept) + k = n
      BY <1>1, <1>3, <2>2
    <3> HIDE DEF k
    <3>2. all[n] = cs[k] /\ cs[k].name = NameOf(targets[k].label)
      BY <1>1, <1>3, <3>1
    <3>3. k = m
      BY <1>5, <1>7, <3>1, <3>2
    <3>4. QED
      BY <3>1, <3>3
  <2>3. QED
    BY <2>1, <2>2
<1>8. NamedSo(all, name) = {Len(kept) + m}
  <2>1. NamedSo(all, name) = {n \in 1..Len(all) : all[n].name = name}
    BY <1>6, Zenon DEF NamedSo
  <2>2. QED
    BY <1>4, <1>6, <1>7, <2>1
<1>9. QED
  BY <1>1, <1>6, <1>8 DEF all, cs, name

\* What merging takes out, and what it is then.
Replaced(list, targets) == {c \in ToSet(list) : c.name \in NamesOf(LabelsOf(targets))}
Kept(list, targets) == Without(list, Replaced(list, targets))

LEMMA FileIs ==
  ASSUME NEW f, FileOK(f)
  PROVE  f.configurations \in Seq(Config) /\ f.kind \in {"none", "json", "broken", "bare"}
         /\ (f.kind # "json" => f.configurations = <<>>)
  BY DEF FileOK, Config

LEMMA Members ==
  ASSUME NEW list \in Seq(Config)
  PROVE  /\ ToSet(list) \in SUBSET Config
         /\ \A n \in 1..Len(list) : list[n] \in ToSet(list)
         /\ \A c \in ToSet(list) : \E n \in 1..Len(list) : list[n] = c
<1>1. DOMAIN list = 1..Len(list) /\ \A n \in 1..Len(list) : list[n] \in Config
  OBVIOUS
<1>2. ToSet(list) = {list[n] : n \in 1..Len(list)}
  BY <1>1, Zenon DEF ToSet
<1>3. QED
  BY <1>1, <1>2

\* merge_launch_configs, by these names.
LEMMA MergeIs ==
  ASSUME NEW targets \in Seq(RuleTarget), NEW f, FileOK(f)
  PROVE  MergeConfigs(ConfigsOf(targets), f) =
           IF f.kind = "bare" THEN f ELSE Json(Kept(f.configurations, targets) \o ConfigsOf(targets))
<1> DEFINE cs == ConfigsOf(targets)
           L == LabelsOf(targets)
           list == f.configurations
<1>1. L \in SUBSET GoodLabel /\ {LabelOf(cs[n]) : n \in DOMAIN cs} = L
  BY ConfigsAre
<1>2. list \in Seq(Config)
  BY FileIs
<1> HIDE DEF cs, L, list
<1>3. {c \in ToSet(list) : Replaces(c, L)} = {c \in ToSet(list) : c.name \in NamesOf(L)}
  <2>1. ToSet(list) \in SUBSET Config
    BY <1>2, Members
  <2>2. \A c \in ToSet(list) : Replaces(c, L) <=> c.name \in NamesOf(L)
    BY <1>1, <2>1, ReplacesThose
  <2>3. QED
    BY <2>2, Zenon
<1>4. MergeConfigs(cs, f) = IF f.kind = "bare" THEN f
                             ELSE Json(Without(list, {c \in ToSet(list) : Replaces(c, L)}) \o cs)
  BY <1>1, Zenon DEF MergeConfigs, list
<1>5. QED
  BY <1>3, <1>4, Zenon DEF Kept, Replaced, cs, L, list

LEMMA KeptIs ==
  ASSUME NEW targets \in Seq(RuleTarget), NEW list \in Seq(Config)
  PROVE  /\ Kept(list, targets) \in Seq(Config)
         /\ \A n \in 1..Len(Kept(list, targets)) : Kept(list, targets)[n].name \notin NamesOf(LabelsOf(targets))
<1> DEFINE R == Replaced(list, targets)
           T == ToSet(list)
           k == Without(list, R)
<1>1. T \in SUBSET Config /\ \A n \in 1..Len(list) : list[n] \in T
  BY Members
<1>2. list \in Seq(T)
  <2> HIDE DEF T
  <2>1. QED
    BY <1>1
<1> HIDE DEF R, T
<1>3. k \in Seq(T \ R)
  BY <1>2, WithoutElements
<1> HIDE DEF k
<1>4. k \in Seq(Config) /\ \A n \in 1..Len(k) : k[n] \in T \ R
  BY <1>1, <1>3
<1>5. \A c \in T \ R : c.name \notin NamesOf(LabelsOf(targets))
  BY Zenon DEF R, T, Replaced
<1>6. \A n \in 1..Len(k) : k[n].name \notin NamesOf(LabelsOf(targets))
  BY <1>4, <1>5
<1>7. QED
  BY <1>4, <1>6 DEF k, R, Kept

LEMMA JsonOK ==
  ASSUME NEW list \in Seq(Config)
  PROVE  FileOK(Json(list)) /\ Json(list).kind = "json" /\ Json(list).configurations = list
<1>1. Json(list).kind = "json" /\ Json(list).configurations = list
  BY DEF Json
<1>2. QED
  BY <1>1 DEF FileOK, Config

LEMMA MergedOK ==
  ASSUME NEW targets \in Seq(RuleTarget), NEW f, FileOK(f)
  PROVE  /\ FileOK(MergeConfigs(ConfigsOf(targets), f))
         /\ MergeConfigs(ConfigsOf(targets), f).kind \in {"json", "bare"}
<1> DEFINE list == f.configurations
           all == Kept(list, targets) \o ConfigsOf(targets)
<1>1. list \in Seq(Config)
  BY FileIs
<1> HIDE DEF list
<1>2. Kept(list, targets) \in Seq(Config) /\ ConfigsOf(targets) \in Seq(Config)
  BY <1>1, KeptIs, ConfigsAre
<1>3. all \in Seq(Config)
  <2>1. \A u, v \in Seq(Config) : u \o v \in Seq(Config)
    BY ConcatIs
  <2>2. QED
    BY <1>2, <2>1, Zenon
<1> HIDE DEF all
<1>4. FileOK(Json(all)) /\ Json(all).kind = "json"
  BY <1>3, JsonOK
<1>5. MergeConfigs(ConfigsOf(targets), f) = IF f.kind = "bare" THEN f ELSE Json(all)
  BY MergeIs, Zenon DEF list, all
<1>6. QED
  BY <1>4, <1>5

(*****************************************************************************)
(* The invariant of the vscode tool, and its steps.                          *)
(*****************************************************************************)
Given == RulesOK(binaries) /\ RulesOK(tests) /\ \A e \in edits : EditOK(e)

\* What the tool is to write is made from what it found and what it read.
WrittenIs == step = "write" =>
  \/ mode = "replace" /\ read = NoFile /\ data = Json(ConfigsOf(found))
  \/ mode = "merge" /\ read.kind # "broken" /\ data = MergeConfigs(ConfigsOf(found), read)

ToolInv == VscodeTypeOK /\ Given /\ found \in Seq(RuleTarget) /\ WrittenIs

LEMMA NoFileOK == FileOK(NoFile) /\ NoFile.kind = "none" /\ NoFile.configurations = <<>>
<1>1. NoFile.kind = "none" /\ NoFile.configurations = <<>>
  BY DEF NoFile
<1>2. QED
  BY <1>1 DEF FileOK

LEMMA BrokenOK == FileOK(Broken)
<1>1. Broken.kind = "broken" /\ Broken.configurations = <<>>
  BY DEF Broken
<1>2. QED
  BY <1>1 DEF FileOK

\* One lemma for each action.
LEMMA ToolInitially ==
  ASSUME ScenariosOK
  PROVE  VscodeInit => ToolInv
<1> SUFFICES ASSUME VscodeInit PROVE ToolInv
  OBVIOUS
<1>1. PICK s \in Scenarios : binaries = s.binaries /\ tests = s.tests /\ launchJson = s.file /\ edits = s.edits
  BY DEF VscodeInit
<1>2. RulesOK(s.binaries) /\ RulesOK(s.tests) /\ FileOK(s.file) /\ (\A e \in s.edits : EditOK(e))
  BY <1>1 DEF ScenariosOK
<1>3. Given /\ FileOK(launchJson)
  BY <1>1, <1>2 DEF Given
<1>4. mode = "merge" /\ step = "idle" /\ found = <<>> /\ read = NoFile /\ count = 0
  BY DEF VscodeInit
<1>5. VscodeTypeOK
  <2>1. MaxRuns \in Nat
    BY DEF ScenariosOK
  <2>2. FileOK(read)
    BY <1>4, NoFileOK
  <2>3. QED
    BY <1>3, <1>4, <2>1, <2>2 DEF VscodeTypeOK, Ends
<1>6. QED
  BY <1>3, <1>4, <1>5 DEF ToolInv, WrittenIs

LEMMA ToolEdit ==
  ASSUME ToolInv, Edit
  PROVE  ToolInv' /\ edits' # edits
<1>1. PICK e \in edits : /\ edits' = edits \ {e}
                         /\ \/ e.kind = "file" /\ launchJson' = e.file /\ UNCHANGED <<binaries, tests>>
                            \/ e.kind = "rules" /\ binaries' = e.binaries /\ tests' = e.tests /\ UNCHANGED launchJson
  BY DEF Edit
<1>2. UNCHANGED <<mode, step, found, read, data, count>>
  BY DEF Edit
<1>3. EditOK(e)
  BY <1>1 DEF ToolInv, Given
<1>4. FileOK(launchJson) /\ RulesOK(binaries) /\ RulesOK(tests)
  BY DEF ToolInv, Given, VscodeTypeOK
<1>5. FileOK(launchJson)' /\ RulesOK(binaries)' /\ RulesOK(tests)'
  <2>1. FileOK(launchJson') /\ RulesOK(binaries') /\ RulesOK(tests')
    BY <1>1, <1>3, <1>4 DEF EditOK
  <2>2. QED
    BY <2>1
<1>6. Given'
  BY <1>1, <1>5 DEF ToolInv, Given
<1>7. VscodeTypeOK'
  BY <1>2, <1>5 DEF ToolInv, VscodeTypeOK
<1>8. WrittenIs' /\ found' \in Seq(RuleTarget)
  BY <1>2 DEF ToolInv, WrittenIs
<1>9. edits' # edits
  BY <1>1
<1>10. QED
  BY <1>6, <1>7, <1>8, <1>9 DEF ToolInv

LEMMA ToolQueryBinaries ==
  ASSUME ScenariosOK, ToolInv, QueryBinaries
  PROVE  ToolInv' /\ launchJson' = launchJson
<1>1. /\ step \in Ends /\ count < MaxRuns /\ count' = count + 1 /\ mode' \in {"merge", "replace", "dry_run"}
      /\ UNCHANGED <<binaries, tests, edits>>
  BY DEF QueryBinaries
<1>2. \/ step' = "failed" /\ UNCHANGED <<launchJson, read, data, found>>
      \/ step' = "query_tests" /\ found' = Targets(binaries, FALSE) /\ read' = NoFile /\ UNCHANGED launchJson
  BY DEF QueryBinaries, VscodeFails
<1>3. Targets(binaries, FALSE) \in Seq(RuleTarget)
  BY TargetsType DEF ToolInv, Given
<1>4. found' \in Seq(RuleTarget)
  BY <1>2, <1>3 DEF ToolInv
<1>5. FileOK(launchJson') /\ FileOK(read') /\ launchJson' = launchJson
  BY <1>2, NoFileOK DEF ToolInv, VscodeTypeOK
<1>6. step' \in {"failed", "query_tests"}
  BY <1>2
<1>7. count' \in 0..MaxRuns
  <2>1. count \in 0..MaxRuns /\ MaxRuns \in Nat
    BY DEF ToolInv, VscodeTypeOK, ScenariosOK
  <2>2. QED
    BY <1>1, <2>1
<1>8. VscodeTypeOK'
  BY <1>1, <1>5, <1>6, <1>7 DEF VscodeTypeOK, Ends
<1>9. Given'
  BY <1>1 DEF ToolInv, Given
<1>10. QED
  BY <1>4, <1>5, <1>6, <1>8, <1>9 DEF ToolInv, WrittenIs

LEMMA ToolQueryTests ==
  ASSUME ToolInv, QueryTests
  PROVE  ToolInv' /\ launchJson' = launchJson
<1>1. UNCHANGED <<binaries, tests, edits, mode, count, launchJson, read, data>>
  BY DEF QueryTests, VscodeFails
<1>2. \/ step' = "failed" /\ UNCHANGED found
      \/ step' = "generate" /\ found' = found \o Targets(tests, TRUE)
  BY DEF QueryTests, VscodeFails
<1>3. found' \in Seq(RuleTarget)
  <2>1. Targets(tests, TRUE) \in Seq(RuleTarget) /\ found \in Seq(RuleTarget)
    BY TargetsType DEF ToolInv, Given
  <2>2. \A u, v \in Seq(RuleTarget) : u \o v \in Seq(RuleTarget)
    BY ConcatIs
  <2>3. QED
    BY <1>2, <2>1, <2>2, Zenon
<1>4. step' \in {"failed", "generate"}
  BY <1>2
<1>5. VscodeTypeOK' /\ Given'
  BY <1>1, <1>4 DEF ToolInv, Given, VscodeTypeOK, Ends
<1>6. QED
  BY <1>1, <1>3, <1>4, <1>5 DEF ToolInv, WrittenIs

LEMMA ToolGenerate ==
  ASSUME ToolInv, GenerateConfigs
  PROVE  ToolInv' /\ launchJson' = launchJson
<1>1. UNCHANGED <<binaries, tests, edits, mode, found, count>>
  BY DEF GenerateConfigs
<1>2. [n \in DOMAIN found |-> Generate(found[n])] = ConfigsOf(found)
  BY Zenon DEF ConfigsOf
<1>3. IF found = <<>> \/ (mode # "replace" /\ launchJson.kind = "broken")
      THEN step' = "failed" /\ UNCHANGED <<launchJson, read, data>>
      ELSE /\ data' = IF mode = "replace" THEN Json(ConfigsOf(found)) ELSE MergeConfigs(ConfigsOf(found), launchJson)
           /\ read' = IF mode = "replace" THEN NoFile ELSE launchJson
           /\ step' = (IF mode = "dry_run" THEN "done" ELSE "write")
           /\ UNCHANGED launchJson
  BY <1>2, Zenon DEF GenerateConfigs, VscodeFails
<1>4. /\ FileOK(launchJson) /\ FileOK(read) /\ mode \in {"merge", "replace", "dry_run"}
      /\ found \in Seq(RuleTarget)
  BY DEF ToolInv, VscodeTypeOK
<1>5. ConfigsOf(found) \in Seq(Config)
  BY <1>4, ConfigsAre
<1>6. Json(ConfigsOf(found)).kind = "json" /\ MergeConfigs(ConfigsOf(found), launchJson).kind \in {"json", "bare"}
  BY <1>4, <1>5, JsonOK, MergedOK
<1>7. FileOK(launchJson') /\ FileOK(read') /\ launchJson' = launchJson
  BY <1>3, <1>4, NoFileOK
<1>8. step' \in {"failed", "done", "write"}
  BY <1>3
<1>9. step' = "write" =>
        \/ mode = "replace" /\ read' = NoFile /\ data' = Json(ConfigsOf(found))
        \/ mode = "merge" /\ read' = launchJson /\ launchJson.kind # "broken"
           /\ data' = MergeConfigs(ConfigsOf(found), launchJson)
  BY <1>3, <1>4
<1>10. WrittenIs'
  <2>1. ConfigsOf(found)' = ConfigsOf(found) /\ mode' = mode
    BY <1>1, Zenon DEF ConfigsOf
  <2>2. step' = "write" =>
        \/ mode' = "replace" /\ read' = NoFile /\ data' = Json(ConfigsOf(found)')
        \/ mode' = "merge" /\ read'.kind # "broken" /\ data' = MergeConfigs(ConfigsOf(found)', read')
    BY <1>9, <2>1
  <2>3. QED
    BY <2>2 DEF WrittenIs
<1>11. step' = "write" => data'.kind \in {"json", "bare"} /\ read'.kind # "broken"
  BY <1>6, <1>9, NoFileOK
<1>12. VscodeTypeOK' /\ Given'
  BY <1>1, <1>7, <1>8, <1>11 DEF ToolInv, Given, VscodeTypeOK, Ends
<1>13. QED
  BY <1>1, <1>4, <1>7, <1>10, <1>12 DEF ToolInv

LEMMA ToolWrite ==
  ASSUME ToolInv, WriteJson
  PROVE  ToolInv' /\ (mode = "replace" \/ (mode = "merge" /\ step = "write" /\ read.kind # "broken"))
<1>1. /\ step = "write" /\ UNCHANGED <<binaries, tests, edits, mode, found, read, data, count>>
      /\ step' \in {"killed", "done", "failed"} /\ launchJson' \in {launchJson, data, Broken}
  BY DEF WriteJson
<1>2. FileOK(data)
  <2>1. found \in Seq(RuleTarget) /\ FileOK(read)
    BY DEF ToolInv, VscodeTypeOK
  <2>2. FileOK(Json(ConfigsOf(found))) /\ FileOK(MergeConfigs(ConfigsOf(found), read))
    BY <2>1, ConfigsAre, JsonOK, MergedOK
  <2>3. QED
    BY <1>1, <2>2 DEF ToolInv, WrittenIs
<1>3. FileOK(launchJson')
  BY <1>1, <1>2, BrokenOK DEF ToolInv, VscodeTypeOK
<1>4. VscodeTypeOK' /\ Given'
  BY <1>1, <1>3 DEF ToolInv, Given, VscodeTypeOK, Ends
<1>5. QED
  BY <1>1, <1>4 DEF ToolInv, WrittenIs

LEMMA ToolKilled ==
  ASSUME ToolInv, VscodeKilled
  PROVE  ToolInv' /\ launchJson' = launchJson
<1>1. step' = "killed" /\ UNCHANGED <<binaries, tests, edits, launchJson, mode, found, read, data, count>>
  BY DEF VscodeKilled
<1>2. VscodeTypeOK' /\ Given'
  BY <1>1 DEF ToolInv, Given, VscodeTypeOK, Ends
<1>3. QED
  BY <1>1, <1>2 DEF ToolInv, WrittenIs

LEMMA ToolStutters ==
  ASSUME ToolInv, UNCHANGED vscodeVars
  PROVE  ToolInv' /\ launchJson' = launchJson
  BY DEF ToolInv, Given, WrittenIs, VscodeTypeOK, vscodeVars

(*****************************************************************************)
(* The vscode tool's theorems.                                               *)
(*****************************************************************************)
\* The parts of ConfigurationsKept.
LEMMA ReadByGrammar ==
  ASSUME VscodeTypeOK
  PROVE  ParsedByGrammar
<1> SUFFICES ASSUME NEW n \in DOMAIN launchJson.configurations,
                    HasLabel(launchJson.configurations[n])
             PROVE  Denotes(LabelOf(launchJson.configurations[n]))
                      = IF Analyze(LabelOf(launchJson.configurations[n])).ok
                        THEN {Analyze(LabelOf(launchJson.configurations[n]))} ELSE {}
  BY Zenon DEF ParsedByGrammar
<1> DEFINE c == launchJson.configurations[n]
<1>1. launchJson.configurations \in Seq(Config)
  BY FileIs DEF VscodeTypeOK
<1>2. c \in Config
  <2> DEFINE list == launchJson.configurations
  <2> HIDE DEF list
  <2>1. list \in Seq(Config) /\ n \in DOMAIN list
    BY <1>1 DEF list
  <2>2. list[n] \in Config
    BY <2>1
  <2>3. QED
    BY <2>2 DEF list
<1> HIDE DEF c
<1>3. c.name \in Seq(Characters) /\ c.name # <<>>
  BY <1>2 DEF Config, HasLabel, c
<1>4. LabelOf(c) \in Seq(Characters)
  BY <1>3 DEF LabelOf
<1> DEFINE l == LabelOf(c)
<1> HIDE DEF l
<1>5. Denotes(l) = IF Analyze(l).ok THEN {Analyze(l)} ELSE {}
  BY <1>4, LabelParsed DEF l
<1>6. QED
  BY <1>5, Zenon DEF l, c

LEMMA MergeKeeps ==
  ASSUME ToolInv
  PROVE  UsersKept
<1> SUFFICES ASSUME step = "write", mode = "merge" PROVE UsersKept
  BY Zenon DEF UsersKept
<1> DEFINE tools == {c \in ToSet(data.configurations) \union ToSet(read.configurations) :
                       c.name \in {NameOf(l) : l \in Made}}
<1>1. /\ found \in Seq(RuleTarget) /\ FileOK(read)
      /\ data = MergeConfigs(ConfigsOf(found), read)
  BY DEF ToolInv, WrittenIs, VscodeTypeOK
<1>2. Without(data.configurations, tools) = Without(read.configurations, tools)
  <2>1. CASE read.kind = "bare"
    <3>1. data = read
      BY <1>1, <2>1, MergeIs
    <3>2. QED
      BY <3>1, Zenon
  <2>2. CASE read.kind # "bare"
    <3> DEFINE list == read.configurations
               cs == ConfigsOf(found)
               R == Replaced(list, found)
               kept == Kept(list, found)
    <3>1. list \in Seq(Config) /\ cs \in Seq(Config) /\ kept \in Seq(Config)
      BY <1>1, FileIs, ConfigsAre, KeptIs
    <3>2. data.configurations = kept \o cs
      <4>1. data = Json(kept \o cs)
        BY <1>1, <2>2, MergeIs
      <4>2. QED
        BY <4>1, Zenon DEF Json
    <3>3. {NameOf(l) : l \in Made} = NamesOf(LabelsOf(found))
      BY Zenon DEF NamesOf, LabelsOf, Made
    <3>4. tools = {c \in ToSet(kept \o cs) \union ToSet(list) : c.name \in NamesOf(LabelsOf(found))}
      BY <3>2, <3>3, Zenon
    <3>5. \A n \in 1..Len(cs) : cs[n].name \in NamesOf(LabelsOf(found))
      BY <1>1, ConfigsAre
    <3>6. kept = Without(list, R) /\ R = {c \in ToSet(list) : c.name \in NamesOf(LabelsOf(found))}
      BY Zenon DEF Kept, Replaced
    <3> HIDE DEF tools, list, cs, R, kept
    <3>7. \A n \in 1..Len(cs) : cs[n] \in tools
      <4> SUFFICES ASSUME NEW n \in 1..Len(cs) PROVE cs[n] \in tools
        OBVIOUS
      <4> DEFINE all == kept \o cs
      <4>1. \A u, v \in Seq(Config) : /\ u \o v \in Seq(Config) /\ Len(u \o v) = Len(u) + Len(v)
                                      /\ \A k \in 1..Len(v) : (u \o v)[Len(u) + k] = v[k]
        BY ConcatIs
      <4>2. all \in Seq(Config) /\ Len(all) = Len(kept) + Len(cs)
        BY <3>1, <4>1, Zenon
      <4>3. all[Len(kept) + n] = cs[n]
        BY <3>1, <4>1, Zenon
      <4> HIDE DEF all
      <4>4. Len(kept) + n \in 1..Len(all)
        BY <3>1, <4>2
      <4>5. cs[n] \in ToSet(all)
        BY <4>2, <4>3, <4>4, Members
      <4>6. QED
        BY <3>4, <3>5, <4>5 DEF all
    <3>8. Without(kept \o cs, tools) = Without(kept, tools)
      BY <3>1, <3>7, WithoutAdded
    <3>9. \A n \in 1..Len(list) : list[n] \in R => list[n] \in tools
      BY <3>4, <3>6
    <3>10. Without(Without(list, R), tools) = Without(list, tools)
      BY <3>1, <3>9, WithoutTwice
    <3>11. QED
      BY <3>2, <3>6, <3>8, <3>10, Zenon DEF list
  <2>3. QED
    BY <2>1, <2>2
<1>3. QED
  BY <1>2, Zenon DEF UsersKept

LEMMA EachMadeOnce ==
  ASSUME ToolInv
  PROVE  MadeOnce
<1> SUFFICES ASSUME step = "write", read.kind # "bare", Cardinality(Made) = Len(found),
                    NEW m \in DOMAIN found
             PROVE  /\ Cardinality(NamedSo(data.configurations, NameOf(found[m].label))) = 1
                    /\ \A n \in NamedSo(data.configurations, NameOf(found[m].label)) :
                         data.configurations[n] = Generate(found[m])
  BY Zenon DEF MadeOnce
<1>1. /\ found \in Seq(RuleTarget) /\ FileOK(read)
  BY DEF ToolInv, VscodeTypeOK
<1>2. m \in 1..Len(found)
  BY <1>1
<1>3. Cardinality(LabelsOf(found)) = Len(found)
  <2>1. Made = LabelsOf(found)
    BY Zenon DEF LabelsOf, Made
  <2>2. QED
    BY <2>1
<1> DEFINE cs == ConfigsOf(found)
           name == NameOf(found[m].label)
<1>4. cs \in Seq(Config)
  BY <1>1, ConfigsAre
<1>5. \E kept \in Seq(Config) : /\ data.configurations = kept \o cs
                                /\ \A n \in 1..Len(kept) : kept[n].name \notin NamesOf(LabelsOf(found))
  <2>1. CASE mode = "replace"
    <3>1. data = Json(cs)
      BY <2>1 DEF ToolInv, WrittenIs
    <3>2. data.configurations = cs
      BY <3>1, <1>4, JsonOK
    <3> HIDE DEF cs
    <3>3. <<>> \in Seq(Config) /\ <<>> \o cs = cs /\ Len(<<>>) = 0
      BY <1>4
    <3> DEFINE none == <<>>
    <3>4. none \in Seq(Config) /\ data.configurations = none \o cs /\ Len(none) = 0
      BY <3>2, <3>3
    <3> HIDE DEF none
    <3>5. \A n \in 1..Len(none) : none[n].name \notin NamesOf(LabelsOf(found))
      BY <3>4
    <3>6. QED
      BY <3>4, <3>5, Zenon
  <2>2. CASE mode # "replace"
    <3> DEFINE list == read.configurations
               kept == Kept(list, found)
    <3>1. data = MergeConfigs(cs, read)
      BY <2>2 DEF ToolInv, WrittenIs
    <3>2. data = Json(kept \o cs)
      BY <1>1, <3>1, MergeIs
    <3>3. data.configurations = kept \o cs
      BY <3>2, Zenon DEF Json
    <3>4. kept \in Seq(Config) /\ \A n \in 1..Len(kept) : kept[n].name \notin NamesOf(LabelsOf(found))
      BY <1>1, FileIs, KeptIs
    <3> HIDE DEF kept, cs
    <3>5. QED
      BY <3>3, <3>4
  <2>3. QED
    BY <2>1, <2>2
<1>6. PICK kept \in Seq(Config) : /\ data.configurations = kept \o cs
                                  /\ \A n \in 1..Len(kept) : kept[n].name \notin NamesOf(LabelsOf(found))
  BY <1>5
<1>7. NamedSo(kept \o cs, name) = {Len(kept) + m} /\ (kept \o cs)[Len(kept) + m] = Generate(found[m])
  BY <1>1, <1>2, <1>3, <1>6, EachOnce
<1>8. Cardinality({Len(kept) + m}) = 1
  BY FS_Singleton
<1>9. QED
  BY <1>6, <1>7, <1>8, Zenon

\* Whatever the workspace, the file and the user's edits between and during any number of
\* runs: what the tool is about to write keeps the file's other configurations in their
\* order and has each target's once, and names are read as the grammar of labels has it.
\* (merge_launch_configs, filter_existing_configurations, Label::analyze)
THEOREM ConfigurationsAreKept ==
  VscodeSpec => []ConfigurationsKept
<1>1. VscodeInit => ToolInv
  BY ToolInitially, ScenariosAssumption
<1>2. ToolInv /\ [VscodeNext]_vscodeVars => ToolInv'
  <2> SUFFICES ASSUME ToolInv, [VscodeNext]_vscodeVars
               PROVE  ToolInv'
    OBVIOUS
  <2>1. \/ Edit \/ QueryBinaries \/ QueryTests \/ GenerateConfigs \/ WriteJson \/ VscodeKilled
        \/ UNCHANGED vscodeVars
    BY Zenon DEF VscodeNext
  <2>2. QED
    BY <2>1, ScenariosAssumption, ToolEdit, ToolQueryBinaries, ToolQueryTests, ToolGenerate, ToolWrite, ToolKilled, ToolStutters
<1>3. ToolInv => ConfigurationsKept
  <2>1. ToolInv => VscodeTypeOK
    BY DEF ToolInv
  <2>2. QED
    BY <2>1, ReadByGrammar, MergeKeeps, EachMadeOnce DEF ConfigurationsKept
<1>4. QED
  BY <1>1, <1>2, <1>3, PTL DEF VscodeSpec, vscodeVars

\* The tool writes only when a merge read a file it understood, or a replacement was asked
\* for.  (read_existing_launch_config, main)
THEOREM FilesNotWrittenOver ==
  VscodeSpec => NotWrittenOver
<1> DEFINE A == launchJson' # launchJson /\ edits' = edits =>
                  \/ mode = "replace"
                  \/ mode = "merge" /\ step = "write" /\ read.kind # "broken"
<1>1. VscodeInit => ToolInv
  BY ToolInitially, ScenariosAssumption
<1>2. ToolInv /\ [VscodeNext]_vscodeVars => ToolInv' /\ A
  <2> SUFFICES ASSUME ToolInv, [VscodeNext]_vscodeVars
               PROVE  ToolInv' /\ A
    OBVIOUS
  <2>1. \/ Edit \/ QueryBinaries \/ QueryTests \/ GenerateConfigs \/ WriteJson \/ VscodeKilled
        \/ UNCHANGED vscodeVars
    BY Zenon DEF VscodeNext
  <2>2. QED
    BY <2>1, ScenariosAssumption, ToolEdit, ToolQueryBinaries, ToolQueryTests, ToolGenerate, ToolWrite, ToolKilled, ToolStutters
<1>3. A => [A]_vscodeVars
  OBVIOUS
<1> HIDE DEF A
<1>4. VscodeSpec => [][A]_vscodeVars
  BY <1>1, <1>2, <1>3, PTL DEF VscodeSpec, vscodeVars
<1>5. QED
  BY <1>4 DEF A, NotWrittenOver, vscodeVars
=============================================================================
