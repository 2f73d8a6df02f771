---------------------------- MODULE Splicer_proofs ----------------------------
(***************************************************************************)
(* Proofs about splicing, for any files, any listed manifests, configs and *)
(* lockfiles, and any step at which it stops: it leaves the user's files   *)
(* as they are, takes over what decides how Cargo resolves, and makes a    *)
(* workspace of the packages that were listed.                             *)
(***************************************************************************)
EXTENDS Splicer, FiniteSetTheorems, SequenceTheorems, TLAPS

\* The provers do not know that a string they are shown is in STRING.
PathNames == STRING \union {".cargo", "config", "config.toml", "Cargo.toml", "Cargo.lock"}
Paths == Seq(PathNames)

(***************************************************************************)
(* The steps come one after the other, so that each relies on what those   *)
(* before it have done.                                                    *)
(***************************************************************************)
Finishing == {"lock", "sources", "publish"}
Later == {"member", "patches", "metadata", "direct", "write"} \union Finishing
Names == Later \union {"kind", "link", "relink", "clear", "install"}
Todos == Seq(Names \X Paths)
Follows(name, next) ==
  /\ next \in Later \union {"relink", "clear", "install"}
  /\ next = "relink" => name = "link"
  /\ next = "clear" => name = "relink"
  /\ next = "install" => name = "clear"
  /\ next \in Later => name \in Later \union {"install"}
  /\ next = "lock" => name = "write"
  /\ next = "sources" => name = "lock"
  /\ next = "publish" => name = "sources"
Ordered(steps) == \A i \in 1..(Len(steps) - 1) : Follows(steps[i][1], steps[i + 1][1])

\* The root manifest is complete when it is written, and only what was listed goes into it.
WritesLast(steps) ==
  \A i, j \in 1..Len(steps) : i < j /\ steps[i][1] = "write" => steps[j][1] \in Finishing
About(steps, dirs) ==
  \A i \in 1..Len(steps) : steps[i][1] \in {"member", "patches"} => steps[i][2] \in dirs

TodoInv ==
  status = "running" =>
    /\ todo \in Todos /\ todo # <<>> /\ Ordered(todo)
    /\ todo[Len(todo)][1] \in {"kind", "publish"}
    /\ WritesLast(todo) /\ About(todo, Listed)

InputInv == \E family \in Inputs : input \in family

(***************************************************************************)
(* Until the config is installed, every link leads to something of the     *)
(* user's: a link that exists() takes for nothing would be written through.*)
(***************************************************************************)
LinksLead ==
  \A p \in DOMAIN tree : tree[p].type = "link" =>
    /\ tree[p].to \in Paths
    /\ tree[p].to \in DOMAIN user \/ UserDir(tree[p].to)

LinksInv ==
  status = "running" =>
    /\ Head(todo)[1] \in {"kind", "link", "relink", "clear"} => LinksLead
    /\ Head(todo)[1] = "clear" => ~IsLink(DotCargo)
    /\ Head(todo)[1] = "install" => ~IsLink(DotCargo) /\ ~IsLink(Config)

IInv == InputInv /\ TodoInv /\ LinksInv /\ UserFilesUntouched

(***************************************************************************)
(* Sequences of steps.                                                     *)
(***************************************************************************)
LEMMA OrderedTail ==
  ASSUME NEW s \in Todos, s # <<>>, Ordered(s), s[Len(s)][1] \in {"kind", "publish"},
         Head(s)[1] \notin {"kind", "publish"}, WritesLast(s), NEW dirs, About(s, dirs)
  PROVE  /\ Tail(s) \in Todos /\ Tail(s) # <<>> /\ Ordered(Tail(s))
         /\ Tail(s)[Len(Tail(s))][1] \in {"kind", "publish"}
         /\ Follows(Head(s)[1], Head(Tail(s))[1])
         /\ WritesLast(Tail(s)) /\ About(Tail(s), dirs)
<1> DEFINE t == Tail(s)
<1>1. /\ Head(s) = s[1] /\ t \in Todos /\ Len(s) \in Nat /\ Len(s) >= 1 /\ Len(t) = Len(s) - 1
      /\ \A i \in 1..(Len(s) - 1) : t[i] = s[i + 1]
  BY HeadTailProperties, LenProperties, EmptySeq DEF Todos
<1> HIDE DEF t
<1>2. Len(s) # 1
  BY <1>1
<1>3. t # <<>> /\ t[Len(t)] = s[Len(s)]
  BY <1>1, <1>2, EmptySeq
<1>4. Head(t) = t[1] /\ t[1] = s[2]
  BY <1>1, <1>2, <1>3, HeadTailProperties DEF Todos
<1>5. Follows(s[1][1], s[2][1])
  BY <1>1, <1>2 DEF Ordered
<1>6. Ordered(t)
  BY <1>1 DEF Ordered
<1>7. WritesLast(t)
  <2> SUFFICES ASSUME NEW i \in 1..Len(t), NEW j \in 1..Len(t), i < j, t[i][1] = "write"
               PROVE  t[j][1] \in Finishing
    BY DEF WritesLast
  <2>1. /\ i + 1 \in 1..Len(s) /\ j + 1 \in 1..Len(s) /\ i + 1 < j + 1
        /\ t[i] = s[i + 1] /\ t[j] = s[j + 1]
    BY <1>1
  <2>2. QED
    BY <2>1 DEF WritesLast
<1>8. About(t, dirs)
  BY <1>1 DEF About
<1>9. QED
  BY <1>1, <1>3, <1>4, <1>5, <1>6, <1>7, <1>8 DEF t

LEMMA ConcatSteps ==
  ASSUME NEW s \in Todos, NEW t \in Todos
  PROVE  /\ s \o t \in Todos /\ Len(s) \in Nat /\ Len(t) \in Nat /\ Len(s \o t) = Len(s) + Len(t)
         /\ \A i \in 1..Len(s) : (s \o t)[i] = s[i]
         /\ \A i \in 1..Len(t) : (s \o t)[Len(s) + i] = t[i]
<1> DEFINE u == s \o t
           m == Len(s)
           k == Len(t)
<1>1. /\ u \in Todos /\ Len(u) = m + k /\ m \in Nat /\ k \in Nat
      /\ \A i \in 1..Len(u) : u[i] = IF i <= m THEN s[i] ELSE t[i - m]
  BY ConcatProperties, LenProperties DEF Todos
<1> HIDE DEF u, m, k
<1>2. ASSUME NEW i \in 1..k PROVE u[m + i] = t[i]
  <2>1. m + i \in 1..Len(u) /\ ~(m + i <= m) /\ (m + i) - m = i
    BY <1>1
  <2>2. QED
    BY <1>1, <2>1
<1>3. \A i \in 1..m : u[i] = s[i]
  BY <1>1
<1>4. QED
  BY <1>1, <1>2, <1>3 DEF u, m, k

LEMMA StepSequence ==
  ASSUME NEW n \in Nat, NEW names \in [1..n -> Names], NEW dir \in Paths
  PROVE  /\ Step(names, dir) \in Todos /\ Len(Step(names, dir)) = n
         /\ \A i \in 1..n : Step(names, dir)[i] = <<names[i], dir>>
<1>1. DOMAIN names = 1..n
  OBVIOUS
<1>2. Step(names, dir) \in [1..n -> Names \X Paths]
  BY <1>1 DEF Step
<1>3. Step(names, dir) \in Todos
  BY <1>2, SeqDef DEF Todos
<1>4. Len(Step(names, dir)) = n
  BY <1>2, <1>3, LenProperties DEF Todos
<1>5. QED
  BY <1>1, <1>3, <1>4 DEF Step

\* The last four steps of every kind of splicing.
LEMMA FinishSteps ==
  ASSUME NEW dir \in Paths
  PROVE  LET steps == Step(Finish, dir)
         IN  /\ steps \in Todos /\ Len(steps) = 4
             /\ steps[1] = <<"write", dir>> /\ steps[2] = <<"lock", dir>>
             /\ steps[3] = <<"sources", dir>> /\ steps[4] = <<"publish", dir>>
<1>1. Finish = [i \in 1..4 |-> Finish[i]]
  BY DEF Finish
<1>2. Finish[1] = "write" /\ Finish[2] = "lock" /\ Finish[3] = "sources" /\ Finish[4] = "publish"
  BY DEF Finish
<1>3. \A i \in 1..4 : Finish[i] \in Names
  BY <1>2 DEF Names, Later, Finishing
<1>4. Finish \in [1..4 -> Names]
  BY <1>1, <1>3
<1>5. /\ Step(Finish, dir) \in Todos /\ Len(Step(Finish, dir)) = 4
      /\ \A i \in 1..4 : Step(Finish, dir)[i] = <<Finish[i], dir>>
  <2>1. 4 \in Nat
    OBVIOUS
  <2>2. QED
    BY <1>4, <2>1, StepSequence
<1>6. QED
  BY <1>2, <1>5

LEMMA MemberSteps ==
  ASSUME NEW dirs \in Seq(Paths), NEW name \in Names
  PROVE  /\ InOrder(dirs, name) \in Todos /\ Len(InOrder(dirs, name)) = Len(dirs)
         /\ \A i \in 1..Len(dirs) : InOrder(dirs, name)[i] = <<name, dirs[i]>>
<1>1. Len(dirs) \in Nat /\ DOMAIN dirs = 1..Len(dirs) /\ \A i \in 1..Len(dirs) : dirs[i] \in Paths
  BY LenProperties, ElementOfSeq
<1>2. InOrder(dirs, name) \in [1..Len(dirs) -> Names \X Paths]
  BY <1>1 DEF InOrder
<1>3. InOrder(dirs, name) \in Todos /\ Len(InOrder(dirs, name)) = Len(dirs)
  BY <1>1, <1>2, SeqDef, LenProperties DEF Todos
<1>4. QED
  BY <1>1, <1>3 DEF InOrder

\* The steps of splicing n packages, by their place.
MultiName(i, n) ==
  IF i = 1 THEN "relink" ELSE IF i = 2 THEN "clear" ELSE IF i = 3 THEN "install"
  ELSE IF i <= n + 3 THEN "member" ELSE IF i <= 2 * n + 3 THEN "patches"
  ELSE IF i = 2 * n + 4 THEN "metadata" ELSE IF i = 2 * n + 5 THEN "direct"
  ELSE IF i = 2 * n + 6 THEN "write" ELSE IF i = 2 * n + 7 THEN "lock"
  ELSE IF i = 2 * n + 8 THEN "sources" ELSE "publish"

LEMMA MultiPlaces ==
  ASSUME NEW order \in Seq(Paths), input.order = order, SplicerKind = "multi"
  PROVE  LET steps == Steps(order)
             n == Len(order)
         IN  /\ steps \in Todos /\ n \in Nat /\ Len(steps) = 2 * n + 9
             /\ \A i \in 1..(2 * n + 9) : steps[i][1] = MultiName(i, n)
             /\ \A i \in 1..n : steps[i + 3] = <<"member", order[i]>> /\ steps[n + 3 + i] = <<"patches", order[i]>>
<1> DEFINE config == <<"relink", "clear", "install">>
           first == Step(config, <<>>)
           members == InOrder(order, "member")
           patches == InOrder(order, "patches")
           table == <<"metadata", "direct">>
           both == Step(table, <<>>)
           last == Step(Finish, <<>>)
           n == Len(order)
<1>1. <<>> \in Paths /\ n \in Nat
  BY EmptySeq, LenProperties DEF Paths
<1>2. /\ first \in Todos /\ Len(first) = 3
      /\ first[1][1] = "relink" /\ first[2][1] = "clear" /\ first[3][1] = "install"
  <2>1. config = [i \in 1..3 |-> config[i]]
    OBVIOUS
  <2>2. config[1] = "relink" /\ config[2] = "clear" /\ config[3] = "install"
    OBVIOUS
  <2> HIDE DEF config
  <2>3. \A i \in 1..3 : config[i] \in Names
    BY <2>2 DEF Names
  <2>4. config \in [1..3 -> Names]
    BY <2>1, <2>3
  <2>5. first \in Todos /\ Len(first) = 3 /\ \A i \in 1..3 : first[i] = <<config[i], <<>>>>
    BY <1>1, <2>4, StepSequence
  <2>6. QED
    BY <2>2, <2>5
<1>3. /\ members \in Todos /\ Len(members) = n /\ \A i \in 1..n : members[i] = <<"member", order[i]>>
      /\ patches \in Todos /\ Len(patches) = n /\ \A i \in 1..n : patches[i] = <<"patches", order[i]>>
  BY MemberSteps DEF Names, Later, Finishing
<1>4. both \in Todos /\ Len(both) = 2 /\ both[1][1] = "metadata" /\ both[2][1] = "direct"
  <2>1. table = [i \in 1..2 |-> table[i]]
    OBVIOUS
  <2>2. table[1] = "metadata" /\ table[2] = "direct"
    OBVIOUS
  <2> HIDE DEF table
  <2>3. \A i \in 1..2 : table[i] \in Names
    BY <2>2 DEF Names, Later, Finishing
  <2>4. table \in [1..2 -> Names]
    BY <2>1, <2>3
  <2>5. both \in Todos /\ Len(both) = 2 /\ \A i \in 1..2 : both[i] = <<table[i], <<>>>>
    BY <1>1, <2>4, StepSequence
  <2>6. QED
    BY <2>2, <2>5
<1>5. /\ last \in Todos /\ Len(last) = 4
      /\ last[1][1] = "write" /\ last[2][1] = "lock" /\ last[3][1] = "sources" /\ last[4][1] = "publish"
  BY <1>1, FinishSteps
<1>6. Steps(order) = first \o members \o patches \o both \o last
  BY DEF Steps
<1> HIDE DEF first, members, patches, last, both, table, config, n
<1> DEFINE s1 == first \o members
           s2 == s1 \o patches
           s3 == s2 \o both
           s4 == s3 \o last
           a == n + 3
           b == 2 * n + 3
           c == 2 * n + 5
<1>7. /\ s1 \in Todos /\ Len(s1) = 3 + n
      /\ \A i \in 1..3 : s1[i] = first[i]
      /\ \A k \in 1..n : s1[3 + k] = members[k]
  <2>1. first \in Todos /\ members \in Todos /\ n \in Nat /\ Len(first) = 3 /\ Len(members) = n
    BY <1>1, <1>2, <1>3
  <2>2. /\ s1 \in Todos /\ Len(s1) = Len(first) + Len(members)
        /\ \A i \in 1..Len(first) : s1[i] = first[i]
        /\ \A i \in 1..Len(members) : s1[Len(first) + i] = members[i]
    BY ONLY <2>1, ConcatSteps DEF s1
  <2> HIDE DEF s1
  <2>3. QED
    BY ONLY <2>1, <2>2
<1>8. a \in Nat /\ a = 3 + n /\ b \in Nat /\ b = a + n /\ c \in Nat /\ c = b + 2 /\ c + 4 = 2 * n + 9 /\ 2 \in Nat /\ 4 \in Nat
  BY <1>1
<1> HIDE DEF s1, a, b, c
<1>9. /\ s2 \in Todos /\ Len(s2) = a + n
      /\ \A i \in 1..a : s2[i] = s1[i]
      /\ \A k \in 1..n : s2[a + k] = patches[k]
  <2>1. /\ s1 \in Todos /\ patches \in Todos /\ a \in Nat /\ n \in Nat
        /\ Len(s1) = a /\ Len(patches) = n
    BY <1>1, <1>7, <1>3, <1>8
  <2>2. /\ s2 \in Todos /\ Len(s2) = Len(s1) + Len(patches)
        /\ \A i \in 1..Len(s1) : s2[i] = s1[i]
        /\ \A i \in 1..Len(patches) : s2[Len(s1) + i] = patches[i]
    BY ONLY <2>1, ConcatSteps DEF s2
  <2> HIDE DEF s2
  <2>3. QED
    BY ONLY <2>1, <2>2
<1> HIDE DEF s2
<1>10. /\ s3 \in Todos /\ Len(s3) = b + 2
       /\ \A i \in 1..b : s3[i] = s2[i]
       /\ \A k \in 1..2 : s3[b + k] = both[k]
  <2>1. s2 \in Todos /\ both \in Todos /\ b \in Nat /\ 2 \in Nat /\ Len(s2) = b /\ Len(both) = 2
    BY <1>8, <1>9, <1>4
  <2>2. /\ s3 \in Todos /\ Len(s3) = Len(s2) + Len(both)
        /\ \A i \in 1..Len(s2) : s3[i] = s2[i]
        /\ \A i \in 1..Len(both) : s3[Len(s2) + i] = both[i]
    BY ONLY <2>1, ConcatSteps DEF s3
  <2> HIDE DEF s3
  <2>3. QED
    BY ONLY <2>1, <2>2
<1> HIDE DEF s3
<1>11. /\ s4 \in Todos /\ Len(s4) = c + 4
       /\ \A i \in 1..c : s4[i] = s3[i]
       /\ \A k \in 1..4 : s4[c + k] = last[k]
  <2>1. s3 \in Todos /\ last \in Todos /\ c \in Nat /\ 4 \in Nat /\ Len(s3) = c /\ Len(last) = 4
    BY <1>8, <1>10, <1>5
  <2>2. /\ s4 \in Todos /\ Len(s4) = Len(s3) + Len(last)
        /\ \A i \in 1..Len(s3) : s4[i] = s3[i]
        /\ \A i \in 1..Len(last) : s4[Len(s3) + i] = last[i]
    BY ONLY <2>1, ConcatSteps DEF s4
  <2> HIDE DEF s4
  <2>3. QED
    BY ONLY <2>1, <2>2
<1>12. Steps(order) = s4
  BY <1>6 DEF s4, s3, s2, s1
<1> HIDE DEF s4
<1>13. \A i \in 1..n : s4[i + 3] = <<"member", order[i]>> /\ s4[n + 3 + i] = <<"patches", order[i]>>
  <2> TAKE i \in 1..n
  <2>1. /\ 3 + i = i + 3 /\ 3 + i \in 1..a /\ 3 + i \in 1..b /\ 3 + i \in 1..c
        /\ n + 3 + i = a + i /\ a + i \in 1..b /\ a + i \in 1..c
    BY <1>1, <1>8
  <2>2. s4[3 + i] = members[i]
    BY <1>7, <1>9, <1>10, <1>11, <2>1
  <2>3. s4[a + i] = patches[i]
    BY <1>9, <1>10, <1>11, <2>1
  <2>4. QED
    BY <1>3, <2>1, <2>2, <2>3
<1>14. /\ \A i \in 1..3 : s4[i] = first[i]
       /\ s4[2 * n + 4] = both[1] /\ s4[2 * n + 5] = both[2] /\ s4[2 * n + 6] = last[1] /\ s4[2 * n + 7] = last[2]
       /\ s4[2 * n + 8] = last[3] /\ s4[2 * n + 9] = last[4]
  <2>1. \A i \in 1..3 : i \in 1..a /\ i \in 1..b /\ i \in 1..c
    BY <1>1, <1>8
  <2>2. /\ 2 * n + 4 = b + 1 /\ 2 * n + 5 = b + 2 /\ b + 1 \in 1..c /\ b + 2 \in 1..c
        /\ 2 * n + 6 = c + 1 /\ 2 * n + 7 = c + 2 /\ 2 * n + 8 = c + 3 /\ 2 * n + 9 = c + 4
    BY <1>1, <1>8 DEF b, c
  <2>3. 1 \in 1..2 /\ 2 \in 1..2 /\ 1 \in 1..4 /\ 2 \in 1..4 /\ 3 \in 1..4 /\ 4 \in 1..4
    OBVIOUS
  <2>4. \A i \in 1..3 : s4[i] = first[i]
    BY <1>7, <1>9, <1>10, <1>11, <2>1
  <2>5. s4[b + 1] = both[1] /\ s4[b + 2] = both[2]
    BY <1>10, <1>11, <2>2, <2>3
  <2>6. s4[c + 1] = last[1] /\ s4[c + 2] = last[2] /\ s4[c + 3] = last[3] /\ s4[c + 4] = last[4]
    BY <1>11, <2>3
  <2>7. QED
    BY <2>2, <2>4, <2>5, <2>6
<1>15. \A i \in 1..(2 * n + 9) : s4[i][1] = MultiName(i, n)
  <2> TAKE i \in 1..(2 * n + 9)
  <2>1. CASE i <= 3
    <3>1. i = 1 \/ i = 2 \/ i = 3
      BY <2>1
    <3>2. QED
      BY <1>2, <1>14, <3>1 DEF MultiName
  <2>2. CASE i > 3 /\ i <= n + 3
    <3>1. i - 3 \in 1..n /\ (i - 3) + 3 = i
      BY <1>1, <2>2
    <3>2. s4[i][1] = "member"
      BY <1>13, <3>1
    <3>3. QED
      BY <2>2, <3>2 DEF MultiName
  <2>3. CASE i > n + 3 /\ i <= 2 * n + 3
    <3>1. i - n - 3 \in 1..n /\ n + 3 + (i - n - 3) = i
      BY <1>1, <2>3
    <3>2. s4[i][1] = "patches"
      BY <1>13, <3>1
    <3>3. QED
      BY <1>1, <2>3, <3>2 DEF MultiName
  <2>4. CASE i > 2 * n + 3
    <3>1. i \in {2 * n + 4, 2 * n + 5, 2 * n + 6, 2 * n + 7, 2 * n + 8, 2 * n + 9}
      BY <1>1, <2>4
    <3>2. MultiName(i, n) = IF i = 2 * n + 4 THEN "metadata" ELSE IF i = 2 * n + 5 THEN "direct"
            ELSE IF i = 2 * n + 6 THEN "write" ELSE IF i = 2 * n + 7 THEN "lock"
            ELSE IF i = 2 * n + 8 THEN "sources" ELSE "publish"
      BY <1>1, <2>4 DEF MultiName
    <3>3. QED
      BY <1>1, <1>4, <1>5, <1>14, <3>1, <3>2
  <2>5. QED
    BY <1>1, <2>1, <2>2, <2>3, <2>4
<1>16. QED
  BY <1>1, <1>8, <1>11, <1>12, <1>13, <1>15 DEF n

LEMMA MultiSteps ==
  ASSUME NEW dirs \in SUBSET Paths, NEW order \in Seq(dirs), input.order = order, SplicerKind = "multi"
  PROVE  LET steps == Steps(order)
         IN  /\ steps \in Todos /\ steps # <<>> /\ Ordered(steps)
             /\ Head(steps)[1] = "relink" /\ steps[Len(steps)][1] = "publish"
             /\ WritesLast(steps) /\ About(steps, dirs)
             /\ \A k \in DOMAIN order : /\ \E i \in 1..Len(steps) : steps[i] = <<"member", order[k]>>
                                       /\ \E i \in 1..Len(steps) : steps[i] = <<"patches", order[k]>>
             /\ \E i \in 1..Len(steps) : steps[i][1] = "metadata"
<1> DEFINE steps == Steps(order)
           n == Len(order)
<1>1. order \in Seq(Paths) /\ DOMAIN order = 1..n /\ \A k \in 1..n : order[k] \in dirs
  BY SeqMonotonic, LenProperties, ElementOfSeq
<1>2. /\ steps \in Todos /\ n \in Nat /\ Len(steps) = 2 * n + 9
      /\ \A i \in 1..(2 * n + 9) : steps[i][1] = MultiName(i, n)
      /\ \A i \in 1..n : steps[i + 3] = <<"member", order[i]>> /\ steps[n + 3 + i] = <<"patches", order[i]>>
  BY <1>1, MultiPlaces
<1> HIDE DEF steps, n
<1>3. steps # <<>> /\ Head(steps) = steps[1] /\ steps[1][1] = "relink" /\ steps[Len(steps)][1] = "publish"
  <2>1. steps # <<>>
    BY <1>2, EmptySeq
  <2>2. Head(steps) = steps[1]
    BY <1>2, <2>1, HeadTailProperties DEF Todos
  <2>3. MultiName(1, n) = "relink" /\ MultiName(2 * n + 9, n) = "publish"
    BY <1>2 DEF MultiName
  <2>4. QED
    BY <1>2, <2>1, <2>2, <2>3
<1>4. Ordered(steps)
  <2>1. \A i \in 1..(2 * n + 8) : Follows(MultiName(i, n), MultiName(i + 1, n))
    BY <1>2, SMTT(60) DEF Follows, MultiName, Later, Finishing
  <2>2. QED
    <3> SUFFICES ASSUME NEW i \in 1..(Len(steps) - 1) PROVE Follows(steps[i][1], steps[i + 1][1])
      BY DEF Ordered
    <3>1. /\ i \in 1..(2 * n + 8) /\ i \in 1..(2 * n + 9) /\ i + 1 \in 1..(2 * n + 9)
      BY <1>2
    <3>2. steps[i][1] = MultiName(i, n) /\ steps[i + 1][1] = MultiName(i + 1, n)
      BY <1>2, <3>1
    <3>3. QED
      BY <2>1, <3>1, <3>2
<1>5. WritesLast(steps)
  <2>1. \A i \in 1..(2 * n + 9) : MultiName(i, n) = "write" <=> i = 2 * n + 6
    BY <1>2 DEF MultiName
  <2>2. \A i \in 1..(2 * n + 9) : i > 2 * n + 6 => MultiName(i, n) \in Finishing
    BY <1>2 DEF MultiName, Finishing
  <2>3. QED
    BY <1>2, <2>1, <2>2 DEF WritesLast
<1>6. About(steps, dirs)
  <2> SUFFICES ASSUME NEW i \in 1..Len(steps), steps[i][1] \in {"member", "patches"}
               PROVE  steps[i][2] \in dirs
    BY DEF About
  <2>1. i > 3 /\ i <= 2 * n + 3
    <3>1. MultiName(i, n) \in {"member", "patches"}
      BY <1>2
    <3>2. QED
      BY <1>2, <3>1 DEF MultiName
  <2>2. CASE i <= n + 3
    <3>1. i - 3 \in 1..n /\ (i - 3) + 3 = i
      BY <1>2, <2>1, <2>2
    <3>2. steps[i] = <<"member", order[i - 3]>>
      BY <1>2, <3>1
    <3>3. QED
      BY <1>1, <3>1, <3>2
  <2>3. CASE i > n + 3
    <3>1. i - n - 3 \in 1..n /\ n + 3 + (i - n - 3) = i
      BY <1>2, <2>1, <2>3
    <3>2. steps[i] = <<"patches", order[i - n - 3]>>
      BY <1>2, <3>1
    <3>3. QED
      BY <1>1, <3>1, <3>2
  <2>4. QED
    BY <1>2, <2>2, <2>3
<1>7. \A k \in DOMAIN order : /\ \E i \in 1..Len(steps) : steps[i] = <<"member", order[k]>>
                             /\ \E i \in 1..Len(steps) : steps[i] = <<"patches", order[k]>>
  <2> TAKE k \in DOMAIN order
  <2>1. /\ k + 3 \in 1..Len(steps) /\ steps[k + 3] = <<"member", order[k]>>
        /\ n + 3 + k \in 1..Len(steps) /\ steps[n + 3 + k] = <<"patches", order[k]>>
    BY <1>1, <1>2
  <2>2. QED
    BY <2>1
<1>8. \E i \in 1..Len(steps) : steps[i][1] = "metadata"
  <2>1. 2 * n + 4 \in 1..Len(steps) /\ MultiName(2 * n + 4, n) = "metadata"
    BY <1>2 DEF MultiName
  <2>2. QED
    BY <1>2, <2>1
<1>9. QED
  BY <1>2, <1>3, <1>4, <1>5, <1>6, <1>7, <1>8 DEF steps

LEMMA RootSteps ==
  ASSUME NEW dir \in Paths, NEW dirs, SplicerKind # "multi", RootDir = dir, NEW order
  PROVE  LET steps == Steps(order)
         IN  /\ steps \in Todos /\ steps # <<>> /\ Ordered(steps)
             /\ Head(steps)[1] = "link" /\ steps[Len(steps)][1] = "publish"
             /\ WritesLast(steps) /\ About(steps, dirs)
             /\ \E i \in 1..Len(steps) : steps[i][1] = "metadata"
             /\ Head(steps) = <<"link", dir>> /\ \A i \in 1..Len(steps) : steps[i][1] # "member"
<1> DEFINE names == <<"link", "relink", "clear", "install", "direct", "metadata">>
           first == Step(names, dir)
           last == Step(Finish, dir)
           steps == first \o last
<1>1. Steps(order) = steps
  BY DEF Steps
<1>2. names = [i \in 1..6 |-> names[i]]
  OBVIOUS
<1>3. /\ names[1] = "link" /\ names[2] = "relink" /\ names[3] = "clear"
      /\ names[4] = "install" /\ names[5] = "direct" /\ names[6] = "metadata"
  OBVIOUS
<1> HIDE DEF names
<1>4. \A i \in 1..6 : names[i] \in Names
  <2>1. \A i \in 1..6 : i \in {1, 2, 3, 4, 5, 6}
    OBVIOUS
  <2>2. QED
    BY <1>3, <2>1 DEF Names, Later
<1>5. names \in [1..6 -> Names]
  BY <1>2, <1>4
<1>6. first \in Todos /\ Len(first) = 6 /\ \A i \in 1..6 : first[i] = <<names[i], dir>>
  BY <1>5, StepSequence
<1>7. /\ last \in Todos /\ Len(last) = 4
      /\ last[1][1] = "write" /\ last[2][1] = "lock" /\ last[3][1] = "sources" /\ last[4][1] = "publish"
  BY FinishSteps
<1> HIDE DEF first, last
<1>8. /\ steps \in Todos /\ Len(steps) = 10
      /\ \A i \in 1..6 : steps[i] = first[i]
      /\ \A k \in 1..4 : steps[6 + k] = last[k]
  <2>1. 6 \in Nat /\ 4 \in Nat /\ 6 + 4 = 10
    OBVIOUS
  <2>2. /\ steps \in Todos /\ Len(steps) = 6 + 4
        /\ \A i \in 1..6 : steps[i] = first[i]
        /\ \A k \in 1..4 : steps[6 + k] = last[k]
    <3>1. first \in Todos /\ last \in Todos /\ 6 \in Nat /\ 4 \in Nat /\ Len(first) = 6 /\ Len(last) = 4
      BY <1>6, <1>7, <2>1
    <3>2. /\ steps \in Todos /\ Len(steps) = Len(first) + Len(last)
          /\ \A i \in 1..Len(first) : steps[i] = first[i]
          /\ \A i \in 1..Len(last) : steps[Len(first) + i] = last[i]
      BY ONLY <3>1, ConcatSteps DEF steps
    <3> HIDE DEF steps
    <3>3. QED
      BY ONLY <3>1, <3>2
  <2> HIDE DEF steps
  <2>3. QED
    BY <2>1, <2>2
<1> HIDE DEF steps
<1>9. /\ steps[1][1] = "link" /\ steps[2][1] = "relink" /\ steps[3][1] = "clear"
      /\ steps[4][1] = "install" /\ steps[5][1] = "direct" /\ steps[6][1] = "metadata"
  BY <1>3, <1>6, <1>8
<1>10. /\ steps[7][1] = "write" /\ steps[8][1] = "lock"
       /\ steps[9][1] = "sources" /\ steps[10][1] = "publish"
  <2>1. 6 + 1 = 7 /\ 6 + 2 = 8 /\ 6 + 3 = 9 /\ 6 + 4 = 10
    OBVIOUS
  <2>2. steps[6 + 1] = last[1] /\ steps[6 + 2] = last[2] /\ steps[6 + 3] = last[3] /\ steps[6 + 4] = last[4]
    BY <1>8
  <2>3. QED
    BY <1>7, <2>1, <2>2
<1>11. steps # <<>> /\ Head(steps) = steps[1]
  <2>1. Len(steps) # 0
    BY <1>8
  <2>2. steps # <<>>
    BY ONLY <2>1, Len(<<>>) = 0, EmptySeq
  <2>3. QED
    BY <1>8, <2>2, HeadTailProperties DEF Todos
<1>12. Ordered(steps)
  <2>1. \A i \in 1..9 : i \in {1, 2, 3, 4, 5, 6, 7, 8, 9}
    OBVIOUS
  <2>2. QED
    BY <1>8, <1>9, <1>10, <2>1 DEF Ordered, Follows, Later, Finishing
<1>13. WritesLast(steps) /\ About(steps, dirs) /\ \A i \in 1..Len(steps) : steps[i][1] # "member"
  <2>1. \A i \in 1..10 : i \in {1, 2, 3, 4, 5, 6, 7, 8, 9, 10}
    OBVIOUS
  <2>2. \A i \in 1..10 : steps[i][1] = "write" => i = 7
    BY <1>9, <1>10, <2>1
  <2>5. \A i \in 1..10 : i > 7 => steps[i][1] \in Finishing
    BY <1>9, <1>10, <2>1 DEF Finishing
  <2>6. \A i \in 1..10 : steps[i][1] \notin {"member", "patches"}
    BY <1>9, <1>10, <2>1
  <2>3. WritesLast(steps)
    <3> SUFFICES ASSUME NEW i \in 1..10, NEW j \in 1..10, i < j, steps[i][1] = "write"
                 PROVE  steps[j][1] \in Finishing
      BY <1>8 DEF WritesLast
    <3>1. i = 7 /\ j > 7
      BY <2>2
    <3>2. QED
      BY <2>5, <3>1
  <2>4. About(steps, dirs)
    <3> SUFFICES ASSUME NEW i \in 1..10 PROVE steps[i][1] \notin {"member", "patches"}
      BY <1>8 DEF About
    <3>1. QED
      BY <2>6
  <2>7. \A i \in 1..Len(steps) : steps[i][1] # "member"
    BY <1>8, <2>6
  <2>8. QED
    BY <2>3, <2>4, <2>7
<1>14. Head(steps) = <<"link", dir>>
  BY <1>3, <1>6, <1>8, <1>11
<1>15. QED
  BY <1>1, <1>8, <1>9, <1>10, <1>11, <1>12, <1>13, <1>14

(***************************************************************************)
(* Links.                                                                  *)
(***************************************************************************)
\* The directory .cargo, and what is in it.
LEMMA PathOfOne ==
  ASSUME NEW name \in PathNames
  PROVE  <<name>> \in Paths /\ Len(<<name>>) = 1 /\ <<name>>[1] = name
<1> DEFINE p == <<name>>
<1>1. p = [i \in 1..1 |-> p[i]] /\ p[1] = name
  OBVIOUS
<1> HIDE DEF p
<1>2. p \in [1..1 -> PathNames]
  BY <1>1
<1>3. p \in Paths
  BY <1>2, SeqDef DEF Paths
<1>4. Len(p) = 1
  BY <1>2, <1>3, LenProperties DEF Paths
<1>5. QED
  BY <1>1, <1>3, <1>4 DEF p

LEMMA FrontOfTwo ==
  ASSUME NEW first \in PathNames, NEW second \in PathNames
  PROVE  Front(<<first, second>>) = <<first>>
<1> DEFINE p == <<first, second>>
<1>1. p = [i \in 1..2 |-> p[i]] /\ p[1] = first /\ p[2] = second
  OBVIOUS
<1> HIDE DEF p
<1>2. p \in [1..2 -> PathNames]
  BY <1>1
<1>3. p \in Paths
  BY <1>2, SeqDef DEF Paths
<1>4. Len(p) = 2
  BY <1>2, <1>3, LenProperties DEF Paths
<1> DEFINE q == SubSeq(p, 1, 1)
           one == <<first>>
<1>5. q \in Paths /\ Len(q) = 1 /\ q[1] = first
  <2>1. \A i \in 1..1 : p[i] \in PathNames
    BY <1>1
  <2>2. QED
    BY <1>1, <2>1, SubSeqProperties DEF Paths
<1>6. one \in Paths /\ Len(one) = 1 /\ one[1] = first
  BY PathOfOne
<1>7. Front(p) = q
  BY <1>4 DEF Front
<1> HIDE DEF q, one
<1>8. q = one
  <2>1. \A i \in 1..1 : q[i] = one[i]
    BY <1>5, <1>6
  <2>2. QED
    BY <1>5, <1>6, <2>1, SeqEqual DEF Paths
<1>9. QED
  BY <1>7, <1>8 DEF p, one

LEMMA DotCargoPath ==
  /\ DotCargo \in Paths
  /\ Front(<<".cargo", "config">>) = DotCargo /\ Front(Config) = DotCargo
<1>1. ".cargo" \in PathNames
  BY DEF PathNames
<1>2. "config" \in PathNames
  BY DEF PathNames
<1>3. "config.toml" \in PathNames
  BY DEF PathNames
<1>4. QED
  BY <1>1, <1>2, <1>3, PathOfOne, FrontOfTwo DEF DotCargo, Config

\* What symlink_roots links leads to entries of the source directory.
LEMMA LinkedEntries ==
  ASSUME DOMAIN user \subseteq Paths, NEW source \in Paths, NEW dest \in Paths,
         NEW p \in DOMAIN Links(source, dest)
  PROVE  LET link == Links(source, dest)[p]
         IN  /\ link.type = "link" /\ link.to \in Paths
             /\ link.to \in DOMAIN user \/ UserDir(link.to)
<1>1. PICK file \in DOMAIN user : /\ IsStrictPrefix(source, file)
                                  /\ p = Append(dest, file[Len(source) + 1])
  BY DEF Links, Entries
<1> DEFINE n == Len(source)
           name == file[n + 1]
           to == Append(source, name)
<1>2. /\ file \in Paths /\ n \in Nat /\ Len(file) \in Nat
      /\ n <= Len(file) /\ source # file
      /\ SubSeq(source, 1, n) = SubSeq(file, 1, n)
  BY <1>1, LenProperties DEF Paths, IsStrictPrefix, IsPrefix
<1>3. \A i \in 1..n : source[i] = file[i]
  BY <1>2, SubSeqProperties DEF Paths
<1>4. n < Len(file)
  BY <1>2, <1>3, SeqEqual DEF Paths
<1>5. name \in PathNames
  BY <1>2, <1>4, ElementOfSeq DEF Paths
<1>6. /\ to \in Paths /\ Len(to) = n + 1 /\ to[n + 1] = name
      /\ \A i \in 1..n : to[i] = source[i]
  BY <1>2, <1>5, AppendProperties DEF Paths
<1>7. Last(p) = name
  BY <1>1, <1>5, AppendProperties DEF Paths, Last
<1>8. Links(source, dest)[p] = Link(to)
  BY <1>7 DEF Links
<1>9. to \in DOMAIN user \/ UserDir(to)
  <2>1. CASE Len(file) = n + 1
    <3>1. Len(to) = Len(file) /\ \A i \in 1..Len(to) : to[i] = file[i]
      BY <1>2, <1>3, <1>6, <2>1
    <3>2. to = file
      BY <1>2, <1>6, <3>1, SeqEqual DEF Paths
    <3>3. QED
      BY <3>2
  <2>2. CASE Len(file) > n + 1
    <3>1. \A i \in 1..(n + 1) : to[i] = file[i]
      BY <1>2, <1>3, <1>6
    <3>2. SubSeq(to, 1, n + 1) = SubSeq(file, 1, n + 1)
      BY <1>2, <1>6, <2>2, <3>1
    <3>3. IsStrictPrefix(to, file)
      BY <1>2, <1>6, <2>2, <3>2 DEF IsStrictPrefix, IsPrefix
    <3>4. QED
      BY <3>3 DEF UserDir
  <2>3. QED
    BY <1>2, <1>4, <2>1, <2>2
<1>10. QED
  BY <1>6, <1>8, <1>9 DEF Link

(***************************************************************************)
(* The steps.                                                              *)
(***************************************************************************)
LEMMA InputFacts ==
  ASSUME InputInv, UserFilesUntouched
  PROVE  /\ DOMAIN user \subseteq Paths /\ user = [p \in DOMAIN user |-> user[p]]
         /\ Listed \subseteq Paths /\ IsFiniteSet(Listed)
         /\ input.order \in Seq(Listed) /\ Listed = {input.order[n] : n \in DOMAIN input.order}
<1>1. Seq(STRING) \subseteq Paths
  BY SeqMonotonic DEF Paths, PathNames
<1>2. PICK family \in Inputs : input \in family
  BY DEF InputInv
<1>3. QED
  BY <1>1, <1>2, InputsAssumption DEF UserFilesUntouched, Listed

LEMMA StoppedStep ==
  ASSUME IInv, status' # "running", input' = input, user' = user
  PROVE  IInv'
BY DEF IInv, InputInv, TodoInv, LinksInv, UserFilesUntouched

LEMMA PassedTodo ==
  ASSUME TodoInv, status = "running", Head(todo)[1] \notin {"kind", "publish"}, Passed
  PROVE  TodoInv' /\ status' = "running" /\ Follows(Head(todo)[1], Head(todo')[1])
<1>1. todo' = Tail(todo) /\ status' = status /\ input' = input
  BY DEF Passed
<1>2. /\ Tail(todo) \in Todos /\ Tail(todo) # <<>> /\ Ordered(Tail(todo))
      /\ Tail(todo)[Len(Tail(todo))][1] \in {"kind", "publish"}
      /\ Follows(Head(todo)[1], Head(Tail(todo))[1])
      /\ WritesLast(Tail(todo)) /\ About(Tail(todo), Listed)
  BY OrderedTail DEF TodoInv
<1>3. QED
  BY <1>1, <1>2 DEF TodoInv, Listed

\* From "install" on no step depends on where links lead.
LEMMA LaterStep ==
  ASSUME IInv, status = "running", Head(todo)[1] \in (Later \ {"publish"}) \union {"install"},
         Passed, user' = user
  PROVE  IInv'
<1>1. TodoInv' /\ Follows(Head(todo)[1], Head(todo')[1])
  BY PassedTodo DEF IInv, Later, Finishing
<1>2. Head(todo')[1] \in Later
  BY <1>1 DEF Follows, Later, Finishing
<1>3. QED
  BY <1>1, <1>2 DEF IInv, InputInv, LinksInv, UserFilesUntouched, Passed, Later, Finishing

\* The root manifest is one of those listed.
LEMMA RootListed ==
  ASSUME IsFiniteSet(Listed), SplicerKind # "multi"
  PROVE  RootDir \in Listed
<1>1. \E dir \in Listed : SplicerKind = "workspace" => dir \in Roots
  <2>1. CASE Roots # {} /\ Roots \subseteq Listed
    BY <2>1
  <2>2. CASE ~(Roots # {} /\ Roots \subseteq Listed)
    <3>1. SplicerKind = "package" /\ Cardinality(Listed) = 1
      BY <2>2 DEF SplicerKind
    <3>2. Listed # {}
      BY <3>1, FS_EmptySet
    <3>3. QED
      BY <3>1, <3>2
  <2>3. QED
    BY <2>1, <2>2
<1>2. QED
  BY <1>1 DEF RootDir

LEMMA PickKindStep ==
  ASSUME IInv, PickKind
  PROVE  IInv'
<1>1. CASE Fail
  BY <1>1, StoppedStep DEF Fail
<1>2. CASE ~Fail
  <2> DEFINE steps == Steps(input.order)
  <2>1. /\ todo' = steps /\ status = "running" /\ Head(todo)[1] = "kind"
        /\ UNCHANGED <<status, input, user, tree>>
    BY <1>2 DEF PickKind, At
  <2>2. Listed \subseteq Paths /\ IsFiniteSet(Listed) /\ input.order \in Seq(Listed)
    BY InputFacts DEF IInv
  <2>3. /\ steps \in Todos /\ steps # <<>> /\ Ordered(steps)
        /\ Head(steps)[1] \in {"link", "relink"} /\ steps[Len(steps)][1] = "publish"
        /\ WritesLast(steps) /\ About(steps, Listed)
    <3>1. CASE SplicerKind = "multi"
      BY <2>2, <3>1, MultiSteps
    <3>2. CASE SplicerKind # "multi"
      BY <2>2, <3>2, RootListed, RootSteps
    <3>3. QED
      BY <3>1, <3>2
  <2> HIDE DEF steps
  <2>4. TodoInv'
    BY <2>1, <2>3 DEF TodoInv, Listed
  <2>5. LinksInv'
    BY <2>1, <2>3 DEF IInv, LinksInv, LinksLead, UserDir
  <2>6. QED
    BY <2>1, <2>4, <2>5 DEF IInv, InputInv, UserFilesUntouched
<1>3. QED
  BY <1>1, <1>2

LEMMA LinkRootStep ==
  ASSUME IInv, LinkRoot
  PROVE  IInv'
<1>1. CASE Fail
  BY <1>1, StoppedStep DEF Fail
<1>2. CASE ~Fail
  <2>1. /\ status = "running" /\ Head(todo)[1] = "link"
        /\ tree' = Linked(Dir, <<>>) /\ Passed /\ user' = user
    BY <1>2 DEF LinkRoot, At
  <2>2. TodoInv' /\ status' = "running" /\ Follows("link", Head(todo')[1])
    BY <2>1, PassedTodo DEF IInv
  <2>3. Dir \in Paths /\ <<>> \in Paths
    BY <2>1, HeadTailProperties, EmptySeq DEF IInv, TodoInv, Todos, Dir, Paths
  <2>4. LinksLead'
    <3> SUFFICES ASSUME NEW p \in DOMAIN tree', tree'[p].type = "link"
                 PROVE  /\ tree'[p].to \in Paths
                        /\ tree'[p].to \in DOMAIN user \/ UserDir(tree'[p].to)
      BY <2>1 DEF LinksLead, UserDir
    <3>1. CASE p \in DOMAIN Links(Dir, <<>>)
      <4>1. tree'[p] = Links(Dir, <<>>)[p]
        BY <2>1, <3>1 DEF Linked
      <4>2. QED
        BY <2>3, <3>1, <4>1, LinkedEntries, InputFacts DEF IInv
    <3>2. CASE p \notin DOMAIN Links(Dir, <<>>)
      <4>1. p \in DOMAIN tree /\ tree'[p] = tree[p]
        BY <2>1, <3>2 DEF Linked
      <4>2. QED
        BY <2>1, <4>1 DEF IInv, LinksInv, LinksLead
    <3>3. QED
      BY <3>1, <3>2
  <2>5. Head(todo')[1] \in Later \union {"relink"}
    BY <2>2 DEF Follows
  <2>6. LinksInv'
    BY <2>4, <2>5 DEF LinksInv, Later, Finishing
  <2>7. QED
    BY <2>1, <2>2, <2>6 DEF IInv, InputInv, UserFilesUntouched, Passed
<1>3. QED
  BY <1>1, <1>2

LEMMA RelinkDotCargoStep ==
  ASSUME IInv, RelinkDotCargo
  PROVE  IInv'
<1>1. /\ status = "running" /\ Head(todo)[1] = "relink" /\ Passed /\ user' = user
      /\ tree' = IF IsLink(DotCargo) /\ Exists(DotCargo) THEN Relinked ELSE tree
  BY DEF RelinkDotCargo, At
<1>2. TodoInv' /\ Follows("relink", Head(todo')[1])
  BY <1>1, PassedTodo DEF IInv
<1>3. LinksLead
  BY <1>1 DEF IInv, LinksInv
<1>4. LinksLead' /\ ~IsLink(DotCargo)'
  <2>1. CASE IsLink(DotCargo)
    <3>1. tree[DotCargo].to \in Paths /\ Exists(DotCargo)
      BY <1>3, <2>1 DEF LinksLead, IsLink, Exists, Leads
    <3>2. tree' = Relinked
      BY <1>1, <2>1, <3>1
    <3>3. DotCargo \in Paths
      BY DotCargoPath
    <3>4. ~IsLink(DotCargo)'
      BY <3>2 DEF Relinked, IsLink, Directory
    <3>5. LinksLead'
      <4> SUFFICES ASSUME NEW p \in DOMAIN tree', tree'[p].type = "link"
                   PROVE  /\ tree'[p].to \in Paths
                          /\ tree'[p].to \in DOMAIN user \/ UserDir(tree'[p].to)
        BY <1>1 DEF LinksLead, UserDir
      <4>1. p # DotCargo
        BY <3>4 DEF IsLink
      <4>2. CASE p \in DOMAIN tree
        <5>1. tree'[p] = tree[p]
          BY <3>2, <4>1, <4>2 DEF Relinked
        <5>2. QED
          BY <1>3, <4>2, <5>1 DEF LinksLead
      <4>3. CASE p \notin DOMAIN tree
        <5>1. /\ p \in DOMAIN Links(tree[DotCargo].to, DotCargo)
              /\ tree'[p] = Links(tree[DotCargo].to, DotCargo)[p]
          BY <3>2, <4>1, <4>3 DEF Relinked
        <5>2. QED
          BY <3>1, <3>3, <5>1, LinkedEntries, InputFacts DEF IInv
      <4>4. QED
        BY <4>2, <4>3
    <3>6. QED
      BY <3>4, <3>5
  <2>2. CASE ~IsLink(DotCargo)
    BY <1>1, <1>3, <2>2 DEF LinksLead, UserDir, IsLink
  <2>3. QED
    BY <2>1, <2>2
<1>5. LinksInv'
  BY <1>2, <1>4 DEF LinksInv, Follows, Later, Finishing
<1>6. QED
  BY <1>1, <1>2, <1>5 DEF IInv, InputInv, UserFilesUntouched, Passed

LEMMA ClearConfigsStep ==
  ASSUME IInv, ClearConfigs
  PROVE  IInv'
<1> DEFINE gone == {p \in ConfigNames : Exists(p)}
<1>1. /\ status = "running" /\ Head(todo)[1] = "clear" /\ Removed(gone) /\ input' = input
      /\ \/ status' = "failed"
         \/ Passed
  BY DEF ClearConfigs, At, Passed
<1>2. LinksLead /\ ~IsLink(DotCargo)
  BY <1>1 DEF IInv, LinksInv
<1>3. gone \subseteq DOMAIN tree
  <2> SUFFICES ASSUME NEW p \in ConfigNames, Exists(p), p \notin DOMAIN tree
               PROVE  FALSE
    OBVIOUS
  <2>1. Leads(p) # <<>> /\ ~IsLink(p)
    BY DEF Exists, IsLink
  <2>2. Len(p) > 1 /\ IsLink(Front(p))
    BY <2>1 DEF Leads
  <2>3. p \in {<<".cargo", "config">>, <<".cargo", "config.toml">>}
    <3>1. ~(Len(<<"config">>) > 1) /\ ~(Len(<<"config.toml">>) > 1)
      OBVIOUS
    <3>2. p # <<"config">> /\ p # <<"config.toml">>
      BY ONLY <2>2, <3>1
    <3>3. QED
      BY ONLY <3>2, p \in ConfigNames DEF ConfigNames, Config
  <2>4. Front(p) = DotCargo
    BY <2>3, DotCargoPath DEF Config
  <2>5. QED
    BY <1>2, <2>2, <2>4
<1>4. user' = user
  <2>1. UNION {ToSet(Leads(p)) : p \in gone \ DOMAIN tree} = {}
    BY <1>3
  <2>2. user = [p \in DOMAIN user |-> user[p]]
    BY InputFacts DEF IInv
  <2>3. QED
    BY <1>1, <2>1, <2>2 DEF Removed, Without
<1>5. tree' = Without(tree, gone)
  BY <1>1 DEF Removed
<1>6. ~IsLink(DotCargo)'
  BY <1>2, <1>5 DEF IsLink, Without
<1>7. ~IsLink(Config)'
  <2> SUFFICES ASSUME IsLink(Config) PROVE Config \in gone
    BY <1>5 DEF IsLink, Without
  <2>1. Leads(Config) = <<tree[Config].to>>
    BY DEF Leads
  <2>2. tree[Config].to \in DOMAIN user \/ UserDir(tree[Config].to)
    BY <1>2 DEF LinksLead, IsLink
  <2>3. QED
    BY <2>1, <2>2 DEF Exists, ConfigNames
<1>8. CASE status' = "failed"
  BY <1>1, <1>4, <1>8, StoppedStep
<1>9. CASE Passed
  <2>1. TodoInv' /\ Follows("clear", Head(todo')[1])
    BY <1>1, <1>9, PassedTodo DEF IInv
  <2>2. LinksInv'
    BY <1>6, <1>7, <2>1 DEF LinksInv, Follows, Later, Finishing
  <2>3. QED
    BY <1>4, <1>9, <2>1, <2>2 DEF IInv, InputInv, UserFilesUntouched, Passed
<1>10. QED
  BY <1>1, <1>8, <1>9

LEMMA InstallConfigStep ==
  ASSUME IInv, InstallConfig
  PROVE  IInv'
<1>1. status = "running" /\ Head(todo)[1] = "install" /\ Passed
  BY DEF InstallConfig, At
<1>2. ~IsLink(DotCargo) /\ ~IsLink(Config)
  BY <1>1 DEF IInv, LinksInv
<1>3. Leads(Config) = <<>>
  <2>1. Front(Config) = DotCargo
    BY DotCargoPath
  <2>2. QED
    BY <1>2, <2>1 DEF Leads
<1>4. user' = user
  BY <1>3 DEF InstallConfig, Write
<1>5. QED
  BY <1>1, <1>4, LaterStep

(***************************************************************************)
(* The theorem.                                                            *)
(***************************************************************************)
LEMMA InitIInv == Init => IInv
<1> SUFFICES ASSUME Init PROVE IInv
  OBVIOUS
<1>1. PICK family \in Inputs : \E in \in family :
        /\ input = in /\ user = in.files /\ tree = in.before
        /\ status = "running" /\ todo = <<<<"kind", <<>>>>>>
  BY DEF Init
<1>2. <<"kind", <<>>>> \in Names \X Paths
  BY EmptySeq DEF Names, Paths
<1>3. todo \in Todos /\ Len(todo) = 1 /\ todo # <<>> /\ todo[1][1] = "kind" /\ Head(todo)[1] = "kind"
  BY <1>1, <1>2, EmptySeq DEF Todos
<1>4. TodoInv
  BY <1>3 DEF TodoInv, Ordered, WritesLast, About
<1>5. LinksInv
  <2>1. \A p \in DOMAIN tree : tree[p].type # "link"
    <3>1. PICK in \in family : tree = in.before
      BY <1>1
    <3>2. QED
      BY <3>1, InputsAssumption
  <2>2. QED
    BY <2>1 DEF LinksInv, LinksLead, IsLink
<1>6. QED
  BY <1>1, <1>4, <1>5 DEF IInv, InputInv, UserFilesUntouched

LEMMA NextIInv == IInv /\ [Next]_vars => IInv'
<1> SUFFICES ASSUME IInv, [Next]_vars PROVE IInv'
  OBVIOUS
<1>1. CASE PickKind
  BY <1>1, PickKindStep
<1>2. CASE LinkRoot
  BY <1>2, LinkRootStep
<1>3. CASE RelinkDotCargo
  BY <1>3, RelinkDotCargoStep
<1>4. CASE ClearConfigs
  BY <1>4, ClearConfigsStep
<1>5. CASE InstallConfig
  BY <1>5, InstallConfigStep
<1>6. CASE LinkMember \/ MergePatches \/ AddMetadata \/ AddDirect \/ WriteRoot \/ Relock \/ WriteSources
  <2>1. CASE Fail
    BY <2>1, StoppedStep DEF Fail
  <2>2. CASE ~Fail
    <3>1. /\ status = "running" /\ Passed /\ user' = user
          /\ Head(todo)[1] \in {"member", "patches", "metadata", "direct", "write", "lock", "sources"}
      BY <1>6, <2>2 DEF At, LinkMember, MergePatches, AddMetadata, AddDirect, WriteRoot, Relock, WriteSources
    <3>2. QED
      BY <3>1, LaterStep DEF Later, Finishing
  <2>3. QED
    BY <2>1, <2>2
<1>7. CASE Publish
  BY <1>7, StoppedStep DEF Publish, Fail
<1>8. CASE Broken
  BY <1>8, StoppedStep DEF Broken, Fail
<1>9. CASE UNCHANGED vars
  <2>1. input' = input /\ todo' = todo /\ status' = status /\ user' = user /\ tree' = tree
    BY <1>9 DEF vars
  <2>2. TodoInv' /\ InputInv' /\ UserFilesUntouched'
    BY <2>1 DEF IInv, TodoInv, InputInv, UserFilesUntouched, Listed
  <2>3. LinksInv'
    BY <2>1 DEF IInv, LinksInv, LinksLead, UserDir, IsLink
  <2>4. QED
    BY <2>2, <2>3 DEF IInv
<1>10. QED
  BY <1>1, <1>2, <1>3, <1>4, <1>5, <1>6, <1>7, <1>8, <1>9 DEF Next

\* The user's files are what they were before, whatever splicing links, removes
\* and overwrites, and wherever it stops: setup_cargo_config removes and copies
\* in a directory of its own, and every other file of the spliced workspace
\* takes the place of the link (splicer.rs, setup_cargo_config and
\* write_root_manifest; metadata.rs, LockGenerator::generate).
THEOREM FilesAreUntouched == Spec => []UserFilesUntouched
<1>1. IInv => UserFilesUntouched
  BY DEF IInv
<1>2. QED
  BY <1>1, InitIInv, NextIInv, PTL DEF Spec
------------------------------------------------------------------------------
(***************************************************************************)
(* The settings: what Cargo is to find of the config and of the patches,   *)
(* from the step on that puts it there.                                    *)
(***************************************************************************)
StepIs(names) == status = "running" /\ Head(todo)[1] \in names
Past(names) == status = "done" \/ StepIs(names)

\* A package that is named `config` has a directory where a config would be.
Configured ==
  /\ ~input.above /\ ~IsLink(DotCargo)
  /\ \A p \in ConfigNames \intersect DOMAIN tree :
       tree[p] = Directory \/ (p = Config /\ input.config = <<tree[p]>>)
  /\ input.config # <<>> => Config \in DOMAIN tree /\ input.config = <<tree[Config]>>

ConfigInv ==
  /\ StepIs({"install"}) => ~input.above /\ ConfigNames \intersect DOMAIN tree = {}
  /\ Past(Later) => Configured

\* The manifests whose patches are to be taken over.
Sources == IF SplicerKind = "multi" THEN Listed ELSE {RootDir}
PatchesIn(dir, manifest) ==
  \A key \in DOMAIN Manifest(dir).patches :
    /\ key \in DOMAIN manifest.patches
    /\ manifest.patches[key] = Manifest(dir).patches[key]
HasTable(manifest) == 1 \in DOMAIN manifest.bazel /\ "sources" \in DOMAIN manifest.bazel[1]
IsRoot(manifest) == DOMAIN manifest = ManifestFields /\ manifest.type = "manifest"

RootInv ==
  StepIs(Names \ {"kind"}) =>
    /\ \A dir \in Listed : Toml(dir) \in DOMAIN user
    /\ IsRoot(root)
    /\ (\E i \in 1..Len(todo) : todo[i][1] = "metadata") \/ HasTable(root)
    /\ \A dir \in Sources :
         (\E i \in 1..Len(todo) : todo[i] = <<"patches", dir>>) \/ PatchesIn(dir, root)

FileInv ==
  Past(Finishing) =>
    /\ RootToml \in DOMAIN tree
    /\ IsRoot(tree[RootToml]) /\ HasTable(tree[RootToml])
    /\ \A dir \in Sources : PatchesIn(dir, tree[RootToml])

SourcesInv ==
  Past({"publish"}) =>
    /\ Loads(input.config, lock[1])
    /\ tree[RootToml].bazel[1].sources = SourceInfos(input.config, lock[1])

SettingsInv == ConfigInv /\ RootInv /\ FileInv /\ SourcesInv

(***************************************************************************)
(* Facts the settings depend on.                                           *)
(***************************************************************************)
LEMMA DistinctPaths ==
  /\ Len(RootToml) = 1 /\ Len(DotCargo) = 1
  /\ RootToml # RootLock /\ RootToml # DotCargo /\ RootLock # DotCargo
  /\ RootToml \notin ConfigNames /\ RootLock \notin ConfigNames
<1> DEFINE toml == <<"Cargo.toml">>
<1>1. toml \in Seq({"Cargo.toml"})
  OBVIOUS
<1>2. RootToml = toml
  BY <1>1, ConcatEmptySeq DEF RootToml, Toml
<1>3. QED
  BY <1>2 DEF RootLock, DotCargo, ConfigNames, Config

LEMMA Given ==
  ASSUME IInv
  PROVE  /\ \A dir \in Listed : Toml(dir) \in DOMAIN user => IsManifest(Manifest(dir))
         /\ input.config = <<>> \/ (input.config = <<input.config[1]>> /\ input.config[1].type = "config")
         /\ input.config # <<>> =>
              LET config == input.config[1] IN
              \A a, b \in DOMAIN config.sources : config.sources[a].registry = config.sources[b].registry => a = b
<1>1. PICK family \in Inputs : input \in family
  BY DEF IInv, InputInv
<1>2. \A dir \in Listed : Toml(dir) \in DOMAIN user => IsManifest(Manifest(dir))
  BY <1>1, InputsAssumption DEF IInv, UserFilesUntouched, Listed, Manifest
<1>3. input.config = <<>> \/ input.config = <<input.config[1]>>
  BY <1>1, InputsAssumption
<1>4. ASSUME input.config # <<>>
      PROVE  LET config == input.config[1] IN
               /\ config.type = "config"
               /\ \A a, b \in DOMAIN config.sources : config.sources[a].registry = config.sources[b].registry => a = b
  <2>1. 1 \in DOMAIN input.config
    BY <1>3, <1>4
  <2>2. QED
    BY <1>1, <2>1, InputsAssumption
<1>5. QED
  BY <1>2, <1>3, <1>4

\* What splicing is about does not change.
LEMMA Frozen ==
  ASSUME user' = user, input' = input
  PROVE  /\ SplicerKind' = SplicerKind /\ Listed' = Listed /\ Sources' = Sources
         /\ \A dir : Manifest(dir)' = Manifest(dir)
<1>1. Listed' = Listed
  BY DEF Listed
<1>2. \A dir : Manifest(dir)' = Manifest(dir)
  BY DEF Manifest
<1>3. \A dir : ParentWorkspace(dir)' = ParentWorkspace(dir)
  BY DEF ParentWorkspace, WorkspaceAbove
<1>4. Roots' = Roots
  BY <1>1, <1>3 DEF Roots
<1>5. SplicerKind' = SplicerKind
  BY <1>1, <1>4 DEF SplicerKind
<1>6. RootDir' = RootDir
  BY <1>1, <1>4, <1>5 DEF RootDir
<1>7. QED
  BY <1>1, <1>2, <1>5, <1>6 DEF Sources

LEMMA FrozenPatches ==
  ASSUME user' = user, input' = input, NEW dir, NEW m
  PROVE  PatchesIn(dir, m)' <=> PatchesIn(dir, m)
BY Frozen DEF PatchesIn

LEMMA SameFiles ==
  ASSUME IInv, IInv', input' = input
  PROVE  user' = user
BY DEF IInv, UserFilesUntouched

(***************************************************************************)
(* A step is taken from the list; the others are still to come.            *)
(***************************************************************************)
LEMMA Passing ==
  ASSUME IInv, StepIs(Names \ {"kind", "publish"}), Passed
  PROVE  /\ status' = "running" /\ input' = input
         /\ Follows(Head(todo)[1], Head(todo')[1])
         /\ \A x : (\E i \in 1..Len(todo) : todo[i] = x) /\ x # Head(todo)
                     => \E i \in 1..Len(todo') : todo'[i] = x
<1>1. status = "running" /\ Head(todo)[1] \notin {"kind", "publish"}
  BY DEF StepIs
<1>2. status' = "running" /\ Follows(Head(todo)[1], Head(todo')[1]) /\ input' = input /\ todo' = Tail(todo)
  BY <1>1, PassedTodo DEF IInv, Passed
<1>3. todo \in Todos /\ todo # <<>>
  BY <1>1 DEF IInv, TodoInv
<1>4. /\ Head(todo) = todo[1] /\ Len(todo) \in Nat /\ Len(todo') = Len(todo) - 1
      /\ \A i \in 1..(Len(todo) - 1) : todo'[i] = todo[i + 1]
  BY <1>2, <1>3, HeadTailProperties, LenProperties DEF Todos
<1>5. ASSUME NEW x, NEW i \in 1..Len(todo), todo[i] = x, x # Head(todo)
      PROVE  \E k \in 1..Len(todo') : todo'[k] = x
  <2>1. i # 1
    BY <1>4, <1>5
  <2>2. i - 1 \in 1..(Len(todo) - 1) /\ (i - 1) + 1 = i
    BY <1>4, <2>1
  <2>3. todo'[i - 1] = x
    BY <1>4, <1>5, <2>2
  <2>4. QED
    BY <1>4, <2>2, <2>3
<1>6. QED
  BY <1>2, <1>5

LEMMA NextStep ==
  ASSUME NEW name, NEW next, Follows(name, next)
  PROVE  /\ next \in Names \ {"kind"}
         /\ next \in Finishing => name \in {"write", "lock", "sources"}
         /\ next = "publish" => name = "sources"
         /\ next \in Later => name \in Later \union {"install"}
         /\ next = "install" => name = "clear"
BY DEF Follows, Names, Later, Finishing

\* The root manifest, after a step that loses nothing of it.
LEMMA RootPassed ==
  ASSUME IInv, RootInv, StepIs(Names \ {"kind", "publish"}), Passed, user' = user, IsRoot(root'),
         Head(todo)[1] = "metadata" \/ HasTable(root) => HasTable(root'),
         \A dir \in Sources :
           Head(todo) = <<"patches", dir>> \/ PatchesIn(dir, root) => PatchesIn(dir, root')
  PROVE  RootInv'
<1>1. /\ status' = "running" /\ input' = input
      /\ \A x : (\E i \in 1..Len(todo) : todo[i] = x) /\ x # Head(todo)
                  => \E i \in 1..Len(todo') : todo'[i] = x
  BY Passing
<1>2. /\ \A dir \in Listed : Toml(dir) \in DOMAIN user
      /\ (\E i \in 1..Len(todo) : todo[i][1] = "metadata") \/ HasTable(root)
      /\ \A dir \in Sources :
           (\E i \in 1..Len(todo) : todo[i] = <<"patches", dir>>) \/ PatchesIn(dir, root)
  BY DEF RootInv, StepIs
<1>3. (\E i \in 1..Len(todo') : todo'[i][1] = "metadata") \/ HasTable(root')
  <2>1. CASE HasTable(root)
    BY <2>1
  <2>2. CASE \E i \in 1..Len(todo) : todo[i][1] = "metadata"
    <3>1. PICK i \in 1..Len(todo) : todo[i][1] = "metadata"
      BY <2>2
    <3>2. CASE todo[i] = Head(todo)
      BY <3>1, <3>2
    <3>3. CASE todo[i] # Head(todo)
      BY <1>1, <3>1, <3>3
    <3>4. QED
      BY <3>2, <3>3
  <2>3. QED
    BY <1>2, <2>1, <2>2
<1>4. ASSUME NEW dir \in Sources
      PROVE  (\E i \in 1..Len(todo') : todo'[i] = <<"patches", dir>>) \/ PatchesIn(dir, root')
  <2>1. CASE PatchesIn(dir, root) \/ Head(todo) = <<"patches", dir>>
    BY <2>1
  <2>2. CASE (\E i \in 1..Len(todo) : todo[i] = <<"patches", dir>>) /\ Head(todo) # <<"patches", dir>>
    BY <1>1, <2>2
  <2>3. QED
    BY <1>2, <2>1, <2>2
<1>5. \A dir \in Sources : PatchesIn(dir, root)' <=> PatchesIn(dir, root')
  BY <1>1, Frozen DEF PatchesIn
<1>6. HasTable(root)' <=> HasTable(root')
  BY DEF HasTable
<1>7. IsRoot(root)' <=> IsRoot(root')
  BY DEF IsRoot
<1>8. QED
  BY <1>1, <1>2, <1>3, <1>4, <1>5, <1>6, <1>7, Frozen DEF RootInv

LEMMA RootUnchanged ==
  ASSUME IInv, RootInv, StepIs(Names \ {"kind", "publish", "metadata", "patches"}), Passed,
         user' = user, root' = root
  PROVE  RootInv'
<1>1. StepIs(Names \ {"kind", "publish"}) /\ StepIs(Names \ {"kind"}) /\ Head(todo)[1] \notin {"metadata", "patches"}
  BY DEF StepIs
<1>2. IsRoot(root)
  BY <1>1 DEF RootInv
<1>3. \A dir : Head(todo) # <<"patches", dir>>
  BY <1>1
<1>4. QED
  BY <1>1, <1>2, <1>3, RootPassed

\* The config is left where it is.
LEMMA ConfigKept ==
  ASSUME Configured, input' = input,
         \A p \in ConfigNames \union {DotCargo} : p \in DOMAIN tree => p \in DOMAIN tree' /\ tree'[p] = tree[p],
         \A p \in ConfigNames \union {DotCargo} : p \in DOMAIN tree' \ DOMAIN tree => tree'[p] = Directory
  PROVE  Configured'
<1>1. ~IsLink(DotCargo)'
  BY DEF Configured, IsLink, Directory
<1>2. ASSUME NEW p \in ConfigNames, p \in DOMAIN tree'
      PROVE  tree'[p] = Directory \/ (p = Config /\ input'.config = <<tree'[p]>>)
  BY <1>2 DEF Configured
<1>3. input'.config # <<>> => Config \in DOMAIN tree' /\ input'.config = <<tree'[Config]>>
  BY DEF Configured, ConfigNames
<1>4. QED
  BY <1>1, <1>2, <1>3 DEF Configured

LEMMA ConfigPassed ==
  ASSUME IInv, ConfigInv, StepIs(Later \ {"publish"}), Passed,
         \A p \in ConfigNames \union {DotCargo} : p \in DOMAIN tree => p \in DOMAIN tree' /\ tree'[p] = tree[p],
         \A p \in ConfigNames \union {DotCargo} : p \in DOMAIN tree' \ DOMAIN tree => tree'[p] = Directory
  PROVE  ConfigInv'
<1>1. StepIs(Names \ {"kind", "publish"}) /\ Past(Later) /\ Head(todo)[1] # "clear"
  BY DEF StepIs, Past, Names, Later, Finishing
<1>2. Configured
  BY <1>1 DEF ConfigInv
<1>3. input' = input /\ Follows(Head(todo)[1], Head(todo')[1])
  BY <1>1, Passing
<1>4. Configured'
  BY <1>2, <1>3, ConfigKept
<1>5. ~StepIs({"install"})'
  BY <1>1, <1>3, NextStep DEF StepIs
<1>6. QED
  BY <1>4, <1>5 DEF ConfigInv, StepIs

\* Before the root manifest is written nothing is said of the file.
LEMMA NotWritten ==
  ASSUME IInv, StepIs(Names \ ({"kind", "write"} \union Finishing)), Passed
  PROVE  FileInv' /\ SourcesInv'
<1>1. StepIs(Names \ {"kind", "publish"}) /\ Head(todo)[1] \notin {"write", "lock", "sources"}
  BY DEF StepIs, Finishing
<1>2. status' = "running" /\ Head(todo')[1] \notin Finishing
  BY <1>1, Passing, NextStep
<1>3. QED
  BY <1>2 DEF FileInv, SourcesInv, Past, StepIs, Finishing

LEMMA Stopped ==
  ASSUME status' = "failed"
  PROVE  SettingsInv'
BY DEF SettingsInv, ConfigInv, RootInv, FileInv, SourcesInv, Past, StepIs

(***************************************************************************)
(* The steps, one by one.                                                  *)
(***************************************************************************)
LEMMA PickKindSettings ==
  ASSUME IInv, PickKind
  PROVE  SettingsInv'
<1>1. CASE Fail
  BY <1>1, Stopped DEF Fail
<1>2. CASE ~Fail
  <2> DEFINE steps == Steps(input.order)
  <2>1. /\ todo' = steps /\ status' = "running" /\ input' = input /\ user' = user
        /\ \A dir \in Listed : Toml(dir) \in DOMAIN user
        /\ root' = IF SplicerKind = "multi" THEN DefaultWorkspace ELSE [Manifest(RootDir) EXCEPT !.workspace = TRUE]
    BY <1>2 DEF PickKind, At
  <2>2. /\ Listed \subseteq Paths /\ IsFiniteSet(Listed) /\ input.order \in Seq(Listed)
        /\ Listed = {input.order[n] : n \in DOMAIN input.order}
    BY InputFacts DEF IInv
  <2>3. /\ Head(steps)[1] \in {"link", "relink"}
        /\ \E i \in 1..Len(steps) : steps[i][1] = "metadata"
    <3>1. CASE SplicerKind = "multi"
      BY <2>2, <3>1, MultiSteps
    <3>2. CASE SplicerKind # "multi"
      BY <2>2, <3>2, RootListed, RootSteps
    <3>3. QED
      BY <3>1, <3>2
  <2>4. /\ IsRoot(root')
        /\ \A dir \in Sources : (\E i \in 1..Len(steps) : steps[i] = <<"patches", dir>>) \/ PatchesIn(dir, root')
    <3>1. CASE SplicerKind = "multi"
      <4>1. IsRoot(root')
        BY <2>1, <3>1 DEF IsRoot, DefaultWorkspace, ManifestFields
      <4>2. \A k \in DOMAIN input.order : \E i \in 1..Len(steps) : steps[i] = <<"patches", input.order[k]>>
        BY <2>2, <3>1, MultiSteps
      <4>3. \A dir \in Listed : \E i \in 1..Len(steps) : steps[i] = <<"patches", dir>>
        BY <2>2, <4>2
      <4>4. QED
        BY <3>1, <4>1, <4>3 DEF Sources
    <3>2. CASE SplicerKind # "multi"
      <4> DEFINE m == Manifest(RootDir)
      <4>1. IsManifest(m)
        BY <2>1, <2>2, <3>2, RootListed, Given
      <4>2. DOMAIN m = ManifestFields /\ m.type = "manifest"
        BY <4>1 DEF IsManifest
      <4>3. root' = [m EXCEPT !.workspace = TRUE]
        BY <2>1, <3>2
      <4> HIDE DEF m
      <4>4. DOMAIN root' = ManifestFields /\ root'.type = m.type /\ root'.patches = m.patches
        BY <4>2, <4>3 DEF ManifestFields
      <4>5. PatchesIn(RootDir, root')
        BY <4>4 DEF PatchesIn, m
      <4>6. QED
        BY <3>2, <4>2, <4>4, <4>5 DEF Sources, IsRoot
    <3>3. QED
      BY <3>1, <3>2
  <2> HIDE DEF steps
  <2>5. RootInv'
    <3>1. \A dir \in Sources : PatchesIn(dir, root)' <=> PatchesIn(dir, root')
      BY <2>1, Frozen DEF PatchesIn
    <3>2. IsRoot(root)' <=> IsRoot(root')
      BY DEF IsRoot
    <3>3. QED
      BY <2>1, <2>3, <2>4, <3>1, <3>2, Frozen DEF RootInv
  <2>6. ConfigInv' /\ FileInv' /\ SourcesInv'
    BY <2>1, <2>3 DEF ConfigInv, FileInv, SourcesInv, Past, StepIs, Later, Finishing
  <2>7. QED
    BY <2>5, <2>6 DEF SettingsInv
<1>3. QED
  BY <1>1, <1>2

LEMMA EarlySettings ==
  ASSUME IInv, SettingsInv, StepIs({"link", "relink"}), Passed, user' = user, root' = root
  PROVE  SettingsInv'
<1>1. /\ StepIs(Names \ ({"kind", "write"} \union Finishing)) /\ StepIs(Names \ {"kind", "publish"})
      /\ StepIs(Names \ {"kind", "publish", "metadata", "patches"})
      /\ Head(todo)[1] \in {"link", "relink"}
  BY DEF StepIs, Names, Later, Finishing
<1>2. status' = "running" /\ Head(todo')[1] \notin Later \union {"install"}
  BY <1>1, Passing, NextStep DEF Later, Finishing
<1>3. ConfigInv'
  BY <1>2 DEF ConfigInv, Past, StepIs
<1>4. QED
  BY <1>1, <1>3, NotWritten, RootUnchanged DEF SettingsInv

LEMMA ClearConfigsSettings ==
  ASSUME IInv, SettingsInv, ClearConfigs, user' = user
  PROVE  SettingsInv'
<1> DEFINE gone == {p \in ConfigNames : Exists(p)}
<1>1. /\ StepIs({"clear"}) /\ tree' = Without(tree, gone) /\ root' = root
      /\ IF input.above THEN status' = "failed" ELSE Passed
  BY DEF ClearConfigs, At, StepIs, Removed
<1>2. CASE input.above
  BY <1>1, <1>2, Stopped
<1>3. CASE ~input.above
  <2>1. /\ StepIs(Names \ ({"kind", "write"} \union Finishing)) /\ StepIs(Names \ {"kind", "publish"})
        /\ StepIs(Names \ {"kind", "publish", "metadata", "patches"})
        /\ Head(todo)[1] = "clear" /\ Passed
    BY <1>1, <1>3 DEF StepIs, Names, Later, Finishing
  <2>2. status' = "running" /\ input' = input /\ Head(todo')[1] \notin Later
    BY <2>1, Passing, NextStep DEF Later, Finishing
  <2>3. LinksLead /\ ~IsLink(DotCargo)
    BY <1>1 DEF IInv, LinksInv, StepIs
  <2>4. ASSUME NEW p \in ConfigNames, p \in DOMAIN tree
        PROVE  Exists(p)
    <3>1. CASE IsLink(p)
      <4>1. Leads(p) = <<tree[p].to>>
        BY <3>1 DEF Leads
      <4>2. tree[p].to \in DOMAIN user \/ UserDir(tree[p].to)
        BY <2>3, <3>1 DEF LinksLead, IsLink
      <4>3. QED
        BY <4>1, <4>2 DEF Exists
    <3>2. CASE ~IsLink(p)
      <4>1. Len(p) > 1 => Front(p) = DotCargo
        <5>1. ~(Len(<<"config">>) > 1) /\ ~(Len(<<"config.toml">>) > 1)
          OBVIOUS
        <5>2. CASE p = <<".cargo", "config">> \/ p = Config
          BY <5>2, DotCargoPath
        <5>3. CASE p = <<"config">> \/ p = <<"config.toml">>
          BY <5>1, <5>3, Zenon
        <5>4. QED
          BY <5>2, <5>3 DEF ConfigNames
      <4>2. Leads(p) = <<>>
        BY <2>3, <3>2, <4>1 DEF Leads
      <4>3. QED
        BY <2>4, <4>2 DEF Exists
    <3>3. QED
      BY <3>1, <3>2
  <2>5. ConfigNames \intersect DOMAIN tree' = {}
    BY <1>1, <2>4 DEF Without
  <2>6. ConfigInv'
    BY <1>3, <2>2, <2>5 DEF ConfigInv, Past, StepIs
  <2>7. QED
    BY <1>1, <2>1, <2>6, NotWritten, RootUnchanged DEF SettingsInv
<1>4. QED
  BY <1>2, <1>3

LEMMA InstallConfigSettings ==
  ASSUME IInv, SettingsInv, InstallConfig, user' = user
  PROVE  SettingsInv'
<1>1. /\ StepIs({"install"}) /\ Passed /\ root' = root
      /\ IF input.config = <<>> THEN UNCHANGED <<user, tree>>
         ELSE IF Exists(DotCargo) THEN Write(Config, input.config[1])
         ELSE tree' = With(With(tree, DotCargo, Directory), Config, input.config[1])
  BY DEF InstallConfig, At, StepIs
<1>2. /\ StepIs(Names \ ({"kind", "write"} \union Finishing)) /\ StepIs(Names \ {"kind", "publish"})
      /\ StepIs(Names \ {"kind", "publish", "metadata", "patches"})
      /\ Head(todo)[1] = "install"
  BY <1>1 DEF StepIs, Names, Later, Finishing
<1>3. status' = "running" /\ input' = input /\ Head(todo')[1] # "install"
  <2>1. status' = "running" /\ input' = input /\ Follows(Head(todo)[1], Head(todo')[1])
    BY <1>1, <1>2, Passing
  <2>2. QED
    BY <1>2, <2>1 DEF Follows, Later, Finishing
<1>4. ~IsLink(DotCargo) /\ ~input.above /\ ConfigNames \intersect DOMAIN tree = {}
  BY <1>1 DEF IInv, LinksInv, SettingsInv, ConfigInv, StepIs
<1>5. Config \in ConfigNames /\ DotCargo \notin ConfigNames /\ Front(Config) = DotCargo /\ Config # DotCargo
  BY DotCargoPath DEF ConfigNames, Config, DotCargo
<1>6. Leads(Config) = <<>>
  BY <1>4, <1>5 DEF Leads, IsLink
<1>7. Configured'
  <2>1. CASE input.config = <<>>
    <3>1. tree' = tree
      BY <1>1, <2>1
    <3>2. QED
      BY <1>3, <1>4, <2>1, <3>1 DEF Configured, IsLink
  <2>2. CASE input.config # <<>>
    <3>1. tree' = With(tree, Config, input.config[1])
            \/ tree' = With(With(tree, DotCargo, Directory), Config, input.config[1])
      BY <1>1, <1>6, <2>2 DEF Write
    <3>2. CASE tree' = With(tree, Config, input.config[1])
      <4>1. /\ DOMAIN tree' = DOMAIN tree \union {Config} /\ tree'[Config] = input.config[1]
            /\ \A p \in DOMAIN tree \ {Config} : tree'[p] = tree[p]
        BY <3>2 DEF With
      <4>2. ~IsLink(DotCargo)'
        BY <1>4, <1>5, <4>1 DEF IsLink
      <4>3. input.config = <<tree'[Config]>>
        BY <2>2, <4>1, Given
      <4>4. QED
        BY <1>3, <1>4, <4>1, <4>2, <4>3 DEF Configured
    <3>3. CASE tree' = With(With(tree, DotCargo, Directory), Config, input.config[1])
      <4>1. /\ DOMAIN tree' = DOMAIN tree \union {DotCargo, Config} /\ tree'[Config] = input.config[1]
            /\ tree'[DotCargo] = Directory
        BY <1>5, <3>3 DEF With
      <4>2. ~IsLink(DotCargo)'
        BY <4>1 DEF IsLink, Directory
      <4>3. input.config = <<tree'[Config]>>
        BY <2>2, <4>1, Given
      <4>4. QED
        BY <1>3, <1>4, <1>5, <4>1, <4>2, <4>3 DEF Configured
    <3>4. QED
      BY <3>1, <3>2, <3>3
  <2>3. QED
    BY <2>1, <2>2
<1>8. ConfigInv'
  BY <1>3, <1>7 DEF ConfigInv, StepIs
<1>9. QED
  BY <1>1, <1>2, <1>8, NotWritten, RootUnchanged DEF SettingsInv

LEMMA AppendToOne ==
  ASSUME NEW S, NEW a \in S, NEW b \in S
  PROVE  Append(<<a>>, b) = <<a, b>>
<1>1. ASSUME NEW one \in Seq(S)
      PROVE  /\ Append(one, b) \in Seq(S)
             /\ Len(one) \in Nat /\ Len(Append(one, b)) = Len(one) + 1 /\ Append(one, b)[Len(one) + 1] = b
             /\ \A i \in 1..Len(one) : Append(one, b)[i] = one[i]
  BY AppendProperties, LenProperties
<1>2. ASSUME NEW one \in Seq(S), one = <<a>>, NEW s \in Seq(S), s = Append(one, b), NEW two \in Seq(S), two = <<a, b>>
      PROVE  s = two
  <2>1. Len(one) = 1 /\ one[1] = a /\ Len(two) = 2 /\ two[1] = a /\ two[2] = b
    BY <1>2
  <2>2. /\ Len(s) = Len(one) + 1 /\ s[Len(one) + 1] = b /\ Len(one) \in Nat
        /\ \A i \in 1..Len(one) : s[i] = one[i]
    BY <1>1, <1>2
  <2>3. Len(s) = 2 /\ s[1] = a /\ s[2] = b
    BY ONLY <2>1, <2>2
  <2>4. \A i \in 1..2 : s[i] = two[i]
    BY ONLY <2>1, <2>3
  <2>5. QED
    BY ONLY s \in Seq(S), two \in Seq(S), <2>1, <2>3, <2>4, SeqEqual
<1>3. <<a>> \in Seq(S) /\ <<a, b>> \in Seq(S)
  OBVIOUS
<1>4. Append(<<a>>, b) \in Seq(S)
  BY <1>1, <1>3
<1>5. QED
  BY <1>2, <1>3, <1>4

\* A member is linked into a directory that is neither .cargo nor a config.
LEMMA LinkMemberSettings ==
  ASSUME IInv, SettingsInv, LinkMember, user' = user
  PROVE  SettingsInv'
<1>1. CASE Fail
  BY <1>1, Stopped DEF Fail
<1>2. CASE ~Fail
  <2> DEFINE name == Manifest(Dir).package
             links == Links(Dir, <<name>>)
  <2>1. /\ StepIs({"member"}) /\ Passed
        /\ root' = [root EXCEPT !.members = @ \union {name}] /\ tree' = Linked(Dir, <<name>>)
    BY <1>2 DEF LinkMember, At, StepIs
  <2>2. /\ StepIs(Names \ ({"kind", "write"} \union Finishing)) /\ StepIs(Names \ {"kind", "publish"})
        /\ StepIs(Later \ {"publish"}) /\ StepIs(Names \ {"kind"})
        /\ Head(todo)[1] = "member"
    BY <2>1 DEF StepIs, Names, Later, Finishing
  <2>3. Dir \in Listed /\ Toml(Dir) \in DOMAIN user
    <3>1. /\ todo \in Todos /\ todo # <<>> /\ About(todo, Listed)
      BY <2>1 DEF IInv, TodoInv, StepIs
    <3>2. Head(todo) = todo[1] /\ 1 \in 1..Len(todo)
      BY <3>1, HeadTailProperties, LenProperties, EmptySeq DEF Todos
    <3>3. Dir \in Listed
      BY <2>2, <3>1, <3>2 DEF About, Dir
    <3>4. QED
      BY <2>2, <3>3 DEF SettingsInv, RootInv
  <2>4. <<name>> # DotCargo
    BY <2>3, Given DEF IsManifest
  <2>5. IsRoot(root) /\ IsRoot(root') /\ (HasTable(root) => HasTable(root')) /\ root'.patches = root.patches
    <3>1. IsRoot(root)
      BY <2>2 DEF SettingsInv, RootInv
    <3>2. DOMAIN root = ManifestFields
      BY <3>1 DEF IsRoot
    <3>3. /\ DOMAIN root' = ManifestFields /\ root'.type = root.type /\ root'.bazel = root.bazel
          /\ root'.patches = root.patches
      BY <2>1, <3>2 DEF ManifestFields
    <3>4. QED
      BY <3>1, <3>3 DEF IsRoot, HasTable
  <2>6. RootInv'
    <3>1. \A dir : Head(todo) # <<"patches", dir>>
      BY <2>2
    <3>2. \A dir \in Sources : PatchesIn(dir, root) => PatchesIn(dir, root')
      BY <2>5 DEF PatchesIn
    <3>3. QED
      BY <2>1, <2>2, <2>5, <3>1, <3>2, RootPassed DEF SettingsInv
  <2>7. /\ DOMAIN tree' = DOMAIN links \union DOMAIN tree \union ({<<name>>} \ {<<>>})
        /\ \A p \in DOMAIN tree' : tree'[p] = IF p \in DOMAIN links THEN links[p]
                                              ELSE IF p \in DOMAIN tree THEN tree[p] ELSE Directory
    BY <2>1 DEF Linked
  <2>8. ASSUME NEW p \in ConfigNames \union {DotCargo}
        PROVE  p \notin DOMAIN links
    <3> SUFFICES ASSUME p \in DOMAIN links PROVE FALSE
      OBVIOUS
    <3>1. PICK entry \in Entries(Dir) : p = Append(<<name>>, entry)
      BY DEF Links
    <3>2. p = <<name, entry>>
      BY <3>1, name \in {name, entry}, entry \in {name, entry}, AppendToOne
    <3>3. name # ".cargo"
      BY <2>4 DEF DotCargo
    <3>4. QED
      BY <3>2, <3>3 DEF ConfigNames, Config, DotCargo
  <2>9. ConfigInv'
    <3>1. \A p \in ConfigNames \union {DotCargo} : p \in DOMAIN tree => p \in DOMAIN tree' /\ tree'[p] = tree[p]
      BY <2>7, <2>8
    <3>2. \A p \in ConfigNames \union {DotCargo} : p \in DOMAIN tree' \ DOMAIN tree => tree'[p] = Directory
      BY <2>7, <2>8
    <3>3. QED
      BY <2>1, <2>2, <3>1, <3>2, ConfigPassed DEF SettingsInv
  <2>10. QED
    BY <2>1, <2>2, <2>6, <2>9, NotWritten DEF SettingsInv
<1>3. QED
  BY <1>1, <1>2

\* A step that changes the root manifest alone, before it is written.
LEMMA InMemory ==
  ASSUME IInv, SettingsInv, StepIs({"patches", "metadata", "direct"}), Passed, user' = user, tree' = tree,
         IsRoot(root) => IsRoot(root'),
         IsRoot(root) /\ (Head(todo)[1] = "metadata" \/ HasTable(root)) => HasTable(root'),
         \A dir \in Sources :
           IsRoot(root) /\ (Head(todo) = <<"patches", dir>> \/ PatchesIn(dir, root)) => PatchesIn(dir, root')
  PROVE  SettingsInv'
<1>1. /\ StepIs(Names \ ({"kind", "write"} \union Finishing)) /\ StepIs(Names \ {"kind", "publish"})
      /\ StepIs(Later \ {"publish"}) /\ StepIs(Names \ {"kind"})
  BY DEF StepIs, Names, Later, Finishing
<1>2. IsRoot(root)
  BY <1>1 DEF SettingsInv, RootInv
<1>3. RootInv'
  BY <1>1, <1>2, RootPassed DEF SettingsInv
<1>4. ConfigInv'
  BY <1>1, ConfigPassed DEF SettingsInv
<1>5. QED
  BY <1>1, <1>3, <1>4, NotWritten DEF SettingsInv

\* Patches are added, and those that were there are kept.
LEMMA MergePatchesSettings ==
  ASSUME IInv, SettingsInv, MergePatches, user' = user
  PROVE  SettingsInv'
<1>1. CASE Fail
  BY <1>1, Stopped DEF Fail
<1>2. CASE ~Fail
  <2> DEFINE patches == Manifest(Dir).patches
  <2>1. /\ StepIs({"patches"}) /\ Passed /\ tree' = tree
        /\ \A key \in DOMAIN patches \intersect DOMAIN root.patches : patches[key] = root.patches[key]
        /\ root' = [root EXCEPT !.patches =
             [key \in DOMAIN patches \union DOMAIN @ |-> IF key \in DOMAIN patches THEN patches[key] ELSE @[key]]]
    BY <1>2 DEF MergePatches, At, StepIs
  <2>2. StepIs({"patches", "metadata", "direct"}) /\ Head(todo)[1] = "patches"
    BY <2>1 DEF StepIs
  <2>3. ASSUME IsRoot(root)
        PROVE  /\ IsRoot(root') /\ root'.bazel = root.bazel
               /\ root'.patches = [key \in DOMAIN patches \union DOMAIN root.patches |->
                    IF key \in DOMAIN patches THEN patches[key] ELSE root.patches[key]]
    <3>1. DOMAIN root = ManifestFields
      BY <2>3 DEF IsRoot
    <3> HIDE DEF patches
    <3>2. /\ DOMAIN root' = ManifestFields /\ root'.type = root.type /\ root'.bazel = root.bazel
          /\ root'.patches = [key \in DOMAIN patches \union DOMAIN root.patches |->
               IF key \in DOMAIN patches THEN patches[key] ELSE root.patches[key]]
      BY <2>1, <3>1 DEF ManifestFields
    <3>3. QED
      BY <2>3, <3>2 DEF IsRoot
  <2>4. ASSUME IsRoot(root), NEW dir \in Sources, Head(todo) = <<"patches", dir>>
        PROVE  PatchesIn(dir, root')
    <3>1. Dir = dir
      BY <2>4 DEF Dir
    <3>2. QED
      BY <2>3, <2>4, <3>1 DEF PatchesIn
  <2>5. ASSUME IsRoot(root), NEW dir \in Sources, PatchesIn(dir, root)
        PROVE  PatchesIn(dir, root')
    <3> HIDE DEF patches
    <3>1. QED
      BY <2>1, <2>3, <2>5 DEF PatchesIn
  <2>6. IsRoot(root) /\ HasTable(root) => HasTable(root')
    BY <2>3 DEF HasTable
  <2>7. QED
    BY <2>1, <2>2, <2>3, <2>4, <2>5, <2>6, InMemory
<1>3. QED
  BY <1>1, <1>2

LEMMA AddMetadataSettings ==
  ASSUME IInv, SettingsInv, AddMetadata, user' = user
  PROVE  SettingsInv'
<1>1. CASE Fail
  BY <1>1, Stopped DEF Fail
<1>2. CASE ~Fail
  <2> DEFINE table == <<[prefixes |-> PackagePrefixes, sources |-> {}]>>
  <2>1. /\ StepIs({"metadata"}) /\ Passed /\ tree' = tree
        /\ root' = [root EXCEPT !.metadata = "table", !.bazel = table]
    BY <1>2 DEF AddMetadata, At, StepIs
  <2>2. StepIs({"patches", "metadata", "direct"}) /\ Head(todo)[1] = "metadata"
    BY <2>1 DEF StepIs
  <2>3. 1 \in DOMAIN table /\ "sources" \in DOMAIN table[1]
    OBVIOUS
  <2> HIDE DEF table
  <2>4. ASSUME IsRoot(root)
        PROVE  IsRoot(root') /\ root'.bazel = table /\ root'.patches = root.patches
    <3>1. DOMAIN root = ManifestFields
      BY <2>4 DEF IsRoot
    <3>2. /\ DOMAIN root' = ManifestFields /\ root'.type = root.type /\ root'.bazel = table
          /\ root'.patches = root.patches
      BY <2>1, <3>1 DEF ManifestFields
    <3>3. QED
      BY <2>4, <3>2 DEF IsRoot
  <2>5. ASSUME IsRoot(root), NEW dir \in Sources, Head(todo) = <<"patches", dir>> \/ PatchesIn(dir, root)
        PROVE  PatchesIn(dir, root')
    <3>1. Head(todo) # <<"patches", dir>>
      BY <2>2
    <3>2. QED
      BY <2>4, <2>5, <3>1 DEF PatchesIn
  <2>6. IsRoot(root) => HasTable(root')
    BY <2>3, <2>4 DEF HasTable
  <2>7. QED
    BY <2>1, <2>2, <2>4, <2>5, <2>6, InMemory
<1>3. QED
  BY <1>1, <1>2

LEMMA AddDirectSettings ==
  ASSUME IInv, SettingsInv, AddDirect, user' = user
  PROVE  SettingsInv'
<1>1. CASE Fail
  BY <1>1, Stopped DEF Fail
<1>2. CASE ~Fail
  <2>1. /\ StepIs({"direct"}) /\ Passed /\ tree' = tree
        /\ root' = root \/ root' = [PackageFor(root) EXCEPT !.deps = @ \union input.direct]
    BY <1>2 DEF AddDirect, At, StepIs
  <2>2. StepIs({"patches", "metadata", "direct"}) /\ Head(todo)[1] = "direct"
    BY <2>1 DEF StepIs
  <2>3. ASSUME IsRoot(root)
        PROVE  IsRoot(root') /\ root'.bazel = root.bazel /\ root'.patches = root.patches
    <3>1. DOMAIN root = ManifestFields
      BY <2>3 DEF IsRoot
    <3>2. /\ DOMAIN root' = ManifestFields /\ root'.type = root.type /\ root'.bazel = root.bazel
          /\ root'.patches = root.patches
      BY <2>1, <3>1 DEF ManifestFields, PackageFor
    <3>3. QED
      BY <2>3, <3>2 DEF IsRoot
  <2>4. ASSUME IsRoot(root), NEW dir \in Sources, Head(todo) = <<"patches", dir>> \/ PatchesIn(dir, root)
        PROVE  PatchesIn(dir, root')
    <3>1. Head(todo) # <<"patches", dir>>
      BY <2>2
    <3>2. QED
      BY <2>3, <2>4, <3>1 DEF PatchesIn
  <2>5. IsRoot(root) /\ (Head(todo)[1] = "metadata" \/ HasTable(root)) => HasTable(root')
    BY <2>2, <2>3 DEF HasTable
  <2>6. QED
    BY <2>1, <2>2, <2>3, <2>4, <2>5, InMemory
<1>3. QED
  BY <1>1, <1>2

\* A file at a path where neither a config nor .cargo is.
LEMMA FileWritten ==
  ASSUME IInv, SettingsInv, StepIs(Later \ {"publish"}), Passed,
         NEW p, NEW content, p \notin ConfigNames, p # DotCargo, tree' = With(tree, p, content)
  PROVE  ConfigInv'
<1>1. \A q \in ConfigNames \union {DotCargo} : q \in DOMAIN tree => q \in DOMAIN tree' /\ tree'[q] = tree[q]
  BY DEF With
<1>2. \A q \in ConfigNames \union {DotCargo} : q \in DOMAIN tree' \ DOMAIN tree => tree'[q] = Directory
  BY DEF With
<1>3. QED
  BY <1>1, <1>2, ConfigPassed DEF SettingsInv

\* The root manifest has everything when it is written.
LEMMA WriteRootSettings ==
  ASSUME IInv, SettingsInv, WriteRoot, user' = user
  PROVE  SettingsInv'
<1>1. StepIs({"write"}) /\ Passed /\ root' = root /\ tree' = With(tree, RootToml, root)
  BY DEF WriteRoot, At, StepIs
<1>2. /\ StepIs(Names \ {"kind", "publish"}) /\ StepIs(Names \ {"kind", "publish", "metadata", "patches"})
      /\ StepIs(Later \ {"publish"}) /\ StepIs(Names \ {"kind"}) /\ Head(todo)[1] = "write"
  BY <1>1 DEF StepIs, Names, Later, Finishing
<1>3. status' = "running" /\ input' = input /\ Follows(Head(todo)[1], Head(todo')[1])
  BY <1>1, <1>2, Passing
<1>4. \A i \in 1..Len(todo) : todo[i][1] \notin {"metadata", "patches"}
  <2>1. todo \in Todos /\ todo # <<>> /\ WritesLast(todo)
    BY <1>1 DEF IInv, TodoInv, StepIs
  <2>2. todo[1] = Head(todo) /\ 1 \in 1..Len(todo) /\ Len(todo) \in Nat
    BY <2>1, HeadTailProperties, LenProperties, EmptySeq DEF Todos
  <2>3. \A i \in 1..Len(todo) : 1 < i => todo[i][1] \in Finishing
    BY <1>2, <2>1, <2>2 DEF WritesLast
  <2>4. \A i \in 1..Len(todo) : i = 1 \/ 1 < i
    BY <2>2
  <2>5. QED
    BY <1>2, <2>2, <2>3, <2>4 DEF Finishing
<1>5. IsRoot(root) /\ HasTable(root) /\ \A dir \in Sources : PatchesIn(dir, root)
  <2>1. /\ IsRoot(root)
        /\ (\E i \in 1..Len(todo) : todo[i][1] = "metadata") \/ HasTable(root)
        /\ \A dir \in Sources :
             (\E i \in 1..Len(todo) : todo[i] = <<"patches", dir>>) \/ PatchesIn(dir, root)
    BY <1>2 DEF SettingsInv, RootInv
  <2>2. ASSUME NEW dir \in Sources, NEW i \in 1..Len(todo), todo[i] = <<"patches", dir>>
        PROVE  FALSE
    BY <1>4, <2>2
  <2>3. QED
    BY <1>4, <2>1, <2>2
<1>6. FileInv'
  <2>1. RootToml \in DOMAIN tree' /\ tree'[RootToml] = root
    BY <1>1 DEF With
  <2>2. \A dir \in Sources' : PatchesIn(dir, tree[RootToml])'
    BY <1>3, <1>5, <2>1, Frozen DEF PatchesIn
  <2>3. IsRoot(tree'[RootToml]) /\ HasTable(tree'[RootToml])
    BY <1>5, <2>1
  <2>4. IsRoot(tree[RootToml])' /\ HasTable(tree[RootToml])'
    BY <2>3 DEF IsRoot, HasTable
  <2>5. QED
    BY <2>1, <2>2, <2>4 DEF FileInv
<1>7. SourcesInv'
  BY <1>2, <1>3, NextStep DEF SourcesInv, Past, StepIs
<1>8. ConfigInv' /\ RootInv'
  BY <1>1, <1>2, DistinctPaths, FileWritten, RootUnchanged DEF SettingsInv
<1>9. QED
  BY <1>6, <1>7, <1>8 DEF SettingsInv

LEMMA RelockSettings ==
  ASSUME IInv, SettingsInv, Relock, user' = user
  PROVE  SettingsInv'
<1>1. /\ StepIs({"lock"}) /\ Passed /\ root' = root
      /\ tree' = tree \/ tree' = With(tree, RootLock, [type |-> "lock", packages |-> input.packages])
  BY DEF Relock, At, StepIs
<1>2. /\ StepIs(Names \ {"kind", "publish"}) /\ StepIs(Names \ {"kind", "publish", "metadata", "patches"})
      /\ StepIs(Later \ {"publish"}) /\ Past(Finishing) /\ Head(todo)[1] = "lock"
  BY <1>1 DEF StepIs, Past, Names, Later, Finishing
<1>3. status' = "running" /\ input' = input /\ Follows(Head(todo)[1], Head(todo')[1])
  BY <1>1, <1>2, Passing
<1>4. /\ RootToml \in DOMAIN tree /\ IsRoot(tree[RootToml]) /\ HasTable(tree[RootToml])
      /\ \A dir \in Sources : PatchesIn(dir, tree[RootToml])
  BY <1>2 DEF SettingsInv, FileInv
<1>5. RootToml \in DOMAIN tree' /\ tree'[RootToml] = tree[RootToml]
  BY <1>1, <1>4, DistinctPaths DEF With
<1>6. FileInv'
  <2>1. \A dir \in Sources' : PatchesIn(dir, tree[RootToml])'
    BY <1>3, <1>4, <1>5, Frozen DEF PatchesIn
  <2>2. IsRoot(tree[RootToml])' /\ HasTable(tree[RootToml])'
    BY <1>4, <1>5 DEF IsRoot, HasTable
  <2>3. QED
    BY <1>5, <2>1, <2>2 DEF FileInv
<1>7. SourcesInv'
  BY <1>2, <1>3, NextStep DEF SourcesInv, Past, StepIs
<1>8. ConfigInv'
  <2>1. CASE tree' = tree
    BY <1>1, <1>2, <2>1, ConfigPassed DEF SettingsInv
  <2>2. CASE tree' = With(tree, RootLock, [type |-> "lock", packages |-> input.packages])
    BY <1>1, <1>2, <2>2, DistinctPaths, FileWritten
  <2>3. QED
    BY <1>1, <2>1, <2>2
<1>9. RootInv'
  BY <1>1, <1>2, RootUnchanged DEF SettingsInv
<1>10. QED
  BY <1>6, <1>7, <1>8, <1>9 DEF SettingsInv

\* The config that was given is the one that is read.
LEMMA ConfigIsRead ==
  ASSUME IInv, Configured
  PROVE  /\ input.config = <<>> => ~IsFile(Config)
         /\ input.config # <<>> => IsFile(Config) /\ Read(Config) = input.config[1] /\ input.config = <<Read(Config)>>
<1>1. Config \in ConfigNames /\ Front(Config) = DotCargo /\ ~IsLink(DotCargo)
  BY DotCargoPath DEF ConfigNames, Configured
<1>2. CASE input.config = <<>>
  <2>1. Config \in DOMAIN tree => tree[Config] = Directory
    BY <1>1, <1>2 DEF Configured
  <2>2. ~IsLink(Config)
    BY <2>1 DEF IsLink, Directory
  <2>3. Leads(Config) = <<>>
    BY <1>1, <2>2 DEF Leads
  <2>4. QED
    BY <1>2, <2>1, <2>3 DEF IsFile
<1>3. CASE input.config # <<>>
  <2>1. Config \in DOMAIN tree /\ input.config = <<tree[Config]>>
    BY <1>3 DEF Configured
  <2>2. tree[Config] = input.config[1] /\ tree[Config].type = "config"
    BY <1>3, <2>1, Given
  <2>3. ~IsLink(Config) /\ tree[Config] # Directory
    BY <2>2 DEF IsLink, Directory
  <2>4. Leads(Config) = <<>>
    BY <1>1, <2>3 DEF Leads
  <2>5. IsFile(Config) /\ Read(Config) = tree[Config]
    BY <2>1, <2>3, <2>4 DEF IsFile, Read
  <2>6. QED
    BY <1>3, <2>1, <2>2, <2>5
<1>4. QED
  BY <1>2, <1>3

\* The root manifest is a file of the spliced workspace.
LEMMA RootIsRead ==
  ASSUME RootToml \in DOMAIN tree, IsRoot(tree[RootToml])
  PROVE  Read(RootToml) = tree[RootToml]
<1>1. ~IsLink(RootToml) /\ ~(Len(RootToml) > 1)
  BY DistinctPaths DEF IsRoot, IsLink
<1>2. Leads(RootToml) = <<>>
  BY <1>1 DEF Leads
<1>3. QED
  BY <1>2 DEF Read

LEMMA WriteSourcesSettings ==
  ASSUME IInv, SettingsInv, WriteSources, user' = user
  PROVE  SettingsInv'
<1>1. CASE Fail
  BY <1>1, Stopped DEF Fail
<1>2. CASE ~Fail
  <2> DEFINE config == IF IsFile(Config) THEN <<Read(Config)>> ELSE <<>>
             found == SourceInfos(input.config, lock[1])
             old == tree[RootToml]
             new == [old EXCEPT !.bazel[1].sources = found]
  <2>1. /\ StepIs({"sources"}) /\ Passed /\ root' = root /\ lock' = lock
        /\ Loads(config, lock[1])
        /\ tree' = With(tree, RootToml, [Read(RootToml) EXCEPT !.bazel[1].sources = SourceInfos(config, lock[1])])
    BY <1>2 DEF WriteSources, At, StepIs
  <2>2. /\ StepIs(Names \ {"kind", "publish"}) /\ StepIs(Names \ {"kind", "publish", "metadata", "patches"})
        /\ StepIs(Later \ {"publish"}) /\ Past(Finishing) /\ Past(Later) /\ Head(todo)[1] = "sources"
    BY <2>1 DEF StepIs, Past, Names, Later, Finishing
  <2>3. status' = "running" /\ input' = input
    BY <2>1, <2>2, Passing
  <2>4. /\ RootToml \in DOMAIN tree /\ IsRoot(old) /\ HasTable(old)
        /\ \A dir \in Sources : PatchesIn(dir, old)
    BY <2>2 DEF SettingsInv, FileInv
  <2>5. Configured
    BY <2>2 DEF SettingsInv, ConfigInv
  <2>6. config = input.config
    BY <2>5, ConfigIsRead
  <2>7. Read(RootToml) = old
    BY <2>4, RootIsRead
  <2>8. tree' = With(tree, RootToml, new) /\ Loads(input.config, lock[1])
    BY <2>1, <2>6, <2>7
  <2>9. tree'[RootToml] = new /\ RootToml \in DOMAIN tree'
    BY <2>8 DEF With
  <2> HIDE DEF config, found
  <2>10. /\ DOMAIN new = DOMAIN old /\ new.type = old.type /\ new.patches = old.patches
         /\ DOMAIN new.bazel = DOMAIN old.bazel /\ DOMAIN new.bazel[1] = DOMAIN old.bazel[1]
         /\ new.bazel[1].sources = found
    <3> HIDE DEF old
    <3>1. DOMAIN old = ManifestFields /\ 1 \in DOMAIN old.bazel /\ "sources" \in DOMAIN old.bazel[1]
      BY <2>4 DEF IsRoot, HasTable
    <3>2. QED
      BY <3>1 DEF ManifestFields
  <2>11. IsRoot(new) /\ HasTable(new)
    BY <2>4, <2>10 DEF IsRoot, HasTable
  <2> HIDE DEF new
  <2>12. FileInv'
    <3>1. \A dir \in Sources' : PatchesIn(dir, tree[RootToml])'
      BY <2>3, <2>4, <2>9, <2>10, Frozen DEF PatchesIn
    <3>2. IsRoot(tree'[RootToml]) /\ HasTable(tree'[RootToml])
      BY <2>9, <2>11
    <3>3. IsRoot(tree[RootToml])' /\ HasTable(tree[RootToml])'
      BY <3>2 DEF IsRoot, HasTable
    <3>4. QED
      BY <2>9, <3>1, <3>3 DEF FileInv
  <2>13. SourcesInv'
    <3>1. tree'[RootToml].bazel[1].sources = found
      BY <2>9, <2>10
    <3>2. QED
      BY <2>1, <2>3, <2>8, <3>1 DEF SourcesInv, found
  <2>14. ConfigInv'
    BY <2>1, <2>2, <2>8, DistinctPaths, FileWritten
  <2>15. RootInv'
    BY <2>1, <2>2, RootUnchanged DEF SettingsInv
  <2>16. QED
    BY <2>12, <2>13, <2>14, <2>15 DEF SettingsInv
<1>3. QED
  BY <1>1, <1>2

\* Where neither the steps nor what they are about change, nothing is lost.
LEMMA SameSettings ==
  ASSUME SettingsInv, UNCHANGED <<input, user, tree, lock>>,
         Past(Finishing)' => Past(Finishing), Past({"publish"})' => Past({"publish"}), Past(Later)' => Past(Later),
         StepIs({"install"})' => StepIs({"install"}), RootInv'
  PROVE  SettingsInv'
<1>1. ConfigInv'
  BY DEF SettingsInv, ConfigInv, Configured, IsLink
<1>2. FileInv'
  BY Frozen DEF SettingsInv, FileInv, IsRoot, HasTable, PatchesIn
<1>3. SourcesInv'
  BY DEF SettingsInv, SourcesInv
<1>4. QED
  BY <1>1, <1>2, <1>3 DEF SettingsInv

LEMMA PublishSettings ==
  ASSUME IInv, SettingsInv, Publish
  PROVE  SettingsInv'
<1>1. CASE Fail
  BY <1>1, Stopped DEF Fail
<1>2. CASE ~Fail
  <2>1. StepIs({"publish"}) /\ status' = "done" /\ UNCHANGED <<input, user, tree, lock>>
    BY <1>2 DEF Publish, At, StepIs
  <2>2. Past(Finishing) /\ Past({"publish"}) /\ Past(Later)
    BY <2>1 DEF Past, StepIs, Later, Finishing
  <2>3. ~StepIs({"install"})' /\ RootInv'
    BY <2>1 DEF StepIs, RootInv
  <2>4. QED
    BY <2>1, <2>2, <2>3, SameSettings
<1>3. QED
  BY <1>1, <1>2

LEMMA StutterSettings ==
  ASSUME SettingsInv, UNCHANGED vars
  PROVE  SettingsInv'
<1>1. UNCHANGED <<input, todo, status, user, tree, root, lock>>
  BY DEF vars
<1>2. \A names : StepIs(names)' <=> StepIs(names)
  BY <1>1 DEF StepIs
<1>3. \A names : Past(names)' <=> Past(names)
  BY <1>1, <1>2 DEF Past
<1>4. RootInv'
  <2>1. \A dir \in Sources : PatchesIn(dir, root)' <=> PatchesIn(dir, root)
    BY <1>1, Frozen DEF PatchesIn
  <2>2. (IsRoot(root)' <=> IsRoot(root)) /\ (HasTable(root)' <=> HasTable(root))
    BY <1>1 DEF IsRoot, HasTable
  <2>3. StepIs(Names \ {"kind"})' <=> StepIs(Names \ {"kind"})
    BY <1>1 DEF StepIs
  <2>4. QED
    BY <1>1, <2>1, <2>2, <2>3, Frozen DEF SettingsInv, RootInv
<1>5. QED
  BY <1>1, <1>2, <1>3, <1>4, SameSettings

LEMMA NextSettings == IInv /\ SettingsInv /\ [Next]_vars => SettingsInv'
<1> SUFFICES ASSUME IInv, SettingsInv, [Next]_vars PROVE SettingsInv'
  OBVIOUS
<1>1. IInv'
  BY NextIInv
<1>2. CASE Next
  <2>1. input' = input
    BY <1>2 DEF Next, PickKind, LinkRoot, RelinkDotCargo, ClearConfigs, InstallConfig, LinkMember, MergePatches,
         AddMetadata, AddDirect, WriteRoot, Relock, WriteSources, Publish, Broken, Passed, Fail
  <2>2. user' = user
    BY <1>1, <2>1, SameFiles
  <2>3. CASE PickKind
    BY <2>3, PickKindSettings
  <2>4. CASE LinkRoot \/ RelinkDotCargo
    <3>1. CASE Fail
      BY <3>1, Stopped DEF Fail
    <3>2. CASE ~Fail
      <4>1. StepIs({"link", "relink"}) /\ Passed /\ root' = root
        BY <2>4, <3>2 DEF LinkRoot, RelinkDotCargo, At, StepIs
      <4>2. QED
        BY <2>2, <4>1, EarlySettings
    <3>3. QED
      BY <3>1, <3>2
  <2>5. CASE ClearConfigs
    BY <2>2, <2>5, ClearConfigsSettings
  <2>6. CASE InstallConfig
    BY <2>2, <2>6, InstallConfigSettings
  <2>7. CASE LinkMember
    BY <2>2, <2>7, LinkMemberSettings
  <2>8. CASE MergePatches
    BY <2>2, <2>8, MergePatchesSettings
  <2>9. CASE AddMetadata
    BY <2>2, <2>9, AddMetadataSettings
  <2>10. CASE AddDirect
    BY <2>2, <2>10, AddDirectSettings
  <2>11. CASE WriteRoot
    BY <2>2, <2>11, WriteRootSettings
  <2>12. CASE Relock
    BY <2>2, <2>12, RelockSettings
  <2>13. CASE WriteSources
    BY <2>2, <2>13, WriteSourcesSettings
  <2>14. CASE Publish
    BY <2>14, PublishSettings
  <2>15. CASE Broken
    BY <2>15, Stopped DEF Broken, Fail
  <2>16. QED
    BY <1>2, <2>3, <2>4, <2>5, <2>6, <2>7, <2>8, <2>9, <2>10, <2>11, <2>12, <2>13, <2>14, <2>15 DEF Next
<1>3. QED
  BY <1>2, StutterSettings

LEMMA InitSettings == Init => SettingsInv
<1> SUFFICES ASSUME Init PROVE SettingsInv
  OBVIOUS
<1>1. status = "running" /\ Head(todo)[1] = "kind"
  BY DEF Init
<1>2. QED
  BY <1>1 DEF SettingsInv, ConfigInv, RootInv, FileInv, SourcesInv, Past, StepIs, Later, Finishing

(***************************************************************************)
(* What the invariant says of the end.                                     *)
(***************************************************************************)
LEMMA ConfigAtEnd ==
  ASSUME IInv, SettingsInv, status = "done"
  PROVE  /\ {Read(p) : p \in {p \in ConfigNames : IsFile(p)}} = ToSet(input.config)
         /\ ~input.above
<1>1. Configured
  BY DEF SettingsInv, ConfigInv, Past
<1>2. ASSUME NEW p \in ConfigNames, p # Config
      PROVE  ~IsFile(p)
  <2>1. p \in DOMAIN tree => tree[p] = Directory
    BY <1>1, <1>2 DEF Configured
  <2>2. ~IsLink(p) /\ ~IsLink(DotCargo)
    BY <1>1, <2>1 DEF IsLink, Directory, Configured
  <2>3. Len(p) > 1 => Front(p) = DotCargo
    <3>1. ~(Len(<<"config">>) > 1) /\ ~(Len(<<"config.toml">>) > 1)
      OBVIOUS
    <3>2. CASE p = <<".cargo", "config">>
      BY <3>2, DotCargoPath
    <3>3. CASE p = <<"config">> \/ p = <<"config.toml">>
      BY <3>1, <3>3, Zenon
    <3>4. QED
      BY <1>2, <3>2, <3>3 DEF ConfigNames
  <2>4. Leads(p) = <<>>
    BY <2>2, <2>3 DEF Leads
  <2>5. QED
    BY <2>1, <2>4 DEF IsFile
<1>3. Config \in ConfigNames
  BY DEF ConfigNames
<1>4. CASE input.config = <<>>
  <2>1. ~IsFile(Config)
    BY <1>1, <1>4, ConfigIsRead
  <2>2. ToSet(input.config) = {}
    BY <1>4 DEF ToSet
  <2>3. QED
    BY <1>1, <1>2, <2>1, <2>2 DEF Configured
<1>5. CASE input.config # <<>>
  <2>1. IsFile(Config) /\ input.config = <<Read(Config)>>
    BY <1>1, <1>5, ConfigIsRead
  <2>2. ToSet(input.config) = {Read(Config)}
    BY <2>1 DEF ToSet
  <2>3. {p \in ConfigNames : IsFile(p)} = {Config}
    BY <1>2, <1>3, <2>1
  <2>4. QED
    BY <1>1, <2>2, <2>3 DEF Configured
<1>6. QED
  BY <1>4, <1>5

\* Each source of the lockfile is one that the config does not replace, or its
\* replacement.
LEMMA UrlsMeant ==
  ASSUME IInv, NEW p
  PROVE  LET config == Loaded(input.config[1])
             replaced == IF input.config = <<>> THEN {}
                         ELSE {n \in SourcesFromUrl(config, p.url) : config.sources[n].replace # NoReplace}
             urls == IF replaced = {} THEN {p.url}
                     ELSE UNION {IndexUrlByName(config, config.sources[n].replace) : n \in replaced}
         IN  Urls(input.config, p) \subseteq urls
<1> DEFINE config == Loaded(input.config[1])
           found == SourcesFromUrl(config, p.url)
           replaced == IF input.config = <<>> THEN {}
                       ELSE {n \in found : config.sources[n].replace # NoReplace}
           urls == IF replaced = {} THEN {p.url}
                   ELSE UNION {IndexUrlByName(config, config.sources[n].replace) : n \in replaced}
           first == CHOOSE n \in found : TRUE
<1> SUFFICES Urls(input.config, p) \subseteq urls
  OBVIOUS
<1>1. CASE input.config = <<>>
  BY <1>1 DEF Urls
<1>2. CASE input.config # <<>>
  <2>1. Urls(input.config, p) = ReplacementUrls(config, p.url)
    BY <1>2 DEF Urls
  <2>2. replaced = {n \in found : config.sources[n].replace # NoReplace}
    BY <1>2
  <2>3. \A n, m \in found : n = m
    <3>1. config.sources = input.config[1].sources
      BY DEF Loaded
    <3>2. \A a, b \in DOMAIN config.sources : config.sources[a].registry = config.sources[b].registry => a = b
      BY <1>2, <3>1, Given
    <3> HIDE DEF config
    <3>3. QED
      BY <3>2 DEF SourcesFromUrl
  <2> HIDE DEF config
  <2>4. ReplacementUrls(config, p.url) =
          IF found = {} THEN {p.url}
          ELSE IF config.sources[first].replace = NoReplace THEN {p.url}
          ELSE IndexUrlByName(config, config.sources[first].replace)
    BY DEF ReplacementUrls
  <2> HIDE DEF found
  <2>5. CASE found = {}
    BY <2>1, <2>2, <2>4, <2>5
  <2>6. CASE found # {}
    <3>1. first \in found /\ \A n \in found : n = first
      BY <2>3, <2>6
    <3> HIDE DEF first
    <3>2. CASE config.sources[first].replace = NoReplace
      <4>1. replaced = {}
        BY <2>2, <3>1, <3>2
      <4>2. QED
        BY <2>1, <2>4, <2>6, <3>2, <4>1
    <3>3. CASE config.sources[first].replace # NoReplace
      <4>1. first \in replaced
        BY <2>2, <3>1, <3>3
      <4>2. IndexUrlByName(config, config.sources[first].replace) \subseteq urls
        BY <4>1
      <4>3. QED
        BY <2>1, <2>4, <2>6, <3>3, <4>2
    <3>4. QED
      BY <3>2, <3>3
  <2>7. QED
    BY <2>5, <2>6 DEF config, found
<1>3. QED
  BY <1>1, <1>2

LEMMA SourceFound ==
  ASSUME NEW config, NEW packages, Loads(config, packages), NEW p \in RegistryPackages(packages),
         \A q \in RegistryPackages(packages) : q.url = p.url => q.kind = p.kind
  PROVE  \E source \in SourceInfos(config, packages) : source[1] = p.name /\ source[2][2] \in Urls(config, p)
<1> DEFINE indexes == IndexFor(Urls(config, p), LastKind(packages, p.url))
           index == CHOOSE i \in indexes : TRUE
<1>1. LastKind(packages, p.url) = p.kind
  <2>1. {q.kind : q \in {q \in RegistryPackages(packages) : q.url = p.url}} = {p.kind}
    OBVIOUS
  <2>2. p.kind \in {"registry", "sparse", "local"}
    BY DEF RegistryPackages, Registry
  <2>3. QED
    BY <2>1, <2>2 DEF LastKind
<1>2. indexes # {}
  BY <1>1 DEF Loads
<1>3. \A i \in indexes : i[2] \in Urls(config, p)
  BY DEF IndexFor
<1>4. index \in indexes
  BY <1>2
<1>5. <<p.name, index>> \in SourceInfos(config, packages)
  BY DEF SourceInfos
<1> HIDE DEF indexes, index
<1>6. QED
  BY <1>3, <1>4, <1>5

\* What decides how Cargo resolves is taken over: the config that was given is
\* the only one Cargo finds, no patch of a listed manifest is lost or replaced,
\* and every locked package has the place its registry, or what the config
\* replaces it with, is at (setup_cargo_config, inject_patches and
\* write_registry_urls_and_feature_map), for any workspaces, configs and
\* lockfiles.
THEOREM SettingsAreKept == Spec => []SettingsKept
<1>1. IInv /\ SettingsInv => SettingsKept
  <2> SUFFICES ASSUME IInv, SettingsInv, status = "done" PROVE SettingsKept
    BY DEF SettingsKept, ConfigReproducible, PatchesKept, SourcesKnown
  <2>1. /\ RootToml \in DOMAIN tree /\ IsRoot(tree[RootToml])
        /\ \A dir \in Sources : PatchesIn(dir, tree[RootToml])
        /\ Loads(input.config, lock[1])
        /\ tree[RootToml].bazel[1].sources = SourceInfos(input.config, lock[1])
    BY DEF SettingsInv, FileInv, SourcesInv, Past
  <2>2. Read(RootToml) = tree[RootToml]
    BY <2>1, RootIsRead
  <2>3. ConfigReproducible
    BY ConfigAtEnd DEF ConfigReproducible
  <2>4. PatchesKept
    BY <2>1, <2>2 DEF PatchesKept, PatchesIn, Sources
  <2>5. SourcesKnown
    <3> SUFFICES ASSUME NEW p \in RegistryPackages(lock[1]),
                        \A q \in RegistryPackages(lock[1]) : q.url = p.url => q.kind = p.kind
                 PROVE  LET config == Loaded(input.config[1])
                            replaced == IF input.config = <<>> THEN {}
                                        ELSE {n \in SourcesFromUrl(config, p.url) :
                                                config.sources[n].replace # NoReplace}
                            urls == IF replaced = {} THEN {p.url}
                                    ELSE UNION {IndexUrlByName(config, config.sources[n].replace) : n \in replaced}
                        IN  \E source \in SourceInfos(input.config, lock[1]) :
                              source[1] = p.name /\ source[2][2] \in urls
      BY <2>1, <2>2 DEF SourcesKnown
    <3>1. \E source \in SourceInfos(input.config, lock[1]) :
            source[1] = p.name /\ source[2][2] \in Urls(input.config, p)
      BY <2>1, SourceFound
    <3>2. QED
      BY <3>1, UrlsMeant
  <2>6. QED
    BY <2>3, <2>4, <2>5 DEF SettingsKept
<1>2. QED
  BY <1>1, InitIInv, NextIInv, InitSettings, NextSettings, PTL DEF Spec
------------------------------------------------------------------------------
(***************************************************************************)
(* The members: what is linked of the packages that were listed, from the  *)
(* step on that links it, and what the root manifest says of them.         *)
(***************************************************************************)
OneRoot == SplicerKind # "multi"

\* Every path of the spliced workspace is an entry of it or one of an entry of it, and
\* before the members only .cargo may be a directory.
Shaped(t) ==
  \A p \in DOMAIN t : p \in Paths /\ Len(p) \in 1..2 /\ (Len(p) = 2 => Front(p) \in DOMAIN t)
ShapeInv ==
  /\ Shaped(tree)
  /\ StepIs({"kind", "link", "relink", "clear"}) => \A p \in DOMAIN tree : Len(p) = 2 => Front(p) = DotCargo

\* What is linked of a root that is linked, beside .cargo, is at the path it leads to;
\* and but for the names that splicing has a use for all of it is linked.
RootLinked(t) ==
  /\ \A p \in DOMAIN t : p[1] # ".cargo" =>
       Len(p) = 1 /\ (t[p].type = "link" => t[p] = Link(Append(RootDir, p[1])))
  /\ \A name \in Entries(RootDir) \ Reserved : <<name>> \in DOMAIN t /\ t[<<name>>].type = "link"
LinkedInv ==
  /\ StepIs({"kind", "link"}) => \A p \in DOMAIN tree : p[1] = ".cargo"
  /\ StepIs({"link"}) => OneRoot /\ Dir = RootDir
  /\ OneRoot /\ Past(Names \ {"kind", "link"}) => RootLinked(tree)

RootMembers(m) ==
  IF OneRoot
  THEN m.members = Manifest(RootDir).members /\ (Manifest(RootDir).package # NoName => m.package # NoName)
  ELSE \A name \in m.members : \E dir \in Listed : Manifest(dir).package = name
MemberToml(dir) == <<Manifest(dir).package, "Cargo.toml">>
Spliced(dir, m, t) ==
  /\ Manifest(dir).package \in m.members
  /\ MemberToml(dir) \in DOMAIN t /\ t[MemberToml(dir)] = Link(Toml(dir))

\* A package that is listed is still to come, or it is linked and is a member.
Tables == Seq([prefixes : {PackagePrefixes}, sources : {{}}])
MembersInv ==
  /\ IsRoot(root) /\ root.workspace = TRUE /\ root.bazel \in Tables
  /\ Past(Names \ {"kind"}) => \A dir \in Listed : Toml(dir) \in DOMAIN user
  /\ StepIs(Names \ {"kind"}) =>
       /\ RootMembers(root)
       /\ OneRoot => \A i \in 1..Len(todo) : todo[i][1] # "member"
       /\ ~OneRoot => \A dir \in Listed :
            (\E i \in 1..Len(todo) : todo[i] = <<"member", dir>>) \/ (StepIs(Later) /\ Spliced(dir, root, tree))

WrittenInv ==
  Past(Finishing) =>
    /\ RootMembers(tree[RootToml])
    /\ ~OneRoot => \A dir \in Listed : Spliced(dir, tree[RootToml], tree)
    /\ tree[RootToml].bazel[1].prefixes = PackagePrefixes
    /\ "prefixes" \in DOMAIN tree[RootToml].bazel[1]

TrackedInv ==
  /\ status \in {"running", "done", "failed"}
  /\ tracked \subseteq {Front(p) : p \in DOMAIN user}
  /\ status = "done" /\ SplicerKind = "workspace" =>
       tracked = MembersAt(Manifest(RootDir), RootDir, LAMBDA p : p \in DOMAIN user)

SplicedInv == ShapeInv /\ LinkedInv /\ MembersInv /\ WrittenInv /\ TrackedInv

(***************************************************************************)
(* Paths of members.                                                       *)
(***************************************************************************)
LEMMA PathOfEntry ==
  ASSUME NEW dir \in Paths, NEW name \in PathNames
  PROVE  /\ Append(dir, name) \in Paths /\ Len(Append(dir, name)) = Len(dir) + 1 /\ Len(dir) \in Nat
         /\ Front(Append(dir, name)) = dir /\ Last(Append(dir, name)) = name
         /\ Append(dir, name)[Len(dir) + 1] = name
         /\ \A i \in 1..Len(dir) : Append(dir, name)[i] = dir[i]
<1> DEFINE p == Append(dir, name)
           q == SubSeq(p, 1, Len(dir))
<1>1. /\ p \in Paths /\ Len(p) = Len(dir) + 1 /\ Len(dir) \in Nat
      /\ p[Len(dir) + 1] = name /\ \A i \in 1..Len(dir) : p[i] = dir[i]
  BY AppendProperties, LenProperties DEF Paths
<1>2. Front(p) = q /\ Last(p) = name
  BY <1>1 DEF Front, Last
<1>3. q \in Paths /\ Len(q) = Len(dir) /\ \A i \in 1..Len(dir) : q[i] = p[i]
  BY <1>1, SubSeqProperties DEF Paths
<1> HIDE DEF p, q
<1>4. q = dir
  BY <1>1, <1>3, SeqEqual DEF Paths
<1>5. QED
  BY <1>1, <1>2, <1>4 DEF p

LEMMA TomlIs ==
  ASSUME NEW dir \in Paths
  PROVE  /\ Toml(dir) = Append(dir, "Cargo.toml") /\ Toml(dir) \in Paths
         /\ Front(Toml(dir)) = dir /\ Len(Toml(dir)) = Len(dir) + 1
         /\ Toml(dir)[Len(dir) + 1] = "Cargo.toml" /\ \A i \in 1..Len(dir) : Toml(dir)[i] = dir[i]
<1> DEFINE one == <<"Cargo.toml">>
           p == dir \o one
           q == Append(dir, "Cargo.toml")
<1>1. "Cargo.toml" \in PathNames
  BY DEF PathNames
<1>2. one \in Paths /\ Len(one) = 1 /\ one[1] = "Cargo.toml"
  BY <1>1, PathOfOne
<1>3. /\ q \in Paths /\ Len(q) = Len(dir) + 1 /\ Front(q) = dir /\ Len(dir) \in Nat
      /\ q[Len(dir) + 1] = "Cargo.toml" /\ \A i \in 1..Len(dir) : q[i] = dir[i]
  BY <1>1, PathOfEntry
<1> HIDE DEF one
<1>4. /\ p \in Paths /\ Len(p) = Len(dir) + 1
      /\ p[Len(dir) + 1] = "Cargo.toml" /\ \A i \in 1..Len(dir) : p[i] = dir[i]
  BY <1>2, <1>3, ConcatProperties DEF Paths
<1> HIDE DEF p, q
<1>5. p = q
  BY <1>3, <1>4, SeqEqual DEF Paths
<1>6. QED
  BY <1>3, <1>5 DEF p, q, Toml, one

LEMMA MemberPath ==
  ASSUME NEW name \in PathNames
  PROVE  /\ <<name>> \in Paths /\ Len(<<name>>) = 1 /\ <<name>>[1] = name /\ Append(<<>>, name) = <<name>>
         /\ Toml(<<name>>) = <<name, "Cargo.toml">>
         /\ <<name, "Cargo.toml">> \in Paths /\ Len(<<name, "Cargo.toml">>) = 2
         /\ Front(<<name, "Cargo.toml">>) = <<name>> /\ Last(<<name, "Cargo.toml">>) = "Cargo.toml"
         /\ <<name, "Cargo.toml">>[1] = name
<1>1. "Cargo.toml" \in PathNames /\ <<>> \in Paths /\ Len(<<>>) = 0
  BY EmptySeq DEF PathNames, Paths
<1>2. <<name>> \in Paths /\ Len(<<name>>) = 1 /\ <<name>>[1] = name
  BY PathOfOne
<1>3. Append(<<name>>, "Cargo.toml") = <<name, "Cargo.toml">>
  <2>1. name \in PathNames /\ "Cargo.toml" \in PathNames
    BY <1>1
  <2> HIDE DEF PathNames
  <2>2. QED
    BY ONLY <2>1, AppendToOne
<1>4. Toml(<<name>>) = Append(<<name>>, "Cargo.toml") /\ Len(Toml(<<name>>)) = 2 /\ Toml(<<name>>) \in Paths
  <2> DEFINE one == <<name>>
  <2>1. one \in Paths /\ Len(one) = 1
    BY <1>2
  <2> HIDE DEF one
  <2>2. Toml(one) = Append(one, "Cargo.toml") /\ Len(Toml(one)) = 1 + 1 /\ Toml(one) \in Paths
    BY <2>1, TomlIs
  <2>3. QED
    BY <2>2 DEF one
<1>5. /\ Front(Append(<<name>>, "Cargo.toml")) = <<name>> /\ Last(Append(<<name>>, "Cargo.toml")) = "Cargo.toml"
      /\ Append(<<name>>, "Cargo.toml")[1] = name
  BY <1>1, <1>2, PathOfEntry
<1>6. Append(<<>>, name) = <<name>>
  <2> DEFINE p == Append(<<>>, name)
             q == <<name>>
  <2> DEFINE none == <<>>
             r == Append(none, name)
  <2>0. none \in Paths /\ Len(none) = 0
    BY <1>1
  <2> HIDE DEF none
  <2>1. r \in Paths /\ Len(r) = 0 + 1 /\ r[0 + 1] = name
    BY <2>0, PathOfEntry
  <2>5. p \in Paths /\ Len(p) = 1 /\ p[1] = name
    BY <2>1 DEF none
  <2>2. q \in Paths /\ Len(q) = 1 /\ q[1] = name
    BY <1>2
  <2> HIDE DEF p, q
  <2>3. p = q
    BY <2>5, <2>2, SeqEqual DEF Paths
  <2>4. QED
    BY <2>3 DEF p, q
<1>7. QED
  BY <1>2, <1>3, <1>4, <1>5, <1>6

\* What a directory has is linked by its name.
LEMMA EntryOfPath ==
  ASSUME DOMAIN user \subseteq Paths, NEW dir \in Paths
  PROVE  /\ Entries(dir) \subseteq PathNames
         /\ \A p \in Paths, name \in PathNames :
              p \in DOMAIN user /\ p = Append(dir, name) => name \in Entries(dir)
         /\ \A p \in Paths, name \in PathNames, next \in PathNames :
              p \in DOMAIN user /\ p = Append(Append(dir, name), next) => name \in Entries(dir)
<1>1. ASSUME NEW file \in DOMAIN user, IsStrictPrefix(dir, file)
      PROVE  file[Len(dir) + 1] \in PathNames
  <2>1. /\ file \in Paths /\ Len(dir) \in Nat /\ Len(file) \in Nat
        /\ Len(dir) <= Len(file) /\ dir # file /\ SubSeq(dir, 1, Len(dir)) = SubSeq(file, 1, Len(dir))
    BY <1>1, LenProperties DEF Paths, IsStrictPrefix, IsPrefix
  <2>2. \A i \in 1..Len(dir) : dir[i] = file[i]
    BY <2>1, SubSeqProperties DEF Paths
  <2>3. Len(dir) < Len(file)
    BY <2>1, <2>2, SeqEqual DEF Paths
  <2>4. QED
    BY <2>1, <2>3, ElementOfSeq DEF Paths
<1>2. ASSUME NEW p \in Paths, p \in DOMAIN user, Len(p) > Len(dir), \A i \in 1..Len(dir) : p[i] = dir[i]
      PROVE  p[Len(dir) + 1] \in Entries(dir)
  <2>1. Len(dir) \in Nat /\ Len(p) \in Nat /\ dir # p /\ Len(dir) <= Len(p)
    BY <1>2, LenProperties DEF Paths
  <2>2. SubSeq(dir, 1, Len(dir)) = SubSeq(p, 1, Len(dir))
    BY <1>2, <2>1
  <2>3. IsStrictPrefix(dir, p)
    BY <2>1, <2>2 DEF IsStrictPrefix, IsPrefix
  <2>4. QED
    BY <1>2, <2>3 DEF Entries
<1>3. ASSUME NEW p \in Paths, NEW name \in PathNames, p \in DOMAIN user, p = Append(dir, name)
      PROVE  name \in Entries(dir)
  <2>1. /\ Len(p) = Len(dir) + 1 /\ Len(dir) \in Nat /\ p[Len(dir) + 1] = name
        /\ \A i \in 1..Len(dir) : p[i] = dir[i]
    BY <1>3, PathOfEntry
  <2>2. Len(p) > Len(dir)
    BY <2>1
  <2>3. p[Len(dir) + 1] \in Entries(dir)
    BY <1>2, <1>3, <2>1, <2>2
  <2>4. QED
    BY <2>1, <2>3
<1>4. ASSUME NEW p \in Paths, NEW name \in PathNames, NEW next \in PathNames, p \in DOMAIN user,
             p = Append(Append(dir, name), next)
      PROVE  name \in Entries(dir)
  <2> DEFINE q == Append(dir, name)
  <2>1. /\ q \in Paths /\ Len(q) = Len(dir) + 1 /\ Len(dir) \in Nat /\ q[Len(dir) + 1] = name
        /\ \A i \in 1..Len(dir) : q[i] = dir[i]
    BY PathOfEntry
  <2>2. Len(p) = Len(q) + 1 /\ \A i \in 1..Len(q) : p[i] = q[i]
    BY <1>4, <2>1, PathOfEntry
  <2> HIDE DEF q
  <2>3. Len(p) > Len(dir) /\ p[Len(dir) + 1] = name /\ \A i \in 1..Len(dir) : p[i] = dir[i]
    BY <2>1, <2>2
  <2>4. QED
    BY <1>2, <1>4, <2>3
<1>5. QED
  BY <1>1, <1>3, <1>4 DEF Entries

(***************************************************************************)
(* What the parts of the invariant depend on.                              *)
(***************************************************************************)
LEMMA FrozenMembers ==
  ASSUME user' = user, input' = input
  PROVE  /\ (OneRoot' <=> OneRoot) /\ RootDir' = RootDir /\ Tables' = Tables
         /\ PackagePrefixes' = PackagePrefixes
         /\ \A dir : MemberToml(dir)' = MemberToml(dir) /\ Entries(dir)' = Entries(dir)
<1>1. /\ SplicerKind' = SplicerKind /\ Listed' = Listed
      /\ \A dir : Manifest(dir)' = Manifest(dir)
  BY Frozen
<1>2. Roots' = Roots
  <2>1. \A dir : ParentWorkspace(dir)' = ParentWorkspace(dir)
    BY DEF ParentWorkspace, WorkspaceAbove
  <2>2. QED
    BY <1>1, <2>1 DEF Roots
<1>3. RootDir' = RootDir
  BY <1>1, <1>2 DEF RootDir
<1>4. PackagePrefixes' = PackagePrefixes
  BY <1>1, <1>3 DEF PackagePrefixes
<1>5. \A dir : MemberToml(dir)' = MemberToml(dir) /\ Entries(dir)' = Entries(dir)
  BY <1>1 DEF MemberToml, Entries
<1>6. QED
  BY <1>1, <1>3, <1>4, <1>5 DEF OneRoot, Tables

\* The parts say the same of a later tree and manifest, then and now.
LEMMA FrozenParts ==
  ASSUME user' = user, input' = input
  PROVE  /\ RootLinked(tree)' <=> RootLinked(tree')
         /\ RootMembers(root)' <=> RootMembers(root')
         /\ RootMembers(tree[RootToml])' <=> RootMembers(tree'[RootToml])
         /\ Shaped(tree)' <=> Shaped(tree')
         /\ \A dir : Spliced(dir, root, tree)' <=> Spliced(dir, root', tree')
         /\ \A dir : Spliced(dir, tree[RootToml], tree)' <=> Spliced(dir, tree'[RootToml], tree')
<1>1. /\ (OneRoot' <=> OneRoot) /\ RootDir' = RootDir
      /\ \A dir : MemberToml(dir)' = MemberToml(dir) /\ Entries(dir)' = Entries(dir)
  BY FrozenMembers
<1>2. Listed' = Listed /\ \A dir : Manifest(dir)' = Manifest(dir)
  BY Frozen
<1>3. RootLinked(tree)' <=> RootLinked(tree')
  BY <1>1 DEF RootLinked, Link
<1>4. /\ RootMembers(root)' <=> RootMembers(root')
      /\ RootMembers(tree[RootToml])' <=> RootMembers(tree'[RootToml])
  BY <1>1, <1>2 DEF RootMembers
<1>5. Shaped(tree)' <=> Shaped(tree')
  BY DEF Shaped
<1>6. /\ \A dir : Spliced(dir, root, tree)' <=> Spliced(dir, root', tree')
      /\ \A dir : Spliced(dir, tree[RootToml], tree)' <=> Spliced(dir, tree'[RootToml], tree')
  BY <1>1, <1>2 DEF Spliced, Link
<1>7. QED
  BY <1>3, <1>4, <1>5, <1>6

LEMMA StoppedMembers ==
  ASSUME SplicedInv, status' = "failed", UNCHANGED <<input, user, root, tracked>>, Shaped(tree')
  PROVE  SplicedInv'
<1>1. ShapeInv' /\ LinkedInv' /\ WrittenInv'
  BY FrozenParts DEF ShapeInv, LinkedInv, WrittenInv, Past, StepIs
<1>2. MembersInv'
  BY FrozenMembers DEF SplicedInv, MembersInv, IsRoot, Past, StepIs
<1>3. TrackedInv'
  BY DEF SplicedInv, TrackedInv
<1>4. QED
  BY <1>1, <1>2, <1>3 DEF SplicedInv

LEMMA FailedMembers ==
  ASSUME SplicedInv, Fail
  PROVE  SplicedInv'
<1>1. status' = "failed" /\ UNCHANGED <<input, user, root, tracked>> /\ tree' = tree
  BY DEF Fail
<1>2. Shaped(tree')
  BY <1>1 DEF SplicedInv, ShapeInv, Shaped
<1>3. QED
  BY <1>1, <1>2, StoppedMembers

LEMMA TrackedRunning ==
  ASSUME TrackedInv, status' = "running", user' = user, tracked' = tracked
  PROVE  TrackedInv'
BY DEF TrackedInv

LEMMA ShapePassed ==
  ASSUME IInv, StepIs((Later \ {"publish"}) \union {"install", "clear"}), Passed, Shaped(tree')
  PROVE  ShapeInv'
<1>1. StepIs(Names \ {"kind", "publish"})
  BY DEF StepIs, Names, Later, Finishing
<1>2. Follows(Head(todo)[1], Head(todo')[1])
  BY <1>1, Passing
<1>3. Head(todo')[1] \notin {"kind", "link", "relink", "clear"}
  BY <1>2 DEF StepIs, Follows, Later, Finishing
<1>4. QED
  BY <1>3 DEF ShapeInv, StepIs, Shaped

LEMMA LinkedPassed ==
  ASSUME IInv, StepIs(Names \ {"kind", "publish"}), Passed, user' = user, OneRoot => RootLinked(tree')
  PROVE  LinkedInv'
<1>1. input' = input /\ Follows(Head(todo)[1], Head(todo')[1])
  BY Passing
<1>2. Head(todo')[1] \notin {"kind", "link"}
  BY <1>1 DEF Follows, Later, Finishing
<1>3. QED
  BY <1>1, <1>2, FrozenParts, FrozenMembers DEF LinkedInv, StepIs

\* Where nothing is written yet, nothing is said of what is.
LEMMA WrittenNotYet ==
  ASSUME IInv, StepIs(Names \ ({"kind", "write"} \union Finishing)), Passed
  PROVE  WrittenInv'
<1>1. StepIs(Names \ {"kind", "publish"})
  BY DEF StepIs, Names, Later, Finishing
<1>2. status' = "running" /\ Follows(Head(todo)[1], Head(todo')[1])
  BY <1>1, Passing
<1>3. Head(todo')[1] \notin Finishing
  BY <1>2 DEF StepIs, Follows, Finishing
<1>4. QED
  BY <1>2, <1>3 DEF WrittenInv, Past, StepIs

\* The members, after a step that loses none of them.
LEMMA MembersPassed ==
  ASSUME IInv, MembersInv, StepIs(Names \ {"kind", "publish"}), Passed, user' = user,
         IsRoot(root'), root'.workspace = TRUE, root'.bazel \in Tables,
         RootMembers(root) => RootMembers(root'),
         \A dir \in Listed : Head(todo) = <<"member", dir>> => Spliced(dir, root', tree'),
         \A dir \in Listed : StepIs(Later) /\ Spliced(dir, root, tree) => Spliced(dir, root', tree')
  PROVE  MembersInv'
<1>1. /\ status' = "running" /\ input' = input /\ Follows(Head(todo)[1], Head(todo')[1])
      /\ \A x : (\E i \in 1..Len(todo) : todo[i] = x) /\ x # Head(todo)
                  => \E i \in 1..Len(todo') : todo'[i] = x
  BY Passing
<1>2. Listed' = Listed
  BY <1>1, Frozen
<1>3. /\ \A dir \in Listed : Toml(dir) \in DOMAIN user
      /\ RootMembers(root)
      /\ OneRoot => \A i \in 1..Len(todo) : todo[i][1] # "member"
      /\ ~OneRoot => \A dir \in Listed :
           (\E i \in 1..Len(todo) : todo[i] = <<"member", dir>>) \/ (StepIs(Later) /\ Spliced(dir, root, tree))
  <2>1. StepIs(Names \ {"kind"}) /\ Past(Names \ {"kind"})
    BY DEF StepIs, Past
  <2>2. QED
    BY <2>1 DEF MembersInv
<1>4. StepIs(Later) => StepIs(Later)'
  BY <1>1 DEF StepIs, Follows, Later, Finishing
<1>5. ASSUME OneRoot
      PROVE  \A i \in 1..Len(todo') : todo'[i][1] # "member"
  <2>1. todo \in Todos /\ todo # <<>> /\ todo' = Tail(todo)
    BY DEF StepIs, Passed, IInv, TodoInv
  <2>2. /\ Len(todo) \in Nat /\ Len(todo') = Len(todo) - 1
        /\ \A i \in 1..(Len(todo) - 1) : todo'[i] = todo[i + 1]
    BY <2>1, HeadTailProperties, LenProperties DEF Todos
  <2>3. \A i \in 1..Len(todo') : i + 1 \in 1..Len(todo) /\ todo'[i] = todo[i + 1]
    BY <2>2
  <2>4. QED
    BY <1>3, <1>5, <2>3
<1>6. ASSUME ~OneRoot, NEW dir \in Listed
      PROVE  (\E i \in 1..Len(todo') : todo'[i] = <<"member", dir>>) \/ (StepIs(Later)' /\ Spliced(dir, root', tree'))
  <2>1. CASE StepIs(Later) /\ Spliced(dir, root, tree)
    BY <1>4, <1>6, <2>1
  <2>2. CASE Head(todo) = <<"member", dir>>
    <3>1. StepIs(Later)
      BY <2>2 DEF StepIs, Later
    <3>2. QED
      BY <1>4, <1>6, <2>2, <3>1
  <2>3. CASE (\E i \in 1..Len(todo) : todo[i] = <<"member", dir>>) /\ Head(todo) # <<"member", dir>>
    BY <1>1, <2>3
  <2>4. QED
    BY <1>3, <1>6, <2>1, <2>2, <2>3
<1>7. IsRoot(root)' <=> IsRoot(root')
  BY DEF IsRoot
<1>8. /\ (IsRoot(root) /\ root.workspace = TRUE /\ root.bazel \in Tables)'
      /\ (\A dir \in Listed : Toml(dir) \in DOMAIN user)'
      /\ RootMembers(root)'
  BY <1>1, <1>2, <1>3, <1>7, FrozenMembers, FrozenParts
<1>9. QED
  BY <1>1, <1>2, <1>5, <1>6, <1>8, FrozenMembers, FrozenParts DEF MembersInv

\* What is linked of a directory, by its names.
LEMMA LinksOf ==
  ASSUME DOMAIN user \subseteq Paths, NEW dir \in Paths, NEW dest \in Paths
  PROVE  /\ \A p \in DOMAIN Links(dir, dest) :
              \E name \in Entries(dir) \intersect PathNames :
                /\ p = Append(dest, name) /\ p \in Paths /\ Len(p) = Len(dest) + 1 /\ Front(p) = dest
                /\ Links(dir, dest)[p] = Link(Append(dir, name))
         /\ \A name \in Entries(dir) : /\ Append(dest, name) \in DOMAIN Links(dir, dest)
                                       /\ Links(dir, dest)[Append(dest, name)] = Link(Append(dir, name))
<1>1. Entries(dir) \subseteq PathNames
  BY EntryOfPath
<1>2. ASSUME NEW name \in Entries(dir)
      PROVE  /\ Append(dest, name) \in DOMAIN Links(dir, dest)
             /\ Links(dir, dest)[Append(dest, name)] = Link(Append(dir, name))
             /\ Append(dest, name) \in Paths /\ Len(Append(dest, name)) = Len(dest) + 1
             /\ Front(Append(dest, name)) = dest /\ name \in PathNames
  <2> DEFINE p == Append(dest, name)
  <2>1. name \in PathNames
    BY <1>1
  <2>2. p \in Paths /\ Len(p) = Len(dest) + 1 /\ Front(p) = dest /\ Last(p) = name
    BY <2>1, PathOfEntry
  <2>3. p \in {Append(dest, n) : n \in Entries(dir)}
    OBVIOUS
  <2> HIDE DEF p
  <2>4. p \in DOMAIN Links(dir, dest) /\ Links(dir, dest)[p] = Link(Append(dir, name))
    BY <2>2, <2>3 DEF Links
  <2>5. QED
    BY <2>1, <2>2, <2>4 DEF p
<1>3. ASSUME NEW p \in DOMAIN Links(dir, dest)
      PROVE  \E name \in Entries(dir) \intersect PathNames :
               /\ p = Append(dest, name) /\ p \in Paths /\ Len(p) = Len(dest) + 1 /\ Front(p) = dest
               /\ Links(dir, dest)[p] = Link(Append(dir, name))
  <2>1. PICK name \in Entries(dir) : p = Append(dest, name)
    BY <1>3 DEF Links
  <2>2. QED
    BY <1>2, <2>1
<1>4. QED
  BY <1>2, <1>3

\* A file that is written into the root is no link, and what is linked stays.
LEMMA TreeWritten ==
  ASSUME Shaped(tree), NEW p \in {RootToml, RootLock}, NEW c, c.type # "link"
  PROVE  /\ Shaped(With(tree, p, c))
         /\ RootLinked(tree) => RootLinked(With(tree, p, c))
         /\ \A dir, m : Spliced(dir, m, tree) => Spliced(dir, m, With(tree, p, c))
<1> DEFINE t == With(tree, p, c)
<1>1. /\ DOMAIN t = DOMAIN tree \union {p} /\ t[p] = c
      /\ \A q \in DOMAIN tree : q # p => t[q] = tree[q]
  BY DEF With
<1>2. p = <<"Cargo.toml">> \/ p = <<"Cargo.lock">>
  BY DEF RootToml, RootLock, Toml
<1>3. PICK name \in {"Cargo.toml", "Cargo.lock"} : p = <<name>>
  BY <1>2
<1>4. p \in Paths /\ Len(p) = 1
  BY <1>3, PathOfOne DEF PathNames
<1> HIDE DEF t
<1>5. Shaped(t)
  BY <1>1, <1>4 DEF Shaped
<1>6. ASSUME RootLinked(tree) PROVE RootLinked(t)
  <2>1. \A q \in DOMAIN t : q[1] # ".cargo" =>
          Len(q) = 1 /\ (t[q].type = "link" => t[q] = Link(Append(RootDir, q[1])))
    BY <1>1, <1>4, <1>6 DEF RootLinked
  <2>2. ASSUME NEW entry \in Entries(RootDir) \ Reserved
        PROVE  <<entry>> \in DOMAIN t /\ t[<<entry>>].type = "link"
    <3>1. <<entry>> \in DOMAIN tree /\ tree[<<entry>>].type = "link"
      BY <1>6 DEF RootLinked
    <3>2. entry # name
      BY DEF Reserved
    <3>3. <<entry>> # p
      BY <1>3, <3>2
    <3>4. QED
      BY <1>1, <3>1, <3>3
  <2>3. QED
    BY <2>1, <2>2 DEF RootLinked
<1>7. ASSUME NEW dir, NEW m, Spliced(dir, m, tree) PROVE Spliced(dir, m, t)
  <2>1. Len(MemberToml(dir)) = 2
    BY DEF MemberToml
  <2>2. MemberToml(dir) # p
    BY <1>4, <2>1
  <2>3. QED
    BY <1>1, <1>7, <2>2 DEF Spliced
<1>8. QED
  BY <1>5, <1>6, <1>7 DEF t

(***************************************************************************)
(* The steps, one by one.                                                  *)
(***************************************************************************)
LEMMA PickKindMembers ==
  ASSUME IInv, SplicedInv, PickKind
  PROVE  SplicedInv'
<1>1. CASE Fail
  BY <1>1, FailedMembers
<1>2. CASE ~Fail
  <2> DEFINE steps == Steps(input.order)
             m == Manifest(RootDir)
  <2>1. /\ todo' = steps /\ status' = "running" /\ input' = input /\ user' = user /\ tree' = tree /\ tracked' = tracked
        /\ \A dir \in Listed : Toml(dir) \in DOMAIN user
        /\ root' = IF SplicerKind = "multi" THEN DefaultWorkspace ELSE [m EXCEPT !.workspace = TRUE]
        /\ StepIs({"kind"})
    BY <1>2 DEF PickKind, At, StepIs
  <2>2. /\ Listed \subseteq Paths /\ IsFiniteSet(Listed) /\ input.order \in Seq(Listed)
        /\ Listed = {input.order[n] : n \in DOMAIN input.order}
    BY InputFacts DEF IInv
  <2>3. ASSUME ~OneRoot
        PROVE  /\ IsRoot(root') /\ root'.workspace = TRUE /\ root'.bazel = <<>> /\ RootMembers(root')
               /\ Head(todo')[1] = "relink" /\ ~OneRoot'
               /\ \A dir \in Listed' : \E i \in 1..Len(todo') : todo'[i] = <<"member", dir>>
    <3>1. /\ Head(steps)[1] = "relink"
          /\ \A k \in DOMAIN input.order : \E i \in 1..Len(steps) : steps[i] = <<"member", input.order[k]>>
      BY <2>2, <2>3, MultiSteps DEF OneRoot
    <3>2. \A dir \in Listed : \E i \in 1..Len(steps) : steps[i] = <<"member", dir>>
      BY <2>2, <3>1
    <3>3. root' = DefaultWorkspace
      BY <2>1, <2>3 DEF OneRoot
    <3>4. IsRoot(root') /\ root'.workspace = TRUE /\ root'.bazel = <<>> /\ root'.members = {}
      BY <3>3 DEF DefaultWorkspace, IsRoot, ManifestFields
    <3>5. RootMembers(root')
      BY <2>3, <3>4 DEF RootMembers
    <3> HIDE DEF steps
    <3>6. /\ Head(todo')[1] = "relink" /\ ~OneRoot'
          /\ \A dir \in Listed' : \E i \in 1..Len(todo') : todo'[i] = <<"member", dir>>
      BY <2>1, <2>3, <3>1, <3>2, Frozen, FrozenMembers
    <3>7. QED
      BY <3>4, <3>5, <3>6
  <2>4. ASSUME OneRoot
        PROVE  /\ IsRoot(root') /\ root'.workspace = TRUE /\ root'.bazel = <<>> /\ RootMembers(root')
               /\ Head(todo') = <<"link", RootDir>> /\ OneRoot'
               /\ \A i \in 1..Len(todo') : todo'[i][1] # "member"
    <3>1. RootDir \in Listed
      BY <2>2, <2>4, RootListed DEF OneRoot
    <3>2. Head(steps) = <<"link", RootDir>> /\ \A i \in 1..Len(steps) : steps[i][1] # "member"
      BY <2>2, <2>4, <3>1, RootSteps DEF OneRoot
    <3>3. IsManifest(m)
      BY <2>1, <3>1, Given
    <3>4. DOMAIN m = ManifestFields /\ m.type = "manifest" /\ m.bazel = <<>>
      BY <3>3 DEF IsManifest
    <3>5. root' = [m EXCEPT !.workspace = TRUE]
      BY <2>1, <2>4 DEF OneRoot
    <3> HIDE DEF m, steps
    <3>6. /\ DOMAIN root' = ManifestFields /\ root'.type = m.type /\ root'.workspace = TRUE /\ root'.bazel = <<>>
          /\ root'.members = m.members /\ root'.package = m.package
      BY <3>4, <3>5 DEF ManifestFields
    <3>7. RootMembers(root') /\ IsRoot(root')
      BY <2>4, <3>4, <3>6 DEF RootMembers, IsRoot, m
    <3>8. /\ Head(todo') = <<"link", RootDir>> /\ OneRoot'
          /\ \A i \in 1..Len(todo') : todo'[i][1] # "member"
      BY <2>1, <2>4, <3>2, FrozenMembers
    <3>9. QED
      BY <3>6, <3>7, <3>8
  <2>5. IsRoot(root') /\ root'.workspace = TRUE /\ root'.bazel = <<>> /\ RootMembers(root')
    BY <2>3, <2>4
  <2> HIDE DEF steps, m
  <2>6. MembersInv'
    <3>1. IsRoot(root)' /\ (root.workspace = TRUE)' /\ (root.bazel \in Tables)'
      <4>1. <<>> \in Tables
        BY EmptySeq DEF Tables
      <4>2. QED
        BY <2>1, <2>5, <4>1, FrozenMembers DEF IsRoot
    <3>2. RootMembers(root)'
      BY <2>1, <2>5, FrozenParts
    <3>3. (\A dir \in Listed : Toml(dir) \in DOMAIN user)'
      BY <2>1, Frozen
    <3>4. QED
      BY <2>3, <2>4, <3>1, <3>2, <3>3 DEF MembersInv
  <2>7. Head(todo')[1] \in {"link", "relink"}
    <3>1. CASE OneRoot
      <4>1. Head(todo') = <<"link", RootDir>>
        BY <2>4, <3>1
      <4>2. QED
        BY <4>1
    <3>2. CASE ~OneRoot
      BY <2>3, <3>2
    <3>3. QED
      BY <3>1, <3>2
  <2>8. ShapeInv'
    BY <2>1, <2>7, FrozenParts DEF SplicedInv, ShapeInv, StepIs
  <2>9. LinkedInv'
    <3>1. (\A p \in DOMAIN tree : p[1] = ".cargo")'
      BY <2>1 DEF SplicedInv, LinkedInv, StepIs
    <3>2. ASSUME Head(todo')[1] = "link"
          PROVE  OneRoot' /\ Dir' = RootDir'
      <4>1. OneRoot
        BY <2>3, <3>2
      <4>2. OneRoot' /\ Head(todo') = <<"link", RootDir>>
        BY <2>4, <4>1
      <4>3. Dir' = RootDir
        BY <4>2 DEF Dir
      <4>4. QED
        BY <2>1, <4>2, <4>3, FrozenMembers
    <3>3. ASSUME OneRoot'
          PROVE  Head(todo')[1] = "link"
      <4>1. OneRoot
        BY <2>1, <3>3, FrozenMembers
      <4>2. Head(todo') = <<"link", RootDir>>
        BY <2>4, <4>1
      <4>3. QED
        BY <4>2
    <3>4. QED
      BY <2>1, <3>1, <3>2, <3>3 DEF LinkedInv, StepIs, Past
  <2>10. WrittenInv' /\ TrackedInv'
    BY <2>1, <2>7, TrackedRunning DEF SplicedInv, WrittenInv, Past, StepIs, Finishing
  <2>11. QED
    BY <2>6, <2>8, <2>9, <2>10 DEF SplicedInv
<1>3. QED
  BY <1>1, <1>2

\* A step of the links and the config, before any member: the root manifest is what it was.
LEMMA EarlyMembers ==
  ASSUME IInv, MembersInv, StepIs({"link", "relink", "clear", "install"}), Passed, user' = user, root' = root
  PROVE  MembersInv' /\ WrittenInv'
<1>1. /\ StepIs(Names \ {"kind", "publish"}) /\ StepIs(Names \ ({"kind", "write"} \union Finishing))
      /\ Head(todo)[1] # "member" /\ ~StepIs(Later)
  BY DEF StepIs, Names, Later, Finishing
<1>2. IsRoot(root) /\ root.workspace = TRUE /\ root.bazel \in Tables
  BY DEF MembersInv
<1>3. \A dir : Head(todo) # <<"member", dir>>
  BY <1>1
<1>4. IsRoot(root') /\ root'.workspace = TRUE /\ root'.bazel \in Tables /\ (RootMembers(root) => RootMembers(root'))
  BY <1>2
<1>5. MembersInv'
  BY <1>1, <1>3, <1>4, MembersPassed
<1>6. QED
  BY <1>1, <1>5, WrittenNotYet

LEMMA LinkRootMembers ==
  ASSUME IInv, SplicedInv, LinkRoot, user' = user
  PROVE  SplicedInv'
<1>1. CASE Fail
  BY <1>1, FailedMembers
<1>2. CASE ~Fail
  <2> DEFINE none == <<>>
             links == Links(RootDir, none)
  <2>1. /\ StepIs({"link"}) /\ Passed /\ root' = root /\ tracked' = tracked
        /\ CanLink(Dir, <<>>) /\ tree' = Linked(Dir, <<>>)
    BY <1>2 DEF LinkRoot, At, StepIs
  <2>2. /\ StepIs({"link", "relink", "clear", "install"}) /\ StepIs(Names \ {"kind", "publish"})
        /\ StepIs({"kind", "link", "relink", "clear"}) /\ StepIs({"kind", "link"})
        /\ Head(todo)[1] = "link"
    BY <2>1 DEF StepIs, Names, Later, Finishing
  <2>3. OneRoot /\ Dir = RootDir /\ \A p \in DOMAIN tree : p[1] = ".cargo"
    BY <2>1, <2>2 DEF SplicedInv, LinkedInv
  <2>4. /\ DOMAIN user \subseteq Paths /\ RootDir \in Paths
    BY <2>3, InputFacts, RootListed DEF IInv, OneRoot
  <2>5. /\ DOMAIN tree' = DOMAIN links \union DOMAIN tree
        /\ \A p \in DOMAIN links : tree'[p] = links[p]
        /\ \A p \in DOMAIN tree \ DOMAIN links : tree'[p] = tree[p]
    BY <2>1, <2>3 DEF Linked
  <2>6. none \in Paths /\ Len(none) = 0
    BY EmptySeq DEF Paths
  <2> HIDE DEF none
  <2>7. /\ \A p \in DOMAIN links :
             \E name \in Entries(RootDir) \intersect PathNames :
               /\ p = Append(none, name) /\ p \in Paths /\ Len(p) = Len(none) + 1 /\ Front(p) = none
               /\ links[p] = Link(Append(RootDir, name))
        /\ \A name \in Entries(RootDir) : /\ Append(none, name) \in DOMAIN links
                                         /\ links[Append(none, name)] = Link(Append(RootDir, name))
    BY <2>4, <2>6, LinksOf
  <2> HIDE DEF links
  <2>8. \A name \in PathNames : Append(none, name) = <<name>> /\ <<name>>[1] = name
    BY MemberPath DEF none
  <2>9. Entries(RootDir) \subseteq PathNames
    BY <2>4, EntryOfPath
  <2>10. \A p \in DOMAIN links : /\ p \in Paths /\ Len(p) = 1
                                /\ links[p] = Link(Append(RootDir, p[1])) /\ links[p].type = "link"
    BY <2>6, <2>7, <2>8 DEF Link
  <2>11. Shaped(tree) /\ \A p \in DOMAIN tree : Len(p) = 2 => Front(p) = DotCargo
    BY <2>2 DEF SplicedInv, ShapeInv
  <2>12. Shaped(tree')
    BY <2>5, <2>10, <2>11 DEF Shaped
  <2>13. ShapeInv'
    <3>1. \A p \in DOMAIN tree' : Len(p) = 2 => Front(p) = DotCargo
      BY <2>5, <2>10, <2>11
    <3>2. QED
      BY <2>12, <3>1, FrozenParts, Passing, <2>1, <2>2 DEF ShapeInv
  <2>14. RootLinked(tree')
    <3>1. \A p \in DOMAIN tree' : p[1] # ".cargo" => p \in DOMAIN links
      BY <2>3, <2>5
    <3>2. \A name \in Entries(RootDir) : <<name>> \in DOMAIN links
      BY <2>7, <2>8, <2>9
    <3>3. QED
      BY <2>5, <2>10, <3>1, <3>2 DEF RootLinked
  <2>15. LinkedInv'
    BY <2>1, <2>2, <2>14, LinkedPassed
  <2>16. MembersInv' /\ WrittenInv'
    BY <2>1, <2>2, EarlyMembers DEF SplicedInv
  <2>17. TrackedInv'
    BY <2>1, <2>2, Passing, TrackedRunning DEF SplicedInv
  <2>18. QED
    BY <2>13, <2>15, <2>16, <2>17 DEF SplicedInv
<1>3. QED
  BY <1>1, <1>2

\* What is under .cargo may change as it must: the root's entries are linked beside it.
LEMMA BesideDotCargo ==
  ASSUME LinkedInv, OneRoot => Past(Names \ {"kind", "link"}),
         \A p \in DOMAIN tree' : p[1] # ".cargo" => p \in DOMAIN tree /\ tree'[p] = tree[p],
         \A p \in DOMAIN tree : p[1] # ".cargo" /\ p \notin ConfigNames => p \in DOMAIN tree'
  PROVE  OneRoot => RootLinked(tree')
<1> SUFFICES ASSUME OneRoot PROVE RootLinked(tree')
  OBVIOUS
<1>1. RootLinked(tree)
  BY DEF LinkedInv
<1>2. ASSUME NEW name \in Entries(RootDir) \ Reserved
      PROVE  <<name>> \in DOMAIN tree' /\ tree'[<<name>>].type = "link"
  <2>1. <<name>> \in DOMAIN tree /\ tree[<<name>>].type = "link"
    BY <1>1 DEF RootLinked
  <2>2. name \notin {".cargo", "config", "config.toml"}
    BY DEF Reserved
  <2>3. <<name>>[1] # ".cargo" /\ Len(<<name>>) = 1
    BY <2>2
  <2>4. <<name>> \notin ConfigNames
    <3>1. <<name>> # <<"config">> /\ <<name>> # <<"config.toml">>
      BY <2>2
    <3>2. <<name>> # <<".cargo", "config">> /\ <<name>> # <<".cargo", "config.toml">>
      BY <2>3
    <3>3. QED
      BY <3>1, <3>2 DEF ConfigNames, Config
  <2>5. QED
    BY <2>1, <2>3, <2>4
<1>3. \A p \in DOMAIN tree' : p[1] # ".cargo" =>
        Len(p) = 1 /\ (tree'[p].type = "link" => tree'[p] = Link(Append(RootDir, p[1])))
  BY <1>1 DEF RootLinked
<1>4. QED
  BY <1>2, <1>3 DEF RootLinked

LEMMA RelinkDotCargoMembers ==
  ASSUME IInv, SplicedInv, RelinkDotCargo, user' = user
  PROVE  SplicedInv'
<1> DEFINE source == tree[DotCargo].to
           links == Links(source, DotCargo)
<1>1. /\ StepIs({"relink"}) /\ Passed /\ root' = root /\ tracked' = tracked
      /\ tree' = tree \/ (IsLink(DotCargo) /\ tree' = Relinked)
  BY DEF RelinkDotCargo, At, StepIs
<1>2. /\ StepIs({"link", "relink", "clear", "install"}) /\ StepIs(Names \ {"kind", "publish"})
      /\ StepIs({"kind", "link", "relink", "clear"}) /\ StepIs(Names \ {"kind", "link"})
      /\ Head(todo)[1] \in {"kind", "link", "relink", "clear"} /\ status = "running"
  BY <1>1 DEF StepIs, Names, Later, Finishing
<1>3. Past(Names \ {"kind", "link"})
  BY <1>2 DEF Past
<1>4. Shaped(tree) /\ \A p \in DOMAIN tree : Len(p) = 2 => Front(p) = DotCargo
  BY <1>2 DEF SplicedInv, ShapeInv
<1>5. /\ \A p \in DOMAIN tree' \ DOMAIN tree : p \in Paths /\ Len(p) = 2 /\ Front(p) = DotCargo /\ p[1] = ".cargo"
      /\ DOMAIN tree \subseteq DOMAIN tree' /\ \A p \in DOMAIN tree : p # DotCargo => tree'[p] = tree[p]
      /\ DOMAIN tree' = DOMAIN tree \/ DotCargo \in DOMAIN tree
  <2>1. CASE tree' = tree
    BY <2>1
  <2>2. CASE IsLink(DotCargo) /\ tree' = Relinked
    <3>1. DOMAIN user \subseteq Paths /\ source \in Paths /\ DotCargo \in DOMAIN tree
      BY <1>2, <2>2, InputFacts DEF IInv, LinksInv, LinksLead, IsLink
    <3>2. DOMAIN tree' = DOMAIN tree \union DOMAIN links /\ \A p \in DOMAIN tree : p # DotCargo => tree'[p] = tree[p]
      BY <2>2 DEF Relinked
    <3>3. DotCargo \in Paths /\ Len(DotCargo) = 1 /\ DotCargo[1] = ".cargo"
      BY DotCargoPath, DistinctPaths DEF DotCargo
    <3> HIDE DEF source
    <3>4. \A p \in DOMAIN links : \E name \in Entries(source) \intersect PathNames :
            /\ p = Append(DotCargo, name) /\ p \in Paths /\ Len(p) = Len(DotCargo) + 1 /\ Front(p) = DotCargo
            /\ links[p] = Link(Append(source, name))
      BY <3>1, <3>3, LinksOf
    <3>5. ASSUME NEW name \in PathNames PROVE Append(DotCargo, name)[1] = DotCargo[1]
      <4>1. \A i \in 1..Len(DotCargo) : Append(DotCargo, name)[i] = DotCargo[i]
        BY <3>3, PathOfEntry
      <4>2. QED
        BY <3>3, <4>1
    <3> HIDE DEF links
    <3>6. QED
      BY <3>1, <3>2, <3>3, <3>4, <3>5
  <2>3. QED
    BY <1>1, <2>1, <2>2
<1>6. Shaped(tree')
  BY <1>4, <1>5 DEF Shaped
<1>7. ShapeInv'
  <2>1. \A p \in DOMAIN tree' : Len(p) = 2 => Front(p) = DotCargo
    BY <1>4, <1>5
  <2>2. QED
    BY <1>6, <2>1, FrozenParts, Passing, <1>1, <1>2 DEF ShapeInv
<1>8. LinkedInv'
  <2>1. \A p \in DOMAIN tree' : p[1] # ".cargo" => p \in DOMAIN tree /\ tree'[p] = tree[p]
    BY <1>5 DEF DotCargo
  <2>2. OneRoot => RootLinked(tree')
    BY <1>3, <1>5, <2>1, BesideDotCargo DEF SplicedInv
  <2>3. QED
    BY <1>1, <1>2, <2>2, LinkedPassed
<1>9. MembersInv' /\ WrittenInv'
  BY <1>1, <1>2, EarlyMembers DEF SplicedInv
<1>10. TrackedInv'
  BY <1>1, <1>2, Passing, TrackedRunning DEF SplicedInv
<1>11. QED
  BY <1>7, <1>8, <1>9, <1>10 DEF SplicedInv

LEMMA ClearConfigsMembers ==
  ASSUME IInv, SplicedInv, ClearConfigs, user' = user
  PROVE  SplicedInv'
<1> DEFINE gone == {p \in ConfigNames : Exists(p)}
<1>1. /\ StepIs({"clear"}) /\ tree' = Without(tree, gone) /\ root' = root /\ tracked' = tracked /\ input' = input
      /\ status' = "failed" \/ Passed
  BY DEF ClearConfigs, At, StepIs, Passed, Removed
<1>2. /\ StepIs({"link", "relink", "clear", "install"}) /\ StepIs(Names \ {"kind", "publish"})
      /\ StepIs({"kind", "link", "relink", "clear"}) /\ StepIs(Names \ {"kind", "link"})
      /\ StepIs((Later \ {"publish"}) \union {"install", "clear"})
  BY <1>1 DEF StepIs, Names, Later, Finishing
<1>3. Past(Names \ {"kind", "link"})
  BY <1>2 DEF Past
<1>4. Shaped(tree) /\ \A p \in DOMAIN tree : Len(p) = 2 => Front(p) = DotCargo
  BY <1>2 DEF SplicedInv, ShapeInv
<1>5. /\ DOMAIN tree' \subseteq DOMAIN tree /\ \A p \in DOMAIN tree' : tree'[p] = tree[p]
      /\ \A p \in DOMAIN tree : p \notin ConfigNames => p \in DOMAIN tree'
  BY <1>1 DEF Without
<1>6. DotCargo \notin ConfigNames
  BY DEF ConfigNames, Config, DotCargo
<1>7. Shaped(tree')
  BY <1>4, <1>5, <1>6 DEF Shaped
<1>8. CASE status' = "failed"
  BY <1>1, <1>7, <1>8, StoppedMembers
<1>9. CASE Passed
  <2>1. ShapeInv'
    BY <1>2, <1>7, <1>9, ShapePassed
  <2>2. OneRoot => RootLinked(tree')
    BY <1>3, <1>5, BesideDotCargo DEF SplicedInv
  <2>3. LinkedInv'
    BY <1>2, <1>9, <2>2, LinkedPassed
  <2>4. MembersInv' /\ WrittenInv'
    BY <1>1, <1>2, <1>9, EarlyMembers DEF SplicedInv
  <2>5. TrackedInv'
    BY <1>1, <1>2, <1>9, Passing, TrackedRunning DEF SplicedInv
  <2>6. QED
    BY <2>1, <2>3, <2>4, <2>5 DEF SplicedInv
<1>10. QED
  BY <1>1, <1>8, <1>9

LEMMA InstallConfigMembers ==
  ASSUME IInv, SplicedInv, InstallConfig, user' = user
  PROVE  SplicedInv'
<1>1. /\ StepIs({"install"}) /\ Passed /\ root' = root /\ tracked' = tracked
      /\ IF input.config = <<>> THEN tree' = tree
         ELSE IF Exists(DotCargo) THEN Write(Config, input.config[1])
         ELSE tree' = With(With(tree, DotCargo, Directory), Config, input.config[1])
  BY DEF InstallConfig, At, StepIs
<1>2. /\ StepIs({"link", "relink", "clear", "install"}) /\ StepIs(Names \ {"kind", "publish"})
      /\ StepIs(Names \ {"kind", "link"}) /\ StepIs((Later \ {"publish"}) \union {"install", "clear"})
  BY <1>1 DEF StepIs, Names, Later, Finishing
<1>3. Past(Names \ {"kind", "link"})
  BY <1>2 DEF Past
<1>4. ~IsLink(DotCargo) /\ ~IsLink(Config)
  BY <1>1 DEF IInv, LinksInv, StepIs
<1>5. /\ DotCargo \in Paths /\ Len(DotCargo) = 1 /\ Config \in Paths /\ Len(Config) = 2
      /\ Front(Config) = DotCargo /\ Config[1] = ".cargo" /\ DotCargo[1] = ".cargo"
  <2>1. ".cargo" \in PathNames /\ "config.toml" \in PathNames
    BY DEF PathNames
  <2>2. Config \in Paths
    BY <2>1 DEF Config, Paths
  <2>3. QED
    BY <2>2, DotCargoPath, DistinctPaths DEF Config, DotCargo
<1>6. Exists(DotCargo) => DotCargo \in DOMAIN tree
  BY <1>4, <1>5 DEF Exists, Leads
<1>7. Leads(Config) = <<>>
  BY <1>4, <1>5 DEF Leads
<1>8. /\ DOMAIN tree \subseteq DOMAIN tree' /\ DOMAIN tree' \subseteq DOMAIN tree \union {DotCargo, Config}
      /\ Config \in DOMAIN tree' => DotCargo \in DOMAIN tree' \/ Config \in DOMAIN tree
      /\ \A p \in DOMAIN tree : p \notin {DotCargo, Config} => tree'[p] = tree[p]
  BY <1>1, <1>6, <1>7 DEF Write, With
<1>9. Shaped(tree')
  BY <1>5, <1>8 DEF SplicedInv, ShapeInv, Shaped
<1>10. ShapeInv'
  BY <1>1, <1>2, <1>9, ShapePassed
<1>11. LinkedInv'
  <2>1. \A p \in DOMAIN tree' : p[1] # ".cargo" => p \in DOMAIN tree /\ tree'[p] = tree[p]
    BY <1>5, <1>8
  <2>2. OneRoot => RootLinked(tree')
    BY <1>3, <1>8, <2>1, BesideDotCargo DEF SplicedInv
  <2>3. QED
    BY <1>1, <1>2, <2>2, LinkedPassed
<1>12. MembersInv' /\ WrittenInv'
  BY <1>1, <1>2, EarlyMembers DEF SplicedInv
<1>13. TrackedInv'
  BY <1>1, <1>2, Passing, TrackedRunning DEF SplicedInv
<1>14. QED
  BY <1>10, <1>11, <1>12, <1>13 DEF SplicedInv

LEMMA LinkMemberMembers ==
  ASSUME IInv, SplicedInv, LinkMember, user' = user
  PROVE  SplicedInv'
<1>1. CASE Fail
  BY <1>1, FailedMembers
<1>2. CASE ~Fail
  <2> DEFINE name == Manifest(Dir).package
             dest == <<name>>
             links == Links(Dir, dest)
  <2>1. /\ StepIs({"member"}) /\ Passed /\ CanLink(Dir, dest) /\ tracked' = tracked
        /\ root' = [root EXCEPT !.members = @ \union {name}] /\ tree' = Linked(Dir, dest)
    BY <1>2 DEF LinkMember, At, StepIs
  <2>2. /\ StepIs(Names \ ({"kind", "write"} \union Finishing)) /\ StepIs(Names \ {"kind", "publish"})
        /\ StepIs((Later \ {"publish"}) \union {"install", "clear"}) /\ StepIs(Names \ {"kind"})
        /\ Head(todo)[1] = "member"
    BY <2>1 DEF StepIs, Names, Later, Finishing
  <2>3. todo \in Todos /\ todo # <<>> /\ About(todo, Listed) /\ Head(todo) = todo[1] /\ 1 \in 1..Len(todo)
    <3>1. todo \in Todos /\ todo # <<>> /\ About(todo, Listed)
      BY <2>1 DEF IInv, TodoInv, StepIs
    <3>2. QED
      BY <3>1, HeadTailProperties, LenProperties, EmptySeq DEF Todos
  <2>4. ~OneRoot
    BY <2>2, <2>3 DEF SplicedInv, MembersInv
  <2>5. Dir \in Listed /\ Toml(Dir) \in DOMAIN user
    <3>1. Dir \in Listed
      BY <2>2, <2>3 DEF About, Dir
    <3>2. QED
      BY <2>2, <3>1 DEF SplicedInv, MembersInv, Past
  <2>6. Dir \in Paths /\ DOMAIN user \subseteq Paths
    BY <2>5, InputFacts DEF IInv
  <2>7. name \in PathNames
    BY <2>5, Given DEF IsManifest, PathNames
  <2>8. /\ dest \in Paths /\ Len(dest) = 1
        /\ Append(dest, "Cargo.toml") = MemberToml(Dir)
    <3>1. "Cargo.toml" \in PathNames
      BY DEF PathNames
    <3>2. Append(dest, "Cargo.toml") = <<name, "Cargo.toml">>
      BY <2>7, <3>1, AppendToOne
    <3>3. QED
      BY <2>7, <3>2, MemberPath DEF MemberToml
  <2>9. /\ DOMAIN tree' = DOMAIN links \union DOMAIN tree \union ({dest} \ {<<>>})
        /\ \A p \in DOMAIN links : tree'[p] = links[p]
        /\ \A p \in DOMAIN tree \ DOMAIN links : tree'[p] = tree[p]
        /\ DOMAIN links \intersect DOMAIN tree = {}
    BY <2>1 DEF Linked, CanLink
  <2>10. dest # <<>>
    BY <2>8
  <2>11. dest \in DOMAIN tree' /\ DOMAIN tree' = DOMAIN links \union DOMAIN tree \union {dest}
    BY <2>9, <2>10
  <2>12. root'.members = root.members \union {name} /\ IsRoot(root') /\ root'.workspace = TRUE /\ root'.bazel \in Tables
    <3>1. IsRoot(root) /\ root.workspace = TRUE /\ root.bazel \in Tables
      BY DEF SplicedInv, MembersInv
    <3>2. DOMAIN root = ManifestFields
      BY <3>1 DEF IsRoot
    <3> HIDE DEF name
    <3>3. /\ DOMAIN root' = ManifestFields /\ root'.type = root.type /\ root'.bazel = root.bazel
          /\ root'.workspace = root.workspace /\ root'.members = root.members \union {name}
      BY <2>1, <3>2 DEF ManifestFields
    <3>4. QED
      BY <3>1, <3>3 DEF IsRoot
  <2>13. RootMembers(root) => RootMembers(root')
    BY <2>4, <2>5, <2>12 DEF RootMembers
  <2> HIDE DEF dest
  <2>14. /\ \A p \in DOMAIN links :
              \E n \in Entries(Dir) \intersect PathNames :
                /\ p = Append(dest, n) /\ p \in Paths /\ Len(p) = Len(dest) + 1 /\ Front(p) = dest
                /\ links[p] = Link(Append(Dir, n))
         /\ \A n \in Entries(Dir) : /\ Append(dest, n) \in DOMAIN links
                                    /\ links[Append(dest, n)] = Link(Append(Dir, n))
    BY <2>6, <2>8, LinksOf
  <2> HIDE DEF links
  <2>15. Shaped(tree')
    <3>1. \A p \in DOMAIN links : p \in Paths /\ Len(p) = 2 /\ Front(p) = dest
      BY <2>8, <2>14
    <3>2. QED
      BY <2>8, <2>11, <3>1 DEF SplicedInv, ShapeInv, Shaped
  <2>16. Spliced(Dir, root', tree')
    <3>1. Toml(Dir) = Append(Dir, "Cargo.toml") /\ Toml(Dir) \in Paths
      BY <2>6, TomlIs
    <3>2. "Cargo.toml" \in Entries(Dir)
      <4>1. "Cargo.toml" \in PathNames
        BY DEF PathNames
      <4>2. QED
        BY <2>5, <2>6, <3>1, <4>1, EntryOfPath
    <3>3. MemberToml(Dir) \in DOMAIN links /\ links[MemberToml(Dir)] = Link(Toml(Dir))
      BY <2>8, <2>14, <3>1, <3>2
    <3>4. QED
      BY <2>9, <2>12, <3>3 DEF Spliced
  <2>17. ASSUME NEW dir \in Listed, Spliced(dir, root, tree) PROVE Spliced(dir, root', tree')
    BY <2>9, <2>12, <2>17 DEF Spliced
  <2>18. MembersInv'
    <3>1. \A dir \in Listed : Head(todo) = <<"member", dir>> => dir = Dir
      BY DEF Dir
    <3>2. QED
      BY <2>1, <2>2, <2>12, <2>13, <2>16, <2>17, <3>1, MembersPassed DEF SplicedInv
  <2>19. ShapeInv' /\ LinkedInv' /\ WrittenInv'
    BY <2>1, <2>2, <2>4, <2>15, ShapePassed, LinkedPassed, WrittenNotYet
  <2>20. TrackedInv'
    BY <2>1, <2>2, Passing, TrackedRunning DEF SplicedInv
  <2>21. QED
    BY <2>18, <2>19, <2>20 DEF SplicedInv
<1>3. QED
  BY <1>1, <1>2

\* A step on the root manifest in memory: only its package and its table may change.
LEMMA InMemoryMembers ==
  ASSUME IInv, SplicedInv, StepIs({"patches", "metadata", "direct"}), Passed, UNCHANGED <<user, tree, tracked>>,
         IsRoot(root'), root'.workspace = root.workspace, root'.members = root.members,
         root'.package = root.package \/ (root.package = NoName /\ root'.package = DirectPackage),
         root'.bazel \in Tables
  PROVE  SplicedInv'
<1>1. /\ StepIs(Names \ ({"kind", "write"} \union Finishing)) /\ StepIs(Names \ {"kind", "publish"})
      /\ StepIs((Later \ {"publish"}) \union {"install", "clear"}) /\ StepIs(Names \ {"kind", "link"})
      /\ Head(todo)[1] # "member"
  BY DEF StepIs, Names, Later, Finishing
<1>2. Shaped(tree') /\ (OneRoot => RootLinked(tree'))
  BY <1>1 DEF SplicedInv, ShapeInv, LinkedInv, Past, Shaped, RootLinked
<1>3. MembersInv'
  <2>1. MembersInv /\ root'.workspace = TRUE
    BY DEF SplicedInv, MembersInv
  <2>2. RootMembers(root) => RootMembers(root')
    BY DEF RootMembers
  <2>3. \A dir \in Listed : Spliced(dir, root, tree) => Spliced(dir, root', tree')
    BY DEF Spliced
  <2>4. \A dir \in Listed : Head(todo) # <<"member", dir>>
    BY <1>1
  <2>5. QED
    BY <1>1, <2>1, <2>2, <2>3, <2>4, MembersPassed
<1>4. ShapeInv' /\ LinkedInv' /\ WrittenInv'
  BY <1>1, <1>2, ShapePassed, LinkedPassed, WrittenNotYet
<1>5. TrackedInv'
  BY <1>1, Passing, TrackedRunning DEF SplicedInv
<1>6. QED
  BY <1>3, <1>4, <1>5 DEF SplicedInv

LEMMA MergePatchesMembers ==
  ASSUME IInv, SplicedInv, MergePatches, user' = user
  PROVE  SplicedInv'
<1>1. CASE Fail
  BY <1>1, FailedMembers
<1>2. CASE ~Fail
  <2>1. /\ StepIs({"patches"}) /\ Passed /\ UNCHANGED <<tree, tracked>>
        /\ \E patches : root' = [root EXCEPT !.patches = patches]
    BY <1>2 DEF MergePatches, At, StepIs
  <2>2. PICK patches : root' = [root EXCEPT !.patches = patches]
    BY <2>1
  <2>3. IsRoot(root) /\ root.bazel \in Tables /\ DOMAIN root = ManifestFields
    BY DEF SplicedInv, MembersInv, IsRoot
  <2>4. /\ DOMAIN root' = ManifestFields /\ root'.type = root.type /\ root'.workspace = root.workspace
        /\ root'.members = root.members /\ root'.package = root.package /\ root'.bazel = root.bazel
    BY <2>2, <2>3 DEF ManifestFields
  <2>5. StepIs({"patches", "metadata", "direct"})
    BY <2>1 DEF StepIs
  <2>6. QED
    BY <2>1, <2>3, <2>4, <2>5, InMemoryMembers DEF IsRoot
<1>3. QED
  BY <1>1, <1>2

LEMMA AddMetadataMembers ==
  ASSUME IInv, SplicedInv, AddMetadata, user' = user
  PROVE  SplicedInv'
<1>1. CASE Fail
  BY <1>1, FailedMembers
<1>2. CASE ~Fail
  <2> DEFINE table == [prefixes |-> PackagePrefixes, sources |-> {}]
  <2>1. /\ StepIs({"metadata"}) /\ Passed /\ UNCHANGED <<tree, tracked>>
        /\ root' = [root EXCEPT !.metadata = "table", !.bazel = <<table>>]
    BY <1>2 DEF AddMetadata, At, StepIs
  <2>2. IsRoot(root) /\ DOMAIN root = ManifestFields
    BY DEF SplicedInv, MembersInv, IsRoot
  <2>3. table \in [prefixes : {PackagePrefixes}, sources : {{}}]
    OBVIOUS
  <2> HIDE DEF table
  <2>4. /\ DOMAIN root' = ManifestFields /\ root'.type = root.type /\ root'.workspace = root.workspace
        /\ root'.members = root.members /\ root'.package = root.package /\ root'.bazel = <<table>>
    BY <2>1, <2>2 DEF ManifestFields
  <2>5. root'.bazel \in Tables
    BY <2>3, <2>4 DEF Tables
  <2>6. StepIs({"patches", "metadata", "direct"})
    BY <2>1 DEF StepIs
  <2>7. QED
    BY <2>1, <2>2, <2>4, <2>5, <2>6, InMemoryMembers DEF IsRoot
<1>3. QED
  BY <1>1, <1>2

LEMMA AddDirectMembers ==
  ASSUME IInv, SplicedInv, AddDirect, user' = user
  PROVE  SplicedInv'
<1>1. CASE Fail
  BY <1>1, FailedMembers
<1>2. CASE ~Fail
  <2>1. /\ StepIs({"direct"}) /\ Passed /\ UNCHANGED <<tree, tracked>>
        /\ root' = root \/ root' = [PackageFor(root) EXCEPT !.deps = @ \union input.direct]
    BY <1>2 DEF AddDirect, At, StepIs
  <2>2. IsRoot(root) /\ root.bazel \in Tables /\ DOMAIN root = ManifestFields
    BY DEF SplicedInv, MembersInv, IsRoot
  <2>3. /\ DOMAIN root' = ManifestFields /\ root'.type = root.type /\ root'.workspace = root.workspace
        /\ root'.members = root.members /\ root'.bazel = root.bazel
        /\ root'.package = root.package \/ (root.package = NoName /\ root'.package = DirectPackage)
    <3>1. CASE root' = root
      BY <2>2, <3>1
    <3>2. CASE root' = [PackageFor(root) EXCEPT !.deps = @ \union input.direct]
      <4>1. /\ DOMAIN PackageFor(root) = ManifestFields /\ PackageFor(root).type = root.type
            /\ PackageFor(root).workspace = root.workspace /\ PackageFor(root).members = root.members
            /\ PackageFor(root).bazel = root.bazel
            /\ PackageFor(root).package = IF root.package = NoName THEN DirectPackage ELSE root.package
        BY <2>2 DEF PackageFor, ManifestFields
      <4>2. QED
        BY <3>2, <4>1 DEF ManifestFields
    <3>3. QED
      BY <2>1, <3>1, <3>2
  <2>4. StepIs({"patches", "metadata", "direct"})
    BY <2>1 DEF StepIs
  <2>5. QED
    BY <2>1, <2>2, <2>3, <2>4, InMemoryMembers DEF IsRoot
<1>3. QED
  BY <1>1, <1>2

\* A step that writes a file into the root, where the root manifest in memory stays.
LEMMA FileMembers ==
  ASSUME IInv, SplicedInv, StepIs({"write", "lock", "sources"}), Passed, UNCHANGED <<user, root, tracked>>,
         NEW p \in {RootToml, RootLock}, NEW c, c.type # "link",
         tree' = tree \/ tree' = With(tree, p, c)
  PROVE  ShapeInv' /\ LinkedInv' /\ MembersInv' /\ TrackedInv'
<1>1. /\ StepIs(Names \ {"kind", "publish"}) /\ StepIs((Later \ {"publish"}) \union {"install", "clear"})
      /\ StepIs(Names \ {"kind", "link"}) /\ Head(todo)[1] # "member"
  BY DEF StepIs, Names, Later, Finishing
<1>2. Shaped(tree) /\ (OneRoot => RootLinked(tree))
  BY <1>1 DEF SplicedInv, ShapeInv, LinkedInv, Past
<1>3. /\ Shaped(tree')
      /\ OneRoot => RootLinked(tree')
      /\ \A dir, m : Spliced(dir, m, tree) => Spliced(dir, m, tree')
  <2>1. CASE tree' = tree
    BY <1>2, <2>1 DEF Shaped, RootLinked, Spliced
  <2>2. CASE tree' = With(tree, p, c)
    BY <1>2, <2>2, TreeWritten
  <2>3. QED
    BY <2>1, <2>2
<1>4. MembersInv'
  <2>1. /\ MembersInv /\ IsRoot(root') /\ root'.workspace = TRUE /\ root'.bazel \in Tables
        /\ RootMembers(root) => RootMembers(root')
    BY DEF SplicedInv, MembersInv
  <2>2. \A dir \in Listed : Spliced(dir, root, tree) => Spliced(dir, root', tree')
    BY <1>3
  <2>3. \A dir \in Listed : Head(todo) # <<"member", dir>>
    BY <1>1
  <2>4. QED
    BY <1>1, <2>1, <2>2, <2>3, MembersPassed
<1>5. ShapeInv' /\ LinkedInv'
  BY <1>1, <1>3, ShapePassed, LinkedPassed
<1>6. TrackedInv'
  BY <1>1, Passing, TrackedRunning DEF SplicedInv
<1>7. QED
  BY <1>4, <1>5, <1>6

LEMMA WriteRootMembers ==
  ASSUME IInv, SettingsInv, SplicedInv, WriteRoot, user' = user
  PROVE  SplicedInv'
<1>1. StepIs({"write"}) /\ Passed /\ UNCHANGED <<root, tracked>> /\ tree' = With(tree, RootToml, root)
  BY DEF WriteRoot, At, StepIs
<1>2. /\ StepIs({"write", "lock", "sources"}) /\ StepIs(Names \ {"kind", "publish"}) /\ StepIs(Names \ {"kind"})
      /\ Head(todo)[1] = "write"
  BY <1>1 DEF StepIs, Names, Later, Finishing
<1>3. root.type # "link" /\ IsRoot(root) /\ root.bazel \in Tables /\ RootMembers(root)
  BY <1>2 DEF SplicedInv, MembersInv, IsRoot
<1>4. ShapeInv' /\ LinkedInv' /\ MembersInv' /\ TrackedInv'
  BY <1>1, <1>2, <1>3, FileMembers
<1>5. \A i \in 1..Len(todo) : todo[i][1] \notin {"metadata", "member"}
  <2>1. todo \in Todos /\ todo # <<>> /\ WritesLast(todo)
    BY <1>1 DEF IInv, TodoInv, StepIs
  <2>2. todo[1] = Head(todo) /\ 1 \in 1..Len(todo) /\ Len(todo) \in Nat
    BY <2>1, HeadTailProperties, LenProperties, EmptySeq DEF Todos
  <2>3. \A i \in 1..Len(todo) : 1 < i => todo[i][1] \in Finishing
    BY <1>2, <2>1, <2>2 DEF WritesLast
  <2>4. \A i \in 1..Len(todo) : i = 1 \/ 1 < i
    BY <2>2
  <2>5. QED
    BY <1>2, <2>2, <2>3, <2>4 DEF Finishing
<1>6. root.bazel[1].prefixes = PackagePrefixes /\ "prefixes" \in DOMAIN root.bazel[1]
  <2>1. 1 \in DOMAIN root.bazel
    BY <1>2, <1>5 DEF SettingsInv, RootInv, HasTable
  <2>2. root.bazel[1] \in [prefixes : {PackagePrefixes}, sources : {{}}]
    <3> DEFINE S == [prefixes : {PackagePrefixes}, sources : {{}}]
               b == root.bazel
    <3>1. b \in Seq(S) /\ 1 \in DOMAIN b
      BY <1>3, <2>1 DEF Tables
    <3> HIDE DEF S, b
    <3>2. 1 \in 1..Len(b)
      BY <3>1, LenProperties
    <3>3. b[1] \in S
      BY <3>1, <3>2, ElementOfSeq
    <3>4. QED
      BY <3>3 DEF S, b
  <2>3. QED
    BY <2>2
<1>7. ASSUME ~OneRoot, NEW dir \in Listed PROVE Spliced(dir, root, tree')
  <2>1. ~\E i \in 1..Len(todo) : todo[i] = <<"member", dir>>
    BY <1>5
  <2>2. Spliced(dir, root, tree)
    BY <1>2, <1>7, <2>1 DEF SplicedInv, MembersInv
  <2>3. QED
    BY <1>1, <1>3, <2>2, TreeWritten DEF SplicedInv, ShapeInv
<1>8. WrittenInv'
  <2>1. tree'[RootToml] = root
    BY <1>1 DEF With
  <2>2. /\ (RootMembers(tree[RootToml]))' /\ Listed' = Listed /\ PackagePrefixes' = PackagePrefixes
        /\ (OneRoot' <=> OneRoot)
    BY <1>1, <1>2, <1>3, <2>1, Passing, FrozenParts, FrozenMembers, Frozen
  <2>3. ~OneRoot' => \A dir \in Listed' : Spliced(dir, tree[RootToml], tree)'
    BY <1>1, <1>2, <1>7, <2>1, <2>2, Passing, FrozenParts
  <2>4. QED
    BY <1>6, <2>1, <2>2, <2>3 DEF WrittenInv
<1>9. QED
  BY <1>4, <1>8 DEF SplicedInv

\* The root manifest is as it was written, and so are the links.
LEMMA StillWritten ==
  ASSUME IInv, SplicedInv, Past(Finishing), UNCHANGED <<input, user>>,
         LET old == tree[RootToml]
             new == tree'[RootToml]
         IN  /\ new.members = old.members /\ new.package = old.package
             /\ new.bazel[1].prefixes = old.bazel[1].prefixes /\ "prefixes" \in DOMAIN new.bazel[1],
         \A dir, m : Spliced(dir, m, tree) => Spliced(dir, m, tree')
  PROVE  WrittenInv'
<1> DEFINE old == tree[RootToml]
           new == tree'[RootToml]
<1>1. /\ RootMembers(old) /\ old.bazel[1].prefixes = PackagePrefixes
      /\ ~OneRoot => \A dir \in Listed : Spliced(dir, old, tree)
  BY DEF SplicedInv, WrittenInv
<1>2. RootMembers(new)
  BY <1>1 DEF RootMembers
<1>3. ~OneRoot => \A dir \in Listed : Spliced(dir, new, tree')
  <2>1. \A dir \in Listed : Spliced(dir, old, tree') => Spliced(dir, new, tree')
    BY DEF Spliced
  <2>2. QED
    BY <1>1, <2>1
<1>4. RootMembers(tree[RootToml])'
  BY <1>2, FrozenParts
<1>5. (~OneRoot => \A dir \in Listed : Spliced(dir, tree[RootToml], tree))'
  BY <1>3, FrozenParts, FrozenMembers, Frozen
<1>6. QED
  BY <1>1, <1>4, <1>5, FrozenMembers DEF WrittenInv

LEMMA RelockMembers ==
  ASSUME IInv, SettingsInv, SplicedInv, Relock, user' = user
  PROVE  SplicedInv'
<1> DEFINE c == [type |-> "lock", packages |-> input.packages]
<1>1. /\ StepIs({"lock"}) /\ Passed /\ UNCHANGED <<root, tracked>>
      /\ tree' = tree \/ tree' = With(tree, RootLock, c)
  BY DEF Relock, At, StepIs
<1>2. /\ StepIs({"write", "lock", "sources"}) /\ StepIs(Names \ {"kind", "publish"})
      /\ Past(Finishing)
  BY <1>1 DEF StepIs, Past, Names, Later, Finishing
<1>3. c.type # "link"
  OBVIOUS
<1> HIDE DEF c
<1>4. ShapeInv' /\ LinkedInv' /\ MembersInv' /\ TrackedInv'
  BY <1>1, <1>2, <1>3, FileMembers
<1>5. tree'[RootToml] = tree[RootToml]
  <2>1. RootToml \in DOMAIN tree
    BY <1>2 DEF SettingsInv, FileInv
  <2>2. QED
    BY <1>1, <2>1, DistinctPaths DEF With
<1>6. \A dir, m : Spliced(dir, m, tree) => Spliced(dir, m, tree')
  <2>1. Shaped(tree)
    BY DEF SplicedInv, ShapeInv
  <2>2. CASE tree' = tree
    BY <2>2 DEF Spliced
  <2>3. CASE tree' = With(tree, RootLock, c)
    BY <1>3, <2>1, <2>3, TreeWritten
  <2>4. QED
    BY <1>1, <2>2, <2>3
<1>7. WrittenInv'
  <2>1. "prefixes" \in DOMAIN tree[RootToml].bazel[1]
    BY <1>2 DEF SplicedInv, WrittenInv
  <2>2. UNCHANGED <<input, user>>
    BY <1>1, <1>2, Passing
  <2>3. QED
    BY <1>2, <1>5, <1>6, <2>1, <2>2, StillWritten
<1>8. QED
  BY <1>4, <1>7 DEF SplicedInv

LEMMA WriteSourcesMembers ==
  ASSUME IInv, SettingsInv, SplicedInv, WriteSources, user' = user
  PROVE  SplicedInv'
<1>1. CASE Fail
  BY <1>1, FailedMembers
<1>2. CASE ~Fail
  <2> DEFINE old == tree[RootToml]
  <2>1. /\ StepIs({"sources"}) /\ Passed /\ UNCHANGED <<root, tracked>>
        /\ \E found : tree' = With(tree, RootToml, [Read(RootToml) EXCEPT !.bazel[1].sources = found])
    BY <1>2 DEF WriteSources, At, StepIs
  <2>2. /\ StepIs({"write", "lock", "sources"}) /\ StepIs(Names \ {"kind", "publish"})
        /\ Past(Finishing)
    BY <2>1 DEF StepIs, Past, Names, Later, Finishing
  <2>3. /\ RootToml \in DOMAIN tree /\ IsRoot(old) /\ HasTable(old) /\ Read(RootToml) = old
    BY <2>2, RootIsRead DEF SettingsInv, FileInv
  <2>4. PICK found : tree' = With(tree, RootToml, [old EXCEPT !.bazel[1].sources = found])
    BY <2>1, <2>3
  <2> DEFINE new == [old EXCEPT !.bazel[1].sources = found]
  <2>5. "prefixes" \in DOMAIN old.bazel[1]
    BY <2>2 DEF SplicedInv, WrittenInv
  <2>6. tree' = With(tree, RootToml, new) /\ tree'[RootToml] = new
    BY <2>4 DEF With
  <2>7. /\ new.type = old.type /\ new.members = old.members /\ new.package = old.package
        /\ new.bazel[1].prefixes = old.bazel[1].prefixes /\ "prefixes" \in DOMAIN new.bazel[1]
    <3> HIDE DEF old
    <3>1. DOMAIN old = ManifestFields /\ 1 \in DOMAIN old.bazel
      BY <2>3 DEF IsRoot, HasTable
    <3>2. QED
      BY <2>5, <3>1 DEF ManifestFields
  <2> HIDE DEF new
  <2>8. new.type # "link"
    BY <2>3, <2>7 DEF IsRoot
  <2>9. ShapeInv' /\ LinkedInv' /\ MembersInv' /\ TrackedInv'
    BY <2>1, <2>2, <2>6, <2>8, FileMembers
  <2>10. \A dir, m : Spliced(dir, m, tree) => Spliced(dir, m, tree')
    BY <2>6, <2>8, TreeWritten DEF SplicedInv, ShapeInv
  <2>11. WrittenInv'
    <3>1. UNCHANGED <<input, user>>
      BY <2>1, <2>2, Passing
    <3>2. QED
      BY <2>2, <2>6, <2>7, <2>10, <3>1, StillWritten
  <2>12. QED
    BY <2>9, <2>11 DEF SplicedInv
<1>3. QED
  BY <1>1, <1>2

LEMMA PublishMembers ==
  ASSUME IInv, SplicedInv, Publish
  PROVE  SplicedInv'
<1>1. CASE Fail
  BY <1>1, FailedMembers
<1>2. CASE ~Fail
  <2> DEFINE found == MembersAt(Manifest(RootDir), RootDir, LAMBDA p : p \in DOMAIN user)
  <2>1. /\ StepIs({"publish"}) /\ status' = "done" /\ UNCHANGED <<input, user, tree, root>>
        /\ tracked' = IF SplicerKind = "workspace" THEN found ELSE {}
    BY <1>2 DEF Publish, At, StepIs
  <2>2. Past(Finishing) /\ Past(Names \ {"kind", "link"}) /\ Past(Names \ {"kind"})
    BY <2>1 DEF StepIs, Past, Names, Later, Finishing
  <2>3. \A names : ~StepIs(names)'
    BY <2>1 DEF StepIs
  <2>4. ShapeInv' /\ LinkedInv'
    BY <2>1, <2>2, <2>3, FrozenParts, FrozenMembers DEF SplicedInv, ShapeInv, LinkedInv
  <2>5. MembersInv'
    <3>1. IsRoot(root)' <=> IsRoot(root)
      BY <2>1 DEF IsRoot
    <3>2. QED
      BY <2>1, <2>2, <2>3, <3>1, FrozenMembers, Frozen DEF SplicedInv, MembersInv
  <2>6. WrittenInv'
    <3>1. "prefixes" \in DOMAIN tree[RootToml].bazel[1]
      BY <2>2 DEF SplicedInv, WrittenInv
    <3>2. \A dir, m : Spliced(dir, m, tree) => Spliced(dir, m, tree')
      BY <2>1 DEF Spliced
    <3>3. QED
      BY <2>1, <2>2, <3>1, <3>2, StillWritten
  <2>7. ASSUME SplicerKind = "workspace" PROVE found \subseteq {Front(p) : p \in DOMAIN user}
    <3> DEFINE m == Manifest(RootDir)
    <3>1. RootDir \in Listed /\ RootDir \in Paths
      BY <2>7, RootListed, InputFacts DEF IInv
    <3>2. Toml(RootDir) \in DOMAIN user
      BY <2>2, <3>1 DEF SplicedInv, MembersInv
    <3>3. m.members \subseteq PathNames
      BY <3>1, <3>2, Given DEF IsManifest, PathNames
    <3>4. Front(Toml(RootDir)) = RootDir
      BY <3>1, TomlIs
    <3>5. ASSUME NEW name \in m.members, Toml(Append(RootDir, name)) \in DOMAIN user
          PROVE  Append(RootDir, name) \in {Front(p) : p \in DOMAIN user}
      <4>1. Append(RootDir, name) \in Paths
        BY <3>1, <3>3, PathOfEntry
      <4>2. Front(Toml(Append(RootDir, name))) = Append(RootDir, name)
        BY <4>1, TomlIs
      <4>3. QED
        BY <3>5, <4>2
    <3>6. RootDir \in {Front(p) : p \in DOMAIN user}
      BY <3>2, <3>4
    <3>7. QED
      BY <3>5, <3>6 DEF MembersAt
  <2>8. found' = found
    <3>1. Manifest(RootDir)' = Manifest(RootDir) /\ RootDir' = RootDir
      <4>1. RootDir' = RootDir
        BY <2>1, FrozenMembers
      <4>2. QED
        BY <2>1, <4>1 DEF Manifest
    <3>2. QED
      BY <2>1, <3>1 DEF MembersAt
  <2> HIDE DEF found
  <2>9. TrackedInv'
    <3>1. SplicerKind' = SplicerKind
      BY <2>1, Frozen
    <3>2. tracked' \subseteq {Front(p) : p \in DOMAIN user}
      BY <2>1, <2>7
    <3>3. SplicerKind = "workspace" => tracked' = found'
      BY <2>1, <2>8
    <3>4. QED
      BY <2>1, <3>1, <3>2, <3>3 DEF TrackedInv, found
  <2>10. QED
    BY <2>4, <2>5, <2>6, <2>9 DEF SplicedInv
<1>3. QED
  BY <1>1, <1>2

LEMMA StutterMembers ==
  ASSUME SplicedInv, UNCHANGED vars
  PROVE  SplicedInv'
<1>1. UNCHANGED <<input, todo, status, user, tree, root, tracked>>
  BY DEF vars
<1>2. \A names : (StepIs(names)' <=> StepIs(names)) /\ (Past(names)' <=> Past(names))
  BY <1>1 DEF StepIs, Past
<1>3. /\ SplicerKind' = SplicerKind /\ Listed' = Listed /\ RootDir' = RootDir /\ (OneRoot' <=> OneRoot)
      /\ PackagePrefixes' = PackagePrefixes /\ Tables' = Tables /\ Dir' = Dir
  BY <1>1, Frozen, FrozenMembers DEF Dir
<1>4. ShapeInv' /\ LinkedInv'
  BY <1>1, <1>2, <1>3, FrozenParts DEF SplicedInv, ShapeInv, LinkedInv
<1>5. /\ \A dir : Spliced(dir, root, tree)' <=> Spliced(dir, root, tree)
      /\ \A dir : Spliced(dir, tree[RootToml], tree)' <=> Spliced(dir, tree[RootToml], tree)
      /\ RootMembers(root)' <=> RootMembers(root)
      /\ RootMembers(tree[RootToml])' <=> RootMembers(tree[RootToml])
      /\ IsRoot(root)' <=> IsRoot(root)
  <2>1. /\ \A dir : Spliced(dir, root', tree') <=> Spliced(dir, root, tree)
        /\ \A dir : Spliced(dir, tree'[RootToml], tree') <=> Spliced(dir, tree[RootToml], tree)
        /\ RootMembers(root') <=> RootMembers(root)
        /\ RootMembers(tree'[RootToml]) <=> RootMembers(tree[RootToml])
    BY <1>1
  <2>2. IsRoot(root)' <=> IsRoot(root)
    BY <1>1 DEF IsRoot
  <2>3. QED
    BY <1>1, <2>1, <2>2, FrozenParts
<1>6. MembersInv'
  BY <1>1, <1>2, <1>3, <1>5 DEF SplicedInv, MembersInv
<1>7. WrittenInv'
  BY <1>1, <1>2, <1>3, <1>5 DEF SplicedInv, WrittenInv
<1>8. TrackedInv'
  <2> DEFINE found == MembersAt(Manifest(RootDir), RootDir, LAMBDA p : p \in DOMAIN user)
  <2>1. Manifest(RootDir)' = Manifest(RootDir)
    BY <1>1, <1>3 DEF Manifest
  <2>2. found' = found
    BY <1>1, <1>3, <2>1 DEF MembersAt
  <2> HIDE DEF found
  <2>3. QED
    BY <1>1, <1>3, <2>2 DEF SplicedInv, TrackedInv, found
<1>9. QED
  BY <1>4, <1>6, <1>7, <1>8 DEF SplicedInv

LEMMA NextMembers == IInv /\ SettingsInv /\ SplicedInv /\ [Next]_vars => SplicedInv'
<1> SUFFICES ASSUME IInv, SettingsInv, SplicedInv, [Next]_vars PROVE SplicedInv'
  OBVIOUS
<1>1. IInv'
  BY NextIInv
<1>2. CASE Next
  <2>1. input' = input
    BY <1>2 DEF Next, PickKind, LinkRoot, RelinkDotCargo, ClearConfigs, InstallConfig, LinkMember, MergePatches,
         AddMetadata, AddDirect, WriteRoot, Relock, WriteSources, Publish, Broken, Passed, Fail
  <2>2. user' = user
    BY <1>1, <2>1, SameFiles
  <2>3. CASE PickKind
    BY <2>3, PickKindMembers
  <2>4. CASE LinkRoot
    BY <2>2, <2>4, LinkRootMembers
  <2>5. CASE RelinkDotCargo
    BY <2>2, <2>5, RelinkDotCargoMembers
  <2>6. CASE ClearConfigs
    BY <2>2, <2>6, ClearConfigsMembers
  <2>7. CASE InstallConfig
    BY <2>2, <2>7, InstallConfigMembers
  <2>8. CASE LinkMember
    BY <2>2, <2>8, LinkMemberMembers
  <2>9. CASE MergePatches
    BY <2>2, <2>9, MergePatchesMembers
  <2>10. CASE AddMetadata
    BY <2>2, <2>10, AddMetadataMembers
  <2>11. CASE AddDirect
    BY <2>2, <2>11, AddDirectMembers
  <2>12. CASE WriteRoot
    BY <2>2, <2>12, WriteRootMembers
  <2>13. CASE Relock
    BY <2>2, <2>13, RelockMembers
  <2>14. CASE WriteSources
    BY <2>2, <2>14, WriteSourcesMembers
  <2>15. CASE Publish
    BY <2>15, PublishMembers
  <2>16. CASE Broken
    BY <2>16, FailedMembers DEF Broken
  <2>17. QED
    BY <1>2, <2>3, <2>4, <2>5, <2>6, <2>7, <2>8, <2>9, <2>10, <2>11, <2>12, <2>13, <2>14, <2>15, <2>16 DEF Next
<1>3. QED
  BY <1>2, StutterMembers

LEMMA InitMembers == Init => SplicedInv
<1> SUFFICES ASSUME Init PROVE SplicedInv
  OBVIOUS
<1>1. PICK family \in Inputs : \E in \in family : input = in /\ tree = in.before
  BY DEF Init
<1>2. /\ status = "running" /\ Head(todo)[1] = "kind" /\ root = DefaultWorkspace /\ tracked = {}
      /\ tree = input.before /\ input \in family
  BY <1>1 DEF Init
<1>3. /\ DOMAIN tree \subseteq Seq(STRING)
      /\ \A p \in DOMAIN tree : p = DotCargo \/ (DotCargo \in DOMAIN tree /\ Len(p) = 2 /\ Front(p) = DotCargo)
  BY <1>2, InputsAssumption, MembersAssumption
<1>4. DotCargo \in Paths /\ Len(DotCargo) = 1 /\ DotCargo[1] = ".cargo"
  BY DotCargoPath, DistinctPaths DEF DotCargo
<1>5. Shaped(tree)
  <2>1. DOMAIN tree \subseteq Paths
    BY <1>3 DEF Paths, PathNames
  <2>2. ASSUME NEW p \in DOMAIN tree
        PROVE  Len(p) \in 1..2 /\ (Len(p) = 2 => Front(p) \in DOMAIN tree)
    <3>1. CASE p = DotCargo
      BY <1>4, <3>1
    <3>2. CASE DotCargo \in DOMAIN tree /\ Len(p) = 2 /\ Front(p) = DotCargo
      BY <3>2
    <3>3. QED
      BY <1>3, <3>1, <3>2
  <2>3. QED
    BY <2>1, <2>2 DEF Shaped
<1>6. ShapeInv
  <2>1. \A p \in DOMAIN tree : Len(p) = 2 => Front(p) = DotCargo
    BY <1>3, <1>4
  <2>2. QED
    BY <1>5, <2>1 DEF ShapeInv
<1>7. LinkedInv
  <2>1. ASSUME NEW p \in DOMAIN tree PROVE p[1] = ".cargo"
    <3>1. CASE p = DotCargo
      BY <1>4, <3>1
    <3>2. CASE Len(p) = 2 /\ Front(p) = DotCargo
      <4>1. p \in Seq(STRING) /\ Front(p) = SubSeq(p, 1, 1)
        BY <1>3, <3>2 DEF Front
      <4>2. p[1] \in STRING
        <5>1. 1 \in 1..Len(p)
          BY <3>2
        <5>2. QED
          BY <4>1, <5>1, ElementOfSeq
      <4>3. SubSeq(p, 1, 1)[1] = p[1]
        <5>1. \A i \in 1..1 : p[i] \in STRING
          BY <4>2
        <5>2. \A i \in 1..(1 - 1 + 1) : SubSeq(p, 1, 1)[i] = p[1 + i - 1]
          BY <5>1, SubSeqProperties
        <5>3. QED
          BY <5>2
      <4>4. QED
        BY <1>4, <3>2, <4>1, <4>3
    <3>3. QED
      BY <1>3, <3>1, <3>2
  <2>2. QED
    BY <1>2, <2>1 DEF LinkedInv, StepIs, Past, Names, Later, Finishing
<1>8. MembersInv
  <2>1. IsRoot(root) /\ root.workspace = TRUE /\ root.bazel = <<>>
    BY <1>2 DEF DefaultWorkspace, IsRoot, ManifestFields
  <2>2. <<>> \in Tables
    BY EmptySeq DEF Tables
  <2>3. QED
    BY <1>2, <2>1, <2>2 DEF MembersInv, StepIs, Past
<1>9. WrittenInv /\ TrackedInv
  BY <1>2 DEF WrittenInv, TrackedInv, StepIs, Past, Finishing
<1>10. QED
  BY <1>6, <1>7, <1>8, <1>9 DEF SplicedInv

(***************************************************************************)
(* What the invariant says of the end.                                     *)
(***************************************************************************)
LEMMA PathOfPackage ==
  ASSUME NEW at \in Paths, at # <<>>
  PROVE  Front(at) \o <<Last(at)>> = at
<1> DEFINE n == Len(at)
<1>1. n \in Nat /\ n # 0
  BY LenProperties, EmptySeq DEF Paths
<1>2. 1 \in 1..n /\ n \in 1..n
  BY <1>1
<1>3. SubSeq(at, 1, n) = SubSeq(at, 1, n - 1) \o <<at[n]>>
  BY <1>2, SubSeqRecursiveSecond DEF Paths
<1>4. SubSeq(at, 1, n) = at
  BY SubSeqFull DEF Paths
<1>5. QED
  BY <1>3, <1>4 DEF Front, Last

LEMMA MembersAtEnd ==
  ASSUME IInv, SettingsInv, SplicedInv, status = "done"
  PROVE  LET m == tree[RootToml] IN
         /\ Read(RootToml) = m /\ m.bazel[1].prefixes = PackagePrefixes /\ RootMembers(m)
         /\ \A dir \in Listed : dir \in Paths /\ Toml(dir) \in DOMAIN user /\ IsManifest(Manifest(dir))
         /\ OneRoot => RootDir \in Listed /\ RootLinked(tree)
         /\ ~OneRoot => \A dir \in Listed : Spliced(dir, m, tree)
         /\ m.members \subseteq PathNames
         /\ \A member : member \in Members <=>
              \/ \E name \in m.members : member = <<name>> /\ IsFile(<<name, "Cargo.toml">>)
              \/ m.package # NoName /\ member = <<>>
<1> DEFINE m == tree[RootToml]
<1>1. \A names : Past(names)
  BY DEF Past
<1>2. Read(RootToml) = m
  BY <1>1, RootIsRead DEF SettingsInv, FileInv
<1>3. /\ m.bazel[1].prefixes = PackagePrefixes /\ RootMembers(m)
      /\ ~OneRoot => \A dir \in Listed : Spliced(dir, m, tree)
  BY <1>1 DEF SplicedInv, WrittenInv
<1>4. \A dir \in Listed : dir \in Paths /\ Toml(dir) \in DOMAIN user /\ IsManifest(Manifest(dir))
  BY <1>1, InputFacts, Given DEF IInv, SplicedInv, MembersInv
<1>5. OneRoot => RootDir \in Listed /\ RootLinked(tree)
  BY <1>1, InputFacts, RootListed DEF IInv, SplicedInv, LinkedInv, OneRoot
<1> HIDE DEF m
<1>6. m.members \subseteq PathNames
  <2>1. CASE OneRoot
    <3>1. m.members = Manifest(RootDir).members /\ RootDir \in Listed
      BY <1>3, <1>5, <2>1 DEF RootMembers
    <3>2. QED
      BY <1>4, <3>1 DEF IsManifest, PathNames
  <2>2. CASE ~OneRoot
    <3>1. \A name \in m.members : \E dir \in Listed : Manifest(dir).package = name
      BY <1>3, <2>2 DEF RootMembers
    <3>2. \A dir \in Listed : Manifest(dir).package \in PathNames
      BY <1>4 DEF IsManifest, PathNames
    <3>3. QED
      BY <3>1, <3>2
  <2>3. QED
    BY <2>1, <2>2
<1>7. \A name \in m.members : Append(<<>>, name) = <<name>> /\ Toml(Append(<<>>, name)) = <<name, "Cargo.toml">>
  <2> TAKE name \in m.members
  <2>1. name \in PathNames
    BY <1>6
  <2>2. Append(<<>>, name) = <<name>> /\ Toml(<<name>>) = <<name, "Cargo.toml">>
    BY <2>1, MemberPath
  <2>3. QED
    BY <2>2
<1>8. Members = {Append(<<>>, name) : name \in {name \in m.members : IsFile(Toml(Append(<<>>, name)))}}
                  \union (IF m.package = NoName THEN {} ELSE {<<>>})
  BY <1>2 DEF Members, MembersAt
<1>9. ASSUME NEW member
      PROVE  member \in Members <=>
               \/ \E name \in m.members : member = <<name>> /\ IsFile(<<name, "Cargo.toml">>)
               \/ m.package # NoName /\ member = <<>>
  BY <1>7, <1>8
<1>10. QED
  BY <1>2, <1>3, <1>4, <1>5, <1>6, <1>9 DEF m

\* A package that is linked leads to itself.
LEMMA SplicedLeads ==
  ASSUME IInv, SettingsInv, SplicedInv, status = "done", ~OneRoot, NEW dir \in Listed
  PROVE  LET name == Manifest(dir).package IN
         /\ <<name>> \in Members /\ Toml(<<name>>) = MemberToml(dir)
         /\ Leads(MemberToml(dir)) = <<Toml(dir)>> /\ Read(MemberToml(dir)) = Manifest(dir)
<1> DEFINE name == Manifest(dir).package
<1>1. Spliced(dir, tree[RootToml], tree) /\ Toml(dir) \in DOMAIN user /\ tree[RootToml].members \subseteq PathNames
  BY MembersAtEnd
<1>2. Leads(MemberToml(dir)) = <<Toml(dir)>>
  BY <1>1 DEF Spliced, Leads, IsLink, Link
<1>3. IsFile(MemberToml(dir)) /\ Read(MemberToml(dir)) = Manifest(dir)
  BY <1>1, <1>2 DEF IsFile, Read, Manifest
<1>4. name \in tree[RootToml].members /\ IsFile(<<name, "Cargo.toml">>)
  BY <1>1, <1>3 DEF Spliced, MemberToml
<1>5. <<name>> \in Members
  BY <1>4, MembersAtEnd
<1>6. Toml(<<name>>) = MemberToml(dir)
  BY <1>1, <1>4, MemberPath DEF MemberToml
<1>7. QED
  BY <1>2, <1>3, <1>5, <1>6

\* A member of a root that is linked leads to the user's own.
LEMMA EntryLeads ==
  ASSUME IInv, SettingsInv, SplicedInv, status = "done", OneRoot, NEW name \in Manifest(RootDir).members
  PROVE  LET member == Append(RootDir, name) IN
         /\ Toml(<<name>>) = <<name, "Cargo.toml">>
         /\ member \in Paths /\ Front(Toml(member)) = member
         /\ IsFile(<<name, "Cargo.toml">>) =>
              Leads(<<name, "Cargo.toml">>) = <<Toml(member)>> /\ Toml(member) \in DOMAIN user
         /\ Toml(member) \in DOMAIN user /\ name \notin Reserved =>
              IsFile(<<name, "Cargo.toml">>)
<1> DEFINE member == Append(RootDir, name)
           toml == <<name, "Cargo.toml">>
<1>1. /\ RootDir \in Paths /\ RootDir \in Listed /\ RootLinked(tree) /\ IsManifest(Manifest(RootDir))
      /\ DOMAIN user \subseteq Paths
  BY MembersAtEnd, InputFacts DEF IInv
<1>2. name \in PathNames /\ name # ".cargo" /\ "Cargo.toml" \in PathNames
  BY <1>1 DEF IsManifest, PathNames
<1>3. /\ toml \in Paths /\ Len(toml) = 2 /\ toml[1] = name /\ Front(toml) = <<name>> /\ Last(toml) = "Cargo.toml"
      /\ Toml(<<name>>) = toml /\ <<name>>[1] = name
  BY <1>2, MemberPath
<1>4. member \in Paths /\ Front(Toml(member)) = member /\ Toml(member) = Append(member, "Cargo.toml") /\ Toml(member) \in Paths
  <2>1. member \in Paths
    BY <1>1, <1>2, PathOfEntry
  <2>2. QED
    BY <2>1, TomlIs
<1>5. toml \notin DOMAIN tree
  BY <1>1, <1>2, <1>3 DEF RootLinked
<1> HIDE DEF toml
<1>6. IsLink(<<name>>) => tree[<<name>>].to = member
  BY <1>1, <1>2, <1>3 DEF RootLinked, IsLink, Link
<1>7. Leads(toml) = IF IsLink(<<name>>) THEN <<Append(tree[<<name>>].to, "Cargo.toml")>> ELSE <<>>
  BY <1>3, <1>5 DEF Leads, IsLink
<1>8. ASSUME IsLink(<<name>>)
      PROVE  Leads(toml) = <<Toml(member)>> /\ (IsFile(toml) <=> Toml(member) \in DOMAIN user)
  <2>1. Leads(toml) = <<Toml(member)>>
    BY <1>4, <1>6, <1>7, <1>8
  <2>2. QED
    BY <2>1 DEF IsFile
<1>9. IsFile(toml) => IsLink(<<name>>)
  BY <1>5, <1>7 DEF IsFile
<1>10. Toml(member) \in DOMAIN user /\ name \notin Reserved => IsLink(<<name>>)
  <2> SUFFICES ASSUME Toml(member) \in DOMAIN user, name \notin Reserved PROVE IsLink(<<name>>)
    OBVIOUS
  <2>1. name \in Entries(RootDir)
    BY <1>1, <1>2, <1>4, EntryOfPath
  <2>2. QED
    BY <1>1, <2>1 DEF RootLinked, IsLink
<1>11. QED
  BY <1>3, <1>4, <1>8, <1>9, <1>10 DEF toml

LEMMA MembersFoundAtEnd ==
  ASSUME IInv, SettingsInv, SplicedInv
  PROVE  MembersFound
<1> SUFFICES ASSUME status = "done", NEW dir \in Listed,
                    SplicerKind = "workspace" => ParentWorkspace(dir) = {RootDir},
                    Manifest(dir).package # NoName
             PROVE  \E member \in Members :
                      \/ Leads(Toml(member)) = <<Toml(dir)>>
                      \/ member = <<>> /\ dir = RootDir /\ SplicerKind # "multi"
  BY DEF MembersFound
<1>1. CASE ~OneRoot
  <2>1. <<Manifest(dir).package>> \in Members /\ Leads(Toml(<<Manifest(dir).package>>)) = <<Toml(dir)>>
    BY <1>1, SplicedLeads
  <2>2. QED
    BY <2>1
<1>2. CASE OneRoot /\ dir = RootDir
  <2>1. tree[RootToml].package # NoName
    BY <1>2, MembersAtEnd DEF RootMembers
  <2>2. <<>> \in Members
    BY <2>1, MembersAtEnd
  <2>3. QED
    BY <1>2, <2>2 DEF OneRoot
<1>3. CASE OneRoot /\ dir # RootDir
  <2>1. RootDir \in Listed /\ Toml(dir) \in DOMAIN user /\ RootMembers(tree[RootToml])
    BY <1>3, MembersAtEnd
  <2>2. SplicerKind = "workspace"
    <3>1. Cardinality(Listed) # 1
      <4>1. IsFiniteSet(Listed)
        BY InputFacts DEF IInv
      <4>2. QED
        BY <1>3, <2>1, <4>1, FS_Singleton
    <3>2. QED
      BY <1>3, <3>1 DEF SplicerKind, OneRoot
  <2>3. RootDir \in (WorkspaceAbove(user, dir) \intersect Listed) \ {dir}
    BY <1>3, <2>1, <2>2 DEF ParentWorkspace
  <2>4. \E name \in Manifest(RootDir).members \ Reserved : dir = Append(RootDir, name)
    BY <2>3, MembersAssumption DEF IInv, InputInv, UserFilesUntouched, Listed, Manifest
  <2>5. PICK name \in Manifest(RootDir).members \ Reserved : dir = Append(RootDir, name)
    BY <2>4
  <2>6. /\ Toml(<<name>>) = <<name, "Cargo.toml">> /\ IsFile(<<name, "Cargo.toml">>)
        /\ Leads(<<name, "Cargo.toml">>) = <<Toml(dir)>>
    BY <1>3, <2>1, <2>5, EntryLeads
  <2>7. name \in tree[RootToml].members
    BY <1>3, <2>1, <2>5 DEF RootMembers
  <2>8. <<name>> \in Members
    BY <2>6, <2>7, MembersAtEnd
  <2>9. QED
    BY <2>6, <2>8
<1>4. QED
  BY <1>1, <1>2, <1>3

\* With one root, the Bazel package of a member is where its directory is in that of the root.
LEMMA PathIdOfEntry ==
  ASSUME IInv, SettingsInv, SplicedInv, status = "done", OneRoot, NEW name, NEW dir \in Paths
  PROVE  PathId(name, dir) = RootDir \o dir
<1>1. Read(RootToml).bazel[1].prefixes = PackagePrefixes /\ RootDir \in Listed
  BY MembersAtEnd
<1>2. PackagePrefixes = [workspace |-> input.listed[RootDir], packages |-> <<>>]
  BY DEF PackagePrefixes, OneRoot
<1>3. input.listed[RootDir] = RootDir
  BY <1>1, MembersAssumption DEF IInv, InputInv, Listed
<1>4. name \notin DOMAIN <<>>
  OBVIOUS
<1>5. QED
  BY <1>1, <1>2, <1>3, <1>4 DEF PathId

\* With many, it is where the package was listed, if it has the name of its directory.
LEMMA PathIdOfPackage ==
  ASSUME IInv, SettingsInv, SplicedInv, status = "done", ~OneRoot,
         NEW dir \in Listed, dir # <<>>, Last(dir) = Manifest(dir).package
  PROVE  PathId(Manifest(dir).package, <<Manifest(dir).package>>) = dir
<1> DEFINE name == Manifest(dir).package
           named == {d \in Listed : input.listed[d] # <<>>}
           one == CHOOSE d \in named : Manifest(d).package = name
<1>1. Read(RootToml).bazel[1].prefixes = PackagePrefixes
  BY MembersAtEnd
<1>2. \A d \in Listed : input.listed[d] = d
  BY MembersAssumption DEF IInv, InputInv, Listed
<1>3. dir \in named
  BY <1>2
<1>4. one \in named /\ Manifest(one).package = name
  BY <1>3
<1>5. one = dir
  <2>1. one \in Listed /\ one \in Paths /\ dir \in Paths
    BY <1>4, MembersAtEnd
  <2>2. tree[MemberToml(one)] = Link(Toml(one)) /\ tree[MemberToml(dir)] = Link(Toml(dir))
    BY <2>1, MembersAtEnd DEF Spliced
  <2>3. MemberToml(one) = MemberToml(dir)
    BY <1>4 DEF MemberToml
  <2> HIDE DEF one
  <2>4. Link(Toml(one)).to = Link(Toml(dir)).to
    BY <2>2, <2>3
  <2>5. Toml(one) = Toml(dir)
    BY <2>4 DEF Link
  <2>6. Front(Toml(one)) = one /\ Front(Toml(dir)) = dir
    BY <2>1, TomlIs
  <2>7. QED
    BY <2>5, <2>6
<1>6. PackagePrefixes =
        [workspace |-> <<>>,
         packages |-> [n \in {Manifest(d).package : d \in named} |->
           Front(input.listed[CHOOSE d \in named : Manifest(d).package = n])]]
  BY DEF PackagePrefixes, OneRoot
<1>7. name \in {Manifest(d).package : d \in named}
  BY <1>3
<1>8. name \in DOMAIN PackagePrefixes.packages /\ PackagePrefixes.packages[name] = Front(input.listed[one])
  <2> HIDE DEF named, name
  <2>1. QED
    BY <1>6, <1>7
<1>9. input.listed[one] = dir
  BY <1>2, <1>5
<1>10. PathId(name, <<name>>) = Front(dir) \o <<name>>
  BY <1>1, <1>8, <1>9 DEF PathId
<1>11. Front(dir) \o <<Last(dir)>> = dir
  BY MembersAtEnd, PathOfPackage
<1>12. QED
  BY <1>10, <1>11

LEMMA PathIdsAtEnd ==
  ASSUME IInv, SettingsInv, SplicedInv
  PROVE  PathIds
<1> DEFINE at(member) == IF member = <<>> THEN RootDir ELSE Front(Leads(Toml(member))[1])
<1> SUFFICES ASSUME status = "done", NEW member \in Members \ (IF SplicerKind = "multi" THEN {<<>>} ELSE {}),
                    SplicerKind = "multi" => at(member) # <<>> /\ Last(at(member)) = PackageAt(member)
             PROVE  PathId(PackageAt(member), member) = at(member)
  BY DEF PathIds
<1>1. CASE OneRoot /\ member = <<>>
  <2>1. RootDir \in Paths /\ <<>> \in Paths
    BY <1>1, MembersAtEnd, EmptySeq DEF Paths
  <2>2. PathId(PackageAt(member), member) = RootDir \o <<>>
    BY <1>1, <2>1, PathIdOfEntry
  <2>3. RootDir \o <<>> = RootDir
    BY <2>1, ConcatEmptySeq DEF Paths
  <2>4. QED
    BY <1>1, <2>2, <2>3
<1>2. CASE OneRoot /\ member # <<>>
  <2>1. PICK name \in tree[RootToml].members : member = <<name>> /\ IsFile(<<name, "Cargo.toml">>)
    BY <1>2, MembersAtEnd
  <2>2. name \in Manifest(RootDir).members /\ name \in PathNames
    BY <1>2, MembersAtEnd DEF RootMembers
  <2>3. /\ Toml(<<name>>) = <<name, "Cargo.toml">> /\ Leads(<<name, "Cargo.toml">>) = <<Toml(Append(RootDir, name))>>
        /\ Front(Toml(Append(RootDir, name))) = Append(RootDir, name)
    BY <1>2, <2>1, <2>2, EntryLeads
  <2>4. at(member) = Append(RootDir, name)
    BY <1>2, <2>1, <2>3
  <2>5. member \in Paths /\ RootDir \in Paths
    BY <1>2, <2>1, <2>2, PathOfOne, MembersAtEnd
  <2>6. PathId(PackageAt(member), member) = RootDir \o member
    BY <1>2, <2>5, PathIdOfEntry
  <2>7. RootDir \o <<name>> = Append(RootDir, name)
    BY <2>2, <2>5, AppendIsConcat DEF Paths
  <2>8. QED
    BY <2>1, <2>4, <2>6, <2>7
<1>3. CASE ~OneRoot
  <2>1. member # <<>>
    BY <1>3 DEF OneRoot
  <2>2. PICK name \in tree[RootToml].members : member = <<name>>
    BY <2>1, MembersAtEnd
  <2>3. PICK dir \in Listed : Manifest(dir).package = name
    BY <1>3, MembersAtEnd DEF RootMembers
  <2>4. /\ Toml(<<name>>) = MemberToml(dir)
        /\ Leads(MemberToml(dir)) = <<Toml(dir)>> /\ Read(MemberToml(dir)) = Manifest(dir)
    BY <1>3, <2>3, SplicedLeads
  <2>5. Front(Toml(dir)) = dir
    BY MembersAtEnd, TomlIs
  <2>6. at(member) = dir /\ PackageAt(member) = name
    BY <2>1, <2>2, <2>3, <2>4, <2>5 DEF PackageAt
  <2>7. dir # <<>> /\ Last(dir) = Manifest(dir).package
    BY <1>3, <2>3, <2>6 DEF OneRoot
  <2>8. PathId(name, <<name>>) = dir
    BY <1>3, <2>3, <2>7, PathIdOfPackage
  <2>9. QED
    BY <2>2, <2>6, <2>8
<1>4. QED
  BY <1>1, <1>2, <1>3

LEMMA MembersTrackedAtEnd ==
  ASSUME IInv, SettingsInv, SplicedInv
  PROVE  MembersTracked
<1> SUFFICES ASSUME status = "done", SplicerKind = "workspace", NEW member \in Members,
                    member = <<>> => Manifest(RootDir).package # NoName
             PROVE  RootDir \o member \in tracked
  BY DEF MembersTracked
<1>1. OneRoot /\ RootDir \in Paths
  BY MembersAtEnd DEF OneRoot
<1>2. tracked = {Append(RootDir, name) : name \in {name \in Manifest(RootDir).members :
                                                     Toml(Append(RootDir, name)) \in DOMAIN user}}
                  \union (IF Manifest(RootDir).package = NoName THEN {} ELSE {RootDir})
  BY DEF SplicedInv, TrackedInv, MembersAt
<1>3. CASE member = <<>>
  <2>1. RootDir \o <<>> = RootDir
    BY <1>1, ConcatEmptySeq DEF Paths
  <2>2. QED
    BY <1>2, <1>3, <2>1
<1>4. CASE member # <<>>
  <2>1. PICK name \in tree[RootToml].members : member = <<name>> /\ IsFile(<<name, "Cargo.toml">>)
    BY <1>4, MembersAtEnd
  <2>2. name \in Manifest(RootDir).members /\ name \in PathNames
    BY <1>1, MembersAtEnd DEF RootMembers
  <2>3. Toml(Append(RootDir, name)) \in DOMAIN user
    BY <1>1, <2>1, <2>2, EntryLeads
  <2>4. RootDir \o <<name>> = Append(RootDir, name)
    BY <1>1, <2>2, AppendIsConcat DEF Paths
  <2>5. QED
    BY <1>2, <2>1, <2>2, <2>3, <2>4
<1>5. QED
  BY <1>3, <1>4

\* Cargo finds in the spliced workspace the packages that were listed, each as
\* itself, rendering finds the Bazel packages they are in, and Bazel watches every
\* member of a workspace (splice_workspace, inject_workspace_members,
\* WorkspaceMetadata::new and get_package_path_id), for any files, manifests and
\* configs.
THEOREM MembersAreSpliced == Spec => []MembersSpliced
<1>1. IInv /\ SettingsInv /\ SplicedInv => MembersSpliced
  <2> SUFFICES ASSUME IInv, SettingsInv, SplicedInv PROVE MembersSpliced
    OBVIOUS
  <2>1. TypeOK
    <3>1. DOMAIN input = Fields
      BY MembersAssumption DEF IInv, InputInv
    <3>2. QED
      BY <3>1 DEF SplicedInv, ShapeInv, Shaped, MembersInv, TrackedInv, Tables, TypeOK
  <2>2. QED
    BY <2>1, MembersFoundAtEnd, PathIdsAtEnd, MembersTrackedAtEnd DEF MembersSpliced
<1>2. QED
  BY <1>1, InitIInv, NextIInv, InitSettings, NextSettings, InitMembers, NextMembers, PTL DEF Spec
=============================================================================
