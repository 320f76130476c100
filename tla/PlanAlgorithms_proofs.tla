----------------------- MODULE PlanAlgorithms_proofs -----------------------
(***************************************************************************)
(* Proofs about what leads from the target of a check to the steps of its  *)
(* plan: the commit a target is resolved to, the partial checkout detection*)
(* reads, and the steps of an automatic plan, with what their tests use    *)
(* and what a broader profile runs of a narrower one.  For any commits,    *)
(* links and files, and any movement of the refs.                          *)
(***************************************************************************)
EXTENDS StorageAlgorithms_proofs

Target ==
  [of : {"target"}, ref : Resolution!Refs, url : Resolution!UrlRefs, before : Resolution!Remotes,
   after : Resolution!Remotes, served : SUBSET Resolution!Objects, component : BOOLEAN]

(* What peeling makes of an object.                                        *)
LEMMA PeeledObjects ==
  /\ \A o \in Resolution!Objects : Resolution!Peeled(o) \in Commits
  /\ \A c \in Commits : Resolution!Peeled(c) = c
  /\ Resolution!Peeled(Resolution!NoObject) = Resolution!NoObject
  /\ Resolution!NoObject \notin Resolution!Objects
<1>1. Resolution!NoObject \notin Resolution!Tags
  BY DEF Resolution!NoObject, Resolution!Tags, Resolution!TagOf
<1>2. \A t \in Resolution!Tags : t[2] \in Commits
  BY DEF Resolution!Tags, Resolution!TagOf
<1> QED BY <1>1, <1>2, CommitsAssumption DEF Resolution!Peeled, Resolution!Objects

(* The kinds of refs.                                                      *)
LEMMA KindsOfRefs ==
  ASSUME NEW ref \in Resolution!Refs \cup Resolution!UrlRefs
  PROVE  \/ ref.kind = "none" /\ ref = Resolution!NoRef
         \/ ref.kind = "short" /\ ref = Resolution!Short
         \/ ref.kind = "full" /\ ref.name \in Resolution!Names
         \/ ref.kind = "id" /\ ref.object \in Resolution!Objects
BY DEF Resolution!Refs, Resolution!UrlRefs, Resolution!NoRef, Resolution!Short, Resolution!Full,
       Resolution!Id, Resolution!Names, Resolution!Objects

(* What _resolve_github finds is what the target means at that time.       *)
LEMMA ResolvedAsMeant ==
  ASSUME NEW x \in Target, 
         Resolution!ResolveRepository(x.url, x.ref, x.before) # Resolution!Failed
  PROVE  LET repository == Resolution!ResolveRepository(x.url, x.ref, x.before)
         IN  /\ repository.sha \in Resolution!Objects
             /\ Resolution!Peeled(repository.sha) = Resolution!Meant(x, x.before)
             /\ repository.ref \in Resolution!Refs \cup Resolution!UrlRefs
             /\ repository.ref.kind # "none"
             /\ repository.ref.kind = "id" => repository.ref.object = repository.sha
<1> DEFINE repository == Resolution!ResolveRepository(x.url, x.ref, x.before)
           ref == IF x.ref # Resolution!NoRef THEN x.ref ELSE x.url
           before == x.before
<1>1. ref \in Resolution!Refs \cup Resolution!UrlRefs /\ before \in Resolution!Remotes
  BY DEF Target
<1>2. repository = Resolution!ResolveGithub(ref, before)
  BY DEF Resolution!ResolveRepository
<1>3. /\ \A n \in Resolution!Names : before[n] = Resolution!NoObject \/ before[n] \in Resolution!Objects
      /\ before["heads/n"] \in Commits \cup {Resolution!NoObject}
      /\ "heads/n" \in Resolution!Names /\ "tags/n" \in Resolution!Names
  BY <1>1 DEF Resolution!Remotes, Resolution!Names, Resolution!Objects
<1>4. Resolution!Meant(x, before)
        = CASE ref.kind = "id" -> Resolution!Peeled(ref.object)
            [] ref.kind = "full" -> Resolution!Peeled(before[ref.name])
            [] ref.kind = "none" -> before["heads/n"]
            [] ref.kind = "short" -> IF before["heads/n"] # Resolution!NoObject THEN before["heads/n"]
                                     ELSE Resolution!Peeled(before["tags/n"])
  BY DEF Resolution!Meant
<1> HIDE DEF ref, before
<1>5. CASE ref.kind = "none"
  <2>1. repository = Resolution!Repository(before["heads/n"], Resolution!Short)
    BY <1>2, <1>5 DEF Resolution!ResolveGithub
  <2>2. before["heads/n"] \in Commits /\ repository.sha = before["heads/n"] /\ repository.ref = Resolution!Short
    BY <1>3, <2>1 DEF Resolution!Repository
  <2> QED BY <1>4, <1>5, <2>2, PeeledObjects
          DEF before, Resolution!Refs, Resolution!Short, Resolution!Objects
<1>6. CASE ref.kind = "id"
  <2>1. repository = Resolution!Repository(ref.object, ref)
    BY <1>2, <1>6 DEF Resolution!ResolveGithub
  <2>2. ref.object \in Resolution!Objects
    BY <1>1, <1>6, KindsOfRefs
  <2>3. repository.sha = ref.object /\ repository.ref = ref
    BY <2>1 DEF Resolution!Repository
  <2> QED BY <1>1, <1>4, <1>6, <2>2, <2>3 DEF before
<1>7. CASE ref.kind \in {"short", "full"}
  <2> DEFINE candidates == Resolution!Candidates(ref, before)
             there == {i \in DOMAIN candidates : candidates[i] # Resolution!NoObject}
             first == CHOOSE i \in there : \A j \in there : i <= j
  <2>1. repository = IF there = {} THEN Resolution!Failed ELSE Resolution!Repository(candidates[first], ref)
    BY <1>2, <1>7 DEF Resolution!ResolveGithub
  <2>2. CASE ref.kind = "full"
    <3>1. candidates = <<before[ref.name]>> /\ ref.name \in Resolution!Names
      BY <1>1, <2>2, KindsOfRefs DEF Resolution!Candidates
    <3>2. there \subseteq {1} /\ candidates[1] = before[ref.name]
      BY <3>1
    <3>3. there = {1} /\ repository = Resolution!Repository(candidates[first], ref)
      BY <2>1, <3>2
    <3>4. first = 1
      BY <3>3
    <3>5. before[ref.name] \in Resolution!Objects
      BY <1>3, <3>1, <3>2, <3>3
    <3>6. repository.sha = before[ref.name] /\ repository.ref = ref
      BY <3>2, <3>3, <3>4, <3>5, PeeledObjects DEF Resolution!Repository
    <3> QED BY <1>1, <1>4, <2>2, <3>5, <3>6 DEF before
  <2>3. CASE ref.kind = "short"
    <3>1. candidates = <<before["heads/n"], Resolution!Peeled(before["tags/n"]), before["tags/n"]>>
      BY <2>3 DEF Resolution!Candidates
    <3>2. /\ DOMAIN candidates = 1..3 /\ candidates[1] = before["heads/n"]
          /\ candidates[2] = Resolution!Peeled(before["tags/n"]) /\ candidates[3] = before["tags/n"]
      BY <3>1
    <3> HIDE DEF candidates
    <3>3. there # {} /\ repository = Resolution!Repository(candidates[first], ref)
      BY <2>1
    <3>4. CASE before["heads/n"] # Resolution!NoObject
      <4>1. 1 \in there /\ \A j \in there : 1 <= j
        BY <3>2, <3>4
      <4>2. first = 1
        BY <3>2, <4>1
      <4>3. before["heads/n"] \in Commits /\ before["heads/n"] \in Resolution!Objects
        BY <1>3, <3>4 DEF Resolution!Objects
      <4>4. repository.sha = before["heads/n"] /\ repository.ref = ref
        BY <3>2, <3>3, <3>4, <4>2 DEF Resolution!Repository
      <4> QED BY <1>1, <1>4, <2>3, <3>4, <4>3, <4>4, PeeledObjects DEF before
    <3>5. CASE before["heads/n"] = Resolution!NoObject
      <4>1. before["tags/n"] # Resolution!NoObject
        BY <3>2, <3>3, <3>5, PeeledObjects
      <4>2. before["tags/n"] \in Resolution!Objects /\ Resolution!Peeled(before["tags/n"]) \in Commits
        BY <1>3, <4>1, PeeledObjects
      <4>3. 2 \in there /\ \A j \in there : 2 <= j
        BY <3>2, <3>5, <4>2, PeeledObjects DEF Resolution!Objects
      <4>4. first = 2
        BY <3>2, <4>3
      <4>5. repository.sha = Resolution!Peeled(before["tags/n"]) /\ repository.ref = ref
        BY <3>2, <3>3, <4>2, <4>3, <4>4 DEF Resolution!Repository
      <4> QED BY <1>1, <1>4, <2>3, <3>5, <4>2, <4>5, PeeledObjects DEF before, Resolution!Objects
    <3> QED BY <3>4, <3>5
  <2> QED BY <1>7, <2>2, <2>3
<1> QED BY <1>1, <1>5, <1>6, <1>7, KindsOfRefs

(* However the refs move between the request that resolves a target and    *)
(* the fetch, what is checked out is the commit the target meant when it   *)
(* was resolved; and where the remote still has it under a ref that is     *)
(* still there, it is checked out.                                         *)
THEOREM TheCommitMeant ==
  ASSUME input.of = "target" => input \in Target
  PROVE  ExactCommit
<1> SUFFICES ASSUME NEW x \in Target PROVE Resolution!ExactCommitChecked(x)
  BY DEF ExactCommit
<1> DEFINE repository == Resolution!ResolveRepository(x.url, x.ref, x.before)
           sha == repository.sha
           objects == Resolution!MaterializeRemote(repository, x.after, x.served)
           out == Resolution!CheckedOut(x)
<1>1. CASE repository = Resolution!Failed
  BY <1>1 DEF Resolution!ExactCommitChecked, Resolution!CheckedOut
<1>2. CASE repository # Resolution!Failed
  <2>1. /\ sha \in Resolution!Objects
        /\ Resolution!Peeled(sha) = Resolution!Meant(x, x.before)
        /\ repository.ref \in Resolution!Refs \cup Resolution!UrlRefs
        /\ repository.ref.kind # "none"
        /\ repository.ref.kind = "id" => repository.ref.object = sha
    BY <1>2, ResolvedAsMeant
  <2>2. out = Resolution!CompleteMaterialization(repository, objects, x.component)
    BY <1>2 DEF Resolution!CheckedOut
  <2>3. out = IF sha \notin objects THEN Resolution!NoObject
              ELSE IF x.component
              THEN (IF sha \in Commits THEN sha ELSE Resolution!NoObject)
              ELSE Resolution!Peeled(sha)
    BY <2>2 DEF Resolution!CompleteMaterialization
  <2>4. Resolution!Peeled(sha) # Resolution!NoObject
    BY <2>1, PeeledObjects DEF Resolution!Objects
  <2>5. ASSUME sha \in x.served,
               Resolution!GitReads(repository.ref, x.after, x.served) # Resolution!NoObject
        PROVE  sha \in objects
    <3> DEFINE first == Resolution!FetchShallow(repository.ref, x.after, x.served)
    <3>1. Resolution!GitReads(Resolution!Id(sha), x.after, x.served) = sha
      BY <2>5 DEF Resolution!GitReads, Resolution!Id
    <3>2. sha \in Resolution!FetchShallow(Resolution!Id(sha), x.after, x.served)
      BY <2>1, <3>1, PeeledObjects DEF Resolution!FetchShallow
    <3>3. first # {}
      BY <2>5 DEF Resolution!FetchShallow
    <3>4. objects = IF first = {} \/ sha \in first \/ repository.ref = Resolution!Id(sha) THEN first
                    ELSE first \cup Resolution!FetchShallow(Resolution!Id(sha), x.after, x.served)
      BY DEF Resolution!MaterializeRemote
    <3> QED BY <3>2, <3>3, <3>4
  <2> HIDE DEF repository, objects, out
  <2>6. out # Resolution!NoObject =>
          out = Resolution!Meant(x, x.before) /\ Resolution!Peeled(sha) = out
    BY <2>1, <2>3, PeeledObjects
  <2>7. sha \in objects /\ (x.component => sha \in Commits) => out # Resolution!NoObject
    BY <2>1, <2>3, <2>4, PeeledObjects
  <2> QED BY <1>2, <2>5, <2>6, <2>7 DEF Resolution!ExactCommitChecked, repository, out
<1> QED BY <1>1, <1>2
-----------------------------------------------------------------------------
(* The lock of a Ruby step: every line of CHECKSUMS has a sum of a kind.   *)
IsLock(lock) ==
  \A i \in DOMAIN lock.checksums : lock.checksums[i].sum \in Nat \cup {Plans!BadSum}

(* A spec with a sum has one line, and the sum of that line.               *)
LEMMA OneLine ==
  ASSUME NEW lock, IsLock(lock), Plans!Mappable(lock), NEW s, Plans!Sum(lock, s) # Plans!NoSum
  PROVE  \E i \in DOMAIN lock.checksums :
           /\ {j \in DOMAIN lock.checksums : lock.checksums[j].spec = s} = {i}
           /\ lock.checksums[i].sum = Plans!Sum(lock, s) /\ Plans!Sum(lock, s) > 0
<1> DEFINE sums == lock.checksums
           lines == {i \in DOMAIN sums : sums[i].spec = s}
           all == Plans!ToSet(sums)
           chosen == CHOOSE line \in all : line.spec = s
<1>1. Plans!Sum(lock, s) = chosen.sum /\ s \in Plans!Summed(lock)
  BY DEF Plans!Sum
<1>2. \A i \in DOMAIN sums : sums[i].sum \in Nat \cup {Plans!BadSum}
  BY DEF IsLock
<1>3. \A i \in DOMAIN sums : sums[i].sum # -1
  BY DEF Plans!Mappable, Plans!BadSum
<1>4. \A i, j \in lines : i = j
  BY DEF Plans!Mappable
<1> HIDE DEF sums
<1>5. all = {sums[i] : i \in DOMAIN sums}
  BY DEF Plans!ToSet
<1>6. PICK line \in all : line.spec = s
  BY <1>1 DEF Plans!Summed, sums
<1> HIDE DEF chosen
<1>7. chosen \in all /\ chosen.spec = s
  BY <1>6 DEF chosen
<1>8. PICK k \in DOMAIN sums : chosen = sums[k]
  BY <1>5, <1>7
<1>9. lines = {k}
  BY <1>4, <1>7, <1>8
<1>10. sums[k].sum \in Nat \cup {-1} /\ sums[k].sum # -1
  BY <1>2, <1>3, <1>8 DEF Plans!BadSum
<1>11. sums[k].sum \in Nat
  BY <1>10
<1>12. sums[k].sum # 0
  BY <1>1, <1>8 DEF Plans!NoSum
<1>13. sums[k].sum > 0
  BY <1>11, <1>12
<1> QED BY <1>1, <1>8, <1>9, <1>13 DEF sums

(* Whatever a Gemfile.lock says, a Ruby step downloads each archive with   *)
(* the one digest its line names, from rubygems.org, and nothing else.     *)
THEOREM OnlyPinnedGems ==
  ASSUME input.of = "root" => IsLock(input.root.ruby.lock)
  PROVE  RubyPinned
<1> SUFFICES ASSUME input.of = "root", Plans!DetectRuby(input.root.ruby) # Plans!NoStep
             PROVE  Plans!Pinned(input.root.ruby.lock)
  BY DEF RubyPinned, Plans!DownloadsPinned
<1> DEFINE lock == input.root.ruby.lock
           sums == lock.checksums
<1>1. Plans!Accepted(lock, input.root.ruby) /\ IsLock(lock)
  BY DEF Plans!DetectRuby
<1> HIDE DEF lock
<1>2. Plans!GemSources(lock) /\ Plans!PathSources(lock) /\ Plans!Mappable(lock) /\ Plans!ExactSums(lock)
  BY <1>1 DEF Plans!Accepted
<1>3. ASSUME NEW d \in Plans!Downloads(lock)
      PROVE  \E i \in DOMAIN lock.checksums :
               /\ {j \in DOMAIN lock.checksums : lock.checksums[j].spec = d.spec} = {i}
               /\ lock.checksums[i].sum = d.sum /\ d.sum > 0
  <2>1. d.spec \in Plans!Required(lock) /\ d.sum = Plans!Sum(lock, d.spec)
    BY DEF Plans!Downloads
  <2>2. Plans!Sum(lock, d.spec) # Plans!NoSum
    BY <1>2, <2>1 DEF Plans!ExactSums
  <2> QED BY <1>1, <1>2, <2>1, <2>2, OneLine
<1>4. Plans!Archives(lock) = Plans!Required(lock)
  <2>1. \A s \in Plans!Required(lock) : [spec |-> s, sum |-> Plans!Sum(lock, s)].spec = s
    OBVIOUS
  <2> QED BY <2>1 DEF Plans!Archives, Plans!Downloads
<1>5. \A x : Plans!ToSet(<<x>>) = {x}
  BY DEF Plans!ToSet
<1>6. \A s \in lock.gems : Plans!ToSet(s.remotes) = {Plans!RubyGems} /\ s.specs \subseteq Plans!Archives(lock)
  BY <1>2, <1>4, <1>5 DEF Plans!GemSources, Plans!Required, Plans!SpecsOf
<1>7. \A s \in lock.paths : Plans!ToSet(s.remotes) = {"inside"}
  BY <1>2, <1>5 DEF Plans!PathSources
<1>8. ASSUME NEW i \in DOMAIN sums
      PROVE  sums[i].spec \in Plans!Archives(lock) \cup UNION {s.specs : s \in lock.paths}
  <2>1. sums[i] \in Plans!ToSet(lock.checksums)
    BY DEF Plans!ToSet
  <2>2. sums[i].spec \in Plans!Summed(lock)
    BY <2>1 DEF Plans!Summed
  <2>3. \/ sums[i].spec \in Plans!Required(lock)
        \/ sums[i].spec \in Plans!SpecsOf(lock.paths)
    BY <1>2, <2>2 DEF Plans!ExactSums
  <2> QED BY <1>4, <2>3 DEF Plans!SpecsOf
<1>9. {sums[i].spec : i \in DOMAIN sums} \subseteq Plans!Archives(lock) \cup UNION {s.specs : s \in lock.paths}
  BY <1>8
<1>10. Plans!Pinned(lock)
  <2>1. \A d \in Plans!Downloads(lock) :
          \E i \in DOMAIN lock.checksums :
            /\ {j \in DOMAIN lock.checksums : lock.checksums[j].spec = d.spec} = {i}
            /\ lock.checksums[i].sum = d.sum /\ d.sum > 0
    BY <1>3
  <2> QED BY <1>6, <1>7, <1>9, <2>1, Zenon DEF Plans!Pinned
<1> QED BY <1>10 DEF lock

-----------------------------------------------------------------------------
(* What materialize_plan_inputs checks out, for any commit.                *)

LEMMA FinitePaths == IsFiniteSet(Paths)
<1> DEFINE a == {} \cup {"config"} \cup {"package"} \cup {"solution"} \cup {"second"} \cup {"lock"}
           b == a \cup {"rakefile"} \cup {"task"} \cup {"entry"} \cup {"project"} \cup {"nested"}
           c == b \cup {"tests"} \cup {"real"} \cup {"hop"} \cup {"shared"}
<1>1. IsFiniteSet({})
  BY FS_EmptySet
<1>2. IsFiniteSet(a)
  BY <1>1, FS_AddElement
<1> HIDE DEF a
<1>3. IsFiniteSet(b)
  BY <1>2, FS_AddElement
<1> HIDE DEF b
<1>4. IsFiniteSet(c)
  BY <1>3, FS_AddElement
<1>5. Paths = c
  BY DEF Paths, Inputs, c, b, a
<1> QED BY <1>4, <1>5

(* How often links are followed is how many there are.                     *)
Links(tree) == {p \in Paths : tree[p].kind = "link"}

LEMMA AsManyAsLinks ==
  ASSUME NEW tree
  PROVE  IsFiniteSet(Links(tree)) /\ Longest(tree) = Cardinality(Links(tree)) /\ Longest(tree) \in Nat
<1>1. IsFiniteSet(Links(tree))
  BY FinitePaths, FS_Subset DEF Links
<1> QED BY <1>1, FS_CardinalityType DEF Longest, Links

(* The rounds of Follow.                                                   *)
FollowRun(r, tree, from) ==
  /\ r \in [0..Longest(tree) -> SUBSET Committed(tree)]
  /\ r[0] = from
  /\ \A i \in 1..Longest(tree) : r[i] = FollowOnce(tree, r[i - 1])
  /\ Follow(tree, from) = r[Longest(tree)]

LEMMA FollowLoop ==
  ASSUME NEW tree, NEW from \in SUBSET Committed(tree)
  PROVE  \E r : FollowRun(r, tree, from)
<1> DEFINE n == Longest(tree)
           Sets == SUBSET Committed(tree)
           Farther(s) == FollowOnce(tree, s)
           step == [x \in Sets \X (1..n) |-> Farther(x[1])]
           Body(f) == [i \in 0..n |-> IF i = 0 THEN from ELSE Farther(f[i - 1])]
           r == CHOOSE f : f = Body(f)
<1>1. n \in Nat /\ from \in Sets /\ \A s \in Sets : Farther(s) \in Sets
  BY AsManyAsLinks DEF FollowOnce
<1>2. Follow(tree, from) = r[n]
  BY DEF Follow
<1> HIDE DEF n, Sets, Farther
<1>3. IsLoop(step, n, Sets)
  BY <1>1 DEF IsLoop
<1>4. PICK f : IsRun(f, n, Sets, from, step)
  <2> HIDE DEF step
  <2> QED BY <1>1, <1>3, LoopRuns
<1>5. ASSUME NEW i \in 1..n PROVE f[i] = Farther(f[i - 1])
  <2>1. f[i - 1] \in Sets
    BY <1>1, <1>4 DEF IsRun
  <2> QED BY <1>4, <2>1 DEF IsRun
<1>6. f = Body(f)
  BY <1>1, <1>4, <1>5 DEF IsRun
<1>7. r = Body(r)
  <2> HIDE DEF Body
  <2> QED BY <1>6
<1> HIDE DEF r
<1>8. r[0] = from /\ \A i \in 1..n : r[i] = Farther(r[i - 1])
  <2>1. \A i \in 0..n : r[i] = IF i = 0 THEN from ELSE Farther(r[i - 1])
    BY <1>7
  <2> QED BY <1>1, <2>1
<1>9. \A i \in 0..n : r[i] \in Sets
  <2> DEFINE P == {i \in 0..n : r[i] \in Sets}
  <2>1. 0 \in P
    BY <1>1, <1>8
  <2>2. ASSUME NEW i \in 1..n, i - 1 \in P PROVE i \in P
    <3>1. i \in 0..n
      BY <1>1
    <3> QED BY <1>1, <1>8, <2>2, <3>1
  <2> HIDE DEF P
  <2>3. \A i \in 0..n : i \in P
    BY <1>1, <2>1, <2>2, StepInduction
  <2> QED BY <2>3 DEF P
<1>10. r \in [0..n -> Sets]
  BY <1>7, <1>9
<1> QED BY <1>2, <1>8, <1>10 DEF n, Sets, Farther, FollowRun

(* Closed: what its links lead to in the commit is there too.              *)
Closed(tree, S) ==
  /\ S \subseteq Committed(tree)
  /\ \A p \in S : tree[p].kind = "link" /\ tree[p].to \in Committed(tree) => tree[p].to \in S

(* As many rounds as there are links reach all that links lead to: a round *)
(* that still adds a path has a link of its own to add it by.              *)
LEMMA FollowCloses ==
  ASSUME NEW tree, NEW from \in SUBSET Committed(tree)
  PROVE  from \subseteq Follow(tree, from) /\ Closed(tree, Follow(tree, from))
<1> DEFINE n == Longest(tree)
           More(s) == {p \in s : /\ tree[p].kind = "link" /\ tree[p].to \in Committed(tree)
                                 /\ tree[p].to \notin s}
<1>1. PICK r : FollowRun(r, tree, from)
  BY FollowLoop
<1>2. n \in Nat /\ n = Cardinality(Links(tree)) /\ IsFiniteSet(Links(tree))
  BY AsManyAsLinks
<1>3. /\ \A i \in 0..n : r[i] \subseteq Committed(tree)
      /\ r[0] = from /\ r[n] = Follow(tree, from)
      /\ \A i \in 1..n : r[i] = FollowOnce(tree, r[i - 1])
  BY <1>1 DEF FollowRun
<1> HIDE DEF n
<1>4. \A i \in 1..n : r[i - 1] \subseteq r[i]
  BY <1>3 DEF FollowOnce
<1>5. ASSUME NEW i \in 0..n
      PROVE  \A j \in i..n : r[i] \subseteq r[j]
  <2> DEFINE m == n - i
             P == {k \in 0..m : r[i] \subseteq r[i + k]}
  <2>1. m \in Nat /\ 0 \in P
    BY <1>2
  <2>2. ASSUME NEW k \in 1..m, k - 1 \in P PROVE k \in P
    <3>1. i + k \in 1..n /\ (i + k) - 1 = i + (k - 1) /\ k \in 0..m
      BY <1>2
    <3> QED BY <1>4, <2>2, <3>1
  <2> HIDE DEF P, m
  <2>3. \A k \in 0..m : k \in P
    BY <2>1, <2>2, StepInduction
  <2>4. ASSUME NEW j \in i..n PROVE r[i] \subseteq r[j]
    <3>1. j - i \in 0..m /\ i + (j - i) = j
      BY <1>2 DEF m
    <3> QED BY <2>3, <3>1 DEF P
  <2> QED BY <2>4
<1>6. from \subseteq Follow(tree, from)
  BY <1>2, <1>3, <1>5
<1>7. ASSUME NEW i \in 1..n, NEW p \in More(r[i - 1]) PROVE tree[p].to \in r[i]
  BY <1>3 DEF FollowOnce
<1>8. ASSUME NEW i \in 1..n, More(r[i - 1]) = {} PROVE r[i] = r[i - 1]
  <2>1. \A p \in r[i - 1] : tree[p].kind = "link" /\ tree[p].to \in Committed(tree) => tree[p].to \in r[i - 1]
    BY <1>8
  <2>2. FollowOnce(tree, r[i - 1]) = r[i - 1]
    BY <2>1 DEF FollowOnce
  <2> QED BY <1>3, <2>2
<1>9. ASSUME More(r[n]) # {} PROVE FALSE
  <2>1. ASSUME NEW i \in 0..n PROVE More(r[i]) # {}
    <3> SUFFICES ASSUME More(r[i]) = {} PROVE FALSE
      OBVIOUS
    <3> DEFINE m == n - i
               P == {k \in 0..m : More(r[i + k]) = {}}
    <3>1. m \in Nat /\ 0 \in P
      BY <1>2
    <3>2. ASSUME NEW k \in 1..m, k - 1 \in P PROVE k \in P
      <4>1. i + k \in 1..n /\ (i + k) - 1 = i + (k - 1) /\ k \in 0..m
        BY <1>2
      <4>2. More(r[(i + k) - 1]) = {}
        BY <3>2, <4>1
      <4> HIDE DEF More
      <4> QED BY <1>8, <4>1, <4>2
    <3> HIDE DEF P, m
    <3>3. \A k \in 0..m : k \in P
      BY <3>1, <3>2, StepInduction
    <3>4. m \in 0..m /\ i + m = n
      BY <1>2 DEF m
    <3> QED BY <1>9, <3>3, <3>4 DEF P
  <2> DEFINE L == [i \in 0..n |-> CHOOSE p : p \in More(r[i])]
  <2>2. ASSUME NEW i \in 0..n PROVE L[i] \in More(r[i]) /\ L[i] \in Links(tree)
    <3>1. L[i] \in More(r[i])
      BY <2>1
    <3> QED BY <1>3, <3>1 DEF Links, Committed
  <2> HIDE DEF L
  <2>3. ASSUME NEW i \in 0..n, NEW j \in 0..n, i < j PROVE L[i] # L[j]
    <3>1. i + 1 \in 1..n /\ (i + 1) - 1 = i /\ j \in (i + 1)..n /\ i + 1 \in 0..n
      BY <1>2, <2>3
    <3>2. tree[L[i]].to \in r[j]
      BY <1>5, <1>7, <2>2, <3>1
    <3> QED BY <2>2, <3>2
  <2>4. L \in [0..n -> Links(tree)]
    BY <2>2 DEF L
  <2>5. \A i, j \in 0..n : i # j => L[i] # L[j]
    <3> TAKE i \in 0..n, j \in 0..n
    <3>1. i # j => i < j \/ j < i
      BY <1>2
    <3> QED BY <2>3, <3>1
  <2>6. IsFiniteSet(0..n) /\ Cardinality(0..n) = n + 1
    BY <1>2, FS_Interval
  <2>7. Cardinality(Links(tree)) < Cardinality(0..n)
    BY <1>2, <2>6
  <2>8. \E i, j \in 0..n : i # j /\ L[i] = L[j]
    BY <1>2, <2>4, <2>6, <2>7, FS_PigeonHole
  <2> QED BY <2>5, <2>8
<1>10. Closed(tree, Follow(tree, from))
  BY <1>2, <1>3, <1>9 DEF Closed
<1> QED BY <1>6, <1>10

(* Where a path leads, link by link.                                       *)
Onward(tree, out, p) == IF p \in out /\ tree[p].kind = "link" THEN tree[p].to ELSE p
Reached(tree, out, p) == IF p \in out /\ tree[p].kind = "file" THEN p ELSE "nowhere"
ResolveRun(at, tree, out, path) ==
  /\ at[0] = path
  /\ \A i \in 1..Longest(tree) : at[i] = Onward(tree, out, at[i - 1])
  /\ Resolve(tree, out, path) = Reached(tree, out, at[Longest(tree)])

LEMMA ResolveLoop ==
  ASSUME NEW tree, NEW out \in SUBSET Committed(tree), NEW path
  PROVE  \E at : ResolveRun(at, tree, out, path)
<1> DEFINE n == Longest(tree)
           Ends == {path} \cup out \cup {tree[p].to : p \in out}
           Further(p) == Onward(tree, out, p)
           step == [x \in Ends \X (1..n) |-> Further(x[1])]
           Body(f) == [i \in 0..n |-> IF i = 0 THEN path ELSE Further(f[i - 1])]
           at == CHOOSE f : f = Body(f)
<1>1. n \in Nat /\ path \in Ends /\ \A p \in Ends : Further(p) \in Ends
  BY AsManyAsLinks DEF Onward
<1>2. Resolve(tree, out, path) = Reached(tree, out, at[n])
  BY DEF Resolve, Onward, Reached
<1> HIDE DEF n, Ends, Further
<1>3. IsLoop(step, n, Ends)
  BY <1>1 DEF IsLoop
<1>4. PICK f : IsRun(f, n, Ends, path, step)
  <2> HIDE DEF step
  <2> QED BY <1>1, <1>3, LoopRuns
<1>5. ASSUME NEW i \in 1..n PROVE f[i] = Further(f[i - 1])
  <2>1. f[i - 1] \in Ends
    BY <1>1, <1>4 DEF IsRun
  <2> QED BY <1>4, <2>1 DEF IsRun
<1>6. f = Body(f)
  BY <1>1, <1>4, <1>5 DEF IsRun
<1>7. at = Body(at)
  <2> HIDE DEF Body
  <2> QED BY <1>6
<1> HIDE DEF at
<1>8. at[0] = path /\ \A i \in 1..n : at[i] = Further(at[i - 1])
  <2>1. \A i \in 0..n : at[i] = IF i = 0 THEN path ELSE Further(at[i - 1])
    BY <1>7
  <2> QED BY <1>1, <2>1
<1> QED BY <1>2, <1>8 DEF n, Further, ResolveRun

(* Where a checkout has all that links lead to, every path in that part of *)
(* it, and every path that is not committed, leads where it leads in the   *)
(* whole commit.                                                           *)
LEMMA LeadsTheSame ==
  ASSUME NEW tree, NEW out \in SUBSET Committed(tree), NEW part \in SUBSET out, Closed(tree, part),
         NEW path, path \in Committed(tree) => path \in part
  PROVE  Resolve(tree, out, path) = Resolve(tree, Committed(tree), path)
<1> DEFINE all == Committed(tree)
           n == Longest(tree)
           Known(p) == p \in all => p \in part
<1>1. PICK here : ResolveRun(here, tree, out, path)
  BY ResolveLoop
<1>2. PICK there : ResolveRun(there, tree, all, path)
  <2>1. all \in SUBSET Committed(tree)
    OBVIOUS
  <2> QED BY <2>1, ResolveLoop
<1>3. ASSUME NEW p, Known(p)
      PROVE  /\ Onward(tree, out, p) = Onward(tree, all, p) /\ Known(Onward(tree, out, p))
             /\ Reached(tree, out, p) = Reached(tree, all, p)
  BY <1>3 DEF Onward, Reached, Closed
<1> DEFINE P == {i \in 0..n : here[i] = there[i] /\ Known(here[i])}
<1>4. n \in Nat
  BY AsManyAsLinks
<1>5. 0 \in P
  BY <1>1, <1>2, <1>4 DEF ResolveRun
<1>6. ASSUME NEW i \in 1..n, i - 1 \in P PROVE i \in P
  <2>1. i \in 0..n /\ here[i - 1] = there[i - 1] /\ Known(here[i - 1])
    BY <1>4, <1>6
  <2>2. here[i] = Onward(tree, out, here[i - 1]) /\ there[i] = Onward(tree, all, there[i - 1])
    BY <1>1, <1>2 DEF ResolveRun
  <2> HIDE DEF Known
  <2>3. here[i] = there[i] /\ Known(here[i])
    BY <1>3, <2>1, <2>2
  <2> QED BY <2>1, <2>3
<1> HIDE DEF P
<1>7. \A i \in 0..n : i \in P
  BY <1>4, <1>5, <1>6, StepInduction
<1>8. here[n] = there[n] /\ Known(here[n])
  BY <1>4, <1>7 DEF P
<1> HIDE DEF Known
<1> QED BY <1>1, <1>2, <1>3, <1>8 DEF ResolveRun

LEMMA ClosedTogether ==
  ASSUME NEW tree, NEW S, Closed(tree, S), NEW R, Closed(tree, R)
  PROVE  Closed(tree, S \cup R)
BY DEF Closed

(* What is seen of the inputs in a checkout that has them and all they     *)
(* lead to.                                                                *)
LEMMA InputsSeen ==
  ASSUME NEW tree, NEW out \in SUBSET Committed(tree), NEW part \in SUBSET out, Closed(tree, part),
         Inputs \cap Committed(tree) \subseteq part
  PROVE  /\ \A p \in Inputs : Resolve(tree, out, p) = Resolve(tree, Committed(tree), p)
         /\ Solutions(out) = Solutions(Committed(tree))
         /\ OneSolution(tree, out) <=> OneSolution(tree, Committed(tree))
<1> DEFINE all == Committed(tree)
<1>1. \A p \in Inputs : Resolve(tree, out, p) = Resolve(tree, all, p)
  BY LeadsTheSame
<1>2. {"solution", "second"} \subseteq Inputs
  BY DEF Inputs
<1>3. Solutions(out) = Solutions(all)
  BY <1>2 DEF Solutions
<1> HIDE DEF all
<1>4. \A s \in Solutions(out) : Readable(tree, out, s) <=> Readable(tree, all, s)
  BY <1>1, <1>2 DEF Readable, Solutions
<1>5. OneSolution(tree, out) <=> OneSolution(tree, all)
  BY <1>3, <1>4 DEF OneSolution
<1> QED BY <1>1, <1>3, <1>5 DEF all

(* The part of a checkout that has all its links lead to, which is all of  *)
(* it but what is known by name; and what it has of the paths that         *)
(* something of the commit leads to.                                       *)
InputPart(tree, out, part) ==
  /\ part \subseteq out /\ out \subseteq Committed(tree) /\ Closed(tree, part)
  /\ Inputs \cap Committed(tree) \subseteq part
  /\ out \subseteq part \cup ByName /\ ByName \cap Committed(tree) \subseteq out
NamedPart(tree, part) ==
  /\ Readable(tree, Committed(tree), "package") => {"entry"} \cap Committed(tree) \subseteq part
  /\ OneSolution(tree, Committed(tree)) => {"project"} \cap Committed(tree) \subseteq part
  /\ Readable(tree, Committed(tree), "lock") => {"task"} \cap Committed(tree) \subseteq part

LEMMA ReadableCommitted ==
  ASSUME NEW tree, NEW path, path \notin Committed(tree)
  PROVE  ~Readable(tree, Committed(tree), path)
<1>1. Closed(tree, {}) /\ {} \in SUBSET Committed(tree)
  BY DEF Closed
<1>2. Resolve(tree, {}, path) = Resolve(tree, Committed(tree), path)
  <2> DEFINE none == {}
  <2>1. none \in SUBSET Committed(tree) /\ none \in SUBSET none /\ Closed(tree, none)
    BY <1>1
  <2> HIDE DEF none
  <2>2. Resolve(tree, none, path) = Resolve(tree, Committed(tree), path)
    BY <2>1, LeadsTheSame
  <2> QED BY <2>2 DEF none
<1>3. PICK at : ResolveRun(at, tree, {}, path)
  BY <1>1, ResolveLoop
<1>4. Resolve(tree, {}, path) = "nowhere"
  BY <1>3 DEF ResolveRun, Reached
<1> QED BY <1>2, <1>4 DEF Readable

LEMMA AutomaticPart ==
  ASSUME NEW tree
  PROVE  \E part : /\ InputPart(tree, AutomaticInputs(tree), part)
                   /\ ~ShownLess(tree, "repository") => NamedPart(tree, part)
<1> DEFINE all == Committed(tree)
           roots == Follow(tree, Inputs \cap all)
           tasks == roots \cup Follow(tree, RakeTasks(tree))
           nodes == tasks \cup Follow(tree, Entrypoints(tree, tasks))
           nets  == nodes \cup Follow(tree, Projects(tree, nodes))
<1>1. AutomaticInputs(tree) = nets \cup (ByName \cap all)
  BY DEF AutomaticInputs
<1>2. Inputs \cap all \subseteq roots /\ Closed(tree, roots)
  <2>1. Inputs \cap all \in SUBSET all
    OBVIOUS
  <2> QED BY <2>1, FollowCloses
<1>3. RakeTasks(tree) \subseteq Follow(tree, RakeTasks(tree)) /\ Closed(tree, Follow(tree, RakeTasks(tree)))
  <2>1. RakeTasks(tree) \in SUBSET all
    BY DEF RakeTasks
  <2> QED BY <2>1, FollowCloses
<1> HIDE DEF roots
<1>4. Closed(tree, tasks) /\ Inputs \cap all \subseteq tasks /\ RakeTasks(tree) \subseteq tasks
  BY <1>2, <1>3, ClosedTogether
<1> HIDE DEF tasks
<1>5. /\ Entrypoints(tree, tasks) \subseteq Follow(tree, Entrypoints(tree, tasks))
      /\ Closed(tree, Follow(tree, Entrypoints(tree, tasks)))
  <2>1. Entrypoints(tree, tasks) \in SUBSET all
    BY DEF Entrypoints
  <2> QED BY <2>1, FollowCloses
<1>6. Closed(tree, nodes) /\ Inputs \cap all \subseteq nodes
  BY <1>4, <1>5, ClosedTogether
<1>7. Entrypoints(tree, tasks) = Entrypoints(tree, all)
  <2>1. "package" \in Inputs
    BY DEF Inputs
  <2>2. tasks \in SUBSET all
    BY <1>4 DEF Closed
  <2>3. Resolve(tree, tasks, "package") = Resolve(tree, all, "package")
    BY <1>4, <2>1, <2>2, InputsSeen
  <2> QED BY <2>3 DEF Entrypoints, Readable
<1>8. Entrypoints(tree, all) \subseteq nodes /\ RakeTasks(tree) \subseteq nodes
  BY <1>4, <1>5, <1>7
<1> HIDE DEF nodes
<1>9. /\ Projects(tree, nodes) \subseteq Follow(tree, Projects(tree, nodes))
      /\ Closed(tree, Follow(tree, Projects(tree, nodes)))
  <2>1. Projects(tree, nodes) \in SUBSET all
    BY DEF Projects
  <2> QED BY <2>1, FollowCloses
<1>10. Closed(tree, nets) /\ Inputs \cap all \subseteq nets
  BY <1>6, <1>9, ClosedTogether
<1>11. Projects(tree, nodes) = Projects(tree, all)
  <2>1. nodes \in SUBSET all
    BY <1>6 DEF Closed
  <2>2. OneSolution(tree, nodes) <=> OneSolution(tree, all)
    BY <1>6, <2>1, InputsSeen
  <2> QED BY <2>2 DEF Projects
<1>12. /\ Entrypoints(tree, all) \subseteq nets /\ RakeTasks(tree) \subseteq nets
       /\ Projects(tree, all) \subseteq nets
  BY <1>8, <1>9, <1>11
<1> HIDE DEF nets
<1>13. InputPart(tree, AutomaticInputs(tree), nets)
  BY <1>1, <1>10 DEF InputPart, Closed
<1>14. ASSUME ~ShownLess(tree, "repository") PROVE NamedPart(tree, nets)
  <2>1. "task" \in all /\ "lock" \in all => "task" \in RakeTasks(tree)
    BY <1>14 DEF ShownLess, RakeTasks
  <2>2. Readable(tree, all, "lock") => "lock" \in all
    BY ReadableCommitted
  <2> QED BY <1>12, <2>1, <2>2 DEF NamedPart, Entrypoints, Projects
<1> QED BY <1>13, <1>14

LEMMA ComponentPart ==
  ASSUME NEW tree
  PROVE  \E part : /\ InputPart(tree, ComponentInputs(tree), part)
                   /\ ~ShownLess(tree, "component") => NamedPart(tree, part)
<1> DEFINE all == Committed(tree)
           entries == Inside("component") \cap all
           configured == "config" \in entries
           selected == IF configured THEN entries ELSE (Inputs \cup {"task", "nested"}) \cap entries
           entry == Entrypoints(tree, selected) \cap entries
           nodes == selected \cup Follow(tree, entry)
           project == Projects(tree, nodes) \cap entries
           nets  == nodes \cup Follow(tree, project)
           part == Follow(tree, entry) \cup Follow(tree, project) \cup Follow(tree, selected)
<1>1. ComponentInputs(tree) = nets \cup Follow(tree, selected) \cup (ByName \cap entries)
  BY DEF ComponentInputs
<1>2. /\ entries = all \ {"shared"} /\ ByName \cap entries = ByName \cap all
      /\ Inputs \cap all \subseteq selected /\ selected \in SUBSET all
      /\ {"task"} \cap all \subseteq selected
      /\ configured => {"task", "entry", "project"} \cap all \subseteq selected
      /\ configured <=> "config" \in all
  BY DEF Inside, Inputs, ByName, Committed, Paths
<1> HIDE DEF selected, configured
<1>3. selected \subseteq Follow(tree, selected) /\ Closed(tree, Follow(tree, selected))
  BY <1>2, FollowCloses
<1>4. entry \subseteq Follow(tree, entry) /\ Closed(tree, Follow(tree, entry))
  <2>1. entry \in SUBSET all
    BY <1>2
  <2> HIDE DEF entry
  <2> QED BY <2>1, FollowCloses
<1>5. project \subseteq Follow(tree, project) /\ Closed(tree, Follow(tree, project))
  <2>1. project \in SUBSET all
    BY <1>2
  <2> HIDE DEF project
  <2> QED BY <2>1, FollowCloses
<1>6. ComponentInputs(tree) = part \cup (ByName \cap all)
  BY <1>1, <1>2, <1>3
<1>7. Closed(tree, part)
  BY <1>3, <1>4, <1>5, ClosedTogether
<1>8. InputPart(tree, ComponentInputs(tree), part)
  <2>1. selected \subseteq part
    BY <1>3
  <2> HIDE DEF part
  <2> QED BY <1>2, <1>6, <1>7, <2>1 DEF InputPart, Closed
<1>9. ASSUME ~ShownLess(tree, "component") PROVE NamedPart(tree, part)
  <2>1. selected \subseteq part /\ entry \subseteq part /\ project \subseteq part
    BY <1>3, <1>4, <1>5
  <2> HIDE DEF part
  <2>2. {"task"} \cap all \subseteq part
    BY <1>2, <2>1
  <2>3. CASE configured
    BY <1>2, <2>1, <2>2, <2>3 DEF NamedPart
  <2>4. CASE ~configured
    <3>1. \A p \in {"package", "solution", "second"} : tree[p].kind # "link"
      BY <1>2, <1>9, <2>4 DEF ShownLess
    <3>2. ASSUME NEW p \in {"package", "solution", "second"}, NEW out \in SUBSET all, Inputs \cap all \subseteq out
          PROVE  Readable(tree, out, p) <=> Readable(tree, all, p)
      <4> DEFINE own == {p} \cap all
      <4>1. own \in SUBSET out /\ Closed(tree, own)
        BY <3>1, <3>2 DEF Closed, Inputs
      <4>2. p \in all => p \in own
        OBVIOUS
      <4> HIDE DEF own
      <4>3. Resolve(tree, out, p) = Resolve(tree, all, p)
        BY <4>1, <4>2, LeadsTheSame
      <4> QED BY <4>3 DEF Readable
    <3>3. Readable(tree, selected, "package") <=> Readable(tree, all, "package")
      BY <1>2, <3>2
    <3>4. Readable(tree, all, "package") => {"entry"} \cap all \subseteq part
      BY <1>2, <2>1, <3>3 DEF Entrypoints
    <3>5. OneSolution(tree, nodes) <=> OneSolution(tree, all)
      <4>1. nodes \in SUBSET all /\ Inputs \cap all \subseteq nodes
        BY <1>2, <1>4 DEF Closed
      <4> HIDE DEF nodes
      <4>2. Solutions(nodes) = Solutions(all)
        BY <4>1 DEF Solutions, Inputs
      <4>3. \A s \in Solutions(nodes) : Readable(tree, nodes, s) <=> Readable(tree, all, s)
        BY <3>2, <4>1 DEF Solutions
      <4> QED BY <4>2, <4>3 DEF OneSolution
    <3>6. OneSolution(tree, all) => {"project"} \cap all \subseteq part
      <4> HIDE DEF nodes
      <4> QED BY <1>2, <2>1, <3>5 DEF Projects
    <3> QED BY <2>2, <3>4, <3>6 DEF NamedPart
  <2> QED BY <2>3, <2>4
<1> QED BY <1>8, <1>9

LEMMA MaterializedPart ==
  ASSUME NEW tree, NEW scope
  PROVE  \E part : /\ InputPart(tree, Materialize(tree, scope), part)
                   /\ ~ShownLess(tree, scope) => NamedPart(tree, part)
<1>1. CASE scope = "component"
  BY <1>1, ComponentPart DEF Materialize
<1>2. CASE scope # "component" /\ "config" \in Committed(tree)
  <2>1. Materialize(tree, scope) = Committed(tree)
    BY <1>2 DEF Materialize
  <2>2. InputPart(tree, Committed(tree), Committed(tree)) /\ NamedPart(tree, Committed(tree))
    BY DEF InputPart, NamedPart, Closed
  <2> QED BY <2>1, <2>2
<1>3. CASE scope # "component" /\ "config" \notin Committed(tree)
  <2>1. Materialize(tree, scope) = AutomaticInputs(tree)
    BY <1>3 DEF Materialize
  <2>2. ShownLess(tree, scope) <=> ShownLess(tree, "repository")
    BY <1>3 DEF ShownLess
  <2> QED BY <2>1, <2>2, AutomaticPart
<1> QED BY <1>1, <1>2, <1>3

(* Detection fails on a partial checkout only where it would fail on the   *)
(* whole commit, whatever is committed and wherever its links lead.        *)
THEOREM RejectedForCause == PartialNotRejected
<1> SUFFICES ASSUME NEW tree, NEW scope, Rejected(tree, Materialize(tree, scope), scope)
             PROVE  Rejected(tree, Committed(tree), scope)
  BY DEF PartialNotRejected, NotRejectedNeedlessly
<1> DEFINE out == Materialize(tree, scope)
           all == Committed(tree)
           Named(S) == IF \E s \in Solutions(S) : Readable(tree, S, s) THEN {"project"} ELSE {}
<1>1. PICK part : InputPart(tree, out, part)
  BY MaterializedPart
<1>2. PICK p \in (Inputs \cup Named(out)) \cap out : Resolve(tree, out, p) \notin Inside(scope)
  BY DEF Rejected
<1> HIDE DEF out
<1>3. /\ \A q \in Inputs : Resolve(tree, out, q) = Resolve(tree, all, q)
      /\ Solutions(out) = Solutions(all)
  BY <1>1, InputsSeen DEF InputPart
<1>4. Named(out) = Named(all)
  <2>1. \A s \in Solutions(out) : Readable(tree, out, s) <=> Readable(tree, all, s)
    BY <1>3 DEF Solutions, Inputs, Readable
  <2> QED BY <1>3, <2>1
<1>5. p \in part /\ p \in all
  BY <1>1, <1>2 DEF InputPart, ByName, Inputs
<1>6. Resolve(tree, out, p) = Resolve(tree, all, p)
  BY <1>1, <1>5, LeadsTheSame DEF InputPart
<1> QED BY <1>2, <1>4, <1>5, <1>6 DEF Rejected

(* But for the commits ShownLess names, detection sees in the partial      *)
(* checkout all that it would see in the whole commit.                     *)
THEOREM PlanSeesTheCommit == PlanOfTheCommit
<1> SUFFICES ASSUME NEW tree, NEW scope, ~ShownLess(tree, scope)
             PROVE  View(tree, Materialize(tree, scope)) = View(tree, Committed(tree))
  BY DEF PlanOfTheCommit, SeesTheCommit
<1> DEFINE out == Materialize(tree, scope)
           all == Committed(tree)
<1>1. PICK part : InputPart(tree, out, part) /\ NamedPart(tree, part)
  BY MaterializedPart
<1> HIDE DEF out
<1>2. /\ \A q \in Inputs : Resolve(tree, out, q) = Resolve(tree, all, q)
      /\ OneSolution(tree, out) <=> OneSolution(tree, all)
  BY <1>1, InputsSeen DEF InputPart
<1>3. /\ Readable(tree, out, "package") <=> Readable(tree, all, "package")
      /\ Readable(tree, out, "lock") <=> Readable(tree, all, "lock")
  BY <1>2 DEF Readable, Inputs
<1>4. ASSUME NEW p, {p} \cap all \subseteq part PROVE Resolve(tree, out, p) = Resolve(tree, all, p)
  BY <1>1, <1>4, LeadsTheSame DEF InputPart
<1>5. /\ Readable(tree, all, "package") => Resolve(tree, out, "entry") = Resolve(tree, all, "entry")
      /\ OneSolution(tree, all) => Resolve(tree, out, "project") = Resolve(tree, all, "project")
      /\ Readable(tree, all, "lock") => Resolve(tree, out, "task") = Resolve(tree, all, "task")
  BY <1>1, <1>4 DEF NamedPart
<1>6. ByName \cap out = ByName \cap all
  BY <1>1 DEF InputPart
<1>7. [p \in Inputs |-> Resolve(tree, out, p)] = [p \in Inputs |-> Resolve(tree, all, p)]
  BY <1>2
<1> HIDE DEF all
<1>8. View(tree, out) = View(tree, all)
  BY <1>2, <1>3, <1>5, <1>6, <1>7 DEF View
<1> QED BY <1>8 DEF out, all

-----------------------------------------------------------------------------
(* The containers PlanDetection speaks of are those of PreparedStores.     *)
LEMMA ContainersAlike ==
  ASSUME NEW runner, NEW step
  PROVE  /\ Plans!Containers!PrepareContainer(runner, step) = Stores!PrepareContainer(runner, step)
         /\ Plans!Containers!TestContainer(runner, step) = Stores!TestContainer(runner, step)
         /\ Plans!Containers!Automatic(step) <=> Stores!Automatic(step)
         /\ \A place, c : Plans!Containers!Behind(place, c) = Stores!Behind(place, c)
         /\ \A eco : Plans!Containers!LeftBehind(eco) = Stores!LeftBehind(eco)
<1>1. /\ Plans!Containers!HasVolume(step) <=> Stores!HasVolume(step)
      /\ Plans!Containers!HasSupport(step) <=> Stores!HasSupport(step)
      /\ Plans!Containers!HasDir(step) <=> Stores!HasDir(step)
  BY DEF Plans!Containers!HasVolume, Stores!HasVolume, Plans!Containers!HasSupport, Stores!HasSupport,
         Plans!Containers!HasDir, Stores!HasDir, Plans!Containers!Stateful, Stores!Stateful,
         Plans!Containers!Paired, Stores!Paired
<1>2. \A at, store, writable :
        Plans!Containers!Mount(at, store, writable) = Stores!Mount(at, store, writable)
  BY DEF Plans!Containers!Mount, Stores!Mount
<1>3. \A place, to, copied : Plans!Containers!Led(place, to, copied) = Stores!Led(place, to, copied)
  BY DEF Plans!Containers!Led, Stores!Led
<1>4. Plans!Containers!Inputs = Stores!Inputs
  BY <1>2 DEF Plans!Containers!Inputs, Stores!Inputs
<1>5. ASSUME NEW ro
      PROVE  /\ Plans!Containers!DockerVolume(step, ro) = Stores!DockerVolume(step, ro)
             /\ Plans!Containers!AppleVolume(step, ro) = Stores!AppleVolume(step, ro)
  <2> DEFINE all == {"python", "deno", "cmake", "dotnet", "php", "ruby", "node", "bun", "maven", "gradle"}
  <2>1. Stores!HasVolume(step) => step.ecosystem \in all
    BY DEF Stores!HasVolume, Stores!Stateful
  <2>2. Plans!Containers!DockerVolume(step, ro) = Stores!DockerVolume(step, ro)
    BY <1>1, <1>2, <2>1 DEF Plans!Containers!DockerVolume, Stores!DockerVolume
  <2>3. Plans!Containers!AppleVolume(step, ro) = Stores!AppleVolume(step, ro)
    BY <1>1, <1>2, <2>1 DEF Plans!Containers!AppleVolume, Stores!AppleVolume
  <2> QED BY <2>2, <2>3
<1>6. \A ro : Plans!Containers!Mounts(runner, step, ro) = Stores!Mounts(runner, step, ro)
  BY <1>1, <1>2, <1>4, <1>5 DEF Plans!Containers!Mounts, Stores!Mounts, Plans!Containers!DirMount,
     Stores!DirMount, Plans!Containers!SupportMount, Stores!SupportMount
<1>7. \A ro : Plans!Containers!Setup(step, ro) = Stores!Setup(step, ro)
  BY <1>1, <1>3 DEF Plans!Containers!Setup, Stores!Setup
<1>8. Plans!Containers!CacheRoot(step) = Stores!CacheRoot(step)
  BY <1>1 DEF Plans!Containers!CacheRoot, Stores!CacheRoot
<1>9. \A networked, ro :
        Plans!Containers!Container(runner, step, networked, ro) = Stores!Container(runner, step, networked, ro)
  BY <1>1, <1>6, <1>7, <1>8 DEF Plans!Containers!Container, Stores!Container,
     Plans!Containers!RunnerError, Stores!RunnerError
<1>10. Plans!Containers!Automatic(step) <=> Stores!Automatic(step)
  BY DEF Plans!Containers!Automatic, Stores!Automatic
<1>11. \A place, c : Plans!Containers!Behind(place, c) = Stores!Behind(place, c)
  BY DEF Plans!Containers!Behind, Stores!Behind
<1>12. \A eco : Plans!Containers!LeftBehind(eco) = Stores!LeftBehind(eco)
  BY DEF Plans!Containers!LeftBehind, Stores!LeftBehind, Plans!Containers!Paired, Stores!Paired
<1> QED BY <1>9, <1>10, <1>11, <1>12 DEF Plans!Containers!PrepareContainer, Stores!PrepareContainer,
        Plans!Containers!TestContainer, Stores!TestContainer

(* The store a place of both containers leads to.                          *)
Leads(eco, place, store) ==
  \/ eco = "python" /\ place \in {".venv", ".tox", "/prepared"} /\ store = "volume"
  \/ eco \in {"node", "bun"} /\ place = "node_modules" /\ store = "volume"
  \/ eco \in {"node", "bun"} /\ place = "/prepared" /\ store = "support"
  \/ eco \in {"deno", "php"} /\ place = "vendor" /\ store = "volume"
  \/ eco \in {"cmake", "dotnet", "ruby"} /\ place = "/prepared" /\ store = "volume"
  \/ eco \in {"maven", "gradle"} /\ place = "/cache" /\ store = "volume"
  \/ eco \in {"rust", "go"} /\ place = "/cache" /\ store = "dir"
LeadsInTest(eco, place, store) ==
  \/ Leads(eco, place, store)
  \/ eco = "ruby" /\ place = "vendor/cache" /\ store = "volume"

LedTo(step, runner) == \A place, store :
  /\ Leads(step.ecosystem, place, store)
       => Stores!Behind(place, Stores!PrepareContainer(runner, step)) = {store}
  /\ LeadsInTest(step.ecosystem, place, store)
       => Stores!Behind(place, Stores!TestContainer(runner, step)) = {store}

LEMMA StoresLedTo ==
  ASSUME NEW step, Preparing(step), NEW runner
  PROVE  LedTo(step, runner)
<1> SUFFICES ASSUME NEW place, NEW store
             PROVE  /\ Leads(step.ecosystem, place, store)
                         => Stores!Behind(place, Stores!PrepareContainer(runner, step)) = {store}
                    /\ LeadsInTest(step.ecosystem, place, store)
                         => Stores!Behind(place, Stores!TestContainer(runner, step)) = {store}
  BY DEF LedTo
<1> USE DEF InVolume, Tools, Compiled, Stores!Paired
<1> DEFINE prepare == Stores!PrepareContainer(runner, step)
           test == Stores!TestContainer(runner, step)
           ro == step.ecosystem \in {"php", "ruby"}
<1>1. IsContainer(prepare, step, FALSE) /\ IsContainer(test, step, ro)
  BY ContainersOfSteps
<1> HIDE DEF prepare, test, ro
<1>2. Stores!HasVolume(step) <=> step.ecosystem \notin Compiled
  BY KindsOfSteps
<1>3. ASSUME NEW r \in BOOLEAN, NEW c, IsContainer(c, step, r),
             \/ Leads(step.ecosystem, place, store)
             \/ r /\ LeadsInTest(step.ecosystem, place, store)
      PROVE  Stores!Behind(place, c) = {store}
  <2>1. place \notin {"/input", "/input.tar"}
    BY <1>3 DEF Leads, LeadsInTest
  <2>2. /\ step.ecosystem \in InVolume /\ Found(place, "/prepared", c.setup)
             => Stores!Behind(place, c) = {"volume"}
        /\ step.ecosystem \in Stores!Paired /\ place = "node_modules" => Stores!Behind(place, c) = {"volume"}
        /\ step.ecosystem \in Stores!Paired /\ place = "/prepared" => Stores!Behind(place, c) = {"support"}
        /\ step.ecosystem \in Tools /\ place = "/cache" => Stores!Behind(place, c) = {"volume"}
        /\ step.ecosystem \in Compiled /\ place = "/cache" => Stores!Behind(place, c) = {"dir"}
    BY <1>3, <2>1, StoresOfPlaces
  <2>3. c.setup = Stores!Setup(step, r)
    BY <1>3 DEF IsContainer
  <2>4. CASE step.ecosystem = "python"
    <3>1. c.setup = {Stores!Led(".venv", "/prepared", FALSE), Stores!Led(".tox", "/prepared", FALSE)}
      BY <1>2, <2>3, <2>4 DEF Stores!Setup
    <3>2. place \in {".venv", ".tox", "/prepared"} /\ store = "volume"
      BY <1>3, <2>4 DEF Leads, LeadsInTest
    <3>3. Found(place, "/prepared", c.setup)
      BY <3>1, <3>2 DEF Found, Stores!Led
    <3> QED BY <2>2, <2>4, <3>2, <3>3
  <2>5. CASE step.ecosystem \in {"deno", "php"}
    <3>1. Stores!Led("vendor", "/prepared", FALSE) \in c.setup \/ Stores!Led("vendor", "/prepared", r) \in c.setup
      BY <1>2, <2>3, <2>5 DEF Stores!Setup
    <3>2. place = "vendor" /\ store = "volume"
      BY <1>3, <2>5 DEF Leads, LeadsInTest
    <3>3. Found(place, "/prepared", c.setup)
      BY <3>1, <3>2 DEF Found, Stores!Led
    <3> QED BY <2>2, <2>5, <3>2, <3>3
  <2>6. CASE step.ecosystem \in {"cmake", "dotnet", "ruby"}
    <3>1. /\ store = "volume"
          /\ \/ place = "/prepared"
             \/ r /\ step.ecosystem = "ruby" /\ place = "vendor/cache"
      BY <1>3, <2>6 DEF Leads, LeadsInTest
    <3>2. r /\ step.ecosystem = "ruby" => Stores!Led("vendor/cache", "/prepared", TRUE) \in c.setup
      BY <1>2, <2>3, <2>6 DEF Stores!Setup
    <3>3. Found(place, "/prepared", c.setup)
      BY <3>1, <3>2 DEF Found, Stores!Led
    <3> QED BY <2>2, <2>6, <3>1, <3>3
  <2>7. CASE step.ecosystem \in {"node", "bun"}
    BY <1>3, <2>2, <2>7 DEF Leads, LeadsInTest
  <2>8. CASE step.ecosystem \in {"maven", "gradle"}
    BY <1>3, <2>2, <2>8 DEF Leads, LeadsInTest
  <2>9. CASE step.ecosystem \in {"rust", "go"}
    BY <1>3, <2>2, <2>9 DEF Leads, LeadsInTest
  <2> QED BY <1>3, <2>4, <2>5, <2>6, <2>7, <2>8, <2>9 DEF Leads, LeadsInTest
<1>4. ro \in BOOLEAN /\ (LeadsInTest(step.ecosystem, place, store) /\ ~ro => Leads(step.ecosystem, place, store))
  BY DEF ro, LeadsInTest
<1>5. Leads(step.ecosystem, place, store) => Stores!Behind(place, prepare) = {store}
  BY <1>1, <1>3
<1>6. LeadsInTest(step.ecosystem, place, store) => Stores!Behind(place, test) = {store}
  BY <1>1, <1>3, <1>4
<1> QED BY <1>5, <1>6 DEF prepare, test

(* A use that is of the image, or that something of the preparation is     *)
(* for, in a store both lead to.                                           *)
Provided(use, eco, image, prepare) ==
  \/ use.at = "image" /\ use.what \in image
  \/ \E made \in prepare : \E store :
       made.what = use.what /\ Leads(eco, made.at, store) /\ LeadsInTest(eco, use.at, store)

Prepared == {"python", "node", "bun", "deno", "maven", "gradle", "cmake", "dotnet", "php", "ruby", "rust", "go"}

(* The containers of a step of the plan.                                   *)
LEMMA PreparingSteps ==
  ASSUME NEW step, step.ecosystem \in Prepared \cup {"make"},
         step.ecosystem = "make" <=> step.prepare = {}
  PROVE  LET s == Plans!ContainerStep(step)
         IN  /\ s.ecosystem = step.ecosystem /\ Plans!Containers!Automatic(s)
             /\ step.ecosystem \in Prepared => Preparing(s)
<1> DEFINE s == Plans!ContainerStep(step)
<1>1. s = [ecosystem |-> step.ecosystem, prepares |-> step.prepare # {}, network |-> "none",
           dir |-> TRUE, volume |-> TRUE]
  BY DEF Plans!ContainerStep
<1> DEFINE prepares == step.prepare # {}
<1>2. prepares \in BOOLEAN
  OBVIOUS
<1> HIDE DEF s
<1>3. s.ecosystem = step.ecosystem /\ s.dir /\ s.volume /\ s.prepares = prepares
  BY <1>1
<1>4. Stores!Automatic(s)
  BY <1>3 DEF Stores!Automatic, Prepared
<1>5. s \in Stores!Steps
  <2>1. step.ecosystem \in Stores!Ecosystems
    BY DEF Prepared, Stores!Ecosystems, Stores!Stateful
  <2> HIDE DEF prepares
  <2> QED BY <1>1, <1>2, <2>1 DEF Stores!Steps, prepares
<1>6. step.ecosystem \in Prepared => Preparing(s)
  BY <1>3, <1>4, <1>5 DEF Preparing, Prepared
<1> QED BY <1>3, <1>4, <1>6, ContainersAlike DEF s

LEMMA ServedFrom ==
  ASSUME NEW step, step.ecosystem \in Prepared, step.prepare # {}, NEW runner, NEW use,
         Provided(use, step.ecosystem, step.image, step.prepare)
  PROVE  Plans!Served(use, step, runner)
<1> DEFINE s == Plans!ContainerStep(step)
           prepare == Plans!Containers!PrepareContainer(runner, s)
           test == Plans!Containers!TestContainer(runner, s)
<1>1. CASE use.at = "image" /\ use.what \in step.image
  BY <1>1 DEF Plans!Served
<1>2. CASE ~(use.at = "image" /\ use.what \in step.image)
  <2>1. PICK made \in step.prepare :
          \E store : /\ made.what = use.what
                     /\ Leads(step.ecosystem, made.at, store) /\ LeadsInTest(step.ecosystem, use.at, store)
    BY <1>2 DEF Provided
  <2>2. PICK store :
          /\ made.what = use.what
          /\ Leads(step.ecosystem, made.at, store) /\ LeadsInTest(step.ecosystem, use.at, store)
    BY <2>1
  <2>3. Preparing(s) /\ s.ecosystem = step.ecosystem
    BY PreparingSteps DEF Prepared
  <2> HIDE DEF s
  <2>4. Leads(s.ecosystem, made.at, store) /\ LeadsInTest(s.ecosystem, use.at, store)
    BY <2>2, <2>3
  <2>5. LedTo(s, runner)
    BY <2>3, StoresLedTo
  <2>6. /\ Stores!Behind(made.at, Stores!PrepareContainer(runner, s)) = {store}
        /\ Stores!Behind(use.at, Stores!TestContainer(runner, s)) = {store}
    BY <2>4, <2>5 DEF LedTo
  <2>7. /\ Plans!Containers!Behind(made.at, prepare) = {store}
        /\ Plans!Containers!Behind(use.at, test) = {store}
    BY <2>6, ContainersAlike
  <2> HIDE DEF prepare, test
  <2>8. /\ Plans!Containers!Behind(made.at, prepare) # {}
        /\ Plans!Containers!Behind(made.at, prepare) = Plans!Containers!Behind(use.at, test)
    BY <2>7
  <2> QED BY <2>2, <2>8 DEF Plans!Served, prepare, test, s
<1> QED BY <1>1, <1>2

(* Lists of any kind, and what is in them.                                 *)
IsList(s) == \E T : s \in Seq(T)

LEMMA ListsTogether ==
  ASSUME NEW a, IsList(a), NEW b, IsList(b)
  PROVE  IsList(a \o b) /\ Plans!ToSet(a \o b) = Plans!ToSet(a) \cup Plans!ToSet(b)
<1>1. PICK A : a \in Seq(A)
  BY DEF IsList
<1>2. PICK B : b \in Seq(B)
  BY DEF IsList
<1> DEFINE T == A \cup B
<1>3. a \in Seq(T) /\ b \in Seq(T)
  BY <1>1, <1>2
<1> HIDE DEF T
<1>4. a \o b \in Seq(T)
  BY <1>3
<1>5. \A s \in Seq(T) : Plans!ToSet(s) = Elements(s)
  BY DEF Plans!ToSet, Elements
<1>6. Elements(a \o b) = Elements(a) \cup Elements(b)
  BY <1>3, ElementsConcat
<1> QED BY <1>3, <1>4, <1>5, <1>6 DEF IsList

LEMMA ListOfOne ==
  /\ IsList(<<>>) /\ Plans!ToSet(<<>>) = {}
  /\ \A e : IsList(<<e>>) /\ Plans!ToSet(<<e>>) = {e} /\ <<e>> # <<>>
<1>1. <<>> \in Seq({}) /\ \A e : <<e>> \in Seq({e})
  OBVIOUS
<1>2. Plans!ToSet(<<>>) = {} /\ \A e : Plans!ToSet(<<e>>) = {e} /\ <<e>> # <<>>
  BY DEF Plans!ToSet
<1> QED BY <1>1, <1>2 DEF IsList

-----------------------------------------------------------------------------
(* What a step must be for its test to need nothing else, by its parts.    *)
Bound(root, eco, locked) ==
  /\ eco = "python" /\ root.python.pyproject /\ root.python.lock => locked
  /\ eco = "deno" /\ root.node.denoLock => locked
  /\ eco \in {"node", "bun"} /\ root.node.locks # {} => locked
  /\ eco = "rust" /\ root.rust.lock => locked
Supplied(profile, eco, image, prepare, command) ==
  \A run \in Plans!ToSet(command) : \A use \in run.uses :
    \/ Provided(use, eco, image, prepare)
    \/ use.what[1] = "python" /\ profile # "quick"
Fit(root, profile, eco, image, prepare, locked, command) ==
  /\ eco \in Prepared \cup {"make"}
  /\ eco = "make" <=> prepare = {}
  /\ Supplied(profile, eco, image, prepare, command)
  /\ \A made \in prepare : made.at \in Stores!LeftBehind(eco)
  /\ Bound(root, eco, locked)
  /\ eco \in {"node", "bun"} => Plans!BuiltBefore(root, command)
FitStep(root, profile, step) ==
  Fit(root, profile, step.ecosystem, step.image, step.prepare, step.locked, step.command)
AllFit(root, profile, steps) ==
  IsList(steps) /\ \A step \in Plans!ToSet(steps) : FitStep(root, profile, step)

LEMMA FitTogether ==
  ASSUME NEW root, NEW profile, NEW a, AllFit(root, profile, a), NEW b, AllFit(root, profile, b)
  PROVE  AllFit(root, profile, a \o b)
BY ListsTogether DEF AllFit

LEMMA NoneFit == \A root, profile : AllFit(root, profile, Plans!NoStep)
BY ListOfOne DEF AllFit, Plans!NoStep

LEMMA OneFit ==
  ASSUME NEW root, NEW profile, NEW eco, NEW image, NEW prepare, NEW locked, NEW command,
         Fit(root, profile, eco, image, prepare, locked, command)
  PROVE  AllFit(root, profile, Plans!Step(eco, image, prepare, locked, command))
<1> DEFINE step == [ecosystem |-> eco, image |-> image, prepare |-> prepare, locked |-> locked,
                    command |-> command]
<1>1. Plans!Step(eco, image, prepare, locked, command) = <<step>>
  BY DEF Plans!Step
<1>2. /\ step.ecosystem = eco /\ step.image = image /\ step.prepare = prepare
      /\ step.locked = locked /\ step.command = command
  OBVIOUS
<1> HIDE DEF step
<1>3. FitStep(root, profile, step)
  BY <1>2 DEF FitStep
<1> QED BY <1>1, <1>3, ListOfOne DEF AllFit

(* A step that fits has its test served and its lock kept.                 *)
LEMMA FitIsSound ==
  ASSUME NEW root, NEW profile, NEW step, FitStep(root, profile, step), NEW runner
  PROVE  /\ \A run \in Plans!ToSet(step.command) : \A use \in run.uses :
              \/ Plans!Served(use, step, runner)
              \/ use.what[1] = "python" /\ profile # "quick"
         /\ \A made \in step.prepare : made.at \in Plans!Containers!LeftBehind(step.ecosystem)
         /\ Plans!Containers!Automatic(Plans!ContainerStep(step))
         /\ Plans!HasLock(root, step) => step.locked
         /\ step.ecosystem \in {"node", "bun"} => Plans!BuiltBefore(root, step.command)
<1>1. /\ step.ecosystem \in Prepared \cup {"make"}
      /\ step.ecosystem = "make" <=> step.prepare = {}
      /\ Supplied(profile, step.ecosystem, step.image, step.prepare, step.command)
      /\ \A made \in step.prepare : made.at \in Stores!LeftBehind(step.ecosystem)
      /\ Bound(root, step.ecosystem, step.locked)
      /\ step.ecosystem \in {"node", "bun"} => Plans!BuiltBefore(root, step.command)
  BY DEF FitStep, Fit
<1>2. ASSUME NEW use, Provided(use, step.ecosystem, step.image, step.prepare)
      PROVE  Plans!Served(use, step, runner)
  <2>1. CASE step.prepare = {}
    BY <1>2, <2>1 DEF Provided, Plans!Served
  <2>2. CASE step.prepare # {}
    <3>1. step.ecosystem \in Prepared
      BY <1>1, <2>2
    <3> QED BY <1>2, <2>2, <3>1, ServedFrom
  <2> QED BY <2>1, <2>2
<1>3. Plans!Containers!Automatic(Plans!ContainerStep(step))
  BY <1>1, PreparingSteps
<1>4. Plans!HasLock(root, step) => step.locked
  BY <1>1 DEF Plans!HasLock, Bound
<1>5. \A made \in step.prepare : made.at \in Plans!Containers!LeftBehind(step.ecosystem)
  BY <1>1, ContainersAlike
<1>6. \A run \in Plans!ToSet(step.command) : \A use \in run.uses :
        \/ Plans!Served(use, step, runner)
        \/ use.what[1] = "python" /\ profile # "quick"
  BY <1>1, <1>2 DEF Supplied
<1> QED BY <1>1, <1>3, <1>4, <1>5, <1>6

(* Where prepare commands leave things, and what things are.               *)
LEMMA Things ==
  /\ \A kind, name, at : Plans!Thing(kind, name, at).what = <<kind, name>>
                         /\ Plans!Thing(kind, name, at).at = at
  /\ \A kind, name : Plans!InImage(kind, name) = Plans!Thing(kind, name, "image")
                     /\ Plans!What(kind, name) = <<kind, name>>
  /\ \A name, uses : Plans!Runs(name, uses).runs = name /\ Plans!Runs(name, uses).uses = uses
BY DEF Plans!Thing, Plans!What, Plans!InImage, Plans!Runs

LEMMA ProvidedByImage ==
  ASSUME NEW eco, NEW image, NEW prepare, NEW kind, NEW name, Plans!What(kind, name) \in image
  PROVE  Provided(Plans!InImage(kind, name), eco, image, prepare)
BY Things DEF Provided

LEMMA ProvidedByPrepare ==
  ASSUME NEW eco, NEW image, NEW prepare, NEW kind, NEW name, NEW at, NEW there, NEW store,
         Plans!Thing(kind, name, there) \in prepare, Leads(eco, there, store), LeadsInTest(eco, at, store)
  PROVE  Provided(Plans!Thing(kind, name, at), eco, image, prepare)
BY Things DEF Provided

LEMMA OneRunSupplied ==
  ASSUME NEW profile, NEW eco, NEW image, NEW prepare, NEW name, NEW uses,
         \A use \in uses : Provided(use, eco, image, prepare)
  PROVE  Supplied(profile, eco, image, prepare, <<Plans!Runs(name, uses)>>)
<1> DEFINE run == Plans!Runs(name, uses)
<1>1. run.uses = uses
  BY Things
<1> HIDE DEF run
<1>2. Plans!ToSet(<<run>>) = {run}
  BY ListOfOne
<1> QED BY <1>1, <1>2 DEF Supplied, run

(* The steps whose one run uses what is prepared in one place.             *)
LEMMA PlaceFits ==
  ASSUME NEW root, NEW profile, NEW eco, NEW image, NEW place, NEW store, NEW prepare, NEW locked,
         NEW name, NEW uses, prepare # {}, eco \in {"rust", "go", "maven", "gradle", "cmake", "dotnet", "php"},
         Leads(eco, place, store), Bound(root, eco, locked), \A made \in prepare : made.at = place,
         \A use \in uses : \/ use.at = "image" /\ use.what \in image
                           \/ use.at = place /\ \E made \in prepare : made.what = use.what
  PROVE  AllFit(root, profile, Plans!Step(eco, image, prepare, locked, <<Plans!Runs(name, uses)>>))
<1> DEFINE command == <<Plans!Runs(name, uses)>>
<1>1. \A use \in uses : Provided(use, eco, image, prepare)
  BY DEF Provided, LeadsInTest
<1>2. Supplied(profile, eco, image, prepare, command)
  BY <1>1, OneRunSupplied
<1>3. place \in Stores!LeftBehind(eco)
  BY DEF Leads, Stores!LeftBehind, Stores!Paired
<1> HIDE DEF command
<1>4. Fit(root, profile, eco, image, prepare, locked, command)
  BY <1>2, <1>3 DEF Fit, Prepared
<1> QED BY <1>4, OneFit DEF command

(* The steps made of one tool of the image and the packages it downloads.  *)
LEMMA ToolFits ==
  ASSUME NEW root, NEW profile, NEW eco \in {"rust", "go"}, NEW tool, NEW locked, NEW name,
         Bound(root, eco, locked)
  PROVE  AllFit(root, profile, Plans!One(eco, tool, "/cache", locked, name))
<1> DEFINE image == {Plans!What("tool", tool)}
           own == Plans!Own("/cache")
           prepare == {own}
           uses == {Plans!InImage("tool", tool), own}
<1>1. Plans!One(eco, tool, "/cache", locked, name)
        = Plans!Step(eco, image, prepare, locked, <<Plans!Runs(name, uses)>>)
  BY DEF Plans!One
<1>2. own.at = "/cache" /\ Leads(eco, "/cache", "dir")
  BY Things DEF Plans!Own, Leads
<1>3. \A use \in uses : \/ use.at = "image" /\ use.what \in image
                        \/ use.at = "/cache" /\ \E made \in prepare : made.what = use.what
  BY <1>2, Things
<1>4. prepare # {} /\ \A made \in prepare : made.at = "/cache"
  BY <1>2
<1> HIDE DEF image, prepare, uses
<1>5. AllFit(root, profile, Plans!Step(eco, image, prepare, locked, <<Plans!Runs(name, uses)>>))
  BY <1>2, <1>3, <1>4, PlaceFits
<1> QED BY <1>1, <1>5

LEMMA RustFits ==
  ASSUME NEW root, NEW profile
  PROVE  AllFit(root, profile, Plans!DetectRust(root.rust, profile))
<1> DEFINE name == IF profile = "full" THEN "all features" ELSE "workspace"
           locked == root.rust.lock
<1>1. Bound(root, "rust", locked)
  BY DEF Bound
<1>2. \/ Plans!DetectRust(root.rust, profile) = Plans!NoStep
      \/ Plans!DetectRust(root.rust, profile) = Plans!One("rust", "cargo", "/cache", locked, name)
  BY DEF Plans!DetectRust
<1> HIDE DEF name, locked
<1>3. AllFit(root, profile, Plans!One("rust", "cargo", "/cache", locked, name))
  BY <1>1, ToolFits
<1> QED BY <1>2, <1>3, NoneFit

LEMMA GoFits ==
  ASSUME NEW root, NEW profile
  PROVE  AllFit(root, profile, Plans!DetectGo(root.go))
<1> DEFINE locked == TRUE
<1>1. Bound(root, "go", locked)
  BY DEF Bound
<1>2. \/ Plans!DetectGo(root.go) = Plans!NoStep
      \/ Plans!DetectGo(root.go) = Plans!One("go", "go", "/cache", locked, "go test")
  BY DEF Plans!DetectGo
<1> HIDE DEF locked
<1>3. AllFit(root, profile, Plans!One("go", "go", "/cache", locked, "go test"))
  BY <1>1, ToolFits
<1> QED BY <1>2, <1>3, NoneFit

LEMMA MavenFits ==
  ASSUME NEW root, NEW profile
  PROVE  AllFit(root, profile, Plans!DetectMaven(root.maven, profile))
<1> DEFINE p == root.maven
           inImage == Plans!InImage("tool", "maven")
           maven == IF p.wrapper THEN Plans!Thing("tool", "maven", "/cache") ELSE inImage
           own == Plans!Own("/cache")
           image == {Plans!What("tool", "maven")}
           prepare == {own} \cup ({maven} \ {inImage})
           uses == {maven, own}
           name == IF profile = "full" THEN "verify" ELSE "test phase"
           locked == FALSE
<1>1. \/ Plans!DetectMaven(p, profile) = Plans!NoStep
      \/ Plans!DetectMaven(p, profile)
           = Plans!Step("maven", image, prepare, locked, <<Plans!Runs(name, uses)>>)
  BY DEF Plans!DetectMaven
<1>2. own.at = "/cache" /\ Leads("maven", "/cache", "volume") /\ Bound(root, "maven", locked)
  BY Things DEF Plans!Own, Leads, Bound
<1>3. inImage.at = "image" /\ inImage.what \in image
  BY Things
<1>4. maven = inImage \/ maven.at = "/cache"
  BY Things
<1> HIDE DEF maven, inImage, own
<1>5. prepare # {} /\ \A made \in prepare : made.at = "/cache"
  BY <1>2, <1>4
<1>6. \A use \in uses : \/ use.at = "image" /\ use.what \in image
                        \/ use.at = "/cache" /\ \E made \in prepare : made.what = use.what
  BY <1>2, <1>3, <1>4
<1> HIDE DEF image, prepare, uses, name, locked
<1>7. AllFit(root, profile, Plans!Step("maven", image, prepare, locked, <<Plans!Runs(name, uses)>>))
  BY <1>2, <1>5, <1>6, PlaceFits
<1> QED BY <1>1, <1>7, NoneFit

LEMMA GradleFits ==
  ASSUME NEW root, NEW profile
  PROVE  AllFit(root, profile, Plans!DetectGradle(root.gradle, profile))
<1> DEFINE p == root.gradle
           gradle == Plans!Thing("tool", "gradle", "/cache")
           java == Plans!InImage("java", Plans!JavaMajor(p))
           own == Plans!Own("/cache")
           image == {Plans!What("java", Plans!JavaMajor(p))}
           prepare == {own, gradle}
           uses == {gradle, own, java}
           name == IF profile = "full" THEN "gradle check" ELSE "gradle test"
           locked == FALSE
<1>1. \/ Plans!DetectGradle(p, profile) = Plans!NoStep
      \/ Plans!DetectGradle(p, profile)
           = Plans!Step("gradle", image, prepare, locked, <<Plans!Runs(name, uses)>>)
  BY DEF Plans!DetectGradle
<1>2. /\ own.at = "/cache" /\ gradle.at = "/cache" /\ java.at = "image" /\ java.what \in image
      /\ Leads("gradle", "/cache", "volume") /\ Bound(root, "gradle", locked)
  BY Things DEF Plans!Own, Leads, Bound
<1> HIDE DEF gradle, java, own, image
<1>3. prepare # {} /\ \A made \in prepare : made.at = "/cache"
  BY <1>2
<1>4. \A use \in uses : \/ use.at = "image" /\ use.what \in image
                        \/ use.at = "/cache" /\ \E made \in prepare : made.what = use.what
  BY <1>2
<1> HIDE DEF prepare, uses, name, locked
<1>5. AllFit(root, profile, Plans!Step("gradle", image, prepare, locked, <<Plans!Runs(name, uses)>>))
  BY <1>2, <1>3, <1>4, PlaceFits
<1> QED BY <1>1, <1>5, NoneFit DEF image

LEMMA PhpFits ==
  ASSUME NEW root, NEW profile
  PROVE  AllFit(root, profile, Plans!DetectPhp(root.php))
<1> DEFINE p == root.php
           package(name) == Plans!Thing("package", name, "vendor")
           image == {Plans!What("tool", "composer")}
           prepare == {package(name) : name \in p.packages}
           uses == {package("phpunit/phpunit")}
           locked == TRUE
<1>1. \/ Plans!DetectPhp(p) = Plans!NoStep
      \/ /\ Plans!DetectPhp(p) = Plans!Step("php", image, prepare, locked, <<Plans!Runs("phpunit", uses)>>)
         /\ "phpunit/phpunit" \in p.packages
  BY DEF Plans!DetectPhp
<1>2. /\ \A name : package(name).at = "vendor"
      /\ Leads("php", "vendor", "volume") /\ Bound(root, "php", locked)
  BY Things DEF Leads, Bound
<1>3. ASSUME "phpunit/phpunit" \in p.packages
      PROVE  /\ prepare # {} /\ \A made \in prepare : made.at = "vendor"
             /\ \A use \in uses : use.at = "vendor" /\ \E made \in prepare : made.what = use.what
  <2>1. \A name \in p.packages : package(name) \in prepare
    OBVIOUS
  <2>2. \A made \in prepare : made.at = "vendor"
    BY <1>2
  <2> HIDE DEF package, prepare
  <2> QED BY <1>2, <1>3, <2>1, <2>2
<1> HIDE DEF image, prepare, uses, locked
<1>4. ASSUME "phpunit/phpunit" \in p.packages
      PROVE  AllFit(root, profile, Plans!Step("php", image, prepare, locked, <<Plans!Runs("phpunit", uses)>>))
  BY <1>2, <1>3, <1>4, PlaceFits
<1> QED BY <1>1, <1>4, NoneFit

LEMMA CMakeFits ==
  ASSUME NEW root, NEW profile
  PROVE  AllFit(root, profile, Plans!DetectCMake(root.cmake))
<1> DEFINE p == root.cmake
           cmake == Plans!Thing("tool", "cmake", "/prepared")
           ninja == Plans!Thing("tool", "ninja", "/prepared")
           own == Plans!Own("/prepared")
           image == {Plans!What("tool", "python")}
           prepare == {cmake, ninja, own}
           uses == prepare
           locked == FALSE
<1>1. \/ Plans!DetectCMake(p) = Plans!NoStep
      \/ Plans!DetectCMake(p) = Plans!Step("cmake", image, prepare, locked, <<Plans!Runs("ctest", uses)>>)
  BY DEF Plans!DetectCMake
<1>2. /\ cmake.at = "/prepared" /\ ninja.at = "/prepared" /\ own.at = "/prepared"
      /\ Leads("cmake", "/prepared", "volume") /\ Bound(root, "cmake", locked)
  BY Things DEF Plans!Own, Leads, Bound
<1> HIDE DEF cmake, ninja, own, image
<1>3. prepare # {} /\ \A made \in prepare : made.at = "/prepared"
  BY <1>2
<1>4. \A use \in uses : use.at = "/prepared" /\ \E made \in prepare : made.what = use.what
  BY <1>3
<1> HIDE DEF prepare, uses, locked
<1>5. AllFit(root, profile, Plans!Step("cmake", image, prepare, locked, <<Plans!Runs("ctest", uses)>>))
  BY <1>2, <1>3, <1>4, PlaceFits
<1> QED BY <1>1, <1>5, NoneFit

LEMMA DotnetFits ==
  ASSUME NEW root, NEW profile
  PROVE  AllFit(root, profile, Plans!DetectDotnet(root.dotnet, profile))
<1> DEFINE p == root.dotnet
           target == IF profile = "quick" THEN "project" ELSE "solution"
           restored == Plans!Thing("restored", target, "/prepared")
           dotnet == Plans!InImage("tool", "dotnet")
           image == {Plans!What("tool", "dotnet")}
           prepare == {restored}
           uses == {restored, dotnet}
           locked == FALSE
<1>1. \/ Plans!DetectDotnet(p, profile) = Plans!NoStep
      \/ Plans!DetectDotnet(p, profile)
           = Plans!Step("dotnet", image, prepare, locked, <<Plans!Runs(target, uses)>>)
  BY DEF Plans!DetectDotnet
<1>2. /\ restored.at = "/prepared" /\ dotnet.at = "image" /\ dotnet.what \in image
      /\ Leads("dotnet", "/prepared", "volume") /\ Bound(root, "dotnet", locked)
  BY Things DEF Leads, Bound
<1> HIDE DEF restored, dotnet, image
<1>3. prepare # {} /\ \A made \in prepare : made.at = "/prepared"
  BY <1>2
<1>4. \A use \in uses : \/ use.at = "image" /\ use.what \in image
                        \/ use.at = "/prepared" /\ \E made \in prepare : made.what = use.what
  BY <1>2
<1> HIDE DEF prepare, uses, locked, target
<1>5. AllFit(root, profile, Plans!Step("dotnet", image, prepare, locked, <<Plans!Runs(target, uses)>>))
  BY <1>2, <1>3, <1>4, PlaceFits
<1> QED BY <1>1, <1>5, NoneFit DEF image

LEMMA MakeFits ==
  ASSUME NEW root, NEW profile, root.make.configure \in {"none", "sh", "bash", "odd"}
  PROVE  AllFit(root, profile, Plans!DetectMake(root.make, profile))
<1> DEFINE p == root.make
           target == Plans!MakeTarget(p, profile)
           image == {Plans!What("tool", "make"), Plans!What("tool", "sh"), Plans!What("tool", "bash")}
           needed == {"make"} \cup (IF p.configure = "none" THEN {} ELSE {p.configure})
           uses == {Plans!InImage("tool", t) : t \in needed}
           command == <<Plans!Runs(target, uses)>>
           locked == FALSE
           prepare == {}
<1>1. \/ Plans!DetectMake(p, profile) = Plans!NoStep
      \/ /\ Plans!DetectMake(p, profile) = Plans!Step("make", image, prepare, locked, command)
         /\ p.configure # "odd"
  BY DEF Plans!DetectMake
<1>2. ASSUME p.configure # "odd" PROVE Fit(root, profile, "make", image, prepare, locked, command)
  <2>1. \A t \in needed : Plans!What("tool", t) \in image
    BY <1>2
  <2> HIDE DEF needed, image
  <2>2. \A t \in needed : Provided(Plans!InImage("tool", t), "make", image, prepare)
    BY <2>1, ProvidedByImage
  <2>3. \A use \in uses : Provided(use, "make", image, prepare)
    BY <2>2
  <2>4. Bound(root, "make", locked)
    BY DEF Bound
  <2>5. prepare = {}
    OBVIOUS
  <2> HIDE DEF uses, prepare
  <2>6. Supplied(profile, "make", image, prepare, command)
    BY <2>3, OneRunSupplied
  <2> HIDE DEF command
  <2> QED BY <2>4, <2>5, <2>6 DEF Fit
<1> HIDE DEF image, prepare, locked, command
<1>3. ASSUME p.configure # "odd"
      PROVE  AllFit(root, profile, Plans!Step("make", image, prepare, locked, command))
  BY <1>2, <1>3, OneFit
<1> QED BY <1>1, <1>3, NoneFit

LEMMA RubyFits ==
  ASSUME NEW root, NEW profile
  PROVE  AllFit(root, profile, Plans!DetectRuby(root.ruby))
<1> DEFINE lock == root.ruby.lock
           gem(s, at) == Plans!Thing("gem", s, at)
           image == {Plans!What("tool", "ruby")}
           prepare == {gem(d.spec, "/prepared") : d \in Plans!Downloads(lock)}
           uses == {gem(Plans!Bundler(lock), "/prepared")}
                     \cup {gem(s, "vendor/cache") : s \in Plans!SpecsOf(lock.gems)}
           name == Plans!Runner(lock, root.ruby)
           command == <<Plans!Runs(name, uses)>>
           locked == TRUE
<1>1. \/ Plans!DetectRuby(root.ruby) = Plans!NoStep
      \/ Plans!DetectRuby(root.ruby) = Plans!Step("ruby", image, prepare, locked, command)
  BY DEF Plans!DetectRuby
<1>2. \A s \in Plans!Required(lock) : gem(s, "/prepared") \in prepare
  <2> TAKE s \in Plans!Required(lock)
  <2> DEFINE d == [spec |-> s, sum |-> Plans!Sum(lock, s)]
  <2>1. d \in Plans!Downloads(lock) /\ d.spec = s
    BY DEF Plans!Downloads
  <2> HIDE DEF d
  <2>2. gem(d.spec, "/prepared") \in prepare
    BY <2>1
  <2> QED BY <2>1, <2>2
<1>3. /\ Plans!Bundler(lock) \in Plans!Required(lock)
      /\ Plans!SpecsOf(lock.gems) \subseteq Plans!Required(lock)
  BY DEF Plans!Required
<1>4. \A made \in prepare : made.at = "/prepared"
  BY Things
<1> HIDE DEF prepare
<1>5. /\ Leads("ruby", "/prepared", "volume") /\ LeadsInTest("ruby", "/prepared", "volume")
      /\ LeadsInTest("ruby", "vendor/cache", "volume")
  BY DEF Leads, LeadsInTest
<1>6. ASSUME NEW s \in Plans!Required(lock), NEW at \in {"/prepared", "vendor/cache"}
      PROVE  Provided(gem(s, at), "ruby", image, prepare)
  <2>1. LeadsInTest("ruby", at, "volume")
    BY <1>5
  <2> QED BY <1>2, <1>5, <2>1, ProvidedByPrepare
<1>7. \A use \in uses : Provided(use, "ruby", image, prepare)
  BY <1>3, <1>6
<1>8. prepare # {} /\ Bound(root, "ruby", locked)
  BY <1>2, <1>3 DEF Bound
<1> HIDE DEF uses, image, locked
<1>9. Supplied(profile, "ruby", image, prepare, command)
  <2> HIDE DEF name
  <2> QED BY <1>7, OneRunSupplied
<1> HIDE DEF command
<1>10. Fit(root, profile, "ruby", image, prepare, locked, command)
  BY <1>4, <1>8, <1>9 DEF Fit, Prepared, Stores!LeftBehind
<1> QED BY <1>1, <1>10, OneFit, NoneFit

-----------------------------------------------------------------------------
(* Sieve and FirstOf, of the lists of the detectors.                       *)
LEMMA SieveAlike == \A seq, S : Plans!Sieve(seq, S) = Sieve(seq, S)
BY DEF Plans!Sieve, Sieve

LEMMA MembersAlike == \A T : \A s \in Seq(T) : Plans!ToSet(s) = Elements(s)
BY DEF Plans!ToSet, Elements

LEMMA Sieved ==
  ASSUME NEW T, NEW seq \in Seq(T), NEW S
  PROVE  /\ Plans!Sieve(seq, S) \in Seq(T)
         /\ Plans!ToSet(Plans!Sieve(seq, S)) = Plans!ToSet(seq) \cap S
<1>1. Sieve(seq, S) \in Seq(T) /\ Elements(Sieve(seq, S)) = Elements(seq) \cap S
  BY SieveFirst, SieveElements
<1> QED BY <1>1, SieveAlike, MembersAlike

(* The first element of a list is one of its elements.                     *)
LEMMA FirstIsElement ==
  ASSUME NEW T, NEW s \in Seq(T), s # <<>>
  PROVE  s[1] \in Plans!ToSet(s) /\ <<s[1]>> \in Seq(T)
<1>1. 1 \in DOMAIN s /\ s[1] \in T
  OBVIOUS
<1> QED BY <1>1 DEF Plans!ToSet

LEMMA NoMembers ==
  ASSUME NEW T, NEW s \in Seq(T)
  PROVE  s = <<>> <=> Plans!ToSet(s) = {}
<1>1. s # <<>> => 1 \in DOMAIN s
  OBVIOUS
<1> QED BY <1>1, ListOfOne DEF Plans!ToSet

LEMMA FirstFound ==
  ASSUME NEW T, NEW names \in Seq(T), NEW good
  PROVE  \/ Plans!FirstOf(names, good) = "none" /\ Plans!ToSet(names) \cap good = {}
         \/ Plans!FirstOf(names, good) \in Plans!ToSet(names) \cap good
<1> DEFINE found == Plans!Sieve(names, good)
<1>1. found \in Seq(T) /\ Plans!ToSet(found) = Plans!ToSet(names) \cap good
  BY Sieved
<1>2. Plans!FirstOf(names, good) = IF found = <<>> THEN "none" ELSE found[1]
  BY DEF Plans!FirstOf
<1> HIDE DEF found
<1>3. CASE found = <<>>
  BY <1>1, <1>2, <1>3, NoMembers
<1>4. CASE found # <<>>
  BY <1>1, <1>2, <1>4, FirstIsElement
<1> QED BY <1>3, <1>4

-----------------------------------------------------------------------------
(* The scripts of a package that run.                                      *)
LEMMA NodeScriptsAre ==
  ASSUME NEW declared, NEW profile
  PROVE  LET scripts == Plans!NodeScripts(declared, profile)
             known == Plans!ToSet(Plans!KnownScripts) \cap declared
         IN  /\ scripts \in Seq(Plans!ToSet(Plans!KnownScripts))
             /\ Plans!ToSet(scripts) \subseteq known
             /\ profile = "full" => Plans!ToSet(scripts) = known
             /\ scripts = <<>> <=> known = {}
<1> DEFINE T == Plans!ToSet(Plans!KnownScripts)
           known == Plans!Sieve(Plans!KnownScripts, declared)
           scripts == Plans!NodeScripts(declared, profile)
<1>1. Plans!KnownScripts \in Seq(T)
  BY DEF Plans!KnownScripts, Plans!ToSet
<1> HIDE DEF T
<1>2. known \in Seq(T) /\ Plans!ToSet(known) = T \cap declared
  BY <1>1, Sieved DEF T
<1>3. scripts = IF profile = "full" \/ known = <<>> THEN known ELSE <<known[1]>>
  BY DEF Plans!NodeScripts
<1> HIDE DEF known, scripts
<1>4. known = <<>> <=> T \cap declared = {}
  BY <1>2, NoMembers
<1>5. CASE profile = "full" \/ known = <<>>
  BY <1>2, <1>3, <1>4, <1>5 DEF T, scripts
<1>6. CASE ~(profile = "full" \/ known = <<>>)
  <2>1. known[1] \in Plans!ToSet(known) /\ <<known[1]>> \in Seq(T)
    BY <1>2, <1>6, FirstIsElement
  <2>2. scripts \in Seq(T) /\ Plans!ToSet(scripts) = {known[1]} /\ scripts # <<>>
    BY <1>3, <1>6, <2>1, ListOfOne
  <2> QED BY <1>2, <1>4, <1>6, <2>1, <2>2 DEF T, scripts
<1> QED BY <1>5, <1>6

LEMMA BuildFirst ==
  ASSUME NEW p, NEW profile
  PROVE  LET scripts == Plans!ScriptsWithRequiredBuild(p, profile)
             known == Plans!ToSet(Plans!KnownScripts) \cap p.scripts
         IN  /\ scripts \in Seq(Plans!ToSet(Plans!KnownScripts))
             /\ Plans!ToSet(scripts) \subseteq known
             /\ profile = "full" => Plans!ToSet(scripts) = known
             /\ scripts = <<>> <=> known = {}
             /\ "test" \in Plans!ToSet(scripts) /\ "missing" \in p.entrypoints /\ "build" \in p.scripts
                  => scripts[1] = "build"
<1> DEFINE T == Plans!ToSet(Plans!KnownScripts)
           known == T \cap p.scripts
           chosen == Plans!NodeScripts(p.scripts, profile)
           others == Plans!Sieve(chosen, Plans!ToSet(chosen) \ {"build"})
           needs == /\ "test" \in Plans!ToSet(chosen) /\ "build" \in p.scripts
                    /\ "missing" \in p.entrypoints
           scripts == Plans!ScriptsWithRequiredBuild(p, profile)
<1>1. "build" \in T /\ <<"build">> \in Seq(T)
  BY DEF Plans!KnownScripts, Plans!ToSet
<1>2. /\ chosen \in Seq(T) /\ Plans!ToSet(chosen) \subseteq known
      /\ profile = "full" => Plans!ToSet(chosen) = known
      /\ chosen = <<>> <=> known = {}
  BY NodeScriptsAre
<1>3. scripts = IF needs THEN <<"build">> \o others ELSE chosen
  BY DEF Plans!ScriptsWithRequiredBuild
<1> HIDE DEF T, chosen, scripts
<1>4. others \in Seq(T) /\ Plans!ToSet(others) = Plans!ToSet(chosen) \ {"build"}
  BY <1>2, Sieved
<1>5. CASE ~needs
  BY <1>2, <1>3, <1>5 DEF T, scripts
<1>6. CASE needs
  <2> DEFINE first == <<"build">>
  <2> HIDE DEF others
  <2>1. IsList(first) /\ IsList(others) /\ Plans!ToSet(first) = {"build"}
    BY <1>4, ListOfOne DEF IsList
  <2>2. scripts = first \o others
    BY <1>3, <1>6
  <2>3. scripts \in Seq(T) /\ scripts[1] = "build"
    BY <1>1, <1>4, <2>2
  <2> HIDE DEF first
  <2>4. Plans!ToSet(scripts) = {"build"} \cup Plans!ToSet(others)
    BY <2>1, <2>2, ListsTogether
  <2>5. "build" \in known /\ known # {} /\ scripts # <<>>
    BY <1>1, <1>6, <2>3, <2>4, NoMembers
  <2>6. Plans!ToSet(scripts) \subseteq known /\ (profile = "full" => Plans!ToSet(scripts) = known)
    BY <1>2, <1>4, <2>4, <2>5
  <2> QED BY <2>3, <2>5, <2>6 DEF T, scripts
<1> QED BY <1>5, <1>6

(* Runs of scripts that all use the manager and what it installed.         *)
LEMMA ScriptRunsAre ==
  ASSUME NEW T, NEW scripts \in Seq(T), NEW manager, NEW modules
  PROVE  LET command == Plans!ScriptRuns(scripts, manager, modules)
         IN  /\ DOMAIN command = DOMAIN scripts
             /\ \A i \in DOMAIN scripts : command[i].runs = scripts[i]
             /\ \A run \in Plans!ToSet(command) :
                  /\ run.runs \in Plans!ToSet(scripts)
                  /\ run.uses = {manager, Plans!Thing("packages", "own", modules)}
             /\ \A name \in Plans!ToSet(scripts) : \E run \in Plans!ToSet(command) : run.runs = name
<1> DEFINE command == Plans!ScriptRuns(scripts, manager, modules)
           uses == {manager, Plans!Thing("packages", "own", modules)}
<1>1. /\ DOMAIN command = DOMAIN scripts
      /\ \A i \in DOMAIN scripts : command[i] = Plans!Runs(scripts[i], uses)
  BY DEF Plans!ScriptRuns
<1> HIDE DEF command, uses
<1>2. \A i \in DOMAIN scripts : command[i].runs = scripts[i] /\ command[i].uses = uses
  BY <1>1, Things
<1>3. /\ Plans!ToSet(command) = {command[i] : i \in DOMAIN scripts}
      /\ Plans!ToSet(scripts) = {scripts[i] : i \in DOMAIN scripts}
  BY <1>1 DEF Plans!ToSet
<1> QED BY <1>1, <1>2, <1>3 DEF command, uses

LEMMA DenoFits ==
  ASSUME NEW root, NEW profile
  PROVE  AllFit(root, profile, Plans!DetectDeno(root.node, profile))
<1> DEFINE p == root.node
           tasks == Plans!NodeScripts(p.tasks, profile)
           deno == Plans!InImage("tool", "deno")
           own == Plans!Thing("packages", "own", "vendor")
           image == {Plans!What("tool", "deno")}
           prepare == {own}
           command == Plans!ScriptRuns(tasks, deno, "vendor")
           locked == p.denoLock
<1>1. \/ Plans!DetectDeno(p, profile) = Plans!NoStep
      \/ Plans!DetectDeno(p, profile) = Plans!Step("deno", image, prepare, locked, command)
  BY DEF Plans!DetectDeno
<1>2. \A run \in Plans!ToSet(command) : run.uses = {deno, own}
  <2>1. tasks \in Seq(Plans!ToSet(Plans!KnownScripts))
    BY NodeScriptsAre
  <2> HIDE DEF tasks
  <2> QED BY <2>1, ScriptRunsAre
<1>3. Provided(deno, "deno", image, prepare)
  BY ProvidedByImage
<1>4. Provided(own, "deno", image, prepare)
  <2>1. Leads("deno", "vendor", "volume") /\ LeadsInTest("deno", "vendor", "volume")
    BY DEF Leads, LeadsInTest
  <2> QED BY <2>1, ProvidedByPrepare
<1>5. prepare # {} /\ \A made \in prepare : made.at = "vendor"
  BY Things
<1>6. Bound(root, "deno", locked)
  BY DEF Bound
<1> HIDE DEF command, image, prepare, locked, deno, own
<1>7. Supplied(profile, "deno", image, prepare, command)
  BY <1>2, <1>3, <1>4 DEF Supplied
<1>8. Fit(root, profile, "deno", image, prepare, locked, command)
  BY <1>5, <1>6, <1>7 DEF Fit, Prepared, Stores!LeftBehind, Stores!Paired
<1> QED BY <1>1, <1>8, OneFit, NoneFit

LEMMA NodeStepFits ==
  ASSUME NEW root, NEW profile, NEW eco \in {"node", "bun"}, NEW manager, NEW locked,
         manager = Plans!InImage("tool", "npm") \/ \E tool : manager = Plans!Brought(tool),
         Bound(root, eco, locked)
  PROVE  AllFit(root, profile,
                Plans!NodeStep(eco, manager, locked, Plans!ScriptsWithRequiredBuild(root.node, profile)))
<1> DEFINE p == root.node
           scripts == Plans!ScriptsWithRequiredBuild(p, profile)
           npm == Plans!InImage("tool", "npm")
           own == Plans!Thing("packages", "own", "node_modules")
           image == Plans!NodeImage
           prepare == {own} \cup ({manager} \ {npm})
           command == Plans!ScriptRuns(scripts, manager, "node_modules")
<1>1. Plans!NodeStep(eco, manager, locked, scripts) = Plans!Step(eco, image, prepare, locked, command)
  BY DEF Plans!NodeStep
<1>2. /\ scripts \in Seq(Plans!ToSet(Plans!KnownScripts))
      /\ "test" \in Plans!ToSet(scripts) /\ "missing" \in p.entrypoints /\ "build" \in p.scripts
           => scripts[1] = "build"
  BY BuildFirst
<1> HIDE DEF scripts
<1>3. /\ DOMAIN command = DOMAIN scripts
      /\ \A i \in DOMAIN scripts : command[i].runs = scripts[i]
      /\ \A run \in Plans!ToSet(command) : run.uses = {manager, own}
  BY <1>2, ScriptRunsAre
<1> HIDE DEF command
<1>4. Provided(own, eco, image, prepare)
  <2>1. /\ Leads(eco, "node_modules", "volume") /\ LeadsInTest(eco, "node_modules", "volume")
        /\ own \in prepare
    BY DEF Leads, LeadsInTest
  <2> HIDE DEF prepare, image
  <2> QED BY <2>1, ProvidedByPrepare
<1>5. own.at = "node_modules" /\ (manager = npm \/ manager.at = "/prepared")
  BY Things DEF Plans!Brought
<1>6. Provided(manager, eco, image, prepare)
  <2>1. CASE manager = npm
    <3>1. Plans!What("tool", "npm") \in image
      BY DEF Plans!NodeImage
    <3> HIDE DEF image, prepare
    <3> QED BY <2>1, <3>1, ProvidedByImage
  <2>2. CASE manager # npm
    <3>1. manager \in prepare /\ manager.at = "/prepared"
      BY <1>5, <2>2
    <3>2. Leads(eco, "/prepared", "support") /\ LeadsInTest(eco, "/prepared", "support")
      BY DEF Leads, LeadsInTest
    <3> HIDE DEF prepare
    <3> QED BY <3>1, <3>2 DEF Provided
  <2> QED BY <2>1, <2>2
<1>7. prepare # {} /\ \A made \in prepare : made.at \in {"node_modules", "/prepared"}
  BY <1>5
<1> HIDE DEF prepare, image, own
<1>8. Supplied(profile, eco, image, prepare, command)
  BY <1>3, <1>4, <1>6 DEF Supplied
<1>9. Plans!BuiltBefore(root, command)
  <2> SUFFICES ASSUME NEW i \in DOMAIN command, command[i].runs = "test",
                      "missing" \in root.node.entrypoints, "build" \in root.node.scripts
               PROVE  \E j \in 1..(i - 1) : command[j].runs = "build"
    BY DEF Plans!BuiltBefore
  <2>1. scripts[i] = "test" /\ i \in DOMAIN scripts
    BY <1>3
  <2>2. "test" \in Plans!ToSet(scripts)
    BY <2>1 DEF Plans!ToSet
  <2>3. scripts[1] = "build"
    BY <1>2, <2>2
  <2>4. i \in 1..Len(scripts) /\ 1 \in DOMAIN scripts /\ i # 1 /\ Len(scripts) \in Nat
    BY <1>2, <2>1, <2>3
  <2>5. 1 \in 1..(i - 1) /\ command[1].runs = "build"
    BY <1>3, <2>3, <2>4
  <2> QED BY <2>5
<1>10. Fit(root, profile, eco, image, prepare, locked, command)
  BY <1>7, <1>8, <1>9 DEF Fit, Prepared, Stores!LeftBehind, Stores!Paired
<1> QED BY <1>1, <1>10, OneFit DEF scripts

LEMMA NodeFits ==
  ASSUME NEW root, NEW profile, root.node.locks \subseteq {"bun", "pnpm", "yarn", "npm"}
  PROVE  AllFit(root, profile, Plans!DetectNode(root.node, profile))
<1> DEFINE p == root.node
           scripts == Plans!ScriptsWithRequiredBuild(p, profile)
           yes == TRUE
           npmLock == "npm" \in p.locks
           bun == Plans!Brought("bun")
           corepack == Plans!Brought("corepack")
           npm == Plans!InImage("tool", "npm")
           found == Plans!DetectPackage(p, profile)
<1>1. \/ found = Plans!NoStep
      \/ found = Plans!NodeStep("bun", bun, yes, scripts)
      \/ found = Plans!NodeStep("node", corepack, yes, scripts)
      \/ /\ found = Plans!NodeStep("node", npm, npmLock, scripts)
         /\ {"bun", "pnpm", "yarn"} \cap p.locks = {}
  BY DEF Plans!DetectPackage
<1>2. /\ Bound(root, "bun", yes) /\ Bound(root, "node", yes)
      /\ {"bun", "pnpm", "yarn"} \cap p.locks = {} => Bound(root, "node", npmLock)
  BY DEF Bound
<1> HIDE DEF yes, npmLock, found
<1>3. AllFit(root, profile, Plans!NodeStep("bun", bun, yes, scripts))
  BY <1>2, NodeStepFits
<1>4. AllFit(root, profile, Plans!NodeStep("node", corepack, yes, scripts))
  BY <1>2, NodeStepFits
<1>5. ASSUME {"bun", "pnpm", "yarn"} \cap p.locks = {}
      PROVE  AllFit(root, profile, Plans!NodeStep("node", npm, npmLock, scripts))
  BY <1>2, <1>5, NodeStepFits
<1>6. AllFit(root, profile, found)
  BY <1>1, <1>3, <1>4, <1>5, NoneFit
<1> QED BY <1>6, DenoFits DEF Plans!DetectNode, found

-----------------------------------------------------------------------------
(* The environment of tox a quick check runs: its interpreter is the one   *)
(* of the image, else the image has the preferred one; and it is one of    *)
(* those listed unless none of them is of any use.                         *)
OfUse == DOMAIN Plans!MinorOf \cup Plans!Tests \cup {"py"}
QuickEnvironment(quick, envs, preferred) ==
  /\ quick[1] \in DOMAIN Plans!MinorOf => quick[2] = Plans!MinorOf[quick[1]]
  /\ quick[1] \notin DOMAIN Plans!MinorOf => quick[2] = preferred
  /\ quick[1] \notin Plans!ToSet(envs) => quick[1] = "py" /\ Plans!ToSet(envs) \cap OfUse = {}

LEMMA QuickTox ==
  ASSUME NEW T, NEW envs \in Seq(T), NEW preferred
  PROVE  QuickEnvironment(Plans!QuickToxEnvironment(envs, preferred), envs, preferred)
<1> DEFINE versioned == Plans!Sieve(envs, DOMAIN Plans!MinorOf)
           matching == Plans!Sieve(versioned, Plans!WithMinor(preferred))
           py == Plans!FirstOf(envs, {"py"})
           test == Plans!FirstOf(envs, Plans!Tests)
           quick == Plans!QuickToxEnvironment(envs, preferred)
<1>1. versioned \in Seq(T) /\ Plans!ToSet(versioned) = Plans!ToSet(envs) \cap DOMAIN Plans!MinorOf
  BY Sieved
<1>2. quick = CASE matching # <<>> -> <<matching[1], preferred>>
                [] matching = <<>> /\ versioned # <<>> -> <<versioned[1], Plans!MinorOf[versioned[1]]>>
                [] versioned = <<>> /\ py = "none" /\ test # "none" -> <<test, preferred>>
                [] OTHER -> <<"py", preferred>>
  BY DEF Plans!QuickToxEnvironment
<1> HIDE DEF versioned
<1>3. /\ matching \in Seq(T)
      /\ Plans!ToSet(matching) = Plans!ToSet(versioned) \cap Plans!WithMinor(preferred)
  BY <1>1, Sieved
<1>4. \/ py = "none" /\ Plans!ToSet(envs) \cap {"py"} = {}
      \/ py \in Plans!ToSet(envs) \cap {"py"}
  BY FirstFound
<1>5. \/ test = "none" /\ Plans!ToSet(envs) \cap Plans!Tests = {}
      \/ test \in Plans!ToSet(envs) \cap Plans!Tests
  BY FirstFound
<1>6. DOMAIN Plans!MinorOf = {"py311", "py312", "py313"} /\ Plans!Tests = {"unit"}
  BY DEF Plans!MinorOf, Plans!Tests
<1> HIDE DEF matching, py, test, quick
<1>7. CASE matching # <<>>
  <2>1. matching[1] \in Plans!ToSet(matching)
    BY <1>3, <1>7, FirstIsElement
  <2>2. quick = <<matching[1], preferred>>
    <3>1. versioned # <<>>
      BY <1>1, <1>3, <2>1, NoMembers
    <3> QED BY <1>2, <1>7, <3>1
  <2>3. Plans!MinorOf[matching[1]] = preferred
    BY <1>3, <2>1 DEF Plans!WithMinor
  <2> QED BY <1>1, <1>3, <2>1, <2>2, <2>3 DEF QuickEnvironment, quick
<1>8. CASE matching = <<>> /\ versioned # <<>>
  <2>1. versioned[1] \in Plans!ToSet(versioned)
    BY <1>1, <1>8, FirstIsElement
  <2>2. quick = <<versioned[1], Plans!MinorOf[versioned[1]]>>
    BY <1>2, <1>8
  <2> QED BY <1>1, <2>1, <2>2 DEF QuickEnvironment, quick
<1>9. CASE matching = <<>> /\ versioned = <<>> /\ py = "none" /\ test # "none"
  <2>1. quick = <<test, preferred>>
    BY <1>2, <1>9
  <2>2. test \in Plans!ToSet(envs) /\ test \notin DOMAIN Plans!MinorOf
    BY <1>5, <1>6, <1>9
  <2> QED BY <2>1, <2>2 DEF QuickEnvironment, quick
<1>10. CASE matching = <<>> /\ versioned = <<>> /\ ~(py = "none" /\ test # "none")
  <2>1. quick = <<"py", preferred>>
    BY <1>2, <1>10
  <2>2. Plans!ToSet(envs) \cap DOMAIN Plans!MinorOf = {}
    BY <1>1, <1>10, NoMembers
  <2>3. "py" \notin Plans!ToSet(envs) => Plans!ToSet(envs) \cap OfUse = {}
    BY <1>4, <1>5, <1>6, <1>10, <2>2 DEF OfUse
  <2>4. "py" \notin DOMAIN Plans!MinorOf
    BY <1>6
  <2> QED BY <2>1, <2>3, <2>4 DEF QuickEnvironment, quick
<1> QED BY <1>7, <1>8, <1>9, <1>10

(* What is installed for a declaration.                                    *)
LEMMA InstalledThere ==
  ASSUME NEW dependencies, NEW name \in {"tox", "pytest"}, Plans!Declares(dependencies, name), NEW at
  PROVE  Plans!Thing("package", name, at) \in Plans!Packages(dependencies, at)
BY DEF Plans!Packages, Plans!Installed

LEMMA PytestFits ==
  ASSUME NEW root, NEW profile, NEW minor, NEW dependencies, Plans!Declares(dependencies, "pytest"),
         NEW at \in {".venv", "/prepared"}, NEW to \in {".venv", "/prepared"}, NEW locked,
         Bound(root, "python", locked)
  PROVE  AllFit(root, profile,
                Plans!Step("python", Plans!UvImage(minor), Plans!Packages(dependencies, at), locked,
                           Plans!Pytest(to)))
<1> DEFINE image == Plans!UvImage(minor)
           prepare == Plans!Packages(dependencies, at)
           uses == {Plans!Thing("package", "pytest", to)}
           command == Plans!Pytest(to)
<1>1. Plans!Thing("package", "pytest", at) \in prepare
  BY InstalledThere
<1>2. Leads("python", at, "volume") /\ LeadsInTest("python", to, "volume")
  BY DEF Leads, LeadsInTest
<1>3. command = <<Plans!Runs("pytest", uses)>>
  BY DEF Plans!Pytest
<1>4. prepare # {} /\ \A made \in prepare : made.at = at
  BY <1>1, Things DEF Plans!Packages
<1> HIDE DEF prepare, image, command
<1>5. \A use \in uses : Provided(use, "python", image, prepare)
  BY <1>1, <1>2, ProvidedByPrepare
<1>6. Supplied(profile, "python", image, prepare, command)
  <2> HIDE DEF uses
  <2> QED BY <1>3, <1>5, OneRunSupplied
<1>7. Fit(root, profile, "python", image, prepare, locked, command)
  BY <1>4, <1>6 DEF Fit, Prepared, Stores!LeftBehind, Stores!Paired
<1> QED BY <1>7, OneFit DEF image, prepare, command

LEMMA ToxGroupDeclares ==
  ASSUME NEW p, Plans!ToxGroup(p) # "none"
  PROVE  Plans!Declares(p.groups[Plans!ToxGroup(p)], "tox")
<1> DEFINE names == <<"dev", "test", "tests">>
           good == {g \in Plans!Groups : Plans!Declares(p.groups[g], "tox")}
<1>1. names \in Seq(Plans!Groups)
  BY DEF Plans!Groups
<1> HIDE DEF names
<1>2. Plans!FirstOf(names, good) = "none" \/ Plans!FirstOf(names, good) \in good
  BY <1>1, FirstFound
<1> QED BY <1>2 DEF Plans!ToxGroup, names

LEMMA PytestGroupDeclares ==
  ASSUME NEW declared, Plans!PytestGroup(declared) # "none"
  PROVE  Plans!Declares(declared[Plans!PytestGroup(declared)], "pytest")
<1> DEFINE names == <<"test", "tests", "dev">>
           good == {g \in Plans!Groups : Plans!Declares(declared[g], "pytest")}
<1>1. names \in Seq(Plans!Groups)
  BY DEF Plans!Groups
<1> HIDE DEF names
<1>2. Plans!FirstOf(names, good) = "none" \/ Plans!FirstOf(names, good) \in good
  BY <1>1, FirstFound
<1> QED BY <1>2 DEF Plans!PytestGroup, names

LEMMA ToxFits ==
  ASSUME NEW root, NEW profile, NEW T, root.python.envs \in Seq(T), Plans!ToxGroup(root.python) # "none"
  PROVE  AllFit(root, profile, Plans!ToxStep(root.python, profile))
<1> DEFINE p == root.python
           group == Plans!ToxGroup(p)
           quick == Plans!QuickToxEnvironment(p.envs, Plans!PythonMinor(p))
           envs == IF profile = "quick" THEN <<quick[1]>> ELSE Plans!Listed(p)
           minor == IF profile = "quick" THEN quick[2] ELSE Plans!PythonMinor(p)
           image == Plans!UvImage(minor)
           packages == Plans!Packages(p.groups[group], ".venv")
           made(e) == Plans!Thing("env", e, ".tox")
           environments == {made(e) : e \in Plans!ToSet(envs)}
           prepare == packages \cup environments
           command == [i \in DOMAIN envs |-> Plans!ToxRun(envs[i], group, p)]
           locked == p.lock
           tox == Plans!Thing("package", "tox", ".venv")
           uv == Plans!Thing("package", "tox-uv", ".venv")
           python(e) == Plans!InImage("python", Plans!MinorOf[e])
<1>1. Plans!ToxStep(p, profile) = Plans!Step("python", image, prepare, locked, command)
  BY DEF Plans!ToxStep
<1>2. tox \in packages
  <2>1. Plans!Declares(p.groups[group], "tox")
    BY ToxGroupDeclares
  <2> QED BY <2>1, InstalledThere
<1>3. "tox-uv" \in p.groups[group] => uv \in packages
  BY DEF Plans!Packages, Plans!Installed
<1>4. \A thing \in packages : thing.at = ".venv"
  BY Things DEF Plans!Packages
<1>5. QuickEnvironment(quick, p.envs, Plans!PythonMinor(p))
  BY QuickTox
<1> HIDE DEF quick, packages
<1>6. /\ \A e : python(e).what[1] = "python"
      /\ profile = "quick" => Plans!ToSet(envs) = {quick[1]}
  <2>1. \A e : python(e).what = <<"python", Plans!MinorOf[e]>>
    BY Things
  <2> HIDE DEF python
  <2>2. profile = "quick" => envs = <<quick[1]>>
    OBVIOUS
  <2> HIDE DEF envs
  <2> QED BY <2>1, <2>2, ListOfOne
<1>7. ASSUME profile = "quick", NEW e \in Plans!ToSet(envs), e \in DOMAIN Plans!MinorOf
      PROVE  Plans!What("python", Plans!MinorOf[e]) \in image
  <2>1. e = quick[1] /\ minor = quick[2]
    BY <1>6, <1>7
  <2>2. minor = Plans!MinorOf[e]
    BY <1>5, <1>7, <2>1 DEF QuickEnvironment
  <2> QED BY <2>2 DEF Plans!UvImage
<1> HIDE DEF envs, minor, image
<1>8. /\ Leads("python", ".venv", "volume") /\ LeadsInTest("python", ".venv", "volume")
      /\ Leads("python", ".tox", "volume") /\ LeadsInTest("python", ".tox", "volume")
  BY DEF Leads, LeadsInTest
<1>9. ASSUME NEW e \in Plans!ToSet(envs)
      PROVE  \A use \in Plans!ToxRun(e, group, p).uses :
               \/ Provided(use, "python", image, prepare)
               \/ use.what[1] = "python" /\ profile # "quick"
  <2>1. Plans!ToxRun(e, group, p).uses
          = {tox, made(e)} \cup (IF "tox-uv" \in p.groups[group] THEN {uv} ELSE {})
              \cup (IF e \in DOMAIN Plans!MinorOf THEN {python(e)} ELSE {})
    BY Things DEF Plans!ToxRun
  <2>2. tox \in prepare /\ made(e) \in prepare /\ ("tox-uv" \in p.groups[group] => uv \in prepare)
    BY <1>2, <1>3
  <2> HIDE DEF prepare
  <2>3. Provided(tox, "python", image, prepare)
    BY <1>8, <2>2, ProvidedByPrepare
  <2>4. Provided(made(e), "python", image, prepare)
    BY <1>8, <2>2, ProvidedByPrepare
  <2>5. "tox-uv" \in p.groups[group] => Provided(uv, "python", image, prepare)
    BY <1>8, <2>2, ProvidedByPrepare
  <2>6. e \in DOMAIN Plans!MinorOf =>
          \/ Provided(python(e), "python", image, prepare)
          \/ python(e).what[1] = "python" /\ profile # "quick"
    <3>1. CASE profile = "quick" /\ e \in DOMAIN Plans!MinorOf
      BY <1>7, <3>1, ProvidedByImage
    <3> QED BY <1>6, <3>1
  <2> HIDE DEF tox, made, uv, python, group
  <2> QED BY <2>1, <2>3, <2>4, <2>5, <2>6
<1>10. Supplied(profile, "python", image, prepare, command)
  <2>1. \A run \in Plans!ToSet(command) : \E e \in Plans!ToSet(envs) : run = Plans!ToxRun(e, group, p)
    BY DEF Plans!ToSet
  <2> HIDE DEF command, prepare, group
  <2> QED BY <1>9, <2>1 DEF Supplied
<1>11. prepare # {} /\ \A thing \in prepare : thing.at \in {".venv", ".tox"}
  BY <1>2, <1>4, Things
<1>12. Bound(root, "python", locked)
  BY DEF Bound
<1> HIDE DEF prepare, command, locked
<1>13. Fit(root, profile, "python", image, prepare, locked, command)
  BY <1>10, <1>11, <1>12 DEF Fit, Prepared, Stores!LeftBehind, Stores!Paired
<1>14. AllFit(root, profile, Plans!Step("python", image, prepare, locked, command))
  BY <1>13, OneFit
<1> QED BY <1>1, <1>14

LEMMA PythonFits ==
  ASSUME NEW root, NEW profile, NEW T, root.python.envs \in Seq(T)
  PROVE  AllFit(root, profile, Plans!DetectPython(root.python, profile))
<1> DEFINE p == root.python
           found == Plans!DetectPython(p, profile)
<1>1. ASSUME NEW dependencies, Plans!Declares(dependencies \cup p.direct, "pytest")
      PROVE  AllFit(root, profile, Plans!Synced(p, dependencies))
  <2> DEFINE locked == p.lock
  <2>1. Bound(root, "python", locked)
    BY DEF Bound
  <2> HIDE DEF locked
  <2>2. AllFit(root, profile, Plans!Step("python", Plans!UvImage(Plans!PythonMinor(p)),
               Plans!Packages(dependencies \cup p.direct, ".venv"), locked, Plans!Pytest(".venv")))
    BY <1>1, <2>1, PytestFits
  <2> QED BY <2>2 DEF Plans!Synced, locked
<1>2. ASSUME NEW dependencies, NEW at \in {".venv", "/prepared"}
      PROVE  AllFit(root, profile, Plans!WithPytest(p, dependencies, at))
  <2> DEFINE locked == p.lock /\ p.pyproject
             more == dependencies \cup {"pytest"}
  <2>1. Bound(root, "python", locked) /\ Plans!Declares(more, "pytest")
    BY DEF Bound, Plans!Declares
  <2> HIDE DEF locked, more
  <2>2. AllFit(root, profile, Plans!Step("python", Plans!UvImage(Plans!PythonMinor(p)),
               Plans!Packages(more, at), locked, Plans!Pytest("/prepared")))
    BY <2>1, PytestFits
  <2> QED BY <2>2 DEF Plans!WithPytest, locked, more
<1>3. \A some, more : Plans!Declares(some, "pytest") => Plans!Declares(some \cup more, "pytest")
  BY DEF Plans!Declares
<1>4. AllFit(root, profile, Plans!FromPyproject(p, profile))
  <2> DEFINE inGroup == Plans!PytestGroup(p.groups)
             inExtra == Plans!PytestGroup(p.extras)
  <2>1. inGroup # "none" => AllFit(root, profile, Plans!Synced(p, p.groups[inGroup]))
    BY <1>1, <1>3, PytestGroupDeclares
  <2>2. inExtra # "none" => AllFit(root, profile, Plans!Synced(p, p.extras[inExtra]))
    BY <1>1, <1>3, PytestGroupDeclares
  <2>3. Plans!Declares(p.direct, "pytest") => AllFit(root, profile, Plans!Synced(p, {}))
    <3>1. {} \cup p.direct = p.direct
      OBVIOUS
    <3> QED BY <1>1, <3>1
  <2>4. AllFit(root, profile, Plans!WithPytest(p, p.direct, ".venv"))
    BY <1>2
  <2>5. Plans!ToxGroup(p) # "none" => AllFit(root, profile, Plans!ToxStep(p, profile))
    BY ToxFits
  <2> HIDE DEF inGroup, inExtra
  <2> QED BY <2>1, <2>2, <2>3, <2>4, <2>5, NoneFit DEF Plans!FromPyproject, inGroup, inExtra
<1>5. ASSUME ~p.pyproject PROVE AllFit(root, profile, Plans!FromSetup(p))
  <2> DEFINE extra == Plans!PytestGroup(p.cfgExtras)
             locked == FALSE
  <2>1. Bound(root, "python", locked)
    BY <1>5 DEF Bound
  <2> HIDE DEF locked
  <2>2. extra # "none" =>
          AllFit(root, profile, Plans!Step("python", Plans!UvImage(Plans!PythonMinor(p)),
                 Plans!Packages(p.cfgExtras[extra], "/prepared"), locked, Plans!Pytest("/prepared")))
    BY <2>1, PytestGroupDeclares, PytestFits
  <2>3. AllFit(root, profile, Plans!WithPytest(p, {}, "/prepared"))
    BY <1>2
  <2> HIDE DEF extra
  <2> QED BY <2>2, <2>3, NoneFit DEF Plans!FromSetup, extra, locked
<1>6. AllFit(root, profile, Plans!WithPytest(p, {}, "/prepared"))
  BY <1>2
<1> QED BY <1>4, <1>5, <1>6, NoneFit DEF Plans!DetectPython

(* An interpreter with an image that satisfies what is asked is taken.     *)
LEMMA InterpreterFits ==
  ASSUME NEW p, p.least \in 0..14, p.below \in Nat, p.below = 0 \/ p.below >= 12
  PROVE  Plans!InterpreterAllowed(p)
BY DEF Plans!InterpreterAllowed, Plans!PythonMinor, Plans!Largest, Plans!Smallest

-----------------------------------------------------------------------------
(* A root: of what is in its files, what the choices above depend on.  An  *)
(* interpreter there is an image for satisfies what is asked.              *)
IsRoot(root) ==
  /\ IsList(root.python.envs)
  /\ root.python.least \in 0..14 /\ root.python.below \in Nat
  /\ root.python.below = 0 \/ root.python.below >= 12
  /\ root.node.locks \subseteq {"bun", "pnpm", "yarn", "npm"}
  /\ root.make.configure \in {"none", "sh", "bash", "odd"}

LEMMA AutomaticStepsFit ==
  ASSUME NEW root, IsRoot(root), NEW profile
  PROVE  AllFit(root, profile, Plans!AutomaticSteps(root, profile))
<1> DEFINE rust == Plans!DetectRust(root.rust, profile)
           node == Plans!DetectNode(root.node, profile)
           python == Plans!DetectPython(root.python, profile)
           go == Plans!DetectGo(root.go)
           java == Plans!Java(root, profile)
           ruby == Plans!DetectRuby(root.ruby)
           php == Plans!DetectPhp(root.php)
           native == Plans!Native(root, profile)
           dotnet == Plans!DetectDotnet(root.dotnet, profile)
<1>1. AllFit(root, profile, rust) /\ AllFit(root, profile, go)
  BY RustFits, GoFits
<1>2. AllFit(root, profile, node)
  BY NodeFits DEF IsRoot
<1>3. AllFit(root, profile, python)
  BY PythonFits DEF IsRoot, IsList
<1>4. AllFit(root, profile, java)
  <2> DEFINE maven == Plans!DetectMaven(root.maven, profile)
             gradle == Plans!DetectGradle(root.gradle, profile)
  <2>1. AllFit(root, profile, maven) /\ AllFit(root, profile, gradle)
    BY MavenFits, GradleFits
  <2> HIDE DEF maven, gradle
  <2>2. AllFit(root, profile, maven \o gradle)
    BY <2>1, FitTogether
  <2> QED BY <2>1, <2>2 DEF Plans!Java, maven, gradle
<1>5. AllFit(root, profile, ruby) /\ AllFit(root, profile, php)
  BY RubyFits, PhpFits
<1>6. AllFit(root, profile, native)
  <2>1. AllFit(root, profile, Plans!DetectMake(root.make, profile))
    BY MakeFits DEF IsRoot
  <2> QED BY <2>1, CMakeFits DEF Plans!Native
<1>7. AllFit(root, profile, dotnet)
  BY DotnetFits
<1>8. Plans!AutomaticSteps(root, profile)
        = rust \o node \o python \o go \o java \o ruby \o php \o native \o dotnet
  BY DEF Plans!AutomaticSteps
<1> HIDE DEF rust, node, python, go, java, ruby, php, native, dotnet
<1>9. AllFit(root, profile, rust \o node \o python \o go)
  BY <1>1, <1>2, <1>3, FitTogether
<1>10. AllFit(root, profile, rust \o node \o python \o go \o java \o ruby \o php)
  BY <1>4, <1>5, <1>9, FitTogether
<1> QED BY <1>6, <1>7, <1>8, <1>10, FitTogether

(* The test of an automatic step uses what its preparation has put where   *)
(* the test container finds it, or what is in the image; a committed lock  *)
(* binds the preparation; and the interpreter PythonMinor chooses is within*)
(* the bounds InterpreterAllowed reads, whatever tasks, groups,            *)
(* environments and files the root has.                                    *)
THEOREM TestsUseWhatWasPrepared ==
  ASSUME input.of = "root" => IsRoot(input.root)
  PROVE  TestsWhatItPrepared
<1> SUFFICES ASSUME input.of = "root", NEW profile \in Plans!Profiles, NEW runner \in {"docker", "container"}
             PROVE  Plans!TestsWhatItPrepared(input.root, profile, runner)
  BY DEF TestsWhatItPrepared
<1> DEFINE root == input.root
           plan == Plans!DetectPlan(root, profile)
<1>1. IsRoot(root)
  OBVIOUS
<1> HIDE DEF root
<1>2. Plans!InterpreterAllowed(root.python)
  BY <1>1, InterpreterFits DEF IsRoot
<1>3. CASE plan.kind # "automatic"
  BY <1>3 DEF Plans!TestsWhatItPrepared, root
<1>4. CASE plan.kind = "automatic"
  <2>1. plan.steps = Plans!AutomaticSteps(root, profile)
    BY <1>4 DEF Plans!DetectPlan, Plans!Plan
  <2>2. AllFit(root, profile, plan.steps)
    BY <1>1, <2>1, AutomaticStepsFit
  <2> HIDE DEF plan
  <2>3. ASSUME NEW i \in DOMAIN plan.steps PROVE FitStep(root, profile, plan.steps[i])
    BY <2>2 DEF AllFit, Plans!ToSet
  <2>4. ASSUME NEW i \in DOMAIN plan.steps
        PROVE  LET step == plan.steps[i]
               IN  /\ \A run \in Plans!ToSet(step.command) : \A use \in run.uses :
                        \/ Plans!Served(use, step, runner)
                        \/ use.what[1] = "python" /\ profile # "quick"
                   /\ \A made \in step.prepare : made.at \in Plans!Containers!LeftBehind(step.ecosystem)
                   /\ Plans!Containers!Automatic(Plans!ContainerStep(step))
                   /\ Plans!HasLock(root, step) => step.locked
                   /\ step.ecosystem \in {"node", "bun"} => Plans!BuiltBefore(root, step.command)
    BY <2>3, FitIsSound
  <2> QED BY <1>2, <2>4, Zenon DEF Plans!TestsWhatItPrepared, plan, root
<1> QED BY <1>3, <1>4

-----------------------------------------------------------------------------
(* What the steps of a plan run, and when runs are among others.           *)
RunsIn(steps) ==
  UNION {{Plans!Placed(step, run) : run \in Plans!ToSet(step.command)} : step \in Plans!ToSet(steps)}
Within(root, some, more) ==
  /\ IsList(some) /\ IsList(more)
  /\ \A quick \in RunsIn(some) :
       \/ Plans!NarrowByChoice(root, quick.run)
       \/ \E full \in RunsIn(more) : Plans!RunsAlike(root, full, quick)

LEMMA RunsTogether ==
  ASSUME NEW a, IsList(a), NEW b, IsList(b)
  PROVE  IsList(a \o b) /\ RunsIn(a \o b) = RunsIn(a) \cup RunsIn(b)
<1>1. IsList(a \o b) /\ Plans!ToSet(a \o b) = Plans!ToSet(a) \cup Plans!ToSet(b)
  BY ListsTogether
<1> QED BY <1>1 DEF RunsIn

LEMMA WithinMore ==
  ASSUME NEW root, NEW a, NEW b, NEW c, Within(root, a, b), IsList(c)
  PROVE  Within(root, a, b \o c) /\ Within(root, a, c \o b)
<1>1. IsList(a) /\ IsList(b)
  BY DEF Within
<1>2. /\ IsList(b \o c) /\ RunsIn(b) \subseteq RunsIn(b \o c)
      /\ IsList(c \o b) /\ RunsIn(b) \subseteq RunsIn(c \o b)
  BY <1>1, RunsTogether
<1> QED BY <1>2 DEF Within

LEMMA WithinTogether ==
  ASSUME NEW root, NEW a, NEW b, Within(root, a, b), NEW c, NEW d, Within(root, c, d)
  PROVE  Within(root, a \o c, b \o d)
<1>1. IsList(a) /\ IsList(b) /\ IsList(c) /\ IsList(d)
  BY DEF Within
<1>2. Within(root, a, b \o d) /\ Within(root, c, b \o d)
  BY <1>1, WithinMore
<1>3. IsList(a \o c) /\ RunsIn(a \o c) = RunsIn(a) \cup RunsIn(c)
  BY <1>1, RunsTogether
<1> QED BY <1>2, <1>3 DEF Within

LEMMA WithinItself ==
  ASSUME NEW root, NEW steps, IsList(steps)
  PROVE  Within(root, steps, steps)
BY DEF Within, Plans!RunsAlike, Plans!Covers

(* A run of a step of that ecosystem and image.                            *)
RunOf(eco, image, run) == [ecosystem |-> eco, image |-> image, run |-> run]

LEMMA RunsOfStep ==
  ASSUME NEW eco, NEW image, NEW prepare, NEW locked, NEW command
  PROVE  LET steps == Plans!Step(eco, image, prepare, locked, command)
         IN  /\ IsList(steps) /\ steps # Plans!NoStep
             /\ RunsIn(steps) = {RunOf(eco, image, run) : run \in Plans!ToSet(command)}
<1> DEFINE step == [ecosystem |-> eco, image |-> image, prepare |-> prepare, locked |-> locked,
                    command |-> command]
           steps == Plans!Step(eco, image, prepare, locked, command)
<1>1. steps = <<step>>
  BY DEF Plans!Step
<1>2. step.ecosystem = eco /\ step.image = image /\ step.command = command
  OBVIOUS
<1> HIDE DEF step, steps
<1>3. IsList(steps) /\ steps # Plans!NoStep /\ Plans!ToSet(steps) = {step}
  BY <1>1, ListOfOne DEF Plans!NoStep
<1>4. RunsIn(steps) = {RunOf(eco, image, run) : run \in Plans!ToSet(command)}
  BY <1>2, <1>3 DEF RunsIn, Plans!Placed, RunOf
<1> QED BY <1>3, <1>4 DEF steps

LEMMA NothingWithin ==
  ASSUME NEW root, NEW steps, IsList(steps)
  PROVE  IsList(Plans!NoStep) /\ Within(root, Plans!NoStep, steps)
<1>1. IsList(Plans!NoStep) /\ Plans!ToSet(Plans!NoStep) = {}
  BY ListOfOne DEF Plans!NoStep
<1>2. RunsIn(Plans!NoStep) = {}
  BY <1>1 DEF RunsIn
<1> QED BY <1>1, <1>2 DEF Within

(* Steps whose one run has that name and image.                                    *)
RunsOne(steps, eco, image, name) ==
  /\ IsList(steps) /\ steps # Plans!NoStep
  /\ \E uses : RunsIn(steps) = {RunOf(eco, image, Plans!Runs(name, uses))}

LEMMA StepRunsOne ==
  ASSUME NEW eco, NEW image, NEW prepare, NEW locked, NEW name, NEW uses
  PROVE  RunsOne(Plans!Step(eco, image, prepare, locked, <<Plans!Runs(name, uses)>>), eco, image, name)
<1> DEFINE run == Plans!Runs(name, uses)
           command == <<run>>
           steps == Plans!Step(eco, image, prepare, locked, command)
<1> HIDE DEF run
<1>1. Plans!ToSet(command) = {run}
  BY ListOfOne
<1> HIDE DEF command
<1>2. IsList(steps) /\ steps # Plans!NoStep
  BY RunsOfStep
<1>3. RunsIn(steps) = {RunOf(eco, image, r) : r \in Plans!ToSet(command)}
  BY RunsOfStep
<1> HIDE DEF steps
<1>4. RunsIn(steps) = {RunOf(eco, image, run)}
  BY <1>1, <1>3
<1>5. RunsOne(steps, eco, image, name)
  BY <1>2, <1>4 DEF RunsOne, run
<1> QED BY <1>5 DEF steps, command, run

LEMMA OneWithinOne ==
  ASSUME NEW root, NEW eco, NEW image, NEW name, NEW other,
         NEW a, RunsOne(a, eco, image, name), NEW b, RunsOne(b, eco, image, other),
         Plans!Covers(other, name) \/ (\A u : Plans!NarrowByChoice(root, Plans!Runs(name, u)))
  PROVE  Within(root, a, b)
<1>1. PICK uses : RunsIn(a) = {RunOf(eco, image, Plans!Runs(name, uses))}
  BY DEF RunsOne
<1>2. PICK needs : RunsIn(b) = {RunOf(eco, image, Plans!Runs(other, needs))}
  BY DEF RunsOne
<1> DEFINE some == Plans!Runs(name, uses)
           full == Plans!Runs(other, needs)
<1>3. some.runs = name /\ full.runs = other
  BY Things
<1>4. Plans!Covers(other, name) \/ Plans!NarrowByChoice(root, some)
  OBVIOUS
<1> HIDE DEF some, full
<1>5. RunsIn(a) = {RunOf(eco, image, some)} /\ RunsIn(b) = {RunOf(eco, image, full)}
  BY <1>1, <1>2 DEF some, full
<1>6. ASSUME NEW quick \in RunsIn(a)
      PROVE  \/ Plans!NarrowByChoice(root, quick.run)
             \/ \E f \in RunsIn(b) : Plans!RunsAlike(root, f, quick)
  <2> DEFINE placed == RunOf(eco, image, full)
  <2>1. quick.ecosystem = eco /\ quick.image = image /\ quick.run = some
    BY <1>5 DEF RunOf
  <2>2. placed \in RunsIn(b) /\ placed.ecosystem = eco /\ placed.image = image /\ placed.run = full
    BY <1>5 DEF RunOf
  <2> HIDE DEF placed
  <2> QED BY <1>3, <1>4, <2>1, <2>2 DEF Plans!RunsAlike
<1> QED BY <1>6 DEF Within, RunsOne

(* The detectors that run more in a full profile than in a quick one.      *)
LEMMA NoStepWithin == \A root : Within(root, Plans!NoStep, Plans!NoStep)
<1>1. IsList(Plans!NoStep)
  BY ListOfOne DEF Plans!NoStep
<1> QED BY <1>1, NothingWithin

LEMMA RustWithin ==
  ASSUME NEW root
  PROVE  Within(root, Plans!DetectRust(root.rust, "quick"), Plans!DetectRust(root.rust, "full"))
<1> DEFINE quick == Plans!DetectRust(root.rust, "quick")
           full == Plans!DetectRust(root.rust, "full")
<1>1. CASE ~root.rust.manifest
  <2>1. quick = Plans!NoStep /\ full = Plans!NoStep
    BY <1>1 DEF Plans!DetectRust
  <2> HIDE DEF quick, full
  <2> QED BY <2>1, NoStepWithin DEF quick, full
<1>2. CASE root.rust.manifest
  <2> DEFINE image == {Plans!What("tool", "cargo")}
             prepare == {Plans!Own("/cache")}
             uses == {Plans!InImage("tool", "cargo"), Plans!Own("/cache")}
             locked == root.rust.lock
  <2>1. quick = Plans!Step("rust", image, prepare, locked, <<Plans!Runs("workspace", uses)>>)
    BY <1>2 DEF Plans!DetectRust, Plans!One
  <2>2. full = Plans!Step("rust", image, prepare, locked, <<Plans!Runs("all features", uses)>>)
    BY <1>2 DEF Plans!DetectRust, Plans!One
  <2>3. Plans!Covers("all features", "workspace")
    BY DEF Plans!Covers
  <2> HIDE DEF image, prepare, uses, locked, quick, full
  <2>4. RunsOne(quick, "rust", image, "workspace") /\ RunsOne(full, "rust", image, "all features")
    BY <2>1, <2>2, StepRunsOne
  <2>5. Within(root, quick, full)
    BY <2>3, <2>4, OneWithinOne
  <2> QED BY <2>5 DEF quick, full
<1> QED BY <1>1, <1>2

LEMMA MavenWithin ==
  ASSUME NEW root
  PROVE  LET quick == Plans!DetectMaven(root.maven, "quick")
             full == Plans!DetectMaven(root.maven, "full")
         IN  Within(root, quick, full) /\ (quick = Plans!NoStep <=> full = Plans!NoStep)
<1> DEFINE quick == Plans!DetectMaven(root.maven, "quick")
           full == Plans!DetectMaven(root.maven, "full")
<1>1. CASE ~root.maven.manifest
  <2>1. quick = Plans!NoStep /\ full = Plans!NoStep
    BY <1>1 DEF Plans!DetectMaven
  <2> HIDE DEF quick, full
  <2>2. Within(root, quick, full)
    BY <2>1, NoStepWithin
  <2> QED BY <2>1, <2>2 DEF quick, full
<1>2. CASE root.maven.manifest
  <2> DEFINE inImage == Plans!InImage("tool", "maven")
             maven == IF root.maven.wrapper THEN Plans!Thing("tool", "maven", "/cache") ELSE inImage
             image == {Plans!What("tool", "maven")}
             prepare == {Plans!Own("/cache")} \cup ({maven} \ {inImage})
             uses == {maven, Plans!Own("/cache")}
             locked == FALSE
  <2>1. quick = Plans!Step("maven", image, prepare, locked, <<Plans!Runs("test phase", uses)>>)
    BY <1>2 DEF Plans!DetectMaven
  <2>2. full = Plans!Step("maven", image, prepare, locked, <<Plans!Runs("verify", uses)>>)
    BY <1>2 DEF Plans!DetectMaven
  <2>3. Plans!Covers("verify", "test phase")
    BY DEF Plans!Covers
  <2> HIDE DEF inImage, maven, image, prepare, uses, locked, quick, full
  <2>4. RunsOne(quick, "maven", image, "test phase") /\ RunsOne(full, "maven", image, "verify")
    BY <2>1, <2>2, StepRunsOne
  <2>5. Within(root, quick, full)
    BY <2>3, <2>4, OneWithinOne
  <2>6. quick # Plans!NoStep /\ full # Plans!NoStep
    BY <2>4 DEF RunsOne
  <2> QED BY <2>5, <2>6 DEF quick, full
<1> QED BY <1>1, <1>2

LEMMA GradleWithin ==
  ASSUME NEW root
  PROVE  LET quick == Plans!DetectGradle(root.gradle, "quick")
             full == Plans!DetectGradle(root.gradle, "full")
         IN  Within(root, quick, full) /\ (quick = Plans!NoStep <=> full = Plans!NoStep)
<1> DEFINE quick == Plans!DetectGradle(root.gradle, "quick")
           full == Plans!DetectGradle(root.gradle, "full")
           none == ~root.gradle.manifest \/ ~root.gradle.wrapper
<1>1. CASE none
  <2>1. quick = Plans!NoStep /\ full = Plans!NoStep
    BY <1>1 DEF Plans!DetectGradle
  <2> HIDE DEF quick, full
  <2>2. Within(root, quick, full)
    BY <2>1, NoStepWithin
  <2> QED BY <2>1, <2>2 DEF quick, full
<1>2. CASE ~none
  <2> DEFINE gradle == Plans!Thing("tool", "gradle", "/cache")
             java == Plans!JavaMajor(root.gradle)
             image == {Plans!What("java", java)}
             prepare == {Plans!Own("/cache"), gradle}
             uses == {gradle, Plans!Own("/cache"), Plans!InImage("java", java)}
             locked == FALSE
  <2>1. quick = Plans!Step("gradle", image, prepare, locked, <<Plans!Runs("gradle test", uses)>>)
    BY <1>2 DEF Plans!DetectGradle
  <2>2. full = Plans!Step("gradle", image, prepare, locked, <<Plans!Runs("gradle check", uses)>>)
    BY <1>2 DEF Plans!DetectGradle
  <2>3. Plans!Covers("gradle check", "gradle test")
    BY DEF Plans!Covers
  <2> HIDE DEF gradle, java, image, prepare, uses, locked, quick, full
  <2>4. RunsOne(quick, "gradle", image, "gradle test") /\ RunsOne(full, "gradle", image, "gradle check")
    BY <2>1, <2>2, StepRunsOne
  <2>5. Within(root, quick, full)
    BY <2>3, <2>4, OneWithinOne
  <2>6. quick # Plans!NoStep /\ full # Plans!NoStep
    BY <2>4 DEF RunsOne
  <2> QED BY <2>5, <2>6 DEF quick, full
<1> QED BY <1>1, <1>2

LEMMA JavaWithin ==
  ASSUME NEW root
  PROVE  Within(root, Plans!Java(root, "quick"), Plans!Java(root, "full"))
<1> DEFINE m == Plans!DetectMaven(root.maven, "quick")
           g == Plans!DetectGradle(root.gradle, "quick")
           maven == Plans!DetectMaven(root.maven, "full")
           gradle == Plans!DetectGradle(root.gradle, "full")
<1>1. Within(root, m, maven) /\ Within(root, g, gradle)
  BY MavenWithin, GradleWithin
<1>2. Plans!Java(root, "full") = maven \o gradle
  BY DEF Plans!Java
<1>3. Plans!Java(root, "quick") \in {m \o g, m, g}
  BY DEF Plans!Java
<1> HIDE DEF m, g, maven, gradle
<1>4. IsList(maven) /\ IsList(gradle)
  BY <1>1 DEF Within
<1>5. Within(root, m \o g, maven \o gradle)
  BY <1>1, WithinTogether
<1>6. Within(root, m, maven \o gradle) /\ Within(root, g, maven \o gradle)
  BY <1>1, <1>4, WithinMore
<1> QED BY <1>2, <1>3, <1>5, <1>6

LEMMA DotnetWithin ==
  ASSUME NEW root
  PROVE  Within(root, Plans!DetectDotnet(root.dotnet, "quick"), Plans!DetectDotnet(root.dotnet, "full"))
<1> DEFINE quick == Plans!DetectDotnet(root.dotnet, "quick")
           full == Plans!DetectDotnet(root.dotnet, "full")
           p == root.dotnet
           none == p.solutions # 1 \/ ~p.tests \/ p.sdk \in {"unstable", "unsupported"}
<1>1. CASE none
  <2>1. quick = Plans!NoStep /\ full = Plans!NoStep
    BY <1>1 DEF Plans!DetectDotnet
  <2> HIDE DEF quick, full
  <2> QED BY <2>1, NoStepWithin DEF quick, full
<1>2. CASE ~none
  <2> DEFINE image == {Plans!What("tool", "dotnet")}
             restored(target) == Plans!Thing("restored", target, "/prepared")
             uses(target) == {restored(target), Plans!InImage("tool", "dotnet")}
             locked == FALSE
             onProject == uses("project")
             onSolution == uses("solution")
             one == {restored("project")}
             all == {restored("solution")}
  <2>1. quick = Plans!Step("dotnet", image, one, locked, <<Plans!Runs("project", onProject)>>)
    BY <1>2 DEF Plans!DetectDotnet
  <2>2. full = Plans!Step("dotnet", image, all, locked, <<Plans!Runs("solution", onSolution)>>)
    BY <1>2 DEF Plans!DetectDotnet
  <2>3. Plans!Covers("solution", "project")
    BY DEF Plans!Covers
  <2> HIDE DEF image, one, all, onProject, onSolution, locked, quick, full
  <2>4. RunsOne(quick, "dotnet", image, "project") /\ RunsOne(full, "dotnet", image, "solution")
    BY <2>1, <2>2, StepRunsOne
  <2>5. Within(root, quick, full)
    BY <2>3, <2>4, OneWithinOne
  <2> QED BY <2>5 DEF quick, full
<1> QED BY <1>1, <1>2

(* A step whose every run the other has too, or leaves out by choice, in   *)
(* the same image or where the run names another interpreter.              *)
LEMMA StepWithin ==
  ASSUME NEW root, NEW eco, NEW image, NEW prepare, NEW locked, NEW command,
         NEW tools, NEW prepared, NEW bound, NEW commands,
         \A run \in Plans!ToSet(command) :
           Plans!NarrowByChoice(root, run) \/ (\E f \in Plans!ToSet(commands) : Plans!Covers(f.runs, run.runs)),
         \A run \in Plans!ToSet(command) : tools = image \/ Plans!OtherInterpreter(root, run)
  PROVE  Within(root, Plans!Step(eco, image, prepare, locked, command),
                      Plans!Step(eco, tools, prepared, bound, commands))
<1> DEFINE a == Plans!Step(eco, image, prepare, locked, command)
           b == Plans!Step(eco, tools, prepared, bound, commands)
<1>1. IsList(a) /\ RunsIn(a) = {RunOf(eco, image, run) : run \in Plans!ToSet(command)}
  BY RunsOfStep
<1>2. IsList(b) /\ RunsIn(b) = {RunOf(eco, tools, run) : run \in Plans!ToSet(commands)}
  BY RunsOfStep
<1> HIDE DEF a, b
<1>3. ASSUME NEW quick \in RunsIn(a)
      PROVE  \/ Plans!NarrowByChoice(root, quick.run)
             \/ \E f \in RunsIn(b) : Plans!RunsAlike(root, f, quick)
  <2>1. PICK run \in Plans!ToSet(command) : quick = RunOf(eco, image, run)
    BY <1>1
  <2>2. quick.ecosystem = eco /\ quick.image = image /\ quick.run = run
    BY <2>1 DEF RunOf
  <2>3. CASE Plans!NarrowByChoice(root, run)
    BY <2>2, <2>3
  <2>4. CASE ~Plans!NarrowByChoice(root, run)
    <3>1. PICK f \in Plans!ToSet(commands) : Plans!Covers(f.runs, run.runs)
      BY <2>4
    <3>2. tools = image \/ Plans!OtherInterpreter(root, run)
      OBVIOUS
    <3> DEFINE placed == RunOf(eco, tools, f)
    <3>3. placed \in RunsIn(b) /\ placed.ecosystem = eco /\ placed.image = tools /\ placed.run = f
      BY <1>2 DEF RunOf
    <3> HIDE DEF placed
    <3>4. Plans!RunsAlike(root, placed, quick)
      BY <2>2, <3>1, <3>2, <3>3 DEF Plans!RunsAlike
    <3> QED BY <3>3, <3>4
  <2> QED BY <2>3, <2>4
<1>4. Within(root, a, b)
  BY <1>1, <1>2, <1>3 DEF Within
<1> QED BY <1>4 DEF a, b

LEMMA StepInOneImage ==
  ASSUME NEW root, NEW eco, NEW image, NEW prepare, NEW locked, NEW command, NEW commands,
         \A run \in Plans!ToSet(command) :
           Plans!NarrowByChoice(root, run) \/ (\E f \in Plans!ToSet(commands) : Plans!Covers(f.runs, run.runs))
  PROVE  Within(root, Plans!Step(eco, image, prepare, locked, command),
                      Plans!Step(eco, image, prepare, locked, commands))
BY StepWithin

LEMMA ScriptsWithin ==
  ASSUME NEW T, NEW some \in Seq(T), NEW more \in Seq(T), Plans!ToSet(some) \subseteq Plans!ToSet(more),
         NEW root, NEW manager, NEW modules
  PROVE  \A run \in Plans!ToSet(Plans!ScriptRuns(some, manager, modules)) :
           \/ Plans!NarrowByChoice(root, run)
           \/ \E f \in Plans!ToSet(Plans!ScriptRuns(more, manager, modules)) : Plans!Covers(f.runs, run.runs)
<1> DEFINE a == Plans!ScriptRuns(some, manager, modules)
           b == Plans!ScriptRuns(more, manager, modules)
<1>1. \A run \in Plans!ToSet(a) : run.runs \in Plans!ToSet(some)
  BY ScriptRunsAre
<1>2. \A name \in Plans!ToSet(more) : \E run \in Plans!ToSet(b) : run.runs = name
  BY ScriptRunsAre
<1>3. \A name : Plans!Covers(name, name)
  BY DEF Plans!Covers
<1> HIDE DEF a, b
<1>4. \A run \in Plans!ToSet(a) : \E f \in Plans!ToSet(b) : Plans!Covers(f.runs, run.runs)
  BY <1>1, <1>2, <1>3
<1> QED BY <1>4 DEF a, b

LEMMA DenoWithin ==
  ASSUME NEW root
  PROVE  LET quick == Plans!DetectDeno(root.node, "quick")
             full == Plans!DetectDeno(root.node, "full")
         IN  Within(root, quick, full) /\ (quick = Plans!NoStep <=> full = Plans!NoStep)
<1> DEFINE p == root.node
           quick == Plans!DetectDeno(p, "quick")
           full == Plans!DetectDeno(p, "full")
           some == Plans!NodeScripts(p.tasks, "quick")
           more == Plans!NodeScripts(p.tasks, "full")
           T == Plans!ToSet(Plans!KnownScripts)
           known == T \cap p.tasks
           deno == Plans!InImage("tool", "deno")
           image == {Plans!What("tool", "deno")}
           prepare == {Plans!Thing("packages", "own", "vendor")}
           locked == p.denoLock
           a == Plans!ScriptRuns(some, deno, "vendor")
           b == Plans!ScriptRuns(more, deno, "vendor")
<1>1. some \in Seq(T) /\ Plans!ToSet(some) \subseteq known /\ (some = <<>> <=> known = {})
  BY NodeScriptsAre
<1>2. more \in Seq(T) /\ Plans!ToSet(more) = known /\ (more = <<>> <=> known = {})
  BY NodeScriptsAre
<1>3. quick = IF ~p.deno \/ some = <<>> THEN Plans!NoStep ELSE Plans!Step("deno", image, prepare, locked, a)
  BY DEF Plans!DetectDeno
<1>4. full = IF ~p.deno \/ more = <<>> THEN Plans!NoStep ELSE Plans!Step("deno", image, prepare, locked, b)
  BY DEF Plans!DetectDeno
<1> HIDE DEF quick, full, some, more, T, known
<1>5. CASE ~p.deno \/ known = {}
  <2>1. quick = Plans!NoStep /\ full = Plans!NoStep
    BY <1>1, <1>2, <1>3, <1>4, <1>5
  <2>2. Within(root, quick, full)
    BY <2>1, NoStepWithin
  <2> QED BY <2>1, <2>2 DEF quick, full
<1>6. CASE ~(~p.deno \/ known = {})
  <2>1. \A run \in Plans!ToSet(a) :
          \/ Plans!NarrowByChoice(root, run)
          \/ \E f \in Plans!ToSet(b) : Plans!Covers(f.runs, run.runs)
    <3>1. Plans!ToSet(some) \subseteq Plans!ToSet(more)
      BY <1>1, <1>2
    <3> HIDE DEF deno
    <3> QED BY <1>1, <1>2, <3>1, ScriptsWithin
  <2> HIDE DEF a, b, image, prepare, locked
  <2>2. Within(root, Plans!Step("deno", image, prepare, locked, a), Plans!Step("deno", image, prepare, locked, b))
    BY <2>1, StepInOneImage
  <2>3. /\ Plans!Step("deno", image, prepare, locked, a) # Plans!NoStep
        /\ Plans!Step("deno", image, prepare, locked, b) # Plans!NoStep
    BY RunsOfStep
  <2>4. Within(root, quick, full) /\ quick # Plans!NoStep /\ full # Plans!NoStep
    BY <1>1, <1>2, <1>3, <1>4, <1>6, <2>2, <2>3
  <2> QED BY <2>4 DEF quick, full
<1> QED BY <1>5, <1>6

LEMMA NodeStepWithin ==
  ASSUME NEW T, NEW some \in Seq(T), NEW more \in Seq(T), Plans!ToSet(some) \subseteq Plans!ToSet(more),
         NEW root, NEW eco, NEW manager, NEW locked
  PROVE  Within(root, Plans!NodeStep(eco, manager, locked, some), Plans!NodeStep(eco, manager, locked, more))
<1> DEFINE image == Plans!NodeImage
           own == Plans!Thing("packages", "own", "node_modules")
           prepare == {own} \cup ({manager} \ {Plans!InImage("tool", "npm")})
           a == Plans!ScriptRuns(some, manager, "node_modules")
           b == Plans!ScriptRuns(more, manager, "node_modules")
<1>1. /\ Plans!NodeStep(eco, manager, locked, some) = Plans!Step(eco, image, prepare, locked, a)
      /\ Plans!NodeStep(eco, manager, locked, more) = Plans!Step(eco, image, prepare, locked, b)
  BY DEF Plans!NodeStep
<1>2. \A run \in Plans!ToSet(a) :
        \/ Plans!NarrowByChoice(root, run)
        \/ \E f \in Plans!ToSet(b) : Plans!Covers(f.runs, run.runs)
  BY ScriptsWithin
<1> HIDE DEF a, b, image, prepare
<1>3. Within(root, Plans!Step(eco, image, prepare, locked, a), Plans!Step(eco, image, prepare, locked, b))
  BY <1>2, StepInOneImage
<1> QED BY <1>1, <1>3

LEMMA PackageWithin ==
  ASSUME NEW root
  PROVE  Within(root, Plans!DetectPackage(root.node, "quick"), Plans!DetectPackage(root.node, "full"))
<1> DEFINE p == root.node
           quick == Plans!DetectPackage(p, "quick")
           full == Plans!DetectPackage(p, "full")
           some == Plans!ScriptsWithRequiredBuild(p, "quick")
           more == Plans!ScriptsWithRequiredBuild(p, "full")
           T == Plans!ToSet(Plans!KnownScripts)
           known == T \cap p.scripts
           yes == TRUE
           npmLock == "npm" \in p.locks
           bun == Plans!Brought("bun")
           corepack == Plans!Brought("corepack")
           npm == Plans!InImage("tool", "npm")
           managed == "pnpm" \in p.locks \/ p.manager = "pnpm" \/ "yarn" \in p.locks \/ p.manager = "yarn"
           step(scripts) == IF ~p.package \/ scripts = <<>> THEN Plans!NoStep
                            ELSE IF "bun" \in p.locks THEN Plans!NodeStep("bun", bun, yes, scripts)
                            ELSE IF managed THEN Plans!NodeStep("node", corepack, yes, scripts)
                            ELSE Plans!NodeStep("node", npm, npmLock, scripts)
<1>1. some \in Seq(T) /\ Plans!ToSet(some) \subseteq known /\ (some = <<>> <=> known = {})
  BY BuildFirst
<1>2. more \in Seq(T) /\ Plans!ToSet(more) = known /\ (more = <<>> <=> known = {})
  BY BuildFirst
<1>3. quick = step(some)
  BY DEF Plans!DetectPackage
<1>4. full = step(more)
  BY DEF Plans!DetectPackage
<1>5. Plans!ToSet(some) \subseteq Plans!ToSet(more) /\ (some = <<>> <=> more = <<>>)
  BY <1>1, <1>2
<1> HIDE DEF quick, full, some, more, T, yes, npmLock, bun, corepack, npm, managed
<1>6. Within(root, Plans!NodeStep("bun", bun, yes, some), Plans!NodeStep("bun", bun, yes, more))
  BY <1>1, <1>2, <1>5, NodeStepWithin
<1>7. Within(root, Plans!NodeStep("node", corepack, yes, some), Plans!NodeStep("node", corepack, yes, more))
  BY <1>1, <1>2, <1>5, NodeStepWithin
<1>8. Within(root, Plans!NodeStep("node", npm, npmLock, some), Plans!NodeStep("node", npm, npmLock, more))
  BY <1>1, <1>2, <1>5, NodeStepWithin
<1>9. Within(root, Plans!NoStep, Plans!NoStep)
  BY NoStepWithin
<1>10. Within(root, quick, full)
  BY <1>3, <1>4, <1>5, <1>6, <1>7, <1>8, <1>9
<1> QED BY <1>10 DEF quick, full

LEMMA NodeWithin ==
  ASSUME NEW root
  PROVE  Within(root, Plans!DetectNode(root.node, "quick"), Plans!DetectNode(root.node, "full"))
BY DenoWithin, PackageWithin DEF Plans!DetectNode

LEMMA ToxWithin ==
  ASSUME NEW root, NEW T, root.python.envs \in Seq(T)
  PROVE  Within(root, Plans!ToxStep(root.python, "quick"), Plans!ToxStep(root.python, "full"))
<1> DEFINE p == root.python
           group == Plans!ToxGroup(p)
           packages == Plans!Packages(p.groups[group], ".venv")
           quick == Plans!QuickToxEnvironment(p.envs, Plans!PythonMinor(p))
           made(envs) == {Plans!Thing("env", e, ".tox") : e \in Plans!ToSet(envs)}
           command(envs) == [i \in DOMAIN envs |-> Plans!ToxRun(envs[i], group, p)]
           one == <<quick[1]>>
           all == Plans!Listed(p)
           locked == p.lock
           image == Plans!UvImage(quick[2])
           tools == Plans!UvImage(Plans!PythonMinor(p))
           prepare == packages \cup made(one)
           prepared == packages \cup made(all)
           a == command(one)
           b == command(all)
<1>1. Plans!ToxStep(p, "quick") = Plans!Step("python", image, prepare, locked, a)
  BY DEF Plans!ToxStep
<1>2. Plans!ToxStep(p, "full") = Plans!Step("python", tools, prepared, locked, b)
  BY DEF Plans!ToxStep
<1>3. QuickEnvironment(quick, p.envs, Plans!PythonMinor(p))
  BY QuickTox
<1>4. \A envs : Plans!ToSet(command(envs)) = {Plans!ToxRun(e, group, p) : e \in Plans!ToSet(envs)}
  BY DEF Plans!ToSet
<1>5. \A e : Plans!ToxRun(e, group, p).runs = e
  BY Things DEF Plans!ToxRun
<1> HIDE DEF command, group, quick
<1>6. Plans!ToSet(one) = {quick[1]}
  BY ListOfOne
<1>7. quick[1] \in Plans!ToSet(p.envs) => quick[1] \in Plans!ToSet(all)
  <2>1. CASE p.envs = <<>>
    <3>1. Plans!ToSet(p.envs) = {}
      BY <2>1, ListOfOne
    <3> QED BY <3>1
  <2>2. CASE p.envs # <<>>
    BY <2>2 DEF Plans!Listed
  <2> QED BY <2>1, <2>2
<1> HIDE DEF one, all
<1>8. ASSUME NEW run \in Plans!ToSet(a)
      PROVE  \/ Plans!NarrowByChoice(root, run)
             \/ \E f \in Plans!ToSet(b) : Plans!Covers(f.runs, run.runs)
  <2>1. run = Plans!ToxRun(quick[1], group, p) /\ run.runs = quick[1]
    BY <1>4, <1>5, <1>6
  <2>2. CASE quick[1] \in Plans!ToSet(p.envs)
    <3>1. run \in Plans!ToSet(b)
      BY <1>4, <1>7, <2>1, <2>2
    <3>2. Plans!Covers(run.runs, run.runs)
      BY DEF Plans!Covers
    <3> QED BY <3>1, <3>2
  <2>3. CASE quick[1] \notin Plans!ToSet(p.envs)
    <3>1. run.runs = "py" /\ Plans!ToSet(p.envs) \cap OfUse = {}
      BY <1>3, <2>1, <2>3 DEF QuickEnvironment
    <3> QED BY <3>1 DEF Plans!NarrowByChoice, OfUse
  <2> QED BY <2>2, <2>3
<1>9. ASSUME NEW run \in Plans!ToSet(a)
      PROVE  tools = image \/ Plans!OtherInterpreter(root, run)
  <2>1. run.runs = quick[1]
    BY <1>4, <1>5, <1>6
  <2>2. CASE quick[2] = Plans!PythonMinor(p)
    BY <2>2
  <2>3. CASE quick[2] # Plans!PythonMinor(p)
    <3>1. quick[1] \in DOMAIN Plans!MinorOf /\ Plans!MinorOf[quick[1]] # Plans!PythonMinor(p)
      BY <1>3, <2>3 DEF QuickEnvironment
    <3> QED BY <2>1, <3>1 DEF Plans!OtherInterpreter
  <2> QED BY <2>2, <2>3
<1> HIDE DEF a, b, image, tools, prepare, prepared, locked
<1>10. Within(root, Plans!Step("python", image, prepare, locked, a), Plans!Step("python", tools, prepared, locked, b))
  BY <1>8, <1>9, StepWithin
<1> QED BY <1>1, <1>2, <1>10

LEMMA PythonWithin ==
  ASSUME NEW root, NEW T, root.python.envs \in Seq(T)
  PROVE  Within(root, Plans!DetectPython(root.python, "quick"), Plans!DetectPython(root.python, "full"))
<1> DEFINE p == root.python
           quick == Plans!DetectPython(p, "quick")
           full == Plans!DetectPython(p, "full")
<1>1. \/ quick = full
      \/ quick = Plans!ToxStep(p, "quick") /\ full = Plans!ToxStep(p, "full")
  BY DEF Plans!DetectPython, Plans!FromPyproject
<1>2. IsList(quick)
  BY PythonFits DEF AllFit
<1>3. Within(root, Plans!ToxStep(p, "quick"), Plans!ToxStep(p, "full"))
  BY ToxWithin
<1> HIDE DEF quick, full
<1>4. Within(root, quick, full)
  BY <1>1, <1>2, <1>3, WithinItself
<1> QED BY <1>4 DEF quick, full

LEMMA FirstOfThree ==
  ASSUME NEW a, NEW b, NEW c, NEW good
  PROVE  Plans!FirstOf(<<a, b, c>>, good) = IF a \in good THEN a
                                            ELSE IF b \in good THEN b ELSE IF c \in good THEN c ELSE "none"
<1> DEFINE names == <<a, b, c>>
           found == Sieve(names, good)
           T == {a, b, c}
<1>1. /\ names \in Seq(T) /\ Len(names) = 3
      /\ names[1] = a /\ names[2] = b /\ names[3] = c
  OBVIOUS
<1>2. Plans!FirstOf(names, good) = IF found = <<>> THEN "none" ELSE found[1]
  BY SieveAlike DEF Plans!FirstOf
<1> HIDE DEF names, T
<1>3. /\ found \in Seq(T)
      /\ found = <<>> => \A i \in 1..Len(names) : names[i] \notin good
      /\ found # <<>> => \E i : IsFirst(i, names, good) /\ Head(found) = names[i]
  BY <1>1, SieveFirst
<1> HIDE DEF found
<1>4. found = <<>> => a \notin good /\ b \notin good /\ c \notin good
  BY <1>1, <1>3
<1>5. CASE found # <<>>
  <2>1. PICK i : IsFirst(i, names, good) /\ Head(found) = names[i]
    BY <1>3, <1>5
  <2>2. found[1] = names[i] /\ i \in 1..3 /\ names[i] \in good /\ \A j \in 1..(i - 1) : names[j] \notin good
    BY <1>1, <1>3, <1>5, <2>1 DEF IsFirst
  <2>3. i = 1 \/ i = 2 \/ i = 3
    BY <2>2
  <2>4. CASE i = 1
    BY <1>1, <1>2, <1>5, <2>2, <2>4 DEF names
  <2>5. CASE i = 2
    <3>1. a \notin good
      BY <1>1, <2>2, <2>5
    <3> QED BY <1>1, <1>2, <1>5, <2>2, <2>5, <3>1 DEF names
  <2>6. CASE i = 3
    <3>1. a \notin good /\ b \notin good
      BY <1>1, <2>2, <2>6
    <3> QED BY <1>1, <1>2, <1>5, <2>2, <2>6, <3>1 DEF names
  <2> QED BY <2>3, <2>4, <2>5, <2>6
<1> QED BY <1>2, <1>4, <1>5 DEF names

LEMMA MakeWithin ==
  ASSUME NEW root
  PROVE  Within(root, Plans!DetectMake(root.make, "quick"), Plans!DetectMake(root.make, "full"))
<1> DEFINE p == root.make
           quick == Plans!DetectMake(p, "quick")
           full == Plans!DetectMake(p, "full")
           some == Plans!MakeTarget(p, "quick")
           more == Plans!MakeTarget(p, "full")
           image == {Plans!What("tool", "make"), Plans!What("tool", "sh"), Plans!What("tool", "bash")}
           needed == {"make"} \cup (IF p.configure = "none" THEN {} ELSE {p.configure})
           uses == {Plans!InImage("tool", t) : t \in needed}
           prepare == {}
           locked == FALSE
           odd == ~p.manifest \/ p.configure = "odd"
<1>1. quick = IF odd \/ some = "none" THEN Plans!NoStep
              ELSE Plans!Step("make", image, prepare, locked, <<Plans!Runs(some, uses)>>)
  BY DEF Plans!DetectMake
<1>2. full = IF odd \/ more = "none" THEN Plans!NoStep
             ELSE Plans!Step("make", image, prepare, locked, <<Plans!Runs(more, uses)>>)
  BY DEF Plans!DetectMake
<1>3. some = IF "check" \in p.targets THEN "check"
             ELSE IF "test" \in p.targets THEN "test" ELSE IF "tests" \in p.targets THEN "tests" ELSE "none"
  BY FirstOfThree DEF Plans!MakeTarget
<1>4. more = IF "test" \in p.targets THEN "test"
             ELSE IF "check" \in p.targets THEN "check" ELSE IF "tests" \in p.targets THEN "tests" ELSE "none"
  BY FirstOfThree DEF Plans!MakeTarget
<1> HIDE DEF quick, full, some, more, image, uses, prepare, locked, odd
<1>5. /\ some = "none" <=> more = "none"
      /\ some = more \/ (some = "check" /\ "test" \in p.targets)
  BY <1>3, <1>4
<1>6. CASE odd \/ some = "none"
  <2>1. quick = Plans!NoStep /\ full = Plans!NoStep
    BY <1>1, <1>2, <1>5, <1>6
  <2> QED BY <2>1, NoStepWithin DEF quick, full
<1>7. CASE ~(odd \/ some = "none")
  <2>1. /\ quick = Plans!Step("make", image, prepare, locked, <<Plans!Runs(some, uses)>>)
        /\ full = Plans!Step("make", image, prepare, locked, <<Plans!Runs(more, uses)>>)
    BY <1>1, <1>2, <1>5, <1>7
  <2>2. RunsOne(quick, "make", image, some) /\ RunsOne(full, "make", image, more)
    BY <2>1, StepRunsOne
  <2>3. Plans!Covers(more, some) \/ (\A u : Plans!NarrowByChoice(root, Plans!Runs(some, u)))
    <3>1. CASE some = more
      BY <3>1 DEF Plans!Covers
    <3>2. CASE some = "check" /\ "test" \in p.targets
      <4>1. \A u : Plans!Runs(some, u).runs = "check"
        BY <3>2, Things
      <4> QED BY <3>2, <4>1 DEF Plans!NarrowByChoice
    <3> QED BY <1>5, <3>1, <3>2
  <2>4. Within(root, quick, full)
    BY <2>2, <2>3, OneWithinOne
  <2> QED BY <2>4 DEF quick, full
<1> QED BY <1>6, <1>7

LEMMA NativeWithin ==
  ASSUME NEW root
  PROVE  Within(root, Plans!Native(root, "quick"), Plans!Native(root, "full"))
<1> DEFINE cmake == Plans!DetectCMake(root.cmake)
<1>1. IsList(cmake)
  BY CMakeFits DEF AllFit
<1> HIDE DEF cmake
<1>2. Within(root, cmake, cmake)
  BY <1>1, WithinItself
<1>3. Within(root, Plans!DetectMake(root.make, "quick"), Plans!DetectMake(root.make, "full"))
  BY MakeWithin
<1> QED BY <1>2, <1>3 DEF Plans!Native, cmake

(* A full check runs all that a quick one runs, or more of it, in the same *)
(* image, whatever tasks, scripts, groups, environments and targets the    *)
(* root has: but for the target of Make and the default environment of tox *)
(* that the quick profile chooses otherwise, and for the interpreter that  *)
(* the environment it chooses is named for.                                *)
THEOREM FullRunsMore ==
  ASSUME input.of = "root" => IsList(input.root.python.envs)
  PROVE  QuickWithinFull
<1> SUFFICES ASSUME input.of = "root" PROVE Plans!QuickWithinFull(input.root)
  BY DEF QuickWithinFull
<1> DEFINE root == input.root
           steps(profile) == Plans!AutomaticSteps(root, profile)
<1>1. PICK T : root.python.envs \in Seq(T)
  BY DEF IsList
<1> HIDE DEF root
<1>2. Within(root, Plans!DetectRust(root.rust, "quick"), Plans!DetectRust(root.rust, "full"))
  BY RustWithin
<1>3. Within(root, Plans!DetectNode(root.node, "quick"), Plans!DetectNode(root.node, "full"))
  BY NodeWithin
<1>4. Within(root, Plans!DetectPython(root.python, "quick"), Plans!DetectPython(root.python, "full"))
  BY <1>1, PythonWithin
<1>5. Within(root, Plans!DetectGo(root.go), Plans!DetectGo(root.go))
  BY GoFits, WithinItself DEF AllFit
<1>6. Within(root, Plans!Java(root, "quick"), Plans!Java(root, "full"))
  BY JavaWithin
<1>7. Within(root, Plans!DetectRuby(root.ruby), Plans!DetectRuby(root.ruby))
  BY RubyFits, WithinItself DEF AllFit
<1>8. Within(root, Plans!DetectPhp(root.php), Plans!DetectPhp(root.php))
  BY PhpFits, WithinItself DEF AllFit
<1>9. Within(root, Plans!Native(root, "quick"), Plans!Native(root, "full"))
  BY NativeWithin
<1>10. Within(root, Plans!DetectDotnet(root.dotnet, "quick"), Plans!DetectDotnet(root.dotnet, "full"))
  BY DotnetWithin
<1>11. Within(root, steps("quick"), steps("full"))
  <2> DEFINE r(profile) == Plans!DetectRust(root.rust, profile)
             n(profile) == Plans!DetectNode(root.node, profile)
             p(profile) == Plans!DetectPython(root.python, profile)
             go == Plans!DetectGo(root.go)
             j(profile) == Plans!Java(root, profile)
             ruby == Plans!DetectRuby(root.ruby)
             php == Plans!DetectPhp(root.php)
             c(profile) == Plans!Native(root, profile)
             d(profile) == Plans!DetectDotnet(root.dotnet, profile)
  <2>1. \A profile : steps(profile) = r(profile) \o n(profile) \o p(profile) \o go \o j(profile)
                                        \o ruby \o php \o c(profile) \o d(profile)
    BY DEF Plans!AutomaticSteps
  <2> HIDE DEF r, n, p, go, j, ruby, php, c, d, steps
  <2>2. Within(root, r("quick") \o n("quick"), r("full") \o n("full"))
    BY <1>2, <1>3, WithinTogether DEF r, n
  <2>3. Within(root, r("quick") \o n("quick") \o p("quick"), r("full") \o n("full") \o p("full"))
    BY <1>4, <2>2, WithinTogether DEF p
  <2>4. Within(root, r("quick") \o n("quick") \o p("quick") \o go, r("full") \o n("full") \o p("full") \o go)
    BY <1>5, <2>3, WithinTogether DEF go
  <2>5. Within(root, r("quick") \o n("quick") \o p("quick") \o go \o j("quick"),
                     r("full") \o n("full") \o p("full") \o go \o j("full"))
    BY <1>6, <2>4, WithinTogether DEF j
  <2>6. Within(root, r("quick") \o n("quick") \o p("quick") \o go \o j("quick") \o ruby,
                     r("full") \o n("full") \o p("full") \o go \o j("full") \o ruby)
    BY <1>7, <2>5, WithinTogether DEF ruby
  <2>7. Within(root, r("quick") \o n("quick") \o p("quick") \o go \o j("quick") \o ruby \o php,
                     r("full") \o n("full") \o p("full") \o go \o j("full") \o ruby \o php)
    BY <1>8, <2>6, WithinTogether DEF php
  <2>8. Within(root, r("quick") \o n("quick") \o p("quick") \o go \o j("quick") \o ruby \o php \o c("quick"),
                     r("full") \o n("full") \o p("full") \o go \o j("full") \o ruby \o php \o c("full"))
    BY <1>9, <2>7, WithinTogether DEF c
  <2> QED BY <1>10, <2>1, <2>8, WithinTogether DEF d
<1> QED BY <1>11 DEF Within, RunsIn, Plans!QuickWithinFull, root
-----------------------------------------------------------------------------
(* The roots and the targets that the runs pick meet the hypotheses of the *)
(* theorems above.                                                         *)
FitPython(p) ==
  /\ IsList(p.envs)
  /\ p.least \in 0..14 /\ p.below \in Nat
  /\ p.below = 0 \/ p.below >= 12

LEMMA ShortLists ==
  /\ IsList(<<>>)
  /\ \A x : IsList(<<x>>)
  /\ \A x, y : IsList(<<x, y>>)
  /\ \A x, y, z : IsList(<<x, y, z>>)
<1>1. \A T : <<>> \in Seq(T)
  OBVIOUS
<1>2. ASSUME NEW T, NEW x \in T, NEW y \in T, NEW z \in T
      PROVE  <<x>> \in Seq(T) /\ <<x, y>> \in Seq(T) /\ <<x, y, z>> \in Seq(T)
  OBVIOUS
<1>3. ASSUME NEW x, NEW y, NEW z
      PROVE  IsList(<<x>>) /\ IsList(<<x, y>>) /\ IsList(<<x, y, z>>)
  <2> DEFINE T == {x, y, z}
  <2>1. x \in T /\ y \in T /\ z \in T
    OBVIOUS
  <2> HIDE DEF T
  <2>2. <<x>> \in Seq(T) /\ <<x, y>> \in Seq(T) /\ <<x, y, z>> \in Seq(T)
    BY <1>2, <2>1
  <2> QED BY <2>2 DEF IsList
<1> QED BY <1>1, <1>3 DEF IsList

LEMMA SampleEnvs == \A envs \in Plans!SomeEnvs : IsList(envs)
<1>1. \A envs \in Plans!SomeEnvs :
        \/ envs = <<>>
        \/ \E x : envs = <<x>>
        \/ \E x, y : envs = <<x, y>>
        \/ \E x, y, z : envs = <<x, y, z>>
  BY Zenon DEF Plans!SomeEnvs
<1> SUFFICES ASSUME NEW envs \in Plans!SomeEnvs PROVE IsList(envs)
  OBVIOUS
<1>2. CASE envs = <<>>
  BY <1>2, ShortLists
<1>3. CASE \E x : envs = <<x>>
  BY <1>3, ShortLists
<1>4. CASE \E x, y : envs = <<x, y>>
  BY <1>4, ShortLists
<1>5. CASE \E x, y, z : envs = <<x, y, z>>
  BY <1>5, ShortLists
<1> QED BY <1>1, <1>2, <1>3, <1>4, <1>5

LEMMA NoPythonFields ==
  /\ Plans!NoPython.envs = <<>> /\ Plans!NoPython.least = 0 /\ Plans!NoPython.below = 0
  /\ {"envs", "least", "below"} \subseteq DOMAIN Plans!NoPython
BY DEF Plans!NoPython

LEMMA PythonSamples == \A p \in Plans!Pythons \cup {Plans!NoPython} : FitPython(p)
<1> DEFINE none == Plans!NoPython
<1>1. /\ none.envs = <<>> /\ none.least = 0 /\ none.below = 0
      /\ {"envs", "least", "below"} \subseteq DOMAIN none
  BY NoPythonFields
<1>2. IsList(<<>>)
  BY ShortLists
<1>3. FitPython(none)
  BY <1>1, <1>2 DEF FitPython
<1>4. ASSUME NEW groups, NEW tool \in BOOLEAN, NEW ini \in BOOLEAN, NEW envs \in Plans!SomeEnvs, NEW pinned
      PROVE  FitPython(Plans!ToxPython(groups, tool, ini, envs, pinned))
  <2> DEFINE p == Plans!ToxPython(groups, tool, ini, envs, pinned)
  <2>1. p.envs = envs /\ p.least = 0 /\ p.below = 0
    BY <1>1 DEF Plans!ToxPython
  <2> HIDE DEF p
  <2>2. FitPython(p)
    BY <2>1, SampleEnvs DEF FitPython
  <2> QED BY <2>2 DEF p
<1>5. ASSUME NEW pinned, NEW exact, NEW least \in {0} \cup 11..14, NEW below \in {0} \cup 12..15
      PROVE  FitPython(Plans!RangedPython(pinned, exact, least, below))
  <2> DEFINE p == Plans!RangedPython(pinned, exact, least, below)
  <2>1. p.envs = <<>> /\ p.least = least /\ p.below = below
    BY <1>1 DEF Plans!RangedPython
  <2> HIDE DEF p
  <2>2. FitPython(p)
    BY <1>2, <2>1 DEF FitPython
  <2> QED BY <2>2 DEF p
<1>6. ASSUME NEW pyproject \in BOOLEAN, NEW setup \in BOOLEAN, NEW cfg \in BOOLEAN, NEW tests \in BOOLEAN,
             NEW lock \in BOOLEAN, NEW direct, NEW extras
      PROVE  FitPython(Plans!PlainPython(pyproject, setup, cfg, tests, lock, direct, extras))
  <2> DEFINE other == ~setup
             p == [none EXCEPT !.pyproject = pyproject, !.setupPy = setup, !.requirements = other,
                               !.setupCfg = cfg, !.tests = tests, !.lock = lock, !.direct = direct,
                               !.extras = extras, !.cfgExtras = extras]
  <2> HIDE DEF other
  <2>1. p.envs = <<>> /\ p.least = 0 /\ p.below = 0
    BY <1>1
  <2>2. p = Plans!PlainPython(pyproject, setup, cfg, tests, lock, direct, extras)
    BY Zenon DEF Plans!PlainPython, other
  <2> HIDE DEF p
  <2>3. FitPython(p)
    BY <1>2, <2>1 DEF FitPython
  <2> QED BY <2>2, <2>3
<1> HIDE DEF none
<1>7. ASSUME NEW p \in Plans!ToxPythons PROVE FitPython(p)
  <2>1. PICK groups \in [Plans!Groups -> Plans!SomeGroups], tool \in BOOLEAN, ini \in BOOLEAN,
             envs \in Plans!SomeEnvs, pinned \in {0, 12} :
          p = Plans!ToxPython(groups, tool, ini, envs, pinned)
    BY DEF Plans!ToxPythons
  <2> QED BY <1>4, <2>1
<1>8. ASSUME NEW p \in Plans!RangedPythons PROVE FitPython(p)
  <2>1. PICK pinned \in {0, 12}, exact \in {0, 11}, least \in {0} \cup 11..14,
             below \in {0} \cup 12..15 :
          p = Plans!RangedPython(pinned, exact, least, below)
    BY DEF Plans!RangedPythons
  <2> QED BY <1>5, <2>1
<1>9. ASSUME NEW p \in Plans!PlainPythons PROVE FitPython(p)
  <2>1. PICK pyproject \in BOOLEAN, setup \in BOOLEAN, cfg \in BOOLEAN, tests \in BOOLEAN,
             lock \in BOOLEAN, direct \in {{}, {"pytest"}},
             extras \in [Plans!Groups -> {{}, {"pytest"}, {"pytest-cov"}}] :
          p = Plans!PlainPython(pyproject, setup, cfg, tests, lock, direct, extras)
    BY DEF Plans!PlainPythons
  <2> QED BY <1>6, <2>1
<1> QED BY <1>3, <1>7, <1>8, <1>9 DEF Plans!Pythons, none

(* The lines of the sampled locks have a sum of a kind each.               *)
SampleLines ==
  {Plans!Line(spec, sum) :
     spec \in {Plans!Summable[i] : i \in 1..4} \cup {Plans!Spec("rake", "1"), Plans!Spec("extra", "1")},
     sum \in {Plans!NoSum, Plans!BadSum, 1, 2, 3}}

LEMMA SampleLinesFit ==
  ASSUME NEW lock, lock.checksums \in Seq(SampleLines)
  PROVE  IsLock(lock)
<1>1. \A line \in SampleLines : line.sum \in Nat \cup {Plans!BadSum}
  BY DEF SampleLines, Plans!Line, Plans!NoSum, Plans!BadSum
<1> DEFINE sums == lock.checksums
<1> HIDE DEF sums
<1>2. sums \in Seq(SampleLines)
  BY DEF sums
<1>3. \A i \in DOMAIN sums : sums[i] \in SampleLines
  BY <1>2
<1> QED BY <1>1, <1>3 DEF IsLock, sums

LEMMA SampleSums == \A sums \in Plans!Sums : sums \in Seq(SampleLines)
<1> DEFINE T == SampleLines
           specs == {Plans!Summable[i] : i \in 1..4} \cup {Plans!Spec("rake", "1"), Plans!Spec("extra", "1")}
           numbers == {Plans!NoSum, Plans!BadSum, 1, 2, 3}
<1>1. ASSUME NEW spec \in specs, NEW sum \in numbers PROVE Plans!Line(spec, sum) \in T
  BY DEF SampleLines
<1>2. /\ \A i \in 1..4 : Plans!Summable[i] \in specs
      /\ Plans!Spec("rake", "1") \in specs /\ Plans!Spec("extra", "1") \in specs
      /\ {2, 3} \subseteq numbers /\ {9, Plans!NoSum, Plans!BadSum, 1} \subseteq numbers \cup {9}
  OBVIOUS
<1> HIDE DEF T, specs, numbers
<1>3. \A a, b \in Seq(T) : a \o b \in Seq(T)
  OBVIOUS
<1>4. <<>> \in Seq(T) /\ \A x \in T : <<x>> \in Seq(T)
  OBVIOUS
<1>5. ASSUME NEW sums \in [1..4 -> {9, Plans!NoSum, Plans!BadSum, 1}], NEW more \in Seq(T)
      PROVE  Plans!SumLines(sums, more) \in Seq(T)
  <2> DEFINE lines == [i \in 1..4 |-> IF sums[i] = 9 THEN <<>> ELSE <<Plans!Line(Plans!Summable[i], sums[i])>>]
  <2>1. \A i \in 1..4 : lines[i] \in Seq(T)
    <3> SUFFICES ASSUME NEW i \in 1..4 PROVE lines[i] \in Seq(T)
      OBVIOUS
    <3>1. lines[i] = IF sums[i] = 9 THEN <<>> ELSE <<Plans!Line(Plans!Summable[i], sums[i])>>
      OBVIOUS
    <3> HIDE DEF lines
    <3>2. sums[i] \in numbers \cup {9}
      BY <1>2
    <3>3. CASE sums[i] = 9
      BY <1>4, <3>1, <3>3
    <3>4. CASE sums[i] # 9
      <4>1. Plans!Line(Plans!Summable[i], sums[i]) \in T
        BY <1>1, <1>2, <3>2, <3>4
      <4> QED BY <1>4, <3>1, <3>4, <4>1
    <3> QED BY <3>3, <3>4
  <2>2. Plans!SumLines(sums, more) = lines[1] \o lines[2] \o lines[3] \o lines[4] \o more
    BY DEF Plans!SumLines
  <2> HIDE DEF lines
  <2>3. lines[1] \in Seq(T) /\ lines[2] \in Seq(T) /\ lines[3] \in Seq(T) /\ lines[4] \in Seq(T)
    BY <2>1
  <2>4. lines[1] \o lines[2] \in Seq(T)
    BY <1>3, <2>3
  <2>5. lines[1] \o lines[2] \o lines[3] \in Seq(T)
    BY <1>3, <2>3, <2>4
  <2>6. lines[1] \o lines[2] \o lines[3] \o lines[4] \in Seq(T)
    BY <1>3, <2>3, <2>5
  <2> QED BY <1>3, <2>2, <2>6
<1>6. ASSUME NEW sums \in Plans!Sums PROVE sums \in Seq(T)
  <2>1. PICK digests \in [1..4 -> {9, Plans!NoSum, Plans!BadSum, 1}],
             more \in {<<>>, <<Plans!Line(Plans!Spec("rake", "1"), 2)>>, <<Plans!Line(Plans!Spec("extra", "1"), 3)>>} :
          sums = Plans!SumLines(digests, more)
    BY DEF Plans!Sums
  <2>2. Plans!Line(Plans!Spec("rake", "1"), 2) \in T /\ Plans!Line(Plans!Spec("extra", "1"), 3) \in T
    BY <1>1, <1>2
  <2>3. more \in Seq(T)
    BY <1>4, <2>1, <2>2
  <2> QED BY <1>5, <2>1, <2>3
<1> QED BY <1>6 DEF T

LEMMA NoLockFields == Plans!NoLock.checksums = <<>> /\ "checksums" \in DOMAIN Plans!NoLock
BY DEF Plans!NoLock

LEMMA RubySamples == \A r \in Plans!Rubies \cup Plans!OddRubies \cup {Plans!NoRuby} : IsLock(r.lock)
<1>1. \A a, b, c, d, lock : Plans!Ruby(a, b, c, d, lock).lock = lock
  BY DEF Plans!Ruby
<1>2. IsLock(Plans!NoRuby.lock)
  <2>1. Plans!NoRuby.lock = Plans!NoLock
    BY DEF Plans!NoRuby
  <2>2. <<>> \in Seq(SampleLines)
    OBVIOUS
  <2> QED BY <2>1, <2>2, NoLockFields, SampleLinesFit
<1>3. ASSUME NEW r \in Plans!Rubies PROVE IsLock(r.lock)
  <2>1. PICK gem \in Plans!Gems, paths \in {{}} \cup {{path} : path \in Plans!InRepository}, sums \in Plans!Sums :
          r = Plans!SumsRuby(gem, paths, sums)
    BY DEF Plans!Rubies
  <2>2. Plans!SumsRuby(gem, paths, sums).lock.checksums = sums
    BY NoLockFields DEF Plans!SumsRuby, Plans!Ruby
  <2>3. sums \in Seq(SampleLines)
    BY SampleSums
  <2> QED BY <2>1, <2>2, <2>3, SampleLinesFit
<1>4. Plans!ExactLock.checksums \in Seq(SampleLines) /\ "checksums" \in DOMAIN Plans!ExactLock
  <2> DEFINE a == Plans!Line(Plans!Summable[1], 1)
             b == Plans!Line(Plans!Summable[2], 1)
             c == Plans!Line(Plans!Summable[3], 1)
  <2>1. a \in SampleLines /\ b \in SampleLines /\ c \in SampleLines
    BY DEF SampleLines
  <2>2. Plans!ExactLock.checksums = <<a, b, c>> /\ "checksums" \in DOMAIN Plans!ExactLock
    BY NoLockFields DEF Plans!ExactLock
  <2> HIDE DEF a, b, c
  <2>3. <<a, b, c>> \in Seq(SampleLines)
    BY <2>1
  <2> QED BY <2>2, <2>3
<1>5. ASSUME NEW r \in Plans!OddRubies PROVE IsLock(r.lock)
  <2>1. \E a \in BOOLEAN, b \in BOOLEAN, c \in BOOLEAN, d \in BOOLEAN, parsed \in BOOLEAN :
          \E platforms, bundled, dependencies, sections :
            r = Plans!Ruby(a, b, c, d, Plans!OddLock(parsed, platforms, bundled, dependencies, sections))
    BY DEF Plans!OddRubies
  <2>2. PICK parsed \in BOOLEAN : \E platforms, bundled, dependencies, sections :
          r.lock = Plans!OddLock(parsed, platforms, bundled, dependencies, sections)
    BY <1>1, <2>1
  <2>3. PICK platforms, bundled, dependencies, sections :
          r.lock = Plans!OddLock(parsed, platforms, bundled, dependencies, sections)
    BY <2>2
  <2>4. Plans!OddLock(parsed, platforms, bundled, dependencies, sections).checksums = Plans!ExactLock.checksums
    BY <1>4 DEF Plans!OddLock
  <2> QED BY <1>4, <2>3, <2>4, SampleLinesFit
<1> QED BY <1>2, <1>3, <1>5

RealRoot(root) == IsRoot(root) /\ IsLock(root.ruby.lock)
RealPlan(x) ==
  /\ x.of = "root" => RealRoot(x.root)
  /\ x.of = "target" => x \in Target

LEMMA BareFields ==
  /\ Plans!Bare.python = Plans!NoPython /\ Plans!Bare.ruby = Plans!NoRuby
  /\ Plans!Bare.node.locks = {} /\ Plans!Bare.make.configure = "none"
  /\ {"config", "python", "node", "rust", "go", "maven", "ruby", "gradle", "php", "cmake", "make", "dotnet"}
       \subseteq DOMAIN Plans!Bare
BY DEF Plans!Bare, Plans!NoNode

LEMMA RealRoots ==
  ASSUME NEW root, NEW python \in Plans!Pythons \cup {Plans!NoPython}, root.python = python,
         NEW ruby \in Plans!Rubies \cup Plans!OddRubies \cup {Plans!NoRuby}, root.ruby = ruby,
         root.node.locks \subseteq {"bun", "pnpm", "yarn", "npm"},
         root.make.configure \in {"none", "sh", "bash", "odd"}
  PROVE  RealRoot(root)
<1>1. FitPython(python)
  BY PythonSamples
<1>2. IsLock(root.ruby.lock)
  BY RubySamples
<1> QED BY <1>1, <1>2 DEF RealRoot, IsRoot, FitPython

\* A root of one ecosystem is bare for every other.
LEMMA OneEcosystem ==
  /\ \A p \in Plans!Pythons : RealRoot([Plans!Bare EXCEPT !.python = p])
  /\ \A r \in Plans!Rubies \cup Plans!OddRubies : RealRoot([Plans!Bare EXCEPT !.ruby = r])
  /\ \A n \in Plans!Nodes : RealRoot([Plans!Bare EXCEPT !.node = n])
  /\ \A m, g : RealRoot([Plans!Bare EXCEPT !.maven = m, !.gradle = g])
  /\ \A c : \A k \in Plans!Makes : RealRoot([Plans!Bare EXCEPT !.cmake = c, !.make = k])
  /\ \A f, h : RealRoot([Plans!Bare EXCEPT !.rust = f, !.go = f, !.php = h])
  /\ \A d : RealRoot([Plans!Bare EXCEPT !.dotnet = d])
  /\ \A c : RealRoot([Plans!Bare EXCEPT !.config = c])
<1> DEFINE bare == Plans!Bare
<1>1. /\ bare.python = Plans!NoPython /\ bare.ruby = Plans!NoRuby
      /\ bare.node.locks = {} /\ bare.make.configure = "none"
      /\ {"config", "python", "node", "rust", "go", "maven", "ruby", "gradle", "php", "cmake", "make", "dotnet"}
           \subseteq DOMAIN bare
  BY BareFields
<1> HIDE DEF bare
<1>2. ASSUME NEW p \in Plans!Pythons PROVE RealRoot([bare EXCEPT !.python = p])
  <2> DEFINE root == [bare EXCEPT !.python = p]
  <2>1. root.python = p /\ root.ruby = bare.ruby /\ root.node = bare.node /\ root.make = bare.make
    BY <1>1
  <2> HIDE DEF root
  <2>2. RealRoot(root)
    BY <1>1, <2>1, RealRoots
  <2> QED BY <2>2 DEF root
<1>3. ASSUME NEW r \in Plans!Rubies \cup Plans!OddRubies PROVE RealRoot([bare EXCEPT !.ruby = r])
  <2> DEFINE root == [bare EXCEPT !.ruby = r]
  <2>1. root.python = bare.python /\ root.ruby = r /\ root.node = bare.node /\ root.make = bare.make
    BY <1>1
  <2> HIDE DEF root
  <2>2. RealRoot(root)
    BY <1>1, <2>1, RealRoots
  <2> QED BY <2>2 DEF root
<1>4. ASSUME NEW n \in Plans!Nodes PROVE RealRoot([bare EXCEPT !.node = n])
  <2> DEFINE root == [bare EXCEPT !.node = n]
  <2>1. root.python = bare.python /\ root.ruby = bare.ruby /\ root.node = n /\ root.make = bare.make
    BY <1>1
  <2>2. n.locks \subseteq {"bun", "pnpm", "yarn", "npm"}
    BY DEF Plans!Nodes
  <2> HIDE DEF root
  <2>3. RealRoot(root)
    BY <1>1, <2>1, <2>2, RealRoots
  <2> QED BY <2>3 DEF root
<1>5. ASSUME NEW c, NEW k \in Plans!Makes PROVE RealRoot([bare EXCEPT !.cmake = c, !.make = k])
  <2> DEFINE root == [bare EXCEPT !.cmake = c, !.make = k]
  <2>1. root.python = bare.python /\ root.ruby = bare.ruby /\ root.node = bare.node /\ root.make = k
    BY <1>1
  <2>2. k.configure \in {"none", "sh", "bash", "odd"}
    BY DEF Plans!Makes
  <2> HIDE DEF root
  <2>3. RealRoot(root)
    BY <1>1, <2>1, <2>2, RealRoots
  <2> QED BY <2>3 DEF root
<1>6. ASSUME NEW root, root.python = bare.python, root.ruby = bare.ruby, root.node = bare.node,
             root.make = bare.make
      PROVE  RealRoot(root)
  <2>1. /\ bare.python \in Plans!Pythons \cup {Plans!NoPython}
        /\ bare.ruby \in Plans!Rubies \cup Plans!OddRubies \cup {Plans!NoRuby}
        /\ root.node.locks = {} /\ root.make.configure = "none"
    BY <1>1, <1>6
  <2> QED BY <1>6, <2>1, RealRoots
<1>7. \A m, g : RealRoot([bare EXCEPT !.maven = m, !.gradle = g])
  BY <1>1, <1>6
<1>8. \A f, h : RealRoot([bare EXCEPT !.rust = f, !.go = f, !.php = h])
  BY <1>1, <1>6
<1>9. \A d : RealRoot([bare EXCEPT !.dotnet = d]) /\ RealRoot([bare EXCEPT !.config = d])
  BY <1>1, <1>6
<1> QED BY <1>2, <1>3, <1>4, <1>5, <1>7, <1>8, <1>9 DEF bare

LEMMA RealTargets ==
  ASSUME PickTarget
  PROVE  RealPlan(input)'
<1>1. PICK ref \in Resolution!Refs, url \in Resolution!UrlRefs, before \in Resolution!Remotes,
           after \in Resolution!Remotes, served \in {{}, Resolution!Objects} \cup {{c} : c \in Commits},
           component \in BOOLEAN :
        input' = [of |-> "target", ref |-> ref, url |-> url, before |-> before, after |-> after,
                  served |-> served, component |-> component]
  BY DEF PickTarget
<1>2. served \in SUBSET Resolution!Objects
  BY DEF Resolution!Objects
<1>3. input' \in Target /\ input'.of = "target"
  BY <1>1, <1>2 DEF Target
<1> QED BY <1>3 DEF RealPlan

LEMMA RealPlanAfterwards ==
  ASSUME Next
  PROVE  RealPlan(input)'
<1> DEFINE Other == input'.of \notin {"root", "target"}
<1>1. CASE PickRoot
  <2>1. ASSUME NEW root, Root(root), RealRoot(root) PROVE RealPlan(input)'
    <3>1. input'.of = "root" /\ input'.root = root
      BY <2>1 DEF Root
    <3> QED BY <2>1, <3>1 DEF RealPlan
  <2>2. \E root : Root(root) /\ RealRoot(root)
    BY <1>1, OneEcosystem DEF PickRoot
  <2> QED BY <2>1, <2>2
<1>2. CASE PickTarget
  BY <1>2, RealTargets
<1>3. PickStatus => Other
  BY DEF PickStatus, StatusInputs
<1>4. PickRunner => Other
  BY DEF PickRunner, RunnerInputs
<1>5. PickLog => Other
  BY DEF PickLog, LogInputs
<1>6. PickPrune => Other
  BY DEF PickPrune, PruneInputs
<1>7. PickPlan => Other
  BY DEF PickPlan, PlanInputInputs
<1>8. PickArchive => Other
  BY DEF PickArchive, Archive
<1>9. PickContainers => Other
  BY DEF PickContainers
<1>10. PickStores => Other
  <2>1. PickStores => \E one, two : input' = [of |-> "stores", one |-> one, two |-> two]
    BY DEF PickStores
  <2> QED BY <2>1
<1>11. PickDiagnosis => Other
  <2>1. PickDiagnosis => \E phase : input' = [of |-> "diagnosis", phase |-> phase]
    BY DEF PickDiagnosis
  <2> QED BY <2>1
<1>12. PickReserve => Other
  <2>1. PickReserve => \E machine : input' = [of |-> "reserve", machine |-> machine]
    BY DEF PickReserve
  <2> QED BY <2>1
<1>13. Other => RealPlan(input)'
  BY DEF RealPlan
<1> HIDE DEF Other
<1> QED BY <1>1, <1>2, <1>3, <1>4, <1>5, <1>6, <1>7, <1>8, <1>9, <1>10, <1>11, <1>12, <1>13 DEF Next

(* What a check prepares is what it tests, at the commit that was asked    *)
(* for, pinned where it is downloaded, for all that the runs pick: the     *)
(* hypotheses of the theorems above are met by every one of these inputs.  *)
THEOREM PlansOfTheRuns ==
  Spec => [](PartialNotRejected /\ PlanOfTheCommit /\ TestsWhatItPrepared /\ QuickWithinFull
             /\ RubyPinned /\ ExactCommit)
<1> DEFINE Wanted == PartialNotRejected /\ PlanOfTheCommit /\ TestsWhatItPrepared /\ QuickWithinFull
                     /\ RubyPinned /\ ExactCommit
<1>1. Init => RealPlan(input)
  BY DEF Init, RealPlan
<1>2. RealPlan(input) /\ [Next]_input => RealPlan(input)'
  BY RealPlanAfterwards DEF RealPlan
<1>3. RealPlan(input) => Wanted
  <2> SUFFICES ASSUME RealPlan(input) PROVE Wanted
    OBVIOUS
  <2>1. PartialNotRejected /\ PlanOfTheCommit
    BY RejectedForCause, PlanSeesTheCommit
  <2>2. TestsWhatItPrepared
    BY TestsUseWhatWasPrepared DEF RealPlan, RealRoot
  <2>3. QuickWithinFull
    BY FullRunsMore DEF RealPlan, RealRoot, IsRoot
  <2>4. RubyPinned
    BY OnlyPinnedGems DEF RealPlan, RealRoot
  <2>5. ExactCommit
    BY TheCommitMeant DEF RealPlan
  <2> QED BY <2>1, <2>2, <2>3, <2>4, <2>5
<1> HIDE DEF Wanted
<1>4. Spec => []Wanted
  BY <1>1, <1>2, <1>3, PTL DEF Spec
<1> QED BY <1>4 DEF Wanted
=============================================================================
