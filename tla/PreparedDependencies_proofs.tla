-------------------- MODULE PreparedDependencies_proofs --------------------
(***************************************************************************)
(* Proofs about PreparedDependencies, for any processes, resources, steps  *)
(* and bounds.                                                             *)
(***************************************************************************)
EXTENDS PreparedDependencies, TLAPS

(* What the control point of a process points at exists.                   *)
ShapeOf(p) ==
  /\ pc[p] \in StepPc => need[p] \in StepNeeds
  /\ pc[p] \in PrunePc \cup {"idle"} => need[p] = {}
  /\ pc[p] \in BothPc => need[p] \in StepNeeds \cup {{}}
  /\ pc[p] \in {"await"} \cup BothPc /\ need[p] = {} => at[p] \in Resources
  /\ pc[p] \in StepPc \cup BothPc /\ need[p] # {} => todo[p] \subseteq need[p]
  /\ pc[p] = "record" => NextOf(p) \subseteq Volumes

Shape == \A p \in Procs : ShapeOf(p)

Typed == TypeOK /\ Shape

(* Who holds which lock: a step what it needs, from the end of its lock    *)
(* loop on; a prune the one resource it removes.                           *)
Holds(p) ==
  /\ pc[p] = "lock" => \A r \in need[p] \ todo[p] : lock[r] = p
  /\ pc[p] \in (StepPc \cup BothPc) \ {"lock"} => \A r \in need[p] : lock[r] = p
  /\ pc[p] \in BothPc /\ need[p] = {} => lock[at[p]] = p

Locked == \A p \in Procs : Holds(p)

(* The loop of a step goes over resources, and no two come first.          *)
LEMMA NextIsOne ==
  ASSUME Typed, NEW p \in Procs, NEW r \in NextOf(p), NEW s \in NextOf(p)
  PROVE  r = s /\ r \in Resources /\ r \in todo[p]
BY DependencyAssumption DEF NextOf, Typed, TypeOK

(* A discard or a prune removes one resource, and holds its lock.          *)
LEMMA DoomedIsHeld ==
  ASSUME Typed, NEW p \in Procs, pc[p] \in BothPc, NEW r \in Doomed(p)
  PROVE  r \in Resources
BY NextIsOne DEF Doomed, Typed, Shape, ShapeOf

(* The loop of a step stays within its need.                               *)
LEMMA LoopInNeed ==
  ASSUME Typed, NEW p \in Procs, pc[p] \in StepPc
  PROVE  todo[p] \subseteq need[p] /\ need[p] # {} /\ need[p] \in StepNeeds
BY DependencyAssumption DEF Typed, Shape, ShapeOf

(* Advancing keeps the types and goes to one of its two labels.            *)
LEMMA TypedAdvance ==
  ASSUME Typed, NEW p \in Procs, NEW r \in Resources, NEW a, NEW b, Advance(p, r, a, b)
  PROVE  /\ todo' \in [Procs -> SUBSET Resources]
         /\ \/ pc' = [pc EXCEPT ![p] = a]
            \/ pc' = [pc EXCEPT ![p] = b]
BY DEF Advance, Goto, Typed, TypeOK

(* Releasing keeps the type of the locks.                                  *)
LEMMA TypedRelease ==
  ASSUME Typed, NEW p \in Procs, Release(p)
  PROVE  lock' \in [Resources -> Procs \cup {None}]
BY DEF Release, Typed, TypeOK

(* What a step of p leaves alone of the other processes.                   *)
OthersStay(p) ==
  \A q \in Procs \ {p} :
    pc'[q] = pc[q] /\ need'[q] = need[q] /\ todo'[q] = todo[q] /\ at'[q] = at[q]

(* A step of p keeps the types when it keeps them for p.                   *)
LEMMA TypedByOne ==
  ASSUME Typed, NEW p \in Procs, TypeOK', OthersStay(p), ShapeOf(p)'
  PROVE  Typed'
<1> SUFFICES ASSUME NEW q \in Procs, q # p PROVE ShapeOf(q)'
  BY DEF Typed, Shape
<1>1. ShapeOf(q)
  BY DEF Typed, Shape
<1> QED BY <1>1 DEF ShapeOf, OthersStay, NextOf

(* Ending a step keeps the types.                                          *)
LEMMA TypedEnd ==
  ASSUME Typed, NEW p \in Procs, NEW v \in {"none", "pass", "test", "prepare", "error"},
         End(p, v), failed' \in [Procs -> BOOLEAN],
         unwritten' \in SUBSET Volumes,
         UNCHANGED <<content, marked, registry, orphans, countVars>>
  PROVE  Typed'
<1>a. /\ lock' \in [Resources -> Procs \cup {None}]
      /\ pc' \in [Procs -> {"idle"} \cup StepPc \cup PrunePc \cup BothPc]
  BY TypedRelease DEF End, Goto, Typed, TypeOK
<1>b. /\ need' \in [Procs -> SUBSET Resources] /\ todo' \in [Procs -> SUBSET Resources]
      /\ at' \in [Procs -> Resources \cup {None}]
      /\ attempt' \in [Procs -> 1..2]
      /\ outcome' \in [Procs -> {"none", "pass", "test", "prepare", "error"}]
  BY DEF End, Typed, TypeOK
<1>c. UNCHANGED <<content, marked, registry, orphans, steps, prunes, deaths>>
  BY DEF countVars
<1>1. TypeOK'
  BY <1>a, <1>b, <1>c DEF Typed, TypeOK
<1>2. OthersStay(p) /\ ShapeOf(p)'
  BY DEF End, Goto, Typed, TypeOK, OthersStay, ShapeOf, StepPc, ContainerPc, BothPc
<1> QED BY <1>1, <1>2, TypedByOne

(* Lock, Record and Mark keep the types.                                   *)
LEMMA TypedLoops ==
  ASSUME Typed, NEW p \in Procs, Lock(p) \/ Record(p) \/ Mark(p)
  PROVE  Typed'
<1> USE DEF Typed, TypeOK, Shape, ShapeOf, StepPc, ContainerPc, PrunePc, BothPc,
            storeVars, countVars
<1>1. PICK r \in NextOf(p) :
        \/ /\ Advance(p, r, "lock", "ensure") /\ pc[p] = "lock"
           /\ lock' = [lock EXCEPT ![r] = p] /\ UNCHANGED storeVars
        \/ /\ Advance(p, r, "ensure", "start") /\ pc[p] = "record"
           /\ registry' = registry \cup {r} /\ unwritten' = unwritten \ {r}
           /\ UNCHANGED <<content, marked, lock>>
        \/ /\ Advance(p, r, "mark", "pretest") /\ pc[p] = "mark"
           /\ marked' = [marked EXCEPT ![r] = TRUE]
           /\ UNCHANGED <<content, registry, unwritten, lock>>
  BY DEF Lock, Record, Mark
<1>2. r \in Resources /\ UNCHANGED <<need, at, attempt, failed, outcome, orphans, countVars>>
  BY NextIsOne DEF Lock, Record, Mark
<1>3. todo' \in [Procs -> SUBSET Resources] /\ OthersStay(p)
  BY <1>1, <1>2, TypedAdvance DEF Advance, Goto, OthersStay
<1>4. pc' \in [Procs -> {"idle"} \cup StepPc \cup PrunePc \cup BothPc]
  BY <1>1, <1>2, TypedAdvance
<1>e. todo'[p] \subseteq need'[p]
  BY <1>1, <1>2, LoopInNeed DEF Advance
<1>5. ShapeOf(p)'
  BY <1>1, <1>2, <1>e, TypedAdvance
<1>a. content' \in [Resources -> {"absent", "empty", "partial", "whole"}]
  BY <1>1
<1>b. marked' \in [Resources -> BOOLEAN]
  BY <1>1, <1>2
<1>c. registry' \in SUBSET Volumes /\ unwritten' \in SUBSET Volumes
  BY <1>1
<1>d. lock' \in [Resources -> Procs \cup {None}]
  BY <1>1, <1>2
<1>6. TypeOK'
  BY <1>2, <1>3, <1>4, <1>a, <1>b, <1>c, <1>d
<1> QED BY <1>3, <1>5, <1>6, TypedByOne

(* Ensure keeps the types.                                                 *)
LEMMA TypedEnsure ==
  ASSUME Typed, NEW p \in Procs, Ensure(p)
  PROVE  Typed'
<1> USE DEF Typed, TypeOK, Shape, ShapeOf, StepPc, ContainerPc, PrunePc, BothPc, countVars
<1>1. PICK r \in NextOf(p) :
        /\ content' = [content EXCEPT ![r] = IF @ = "absent" THEN "empty" ELSE @]
        /\ \/ r \in Dirs /\ Advance(p, r, "ensure", "start")
           \/ r \in Volumes /\ Goto(p, "record") /\ UNCHANGED todo
  BY DEF Ensure
<1>2. /\ pc[p] = "ensure" /\ r \in Resources
      /\ UNCHANGED <<marked, registry, unwritten, lock, need, at, attempt, failed, outcome,
                     orphans, countVars>>
  BY NextIsOne DEF Ensure
<1>3. todo' \in [Procs -> SUBSET Resources] /\ OthersStay(p)
  BY <1>1, <1>2, TypedAdvance DEF Advance, Goto, OthersStay
<1>4. /\ pc' \in [Procs -> {"idle"} \cup StepPc \cup PrunePc \cup BothPc]
      /\ pc'[p] \in {"ensure", "start", "record"}
      /\ pc'[p] = "record" => r \in Volumes /\ UNCHANGED todo
  BY <1>1, <1>2, TypedAdvance DEF Goto
<1>5. pc'[p] = "record" => NextOf(p)' \subseteq Volumes
  <2> HAVE pc'[p] = "record"
  <2>1. NextOf(p)' = NextOf(p)
    BY <1>4 DEF NextOf
  <2> QED BY <1>4, <2>1, NextIsOne
<1>a. todo'[p] \subseteq need'[p]
  BY <1>1, <1>2, LoopInNeed DEF Advance
<1>6. TypeOK'
  BY <1>1, <1>2, <1>3, <1>4
<1>7. ShapeOf(p)'
  BY <1>2, <1>4, <1>5, <1>a
<1> QED BY <1>3, <1>6, <1>7, TypedByOne

(* Ending steps keep the types.                                            *)
LEMMA TypedEnds ==
  ASSUME Typed, NEW p \in Procs, EnsureFails(p) \/ FinishTest(p) \/ RecordFails(p)
  PROVE  Typed'
<1>1. PICK v \in {"none", "pass", "test", "prepare", "error"} : End(p, v)
  BY DEF EnsureFails, FinishTest, RecordFails
<1>2. UNCHANGED <<content, marked, registry, orphans, countVars, failed>>
  BY DEF EnsureFails, FinishTest, RecordFails, storeVars
<1>3. unwritten' \in SUBSET Volumes
  <2>1. CASE UNCHANGED unwritten
    BY <2>1 DEF Typed, TypeOK
  <2>2. CASE RecordFails(p)
    <3>1. pc[p] = "record" /\ \E r \in NextOf(p) : unwritten' = unwritten \cup {r}
      BY <2>2 DEF RecordFails
    <3>2. NextOf(p) \subseteq Volumes
      BY <3>1 DEF Typed, Shape, ShapeOf
    <3> QED BY <3>1, <3>2 DEF Typed, TypeOK
  <2> QED BY <2>1, <2>2 DEF EnsureFails, FinishTest, storeVars
<1>4. failed' \in [Procs -> BOOLEAN]
  BY <1>2 DEF Typed, TypeOK
<1> QED BY <1>1, <1>2, <1>3, <1>4, TypedEnd

(* The container steps keep the types.                                     *)
LEMMA TypedContainer ==
  ASSUME Typed, NEW p \in Procs,
         StartPrepare(p) \/ FinishPrepare(p) \/ PrepareFails(p) \/ StartTest(p)
  PROVE  Typed'
<1> USE DEF StartPrepare, FinishPrepare, PrepareFails, StartTest, Goto
<1>1. content' \in [Resources -> {"absent", "empty", "partial", "whole"}]
  BY DEF Filled, Typed, TypeOK, storeVars
<1>a. UNCHANGED <<marked, registry, unwritten, lock, need, at, attempt, outcome, orphans,
                  steps, prunes, deaths>>
  BY DEF storeVars, loopVars, countVars
<1>b. failed' = failed \/ failed' = [failed EXCEPT ![p] = FALSE]
  BY DEF loopVars
<1>c. todo' = todo \/ todo' = [todo EXCEPT ![p] = need[p]]
  BY DEF loopVars
<1>d. failed' \in [Procs -> BOOLEAN]
  BY Zenon, <1>b DEF Typed, TypeOK
<1>e. todo' \in [Procs -> SUBSET Resources]
  <2>1. todo \in [Procs -> SUBSET Resources] /\ need[p] \in SUBSET Resources
    BY DEF Typed, TypeOK
  <2> QED BY Zenon, <1>c, <2>1
<1>3. /\ pc' \in [Procs -> {"idle"} \cup StepPc \cup PrunePc \cup BothPc]
      /\ pc[p] \in StepPc /\ pc'[p] \in (StepPc \ {"record"}) \cup {"remove"}
  BY DEF Typed, TypeOK, StepPc, BothPc, ContainerPc
<1>4. TypeOK'
  BY <1>1, <1>a, <1>d, <1>e, <1>3 DEF Typed, TypeOK
<1>5. OthersStay(p)
  BY <1>a, <1>c DEF OthersStay, Typed, TypeOK
<1>6. need[p] # {}
  BY <1>3, LoopInNeed
<1>f. todo'[p] \subseteq need'[p]
  BY <1>a, <1>c, <1>3, LoopInNeed DEF Typed, TypeOK
<1>7. ShapeOf(p)'
  BY <1>a, <1>f, <1>3, <1>6 DEF Typed, Shape, ShapeOf, StepPc, ContainerPc, PrunePc, BothPc
<1> QED BY <1>4, <1>5, <1>7, TypedByOne

(* Going on after a removal keeps the types of what it changes.            *)
LEMMA TypedAfterRemoval ==
  ASSUME Typed, NEW p \in Procs, NEW r \in Doomed(p), NEW ok \in BOOLEAN,
         pc[p] \in BothPc, AfterRemoval(p, r, ok) \/ PruneAborts(p),
         UNCHANGED <<steps, prunes, deaths>>,
         content' \in [Resources -> {"absent", "empty", "partial", "whole"}],
         marked' \in [Resources -> BOOLEAN],
         registry' \in SUBSET Volumes, unwritten' \in SUBSET Volumes,
         orphans' \in SUBSET Orphan
  PROVE  Typed'
<1> USE DEF Typed, TypeOK
<1>0. r \in Resources
  BY DoomedIsHeld
<1>1. CASE PruneGoesOn(p, r)
  <2>1. /\ lock' \in [Resources -> Procs \cup {None}]
        /\ pc' \in [Procs -> {"idle"} \cup StepPc \cup PrunePc \cup BothPc]
        /\ at' \in [Procs -> Resources \cup {None}]
    BY <1>1, TypedRelease DEF PruneGoesOn, Goto, PrunePc
  <2>2. UNCHANGED <<need, todo, attempt, failed, outcome>>
    BY <1>1 DEF PruneGoesOn
  <2>3. TypeOK'
    BY <2>1, <2>2
  <2>4. OthersStay(p) /\ ShapeOf(p)'
    BY <1>1 DEF PruneGoesOn, Goto, OthersStay, ShapeOf, StepPc, ContainerPc, PrunePc, BothPc
  <2> QED BY <2>3, <2>4, TypedByOne
<1>2. CASE DiscardGoesOn(p, r, ok)
  <2>1. /\ pc' \in [Procs -> {"idle"} \cup StepPc \cup PrunePc \cup BothPc]
        /\ todo' \in [Procs -> SUBSET Resources]
        /\ failed' \in [Procs -> BOOLEAN]
    BY <1>2 DEF DiscardGoesOn, Goto, BothPc
  <2>2. UNCHANGED <<lock, need, at, attempt, outcome>>
    BY <1>2 DEF DiscardGoesOn
  <2>3. TypeOK'
    BY <2>1, <2>2
  <2>4. OthersStay(p) /\ ShapeOf(p)'
    BY <1>2 DEF DiscardGoesOn, Goto, OthersStay, Shape, ShapeOf, StepPc, ContainerPc,
                PrunePc, BothPc
  <2> QED BY <2>3, <2>4, TypedByOne
<1>3. CASE DiscardEnds(p, r, ok) /\ Retry(p, ok)
  <2>1. /\ pc' = [pc EXCEPT ![p] = "ensure"] /\ attempt' = [attempt EXCEPT ![p] = attempt[p] + 1]
        /\ todo' = [todo EXCEPT ![p] = need[p]]
        /\ UNCHANGED <<lock, need, at, outcome>>
    BY <1>3 DEF DiscardEnds, Goto
  <2>2. failed' \in [Procs -> BOOLEAN] /\ attempt[p] = 1 /\ need[p] # {}
    BY <1>3 DEF DiscardEnds, Retry
  <2>3. /\ pc' \in [Procs -> {"idle"} \cup StepPc \cup PrunePc \cup BothPc]
        /\ todo' \in [Procs -> SUBSET Resources]
    BY <2>1 DEF StepPc
  <2>4. attempt' \in [Procs -> 1..2]
    BY <2>1, <2>2
  <2>5. TypeOK'
    BY <2>1, <2>2, <2>3, <2>4
  <2>6. OthersStay(p) /\ ShapeOf(p)'
    BY <2>1, <2>2 DEF OthersStay, Shape, ShapeOf, StepPc, ContainerPc, PrunePc, BothPc
  <2> QED BY <2>5, <2>6, TypedByOne
<1>4. CASE DiscardEnds(p, r, ok) /\ ~Retry(p, ok)
  <2>1. End(p, "prepare") /\ failed' \in [Procs -> BOOLEAN]
    BY <1>4 DEF DiscardEnds
  <2>2. /\ lock' \in [Resources -> Procs \cup {None}]
        /\ pc' \in [Procs -> {"idle"} \cup StepPc \cup PrunePc \cup BothPc]
    BY <2>1, TypedRelease DEF End, Goto
  <2>3. /\ need' \in [Procs -> SUBSET Resources] /\ todo' \in [Procs -> SUBSET Resources]
        /\ at' \in [Procs -> Resources \cup {None}]
        /\ attempt' \in [Procs -> 1..2]
        /\ outcome' \in [Procs -> {"none", "pass", "test", "prepare", "error"}]
    BY <2>1 DEF End
  <2>4. TypeOK'
    BY <2>1, <2>2, <2>3
  <2>5. OthersStay(p) /\ ShapeOf(p)'
    BY <2>1 DEF End, Goto, OthersStay, ShapeOf, StepPc, ContainerPc, BothPc
  <2> QED BY <2>4, <2>5, TypedByOne
<1>5. CASE PruneAborts(p)
  <2>1. /\ lock' \in [Resources -> Procs \cup {None}]
        /\ pc' \in [Procs -> {"idle"} \cup StepPc \cup PrunePc \cup BothPc]
        /\ at' \in [Procs -> Resources \cup {None}]
        /\ todo' \in [Procs -> SUBSET Resources]
    BY <1>5, TypedRelease DEF PruneAborts, Goto
  <2>2. UNCHANGED <<need, attempt, failed, outcome>>
    BY <1>5 DEF PruneAborts
  <2>3. TypeOK'
    BY <2>1, <2>2
  <2>4. OthersStay(p) /\ ShapeOf(p)'
    BY <1>5 DEF PruneAborts, Goto, OthersStay, ShapeOf, StepPc, ContainerPc, PrunePc, BothPc
  <2> QED BY <2>3, <2>4, TypedByOne
<1> QED BY <1>1, <1>2, <1>3, <1>4, <1>5 DEF AfterRemoval, DiscardEnds

(* An orphan that loses a resource, or that has marked one, is an orphan.  *)
LEMMA TypedLoss ==
  ASSUME NEW o \in Orphan, NEW r
  PROVE  /\ Loses(o, r) \in Orphan
         /\ [o EXCEPT !.todo = o.todo \ {r}] \in Orphan
BY DEF Orphan, Loses

(* Removals keep the types.                                                *)
LEMMA TypedRemovals ==
  ASSUME Typed, NEW p \in Procs,
         Remove(p) \/ RemoveDirEnds(p) \/ RemoveFails(p) \/ Forget(p) \/ ForgetFails(p)
  PROVE  Typed'
<1> USE DEF Typed, TypeOK, storeVars, countVars
<1>1. CASE Remove(p)
  <2>1. PICK r \in Doomed(p) :
          /\ \E c \in {"absent", "empty", "partial", "whole"} :
               content' = [content EXCEPT ![r] = c]
          /\ \E m \in BOOLEAN : marked' = [marked EXCEPT ![r] = m]
          /\ pc' = [pc EXCEPT ![p] = "forget"] \/ pc' = [pc EXCEPT ![p] = "removing"]
    <3>1. pc[p] \in BothPc
      BY <1>1 DEF Remove, BothPc
    <3> QED BY <1>1, <3>1, DoomedIsHeld DEF Remove, Goto
  <2>2. pc[p] = "remove" /\ UNCHANGED <<registry, unwritten, lock, need, todo, at, attempt, failed,
          outcome, orphans, steps, prunes, deaths>>
    BY <1>1 DEF Remove, loopVars
  <2>a. content' \in [Resources -> {"absent", "empty", "partial", "whole"}]
    BY <2>1
  <2>b. marked' \in [Resources -> BOOLEAN]
    BY <2>1
  <2>c. pc' \in [Procs -> {"idle"} \cup StepPc \cup PrunePc \cup BothPc]
    BY <2>1 DEF BothPc
  <2>4. TypeOK'
    BY <2>2, <2>a, <2>b, <2>c
  <2>5. OthersStay(p) /\ ShapeOf(p)'
    BY <2>1, <2>2 DEF OthersStay, Shape, ShapeOf, StepPc, ContainerPc, PrunePc, BothPc
  <2> QED BY <2>4, <2>5, TypedByOne
<1>2. CASE RemoveDirEnds(p)
  <2>1. PICK r \in Doomed(p) :
          /\ content' = [content EXCEPT ![r] = "absent"]
          /\ marked' = [marked EXCEPT ![r] = FALSE]
          /\ orphans' = {Loses(o, r) : o \in orphans}
          /\ AfterRemoval(p, r, TRUE)
    BY <1>2 DEF RemoveDirEnds
  <2>2. pc[p] \in BothPc /\ UNCHANGED <<registry, unwritten, steps, prunes, deaths>>
    BY <1>2 DEF RemoveDirEnds, BothPc
  <2>3. orphans' \in SUBSET Orphan
    <3>1. ASSUME NEW o \in orphans
          PROVE  Loses(o, r) \in Orphan
      <4>1. o \in Orphan
        BY DEF Typed, TypeOK
      <4> QED BY Zenon, <4>1, TypedLoss
    <3>2. \A x \in orphans' : x \in Orphan
      BY <2>1, <3>1
    <3> QED BY <3>2
  <2> QED BY <2>1, <2>2, <2>3, TypedAfterRemoval
<1>3. CASE RemoveFails(p)
  <2>1. PICK r \in Doomed(p) : AfterRemoval(p, r, FALSE)
    BY <1>3 DEF RemoveFails
  <2>2. pc[p] \in BothPc
    BY <1>3 DEF RemoveFails, BothPc
  <2>3. UNCHANGED <<content, marked, registry, unwritten, orphans, steps, prunes, deaths>>
    BY <1>3 DEF RemoveFails
  <2> QED BY <2>1, <2>2, <2>3, TypedAfterRemoval
<1>4. CASE Forget(p)
  <2>1. PICK r \in Doomed(p) : /\ registry' = registry \ {r} /\ unwritten' = unwritten \ {r}
                               /\ AfterRemoval(p, r, TRUE)
    BY <1>4 DEF Forget
  <2>2. pc[p] \in BothPc
    BY <1>4 DEF Forget, BothPc
  <2>3. UNCHANGED <<content, marked, orphans, steps, prunes, deaths>>
    BY <1>4 DEF Forget
  <2> QED BY <2>1, <2>2, <2>3, TypedAfterRemoval
<1>5. CASE ForgetFails(p)
  <2>1. PICK r \in Doomed(p) \cap registry :
          /\ unwritten' = unwritten \cup {r}
          /\ AfterRemoval(p, r, FALSE) \/ PruneAborts(p)
    BY <1>5 DEF ForgetFails, AfterRemoval
  <2>2. pc[p] \in BothPc
    BY <1>5 DEF ForgetFails, BothPc
  <2>3. UNCHANGED <<content, marked, registry, orphans, steps, prunes, deaths>>
    BY <1>5 DEF ForgetFails
  <2>4. unwritten' \in SUBSET Volumes
    BY <2>1
  <2> QED BY <2>1, <2>2, <2>3, <2>4, TypedAfterRemoval
<1> QED BY <1>1, <1>2, <1>3, <1>4, <1>5

(* A step or a prune that starts, lists, picks or waits keeps the types.   *)
LEMMA TypedPrune ==
  ASSUME Typed, NEW p \in Procs,
         StartStep(p) \/ StartPrune(p) \/ List(p) \/ Pick(p) \/ Await(p)
  PROVE  Typed'
<1> USE DEF Goto, Typed, TypeOK
<1>1. CASE StartStep(p)
  <2>1. PICK n \in StepNeeds : /\ need' = [need EXCEPT ![p] = n]
                               /\ todo' = [todo EXCEPT ![p] = n]
    BY <1>1 DEF StartStep
  <2>2. n \in SUBSET Resources
    BY DependencyAssumption
  <2>3. /\ need' \in [Procs -> SUBSET Resources]
        /\ todo' \in [Procs -> SUBSET Resources]
    BY <2>1, <2>2
  <2>4. pc' \in [Procs -> {"idle"} \cup StepPc \cup PrunePc \cup BothPc]
    BY <1>1 DEF StartStep, StepPc
  <2>5. /\ failed' \in [Procs -> BOOLEAN]
        /\ outcome' \in [Procs -> {"none", "pass", "test", "prepare", "error"}]
    BY <1>1 DEF StartStep
  <2>6. steps' \in 0..MaxSteps
    BY <1>1, DependencyAssumption DEF StartStep
  <2>7. UNCHANGED <<content, marked, registry, unwritten, lock, at, attempt, orphans, prunes, deaths>>
    BY <1>1 DEF StartStep, storeVars
  <2>8. TypeOK'
    BY <2>3, <2>4, <2>5, <2>6, <2>7
  <2>9. OthersStay(p) /\ ShapeOf(p)'
    BY <1>1, <2>1, <2>7
    DEF StartStep, OthersStay, ShapeOf, StepPc, ContainerPc, PrunePc, BothPc
  <2> QED BY <2>8, <2>9, TypedByOne
<1>2. CASE StartPrune(p)
  <2>1. pc' \in [Procs -> {"idle"} \cup StepPc \cup PrunePc \cup BothPc]
    BY <1>2 DEF StartPrune, PrunePc
  <2>2. prunes' \in 0..MaxPrunes
    BY <1>2, DependencyAssumption DEF StartPrune
  <2>3. UNCHANGED <<storeVars, lock, loopVars, orphans, steps, deaths>>
    BY <1>2 DEF StartPrune
  <2>4. TypeOK'
    BY <2>1, <2>2, <2>3 DEF storeVars, loopVars
  <2>5. OthersStay(p) /\ ShapeOf(p)'
    BY <1>2 DEF StartPrune, loopVars, OthersStay, Shape, ShapeOf, StepPc, ContainerPc,
                PrunePc, BothPc
  <2> QED BY <2>4, <2>5, TypedByOne
<1>3. CASE List(p)
  <2>1. PICK rs \in SUBSET Resources, label \in {"pickdir", "pickvolume"} :
          /\ todo' = [todo EXCEPT ![p] = rs]
          /\ pc' = [pc EXCEPT ![p] = label]
    BY <1>3 DEF List, Managed, Resources
  <2>2. /\ todo' \in [Procs -> SUBSET Resources]
        /\ pc' \in [Procs -> {"idle"} \cup StepPc \cup PrunePc \cup BothPc]
    BY <2>1 DEF PrunePc
  <2>3. /\ pc[p] \in {"dirs", "volumes"}
        /\ UNCHANGED <<storeVars, lock, need, at, attempt, failed, outcome, orphans,
                       countVars>>
    BY <1>3 DEF List
  <2>4. TypeOK'
    BY <2>2, <2>3 DEF storeVars, countVars
  <2>5. OthersStay(p) /\ ShapeOf(p)'
    BY <2>1, <2>3 DEF OthersStay, Shape, ShapeOf, StepPc, ContainerPc, PrunePc, BothPc
  <2> QED BY <2>4, <2>5, TypedByOne
<1>4. CASE Pick(p)
  <2>1. /\ pc[p] \in {"pickdir", "pickvolume"}
        /\ UNCHANGED <<storeVars, lock, need, attempt, failed, outcome, orphans, countVars>>
    BY <1>4 DEF Pick
  <2>2. \/ \E r \in todo[p] : /\ at' = [at EXCEPT ![p] = r]
                              /\ todo' = [todo EXCEPT ![p] = @ \ {r}]
                              /\ pc' = [pc EXCEPT ![p] = "await"]
        \/ /\ UNCHANGED <<at, todo>>
           /\ \/ pc' = [pc EXCEPT ![p] = "volumes"]
              \/ pc' = [pc EXCEPT ![p] = "idle"]
    BY <1>4 DEF Pick
  <2>3. pc' \in [Procs -> {"idle"} \cup StepPc \cup PrunePc \cup BothPc]
    BY <2>2 DEF PrunePc
  <2>4. at' \in [Procs -> Resources \cup {None}] /\ todo' \in [Procs -> SUBSET Resources]
    BY <2>2
  <2>5. TypeOK'
    BY <2>1, <2>3, <2>4 DEF storeVars, countVars
  <2>6. need[p] = {}
    BY <2>1 DEF Shape, ShapeOf, PrunePc
  <2>7. OthersStay(p)
    BY <2>1, <2>2 DEF OthersStay
  <2>8. ShapeOf(p)'
    BY <2>1, <2>2, <2>6 DEF ShapeOf, StepPc, ContainerPc, PrunePc, BothPc
  <2> QED BY <2>5, <2>7, <2>8, TypedByOne
<1>5. CASE Await(p)
  <2>1. /\ pc[p] = "await" /\ pc' = [pc EXCEPT ![p] = "remove"]
        /\ lock' = [lock EXCEPT ![at[p]] = p]
        /\ UNCHANGED <<storeVars, loopVars, orphans, countVars>>
    BY <1>5 DEF Await
  <2>2. lock' \in [Resources -> Procs \cup {None}]
    BY <2>1
  <2>3. pc' \in [Procs -> {"idle"} \cup StepPc \cup PrunePc \cup BothPc]
    BY <2>1 DEF BothPc
  <2>4. TypeOK'
    BY <2>1, <2>2, <2>3 DEF storeVars, loopVars, countVars
  <2>5. need[p] = {} /\ at[p] \in Resources
    BY <2>1 DEF Shape, ShapeOf, PrunePc
  <2>6. OthersStay(p) /\ ShapeOf(p)'
    BY <2>1, <2>5 DEF loopVars, OthersStay, ShapeOf, StepPc, ContainerPc, PrunePc, BothPc
  <2> QED BY <2>4, <2>6, TypedByOne
<1> QED BY <1>1, <1>2, <1>3, <1>4, <1>5

(* A death keeps the types.                                                *)
LEMMA TypedDie ==
  ASSUME Typed, NEW p \in Procs, Die(p)
  PROVE  Typed'
<1> USE DEF Typed, TypeOK
<1>1. deaths' \in 0..MaxDeaths /\ deaths' \in Nat
  BY DependencyAssumption DEF Die
<1>2. orphans' \in SUBSET Orphan
  <2>1. CASE UNCHANGED orphans
    BY <2>1
  <2>2. CASE /\ pc[p] \in ContainerPc
             /\ orphans' = orphans \cup
                  {[id |-> deaths', need |-> need[p], phase |-> pc[p], todo |-> todo[p]]}
    <3>1. [id |-> deaths', need |-> need[p], phase |-> pc[p], todo |-> todo[p]] \in Orphan
      BY <1>1, <2>2 DEF Orphan
    <3> QED BY <2>2, <3>1
  <2> QED BY <2>1, <2>2 DEF Die
<1>3. /\ lock' \in [Resources -> Procs \cup {None}]
      /\ pc' \in [Procs -> {"idle"} \cup StepPc \cup PrunePc \cup BothPc]
  BY TypedRelease DEF Die, Goto
<1>4. /\ need' \in [Procs -> SUBSET Resources] /\ todo' \in [Procs -> SUBSET Resources]
      /\ at' \in [Procs -> Resources \cup {None}]
      /\ attempt' \in [Procs -> 1..2]
      /\ outcome' \in [Procs -> {"none", "pass", "test", "prepare", "error"}]
  BY DEF Die
<1>5. UNCHANGED <<content, marked, registry, unwritten, failed, steps, prunes>>
  BY DEF Die, storeVars
<1>6. TypeOK'
  BY <1>1, <1>2, <1>3, <1>4, <1>5
<1>7. OthersStay(p) /\ ShapeOf(p)'
  BY DEF Die, Goto, OthersStay, ShapeOf, StepPc, ContainerPc, BothPc
<1> QED BY <1>6, <1>7, TypedByOne

(* An orphan keeps the types.                                              *)
LEMMA TypedOrphan ==
  ASSUME Typed, OrphanStep
  PROVE  Typed'
<1> USE DEF Typed, TypeOK
<1>1. UNCHANGED <<registry, unwritten, lock, pc, need, todo, at, attempt, failed, outcome, steps,
                  prunes, deaths>>
  BY DEF OrphanStep, loopVars, countVars
<1>2. PICK o \in orphans :
        OrphanWorks(o) \/ (orphans' = orphans \ {o} /\ UNCHANGED <<content, marked>>)
  BY DEF OrphanStep
<1>3. o \in Orphan
  OBVIOUS
<1>4. content' \in [Resources -> {"absent", "empty", "partial", "whole"}]
  BY <1>2 DEF OrphanWorks, Filled
<1>5. marked' \in [Resources -> BOOLEAN]
  BY <1>2 DEF OrphanWorks
<1>6. orphans' \in SUBSET Orphan
  <2>1. [o EXCEPT !.phase = "mark", !.todo = o.need] \in Orphan
    BY <1>3 DEF Orphan, ContainerPc
  <2>2. \A r : [o EXCEPT !.todo = o.todo \ {r}] \in Orphan
    BY Zenon, <1>3, TypedLoss
  <2>3. orphans \in SUBSET Orphan
    OBVIOUS
  <2>4. \/ orphans' = (orphans \ {o}) \cup {[o EXCEPT !.phase = "mark", !.todo = o.need]}
        \/ \E r : orphans' = (orphans \ {o}) \cup {[o EXCEPT !.todo = o.todo \ {r}]}
        \/ orphans' = orphans \ {o}
    BY <1>2 DEF OrphanWorks
  <2> HIDE DEF Typed, TypeOK
  <2> QED BY <2>1, <2>2, <2>3, <2>4
<1>7. TypeOK'
  BY <1>1, <1>4, <1>5, <1>6
<1>8. Shape'
  BY <1>1 DEF Shape, ShapeOf, NextOf
<1> QED BY <1>7, <1>8

(* The types and the shapes are invariant.                                 *)
LEMMA TypedInvariant == Spec => []Typed
<1>1. Init => Typed
  BY DependencyAssumption
  DEF Init, Typed, TypeOK, Shape, ShapeOf, StepPc, ContainerPc, PrunePc, BothPc
<1>2. Typed /\ [Next]_vars => Typed'
  <2> SUFFICES ASSUME Typed, [Next]_vars PROVE Typed'
    OBVIOUS
  <2>1. ASSUME NEW p \in Procs, StartStep(p) \/ StartPrune(p) \/ Step(p) \/ Die(p)
        PROVE  Typed'
    BY <2>1, TypedLoops, TypedEnsure, TypedEnds, TypedContainer, TypedRemovals,
       TypedPrune, TypedDie DEF Step
  <2>2. CASE OrphanStep
    BY <2>2, TypedOrphan
  <2>3. CASE UNCHANGED vars
    BY <2>3 DEF vars, storeVars, loopVars, countVars, Typed, TypeOK, Shape, ShapeOf, NextOf
  <2> QED BY <2>1, <2>2, <2>3 DEF Next, Rest
<1> QED BY <1>1, <1>2, PTL DEF Spec

(* Every variable of run_step and of the prunes has its type.              *)
THEOREM DependenciesTyped == Spec => []TypeOK
<1>1. Typed => TypeOK
  BY DEF Typed
<1> QED BY <1>1, TypedInvariant, PTL

-----------------------------------------------------------------------------
(* A step of p leaves the control state of the others alone.               *)
LEMMA StepStays ==
  ASSUME Typed, NEW p \in Procs, StartStep(p) \/ StartPrune(p) \/ Step(p) \/ Die(p)
  PROVE  OthersStay(p)
<1> USE DEF Typed, TypeOK, OthersStay, Goto, loopVars
<1>1. CASE StartStep(p) \/ StartPrune(p) \/ List(p) \/ Pick(p) \/ Await(p)
  BY <1>1 DEF StartStep, StartPrune, List, Pick, Await
<1>2. CASE Lock(p) \/ Ensure(p) \/ Record(p) \/ Mark(p)
  BY <1>2 DEF Lock, Ensure, Record, Mark, Advance
<1>3. CASE EnsureFails(p) \/ FinishTest(p) \/ RecordFails(p) \/ Die(p)
  BY <1>3 DEF EnsureFails, FinishTest, RecordFails, End, Die
<1>4. CASE StartPrepare(p) \/ FinishPrepare(p) \/ PrepareFails(p) \/ StartTest(p) \/ Remove(p)
  BY <1>4 DEF StartPrepare, FinishPrepare, PrepareFails, StartTest, Remove
<1>5. CASE RemoveDirEnds(p) \/ RemoveFails(p) \/ Forget(p) \/ ForgetFails(p)
  <2>1. CASE \E r, ok : AfterRemoval(p, r, ok)
    BY <2>1 DEF AfterRemoval, PruneGoesOn, DiscardGoesOn, DiscardEnds, End
  <2>2. CASE PruneAborts(p)
    BY <2>2 DEF PruneAborts
  <2> QED BY <1>5, <2>1, <2>2 DEF RemoveDirEnds, RemoveFails, Forget, ForgetFails, AfterRemoval
<1> QED BY <1>1, <1>2, <1>3, <1>4, <1>5 DEF Step

(* A step of p that takes no lock from the others keeps the locks when it  *)
(* keeps them for p.                                                       *)
LEMMA LockedByOne ==
  ASSUME Typed, Locked, NEW p \in Procs, OthersStay(p), Holds(p)',
         \A r \in Resources : lock[r] \in Procs \ {p} => lock'[r] = lock[r]
  PROVE  Locked'
<1> SUFFICES ASSUME NEW q \in Procs, q # p PROVE Holds(q)'
  BY DEF Locked
<1>1. Holds(q) /\ ShapeOf(q) /\ need[q] \in SUBSET Resources
  BY DEF Locked, Typed, TypeOK, Shape
<1>2. /\ pc'[q] = pc[q] /\ need'[q] = need[q] /\ todo'[q] = todo[q] /\ at'[q] = at[q]
  BY DEF OthersStay
<1>3. pc[q] \in BothPc /\ need[q] = {} => at[q] \in Resources
  BY <1>1 DEF ShapeOf
<1>4. \A r \in Resources : lock[r] = q => lock'[r] = q
  OBVIOUS
<1> QED BY <1>1, <1>2, <1>3, <1>4 DEF Holds

(* Locks are taken free and given back by their holder.                    *)
LEMMA LockedStep ==
  ASSUME Typed, Locked, [Next]_vars
  PROVE  Locked'
<1> USE DEF Typed, TypeOK, Goto, loopVars
<1>0. ASSUME NEW p \in Procs PROVE Holds(p) /\ ShapeOf(p)
  BY DEF Locked, Shape
<1>1. ASSUME NEW p \in Procs, StartStep(p) PROVE Locked'
  <2>1. Holds(p)' /\ UNCHANGED lock
    BY <1>1 DEF StartStep, Holds, StepPc, ContainerPc, BothPc
  <2> QED BY <1>1, <2>1, StepStays, LockedByOne
<1>2. ASSUME NEW p \in Procs, StartPrune(p) \/ List(p) \/ Pick(p) PROVE Locked'
  <2>1. Holds(p)' /\ UNCHANGED lock
    BY <1>2 DEF StartPrune, List, Pick, Holds, StepPc, ContainerPc, BothPc
  <2> QED BY <1>2, <2>1, StepStays, LockedByOne DEF Step
<1>3. ASSUME NEW p \in Procs, Await(p) PROVE Locked'
  <2>1. /\ pc[p] = "await" /\ pc' = [pc EXCEPT ![p] = "remove"]
        /\ lock[at[p]] = None /\ lock' = [lock EXCEPT ![at[p]] = p]
        /\ UNCHANGED <<need, at>>
    BY <1>3 DEF Await
  <2>2. need[p] = {} /\ at[p] \in Resources
    BY <1>0, <2>1 DEF ShapeOf, PrunePc
  <2>3. Holds(p)'
    BY <2>1, <2>2 DEF Holds, StepPc, ContainerPc, BothPc
  <2>4. \A r \in Resources : lock[r] \in Procs \ {p} => lock'[r] = lock[r]
    BY <2>1, <2>2, DependencyAssumption
  <2> QED BY <1>3, <2>3, <2>4, StepStays, LockedByOne DEF Step
<1>4. ASSUME NEW p \in Procs, Lock(p) PROVE Locked'
  <2>1. PICK r \in NextOf(p) : /\ lock[r] = None /\ lock' = [lock EXCEPT ![r] = p]
                               /\ Advance(p, r, "lock", "ensure")
    BY <1>4 DEF Lock
  <2>2. pc[p] = "lock" /\ UNCHANGED need /\ r \in Resources /\ r \in todo[p]
    BY <1>4, NextIsOne DEF Lock
  <2>3. \A s \in Resources : lock[s] = p => lock'[s] = p
    BY <2>1
  <2>4. \A s \in need[p] \ todo[p] : lock[s] = p
    BY <1>0, <2>2 DEF Holds
  <2>5. lock'[r] = p /\ need[p] \in SUBSET Resources
    BY <2>1, <2>2
  <2>6. Holds(p)'
    <3>1. CASE todo[p] # {r} /\ todo' = [todo EXCEPT ![p] = @ \ {r}]
                             /\ pc' = [pc EXCEPT ![p] = "lock"]
      BY <2>2, <2>3, <2>4, <2>5, <3>1 DEF Holds, StepPc, ContainerPc, BothPc
    <3>2. CASE todo[p] = {r} /\ pc' = [pc EXCEPT ![p] = "ensure"]
      BY <2>2, <2>3, <2>4, <2>5, <3>2 DEF Holds, StepPc, ContainerPc, BothPc
    <3> QED BY <2>1, <3>1, <3>2 DEF Advance
  <2>8. \A s \in Resources : lock[s] \in Procs \ {p} => lock'[s] = lock[s]
    BY <2>1, <2>2, DependencyAssumption
  <2>9. OthersStay(p)
    BY <1>4, StepStays DEF Step
  <2> QED BY <2>6, <2>8, <2>9, LockedByOne
<1>5. ASSUME NEW p \in Procs,
             Ensure(p) \/ Record(p) \/ Mark(p) \/ StartPrepare(p) \/ FinishPrepare(p)
               \/ PrepareFails(p) \/ StartTest(p) \/ Remove(p)
      PROVE  Locked'
  <2>1. UNCHANGED <<lock, need, at>>
    BY <1>5 DEF Ensure, Record, Mark, StartPrepare, FinishPrepare, PrepareFails, StartTest,
                Remove
  <2>2. /\ pc[p] \in (StepPc \ {"lock"}) \cup {"remove"}
        /\ pc'[p] \in (StepPc \ {"lock"}) \cup BothPc
        /\ pc'[p] \in BothPc => pc[p] \in BothPc \/ pc[p] \in StepPc
    BY <1>5 DEF Ensure, Record, Mark, StartPrepare, FinishPrepare, PrepareFails, StartTest,
                Remove, Advance, StepPc, ContainerPc, BothPc
  <2>3. pc[p] \in StepPc => need[p] # {}
    BY <1>0, DependencyAssumption DEF ShapeOf
  <2>4. Holds(p)'
    BY <1>0, <2>1, <2>2, <2>3 DEF Holds, StepPc, ContainerPc, BothPc
  <2>5. OthersStay(p)
    BY <1>5, StepStays DEF Step
  <2> QED BY <2>1, <2>4, <2>5, LockedByOne
<1>6. ASSUME NEW p \in Procs,
             EnsureFails(p) \/ FinishTest(p) \/ RecordFails(p) \/ Die(p) \/ PruneAborts(p),
             OthersStay(p)
      PROVE  Locked'
  <2>1. Release(p) /\ pc' = [pc EXCEPT ![p] = "idle"]
    BY <1>6 DEF EnsureFails, FinishTest, RecordFails, PruneAborts, Die, End
  <2>2. Holds(p)'
    BY <2>1 DEF Holds, StepPc, ContainerPc, BothPc
  <2>3. \A r \in Resources : lock[r] \in Procs \ {p} => lock'[r] = lock[r]
    BY <2>1 DEF Release
  <2> QED BY <1>6, <2>2, <2>3, LockedByOne
<1>7. ASSUME NEW p \in Procs,
             RemoveDirEnds(p) \/ RemoveFails(p) \/ Forget(p) \/ ForgetFails(p),
             NEW r, NEW ok, AfterRemoval(p, r, ok)
      PROVE  Locked'
  <2>2. pc[p] \in BothPc
    BY <1>7 DEF RemoveDirEnds, RemoveFails, Forget, ForgetFails, BothPc
  <2>3. OthersStay(p)
    BY <1>7, StepStays DEF Step
  <2>4. CASE PruneGoesOn(p, r) \/ (DiscardEnds(p, r, ok) /\ ~Retry(p, ok))
    <3>1. Release(p) /\ pc'[p] \in {"idle", "pickdir", "pickvolume"}
      BY <2>4 DEF PruneGoesOn, DiscardEnds, End
    <3>2. Holds(p)'
      BY <3>1 DEF Holds, StepPc, ContainerPc, BothPc
    <3>3. \A s \in Resources : lock[s] \in Procs \ {p} => lock'[s] = lock[s]
      BY <3>1 DEF Release
    <3> QED BY <2>3, <3>2, <3>3, LockedByOne
  <2>5. CASE DiscardGoesOn(p, r, ok) \/ (DiscardEnds(p, r, ok) /\ Retry(p, ok))
    <3>1. UNCHANGED <<lock, need, at>> /\ need[p] # {} /\ pc'[p] \in {"remove", "ensure"}
      BY <2>5 DEF DiscardGoesOn, DiscardEnds
    <3>2. Holds(p)'
      BY <1>0, <2>2, <3>1 DEF Holds, StepPc, ContainerPc, BothPc
    <3> QED BY <2>3, <3>1, <3>2, LockedByOne
  <2> QED BY <1>7, <2>4, <2>5 DEF AfterRemoval
<1>9. ASSUME NEW p \in Procs, Step(p) \/ Die(p) PROVE Locked'
  <2>1. OthersStay(p)
    BY <1>9, StepStays
  <2>2. CASE RemoveDirEnds(p) \/ RemoveFails(p) \/ Forget(p) \/ ForgetFails(p)
    <3>1. (\E r, ok : AfterRemoval(p, r, ok)) \/ PruneAborts(p)
      BY <2>2 DEF RemoveDirEnds, RemoveFails, Forget, ForgetFails, AfterRemoval
    <3> QED BY <1>6, <1>7, <2>1, <2>2, <3>1
  <2> QED BY <1>2, <1>3, <1>4, <1>5, <1>6, <1>9, <2>1, <2>2 DEF Step
<1>8. CASE OrphanStep \/ UNCHANGED vars
  <2>1. UNCHANGED <<lock, pc, need, todo, at>>
    BY <1>8 DEF OrphanStep, vars
  <2> QED BY <2>1 DEF Locked, Holds
<1> QED BY <1>1, <1>2, <1>8, <1>9 DEF Next, Rest

-----------------------------------------------------------------------------
(* What the markers stand for, as long as every process that dies takes    *)
(* its container along and resources are volumes: a full set of markers    *)
(* stands for finished dependencies, and from the end of its prepare phase *)
(* on a step has them.                                                     *)
Marks ==
  /\ orphans = {}
  /\ \A n \in StepNeeds : (\A r \in n : marked[r]) => \A r \in n : content[r] = "whole"
  /\ \A p \in Procs : pc[p] \in {"mark", "pretest", "test"} =>
       \A r \in need[p] : content[r] = "whole"

(* A step of p keeps Marks when it leaves the resources of the others      *)
(* alone, and keeps the markers of its own in order.                       *)
LEMMA MarksByOne ==
  ASSUME Typed, Locked, Marks, NEW p \in Procs, OthersStay(p), orphans' = {},
         \A r \in Resources : lock[r] # p => content'[r] = content[r],
         \A n \in StepNeeds : (\A r \in n : marked'[r]) => \A r \in n : content'[r] = "whole",
         pc'[p] \in {"mark", "pretest", "test"} => \A r \in need'[p] : content'[r] = "whole"
  PROVE  Marks'
<1>1. ASSUME NEW q \in Procs, pc'[q] \in {"mark", "pretest", "test"}, NEW r \in need'[q]
      PROVE  content'[r] = "whole"
  <2>1. CASE q = p
    BY <1>1, <2>1
  <2>2. CASE q # p
    <3>1. pc[q] \in {"mark", "pretest", "test"} /\ r \in need[q] /\ r \in Resources
      BY <1>1, <2>2 DEF OthersStay, Typed, TypeOK
    <3>2. lock[r] = q /\ content[r] = "whole"
      BY <3>1 DEF Locked, Holds, Marks, StepPc, ContainerPc, BothPc
    <3> QED BY <2>2, <3>1, <3>2
  <2> QED BY <2>1, <2>2
<1> QED BY <1>1 DEF Marks

(* A step keeps Marks.                                                     *)
LEMMA MarksStep ==
  ASSUME Typed, Locked, Marks, [Next]_vars, Dirs = {}, "kill" \notin Deaths
  PROVE  Marks'
<1> USE DEF Typed, TypeOK, Goto, storeVars, loopVars
<1>0. ASSUME NEW p \in Procs PROVE Holds(p) /\ ShapeOf(p)
  BY DEF Locked, Typed, Shape
<1>1. ASSUME NEW p \in Procs, UNCHANGED <<content, marked, orphans>>, OthersStay(p),
             pc'[p] \notin {"mark", "pretest", "test"}
      PROVE  Marks'
  BY <1>1, MarksByOne DEF Marks
<1>2. ASSUME NEW p \in Procs, StartStep(p) \/ StartPrune(p) \/ Step(p) \/ Die(p)
      PROVE  Marks'
  <2>0. OthersStay(p)
    BY <1>2, StepStays
  <2>1. CASE StartStep(p) \/ StartPrune(p) \/ List(p) \/ Pick(p) \/ Await(p) \/ Lock(p)
               \/ Record(p) \/ EnsureFails(p) \/ RecordFails(p) \/ PrepareFails(p)
               \/ FinishTest(p)
    <3>1. UNCHANGED <<content, marked, orphans>>
      BY <2>1 DEF StartStep, StartPrune, List, Pick, Await, Lock, Record, EnsureFails,
                  RecordFails, PrepareFails, FinishTest
    <3>2. pc'[p] \notin {"mark", "pretest", "test"}
      BY <2>1 DEF StartStep, StartPrune, List, Pick, Await, Lock, Record, EnsureFails,
                  RecordFails, PrepareFails, FinishTest, End, Advance
    <3> QED BY <1>1, <2>0, <3>1, <3>2
  <2>2. CASE Die(p)
    BY <1>1, <2>0, <2>2 DEF Die
  <2>3. CASE RemoveFails(p) \/ Forget(p) \/ ForgetFails(p)
    <3>1. (\E r, ok : AfterRemoval(p, r, ok)) \/ PruneAborts(p)
      BY <2>3 DEF RemoveFails, Forget, ForgetFails, AfterRemoval
    <3>2. pc'[p] \notin {"mark", "pretest", "test"}
      BY <3>1 DEF AfterRemoval, PruneGoesOn, PruneAborts, DiscardGoesOn, DiscardEnds, End
    <3> QED BY <1>1, <2>0, <2>3, <3>2 DEF RemoveFails, Forget, ForgetFails
  <2>4. CASE Remove(p) \/ RemoveDirEnds(p)
    <3>1. pc[p] \in BothPc
      BY <2>4 DEF Remove, RemoveDirEnds, BothPc
    <3>2. PICK r \in Doomed(p) : /\ content' = [content EXCEPT ![r] = "absent"]
                                 /\ marked' = [marked EXCEPT ![r] = FALSE]
      BY <2>4 DEF Remove, RemoveDirEnds
    <3>3. r \in Resources /\ lock[r] = p
      <4>1. CASE need[p] = {}
        BY <1>0, <3>1, <4>1, DoomedIsHeld DEF Doomed, Holds
      <4>2. CASE need[p] # {}
        <5>1. r \in NextOf(p) /\ r \in Resources
          BY <3>1, <4>2, DoomedIsHeld DEF Doomed
        <5>2. r \in need[p]
          BY <1>0, <3>1, <4>2, <5>1 DEF ShapeOf, NextOf
        <5> QED BY <1>0, <3>1, <5>2 DEF Holds, BothPc
      <4> QED BY <4>1, <4>2
    <3>4. orphans' = {}
      BY <2>4 DEF Remove, RemoveDirEnds, Marks
    <3>5. pc'[p] \notin {"mark", "pretest", "test"}
      <4>1. CASE Remove(p)
        BY <4>1 DEF Remove
      <4>2. CASE RemoveDirEnds(p)
        <5>1. PICK x : AfterRemoval(p, x, TRUE)
          BY <4>2 DEF RemoveDirEnds
        <5> QED BY <5>1 DEF AfterRemoval, PruneGoesOn, DiscardGoesOn, DiscardEnds, End
      <4> QED BY <2>4, <4>1, <4>2
    <3>6. \A n \in StepNeeds : (\A s \in n : marked'[s]) => \A s \in n : content'[s] = "whole"
      <4> SUFFICES ASSUME NEW n \in StepNeeds, \A s \in n : marked'[s], NEW s \in n
                   PROVE  content'[s] = "whole"
        OBVIOUS
      <4>1. r \notin n /\ n \subseteq Resources
        BY <3>2, <3>3, DependencyAssumption
      <4> QED BY <3>2, <3>3, <4>1 DEF Marks
    <3> QED BY <2>0, <3>2, <3>3, <3>4, <3>5, <3>6, MarksByOne
  <2>5. CASE Ensure(p)
    <3>1. PICK r \in NextOf(p) :
            /\ content' = [content EXCEPT ![r] = IF @ = "absent" THEN "empty" ELSE @]
            /\ pc'[p] \in {"ensure", "start", "record"}
      BY <2>5 DEF Ensure, Advance
    <3>2. pc[p] = "ensure" /\ UNCHANGED <<marked, orphans>>
      BY <2>5 DEF Ensure
    <3>a. r \in Resources /\ r \in todo[p]
      BY <3>1, NextIsOne
    <3>3. r \in Resources /\ r \in need[p]
      BY <1>0, <3>2, <3>a, DependencyAssumption DEF ShapeOf, StepPc
    <3>4. lock[r] = p
      BY <1>0, <3>2, <3>3 DEF Holds, StepPc
    <3>5. \A n \in StepNeeds : (\A s \in n : marked'[s]) => \A s \in n : content'[s] = "whole"
      BY <3>1, <3>2, <3>3, DependencyAssumption DEF Marks
    <3>6. \A s \in Resources : lock[s] # p => content'[s] = content[s]
      BY <3>1, <3>3, <3>4
    <3>7. orphans' = {}
      BY <3>2 DEF Marks
    <3> QED BY <2>0, <3>1, <3>5, <3>6, <3>7, MarksByOne
  <2>6. CASE StartPrepare(p)
    <3>1. pc[p] = "start" /\ UNCHANGED <<marked, need, orphans>>
      BY <2>6 DEF StartPrepare
    <3>2. need[p] \in StepNeeds /\ need[p] \subseteq Resources
      BY <1>0, <3>1 DEF ShapeOf, StepPc
    <3>3. \A r \in need[p] : lock[r] = p
      BY <1>0, <3>1 DEF Holds, StepPc
    <3>4. CASE AllMarkers(p) /\ pc'[p] = "pretest" /\ UNCHANGED content
      BY <2>0, <3>1, <3>2, <3>4, MarksByOne DEF Marks, AllMarkers
    <3>5. CASE /\ ~AllMarkers(p) /\ pc'[p] = "prepare"
               /\ content' = [r \in Resources |-> IF r \in need[p] THEN "partial"
                                                 ELSE content[r]]
      <4>1. \A n \in StepNeeds :
              (\A s \in n : marked'[s]) => \A s \in n : content'[s] = "whole"
        <5> SUFFICES ASSUME NEW n \in StepNeeds, \A s \in n : marked'[s], NEW s \in n
                     PROVE  content'[s] = "whole"
          OBVIOUS
        <5>1. n # need[p]
          BY <3>1, <3>5 DEF AllMarkers
        <5>2. s \notin need[p] /\ s \in Resources
          BY <3>2, <5>1, DependencyAssumption
        <5> QED BY <3>1, <3>5, <5>2 DEF Marks
      <4>2. \A s \in Resources : lock[s] # p => content'[s] = content[s]
        BY <3>3, <3>5
      <4>3. orphans' = {}
        BY <3>1 DEF Marks
      <4> QED BY <2>0, <3>5, <4>1, <4>2, <4>3, MarksByOne
    <3> QED BY <2>6, <3>4, <3>5 DEF StartPrepare
  <2>9. CASE FinishPrepare(p)
    <3>1. pc[p] = "prepare" /\ pc'[p] = "mark" /\ UNCHANGED <<marked, need, orphans>>
      BY <2>9 DEF FinishPrepare
    <3>2. need[p] \in StepNeeds /\ need[p] \subseteq Resources
      BY <1>0, <3>1 DEF ShapeOf, StepPc, ContainerPc
    <3>3. \A r \in need[p] : lock[r] = p
      BY <1>0, <3>1 DEF Holds, StepPc, ContainerPc
    <3>4. ASSUME NEW r \in need[p] PROVE ~Contended(r, p, None)
      <4>1. \A q \in Procs \ {p} : ~(pc[q] = "prepare" /\ r \in need[q])
        BY <1>0, <3>3 DEF Holds, StepPc, ContainerPc
      <4> QED BY <4>1 DEF Contended, Marks
    <3>5. content' = [r \in Resources |-> IF r \in need[p] THEN "whole" ELSE content[r]]
      BY <2>9, <3>4 DEF FinishPrepare, Filled
    <3>6. \A n \in StepNeeds :
            (\A s \in n : marked'[s]) => \A s \in n : content'[s] = "whole"
      BY <3>1, <3>5, DependencyAssumption DEF Marks
    <3>7. \A s \in Resources : lock[s] # p => content'[s] = content[s]
      BY <3>3, <3>5
    <3>8. orphans' = {} /\ \A r \in need'[p] : content'[r] = "whole"
      BY <3>1, <3>2, <3>5 DEF Marks
    <3> QED BY <2>0, <3>6, <3>7, <3>8, MarksByOne
  <2>7. CASE Mark(p)
    <3>1. PICK r \in NextOf(p) : marked' = [marked EXCEPT ![r] = TRUE]
      BY <2>7 DEF Mark
    <3>2. pc[p] = "mark" /\ UNCHANGED <<content, need, orphans>>
      BY <2>7 DEF Mark
    <3>3. need[p] \in StepNeeds
      BY <1>0, <3>2 DEF ShapeOf, StepPc, ContainerPc
    <3>4. \A s \in need[p] : content[s] = "whole"
      BY <3>2 DEF Marks
    <3>5. r \in need[p]
      BY <1>0, <3>2, <3>3, DependencyAssumption DEF ShapeOf, StepPc, ContainerPc, NextOf
    <3>6. \A n \in StepNeeds :
            (\A s \in n : marked'[s]) => \A s \in n : content'[s] = "whole"
      <4> SUFFICES ASSUME NEW n \in StepNeeds, \A s \in n : marked'[s], NEW s \in n
                   PROVE  content'[s] = "whole"
        OBVIOUS
      <4>1. CASE n = need[p]
        BY <3>2, <3>4, <4>1
      <4>2. CASE n # need[p]
        BY <3>1, <3>2, <3>3, <3>5, <4>2, DependencyAssumption DEF Marks
      <4> QED BY <4>1, <4>2
    <3> QED BY <2>0, <3>2, <3>4, <3>6, MarksByOne DEF Marks
  <2>8. CASE StartTest(p)
    BY <2>0, <2>8, MarksByOne DEF StartTest, Marks
  <2> QED BY <1>2, <2>1, <2>2, <2>3, <2>4, <2>5, <2>6, <2>7, <2>8, <2>9
        DEF Step
<1>3. CASE OrphanStep
  BY <1>3 DEF OrphanStep, Marks
<1>4. CASE UNCHANGED vars
  BY <1>4 DEF vars, Marks
<1> QED BY <1>2, <1>3, <1>4 DEF Next, Rest

(* A test runs over finished dependencies: for a runner that keeps every   *)
(* prepared dependency in a volume, and processes that end their container *)
(* when they die.                                                          *)
THEOREM TestsRunOnWhole ==
  ASSUME Dirs = {}, "kill" \notin Deaths
  PROVE  Spec => []TestOnWhole
<1>1. Init => Locked /\ Marks
  BY DependencyAssumption DEF Init, Locked, Holds, Marks, StepPc, ContainerPc, BothPc
<1>2. Typed /\ Locked /\ Marks /\ [Next]_vars => Locked' /\ Marks'
  BY LockedStep, MarksStep
<1>3. Marks => TestOnWhole
  BY DEF Marks, TestOnWhole
<1> QED BY <1>1, <1>2, <1>3, TypedInvariant, PTL DEF Spec

(* No container has outlived its process.                                  *)
Orphanless == orphans = {}

(* Without a process killed there is never an orphan.                      *)
LEMMA NoOrphans ==
  ASSUME "kill" \notin Deaths
  PROVE  Spec => []Orphanless
<1>1. Init => Orphanless
  BY DEF Init, Orphanless
<1>2. Orphanless /\ [Next]_vars => Orphanless'
  <2> SUFFICES ASSUME Orphanless, [Next]_vars PROVE Orphanless'
    OBVIOUS
  <2>1. ASSUME NEW p \in Procs, StartStep(p) \/ StartPrune(p) \/ Step(p) \/ Die(p)
        PROVE  Orphanless'
    <3>1. CASE StartStep(p) \/ StartPrune(p) \/ Die(p)
      BY <3>1 DEF StartStep, StartPrune, Die, Orphanless
    <3>2. CASE Step(p)
      BY <3>2 DEF Step, Lock, Ensure, Record, EnsureFails, StartPrepare, FinishPrepare, Mark,
                  PrepareFails, StartTest, FinishTest, Remove, RemoveDirEnds, RemoveFails,
                  RecordFails, Forget, ForgetFails, List, Pick, Await, Orphanless
    <3> QED BY <2>1, <3>1, <3>2
  <2>2. CASE OrphanStep
    BY <2>2 DEF OrphanStep, Orphanless
  <2>3. CASE UNCHANGED vars
    BY <2>3 DEF vars, Orphanless
  <2> QED BY <2>1, <2>2, <2>3 DEF Next, Rest
<1> QED BY <1>1, <1>2, PTL DEF Spec

(* "neither corrupt a shared prepared volume": while no process is killed, *)
(* the locks alone keep two package managers out of one resource.          *)
THEOREM WritersExclude ==
  ASSUME "kill" \notin Deaths
  PROVE  Spec => []OneWriter
<1>1. Init => Locked
  BY DependencyAssumption DEF Init, Locked, Holds, StepPc, ContainerPc, BothPc
<1>2. Typed /\ Locked /\ [Next]_vars => Locked'
  BY LockedStep
<1>3. Locked /\ Orphanless => OneWriter
  BY DEF Orphanless, Locked, Holds, OneWriter, Contended, StepPc, ContainerPc
<1> QED BY <1>1, <1>2, <1>3, TypedInvariant, NoOrphans, PTL DEF Spec

-----------------------------------------------------------------------------
(* What the loops of run_step and of the prunes leave in the stores and in *)
(* the registry, processes that are killed and leave their container       *)
(* included.                                                               *)

(* Nothing of an earlier attempt is in a resource, and no container that   *)
(* has outlived its process can still write to it.                         *)
Clean(r) ==
  /\ content[r] \in {"absent", "empty"} /\ ~marked[r]
  /\ \A o \in orphans : r \notin o.need

(* What a step has made exists, and what a discard or prune is at is the   *)
(* kind of resource its control point is for.                              *)
Built(p) ==
  /\ pc[p] \in {"ensure", "record"} => \A r \in need[p] \ todo[p] : content[r] # "absent"
  /\ pc[p] = "record" => \A r \in NextOf(p) : content[r] # "absent"
  /\ pc[p] \in {"start", "pretest"} \cup ContainerPc => \A r \in need[p] : content[r] # "absent"
  /\ pc[p] = "removing" => Doomed(p) \subseteq Dirs
  /\ pc[p] = "forget" => \A r \in Doomed(p) : r \in Volumes /\ content[r] = "absent" /\ Clean(r)

(* A second attempt has everything clean until it starts, and so has a     *)
(* discard that nothing refused what it has been at.                       *)
Cleared(p) ==
  /\ need[p] = {} \/ pc[p] = "lock" => attempt[p] = 1
  /\ attempt[p] = 2 /\ pc[p] \in {"ensure", "record", "start"} => \A r \in need[p] : Clean(r)
  /\ pc[p] \in BothPc /\ ~failed[p] => \A r \in need[p] \ todo[p] : Clean(r)

Stored ==
  /\ \A o \in orphans : o.todo \subseteq o.need
  /\ \A p \in Procs : Built(p) /\ Cleared(p)

-----------------------------------------------------------------------------
(* What is removed is one resource, locked by the one that removes it.     *)
LEMMA DoomedIsOne ==
  ASSUME Typed, Locked, NEW p \in Procs, pc[p] \in BothPc, NEW r \in Doomed(p)
  PROVE  /\ r \in Resources /\ lock[r] = p
         /\ need[p] # {} => r \in need[p] /\ r \in todo[p]
         /\ \A s \in Doomed(p) : s = r
<1>1. CASE need[p] = {}
  BY <1>1, DoomedIsHeld DEF Doomed, Locked, Holds
<1>2. CASE need[p] # {}
  <2>1. \A s \in NextOf(p) : s = r /\ r \in todo[p]
    BY <1>2, NextIsOne DEF Doomed
  <2>2. r \in todo[p] /\ todo[p] \subseteq need[p]
    BY <1>2, <2>1 DEF Doomed, Typed, Shape, ShapeOf
  <2> QED BY <1>2, <2>1, <2>2, DoomedIsHeld DEF Doomed, Locked, Holds, BothPc
<1> QED BY <1>1, <1>2

(* From the end of its lock loop on, a step has locked what it needs.      *)
LEMMA NeedIsHeld ==
  ASSUME Typed, Locked, NEW p \in Procs, pc[p] \in (StepPc \cup BothPc) \ {"lock"},
         NEW r \in need[p]
  PROVE  r \in Resources /\ lock[r] = p
BY DEF Typed, TypeOK, Locked, Holds

(* The loop of a step is at one resource of its need.                      *)
LEMMA NextIsHeld ==
  ASSUME Typed, Locked, NEW p \in Procs, pc[p] \in StepPc \ {"lock"}, NEW r \in NextOf(p)
  PROVE  /\ r \in Resources /\ r \in need[p] /\ r \in todo[p] /\ lock[r] = p
         /\ \A s \in NextOf(p) : s = r
BY NextIsOne, LoopInNeed, NeedIsHeld DEF NextOf

(* What a step of p leaves alone of the attempts of the others.            *)
OthersKeep(p) ==
  \A q \in Procs \ {p} : attempt'[q] = attempt[q] /\ failed'[q] = failed[q] /\ outcome'[q] = outcome[q]

(* A step of p leaves the attempts of the others alone.                    *)
LEMMA StepKeeps ==
  ASSUME Typed, NEW p \in Procs, StartStep(p) \/ StartPrune(p) \/ Step(p) \/ Die(p)
  PROVE  OthersKeep(p)
<1> USE DEF Typed, TypeOK, OthersKeep, loopVars
<1>1. CASE StartStep(p) \/ StartPrune(p) \/ List(p) \/ Pick(p) \/ Await(p)
  BY <1>1 DEF StartStep, StartPrune, List, Pick, Await
<1>2. CASE Lock(p) \/ Ensure(p) \/ Record(p) \/ Mark(p)
  BY <1>2 DEF Lock, Ensure, Record, Mark
<1>3. CASE EnsureFails(p) \/ FinishTest(p) \/ RecordFails(p) \/ Die(p)
  BY <1>3 DEF EnsureFails, FinishTest, RecordFails, End, Die
<1>4. CASE StartPrepare(p) \/ FinishPrepare(p) \/ PrepareFails(p) \/ StartTest(p) \/ Remove(p)
  BY <1>4 DEF StartPrepare, FinishPrepare, PrepareFails, StartTest, Remove
<1>5. CASE RemoveDirEnds(p) \/ RemoveFails(p) \/ Forget(p) \/ ForgetFails(p)
  <2>1. CASE \E r, ok : AfterRemoval(p, r, ok)
    BY <2>1 DEF AfterRemoval, PruneGoesOn, DiscardGoesOn, DiscardEnds, End
  <2>2. CASE PruneAborts(p)
    BY <2>2 DEF PruneAborts
  <2> QED BY <1>5, <2>1, <2>2 DEF RemoveDirEnds, RemoveFails, Forget, ForgetFails, AfterRemoval
<1> QED BY <1>1, <1>2, <1>3, <1>4, <1>5 DEF Step

(* A step of p keeps Stored when it keeps it for p and leaves the resources*)
(* p has not locked as they are.                                           *)
LEMMA StoredByOne ==
  ASSUME Typed, Locked, Stored, NEW p \in Procs, OthersStay(p), OthersKeep(p),
         \A r \in Resources : lock[r] # p => content'[r] = content[r] /\ (Clean(r) => Clean(r)'),
         \A o \in orphans' : o.todo \subseteq o.need,
         Built(p)', Cleared(p)'
  PROVE  Stored'
<1> SUFFICES ASSUME NEW q \in Procs, q # p PROVE Built(q)' /\ Cleared(q)'
  BY DEF Stored
<1>1. Built(q) /\ Cleared(q)
  BY DEF Stored
<1>2. /\ pc'[q] = pc[q] /\ need'[q] = need[q] /\ todo'[q] = todo[q] /\ at'[q] = at[q]
      /\ attempt'[q] = attempt[q] /\ failed'[q] = failed[q]
      /\ NextOf(q)' = NextOf(q) /\ Doomed(q)' = Doomed(q)
  BY DEF OthersStay, OthersKeep, NextOf, Doomed
<1>3. ASSUME pc[q] \in (StepPc \cup BothPc) \ {"lock"}, NEW r \in need[q]
      PROVE  content'[r] = content[r] /\ (Clean(r) => Clean(r)')
  BY <1>3, NeedIsHeld
<1>4. ASSUME pc[q] \in BothPc, NEW r \in Doomed(q)
      PROVE  content'[r] = content[r] /\ (Clean(r) => Clean(r)')
  BY <1>4, DoomedIsOne
<1>5. ASSUME pc[q] = "record", NEW r \in NextOf(q)
      PROVE  content'[r] = content[r]
  BY <1>5, NextIsHeld DEF StepPc
<1> QED BY <1>1, <1>2, <1>3, <1>4, <1>5 DEF Built, Cleared, StepPc, ContainerPc, BothPc

(* Steps that change neither content, markers nor orphans, and leave the   *)
(* loop of p where nothing has to be shown of it.                          *)
LEMMA StoredQuiet ==
  ASSUME Typed, Locked, Stored, NEW p \in Procs,
         \/ StartStep(p) \/ StartPrune(p) \/ List(p) \/ Pick(p) \/ Await(p) \/ Lock(p)
         \/ EnsureFails(p) \/ RecordFails(p) \/ FinishTest(p) \/ PrepareFails(p) \/ StartTest(p)
  PROVE  Stored'
<1> USE DEF Typed, TypeOK, Goto, loopVars, storeVars
<1>1. UNCHANGED <<content, marked, orphans>>
  BY DEF StartStep, StartPrune, List, Pick, Await, Lock, EnsureFails, RecordFails,
         FinishTest, PrepareFails, StartTest
<1>2. OthersStay(p) /\ OthersKeep(p)
  BY StepStays, StepKeeps DEF Step
<1>3. \A r \in Resources : Clean(r)' = Clean(r)
  BY <1>1 DEF Clean
<1>4. Built(p) /\ Cleared(p) /\ ShapeOf(p)
  BY DEF Stored, Shape
<1>5. CASE \/ StartStep(p) \/ StartPrune(p) \/ List(p) \/ Pick(p) \/ EnsureFails(p)
           \/ RecordFails(p) \/ FinishTest(p)
  <2>1. pc'[p] \in {"lock", "dirs", "pickdir", "pickvolume", "volumes", "await", "idle"}
    BY <1>5 DEF StartStep, StartPrune, List, Pick, EnsureFails, RecordFails, FinishTest, End
  <2>2. attempt'[p] = 1
    <3>1. CASE EnsureFails(p) \/ RecordFails(p) \/ FinishTest(p)
      BY <3>1 DEF EnsureFails, RecordFails, FinishTest, End
    <3>2. CASE StartStep(p) \/ StartPrune(p) \/ List(p) \/ Pick(p)
      <4>1. pc[p] \in PrunePc \cup {"idle"} /\ UNCHANGED attempt
        BY <3>2 DEF StartStep, StartPrune, List, Pick, PrunePc
      <4> QED BY <1>4, <4>1 DEF ShapeOf, Cleared
    <3> QED BY <1>5, <3>1, <3>2
  <2>3. Built(p)' /\ Cleared(p)'
    BY <2>1, <2>2 DEF Built, Cleared, ContainerPc, BothPc
  <2> QED BY <1>1, <1>2, <1>3, <2>3, StoredByOne DEF Stored
<1>6. CASE Await(p)
  <2>1. pc[p] = "await" /\ pc'[p] = "remove" /\ UNCHANGED <<need, todo, failed, attempt>>
    BY <1>6 DEF Await
  <2>2. need'[p] = {}
    BY <1>4, <2>1 DEF ShapeOf, PrunePc
  <2>3. Built(p)' /\ Cleared(p)'
    BY <1>4, <2>1, <2>2 DEF Built, Cleared, ContainerPc, BothPc
  <2> QED BY <1>1, <1>2, <1>3, <2>3, StoredByOne DEF Stored
<1>7. CASE Lock(p)
  <2>1. pc'[p] \in {"lock", "ensure"} /\ UNCHANGED <<need, attempt>>
        /\ (pc'[p] = "ensure" => todo'[p] = need'[p])
    BY <1>7 DEF Lock, Advance
  <2>2. attempt[p] = 1
    BY <1>4, <1>7 DEF Lock, Cleared
  <2>3. Built(p)' /\ Cleared(p)'
    BY <2>1, <2>2 DEF Built, Cleared, ContainerPc, BothPc
  <2> QED BY <1>1, <1>2, <1>3, <2>3, StoredByOne DEF Stored
<1>8. CASE PrepareFails(p)
  <2>1. pc'[p] = "remove" /\ todo'[p] = need'[p] /\ UNCHANGED <<need, attempt>>
        /\ pc[p] \in StepPc
    BY <1>8 DEF PrepareFails, StepPc, ContainerPc
  <2>2. Built(p)' /\ Cleared(p)'
    BY <1>4, <2>1 DEF Built, Cleared, ContainerPc, BothPc
  <2> QED BY <1>1, <1>2, <1>3, <2>2, StoredByOne DEF Stored
<1>9. CASE StartTest(p)
  <2>1. pc[p] = "pretest" /\ pc'[p] = "test" /\ UNCHANGED <<need, attempt>>
    BY <1>9 DEF StartTest
  <2>2. Built(p)' /\ Cleared(p)'
    BY <1>1, <1>4, <2>1 DEF Built, Cleared, ContainerPc, BothPc
  <2> QED BY <1>1, <1>2, <1>3, <2>2, StoredByOne DEF Stored
<1> QED BY <1>5, <1>6, <1>7, <1>8, <1>9

(* Making resources exist, one after the other, keeps Stored.              *)
LEMMA StoredEnsure ==
  ASSUME Typed, Locked, Stored, NEW p \in Procs, Ensure(p) \/ Record(p)
  PROVE  Stored'
<1> USE DEF Typed, TypeOK, Goto
<1>1. /\ pc[p] \in {"ensure", "record"} /\ pc[p] \in StepPc \ {"lock"}
      /\ UNCHANGED <<marked, lock, need, at, attempt, failed, orphans>>
  BY DEF Ensure, Record, StepPc
<1>2. OthersStay(p) /\ OthersKeep(p)
  BY StepStays, StepKeeps DEF Step
<1>3. Built(p) /\ Cleared(p) /\ need[p] \in SUBSET Resources /\ need[p] # {}
  BY <1>1, LoopInNeed DEF Stored
<1>4. PICK r \in NextOf(p) :
        /\ content' = [content EXCEPT ![r] = IF @ = "absent" THEN "empty" ELSE @]
             \/ (UNCHANGED content /\ pc[p] = "record")
        /\ \/ Advance(p, r, "ensure", "start")
           \/ pc'[p] = "record" /\ UNCHANGED todo
  BY DEF Ensure, Record
<1>5. r \in Resources /\ r \in need[p] /\ r \in todo[p] /\ lock[r] = p /\ \A s \in NextOf(p) : s = r
  BY <1>1, <1>4, NextIsHeld
<1>6. /\ \A s \in Resources : content[s] # "absent" => content'[s] # "absent"
      /\ \A s \in Resources : lock[s] # p => content'[s] = content[s]
      /\ \A s \in Resources : Clean(s) => Clean(s)'
      /\ content'[r] # "absent"
  BY <1>1, <1>3, <1>4, <1>5 DEF Clean, Built
<1>7. Built(p)' /\ Cleared(p)'
  <2>1. CASE pc'[p] = "record" /\ UNCHANGED todo
    <3>1. NextOf(p)' = NextOf(p)
      BY <2>1 DEF NextOf
    <3> QED BY <1>1, <1>3, <1>5, <1>6, <2>1, <3>1 DEF Built, Cleared, ContainerPc, BothPc
  <2>2. CASE Advance(p, r, "ensure", "start") /\ todo[p] # {r}
    <3>1. todo'[p] = todo[p] \ {r} /\ pc'[p] = "ensure"
      BY <2>2 DEF Advance
    <3> QED BY <1>1, <1>3, <1>5, <1>6, <3>1 DEF Built, Cleared, ContainerPc, BothPc
  <2>3. CASE Advance(p, r, "ensure", "start") /\ todo[p] = {r}
    <3>1. pc'[p] = "start"
      BY <2>3 DEF Advance
    <3>2. \A s \in need[p] : content'[s] # "absent"
      BY <1>1, <1>3, <1>6, <2>3 DEF Built
    <3> QED BY <1>1, <1>3, <1>6, <3>1, <3>2 DEF Built, Cleared, ContainerPc, BothPc
  <2> QED BY <1>4, <2>1, <2>2, <2>3
<1> QED BY <1>1, <1>2, <1>6, <1>7, StoredByOne DEF Stored

(* The prepare container keeps Stored.                                     *)
LEMMA StoredPrepare ==
  ASSUME Typed, Locked, Stored, NEW p \in Procs,
         StartPrepare(p) \/ FinishPrepare(p) \/ Mark(p)
  PROVE  Stored'
<1> USE DEF Typed, TypeOK, Goto, loopVars
<1>1. /\ pc[p] \in {"start", "prepare", "mark"} /\ pc[p] \in StepPc \ {"lock"}
      /\ pc'[p] \in {"prepare", "pretest", "mark"}
      /\ UNCHANGED <<lock, need, at, attempt, failed, orphans>>
  BY DEF StartPrepare, FinishPrepare, Mark, Advance, StepPc, ContainerPc
<1>2. OthersStay(p) /\ OthersKeep(p)
  BY StepStays, StepKeeps DEF Step
<1>3. Built(p) /\ Cleared(p) /\ need[p] \in SUBSET Resources /\ need[p] # {}
  BY <1>1, LoopInNeed DEF Stored
<1>4. \A s \in need[p] : lock[s] = p /\ content[s] # "absent"
  BY <1>1, <1>3, NeedIsHeld DEF Built, ContainerPc
<1>5. /\ \A s \in Resources : content[s] # "absent" => content'[s] # "absent"
      /\ \A s \in Resources : lock[s] # p => content'[s] = content[s] /\ marked'[s] = marked[s]
  <2>1. CASE StartPrepare(p) \/ FinishPrepare(p)
    BY <1>3, <1>4, <2>1 DEF StartPrepare, FinishPrepare, Filled
  <2>2. CASE Mark(p)
    <3>1. PICK r \in NextOf(p) : marked' = [marked EXCEPT ![r] = TRUE] /\ UNCHANGED content
      BY <2>2 DEF Mark
    <3>2. r \in Resources /\ lock[r] = p
      BY <1>1, NextIsHeld
    <3> QED BY <3>1, <3>2
  <2> QED BY <2>1, <2>2
<1>6. \A s \in Resources : lock[s] # p => content'[s] = content[s] /\ (Clean(s) => Clean(s)')
  BY <1>1, <1>5 DEF Clean
<1>7. Built(p)' /\ Cleared(p)'
  BY <1>1, <1>3, <1>4, <1>5 DEF Built, Cleared, ContainerPc, BothPc
<1> QED BY <1>1, <1>2, <1>6, <1>7, StoredByOne DEF Stored

(* What is left to show of a loop of removals once it goes on: the          *)
(* resources it has been at are clean, if nothing was refused.              *)
LEMMA StoredAfterRemoval ==
  ASSUME Typed, Locked, Stored, NEW p \in Procs, pc[p] \in BothPc, NEW r \in Doomed(p),
         NEW ok \in BOOLEAN, AfterRemoval(p, r, ok) \/ PruneAborts(p),
         \A s \in Resources : Clean(s) => Clean(s)',
         ok => Clean(r)'
  PROVE  Built(p)' /\ Cleared(p)'
<1> USE DEF Typed, TypeOK, Goto
<1>1. /\ Built(p) /\ Cleared(p) /\ need[p] \in SUBSET Resources
      /\ need[p] # {} => r \in need[p] /\ r \in todo[p]
  BY DoomedIsOne DEF Stored
<1>2. CASE PruneGoesOn(p, r)
  <2>1. pc'[p] \in {"pickdir", "pickvolume"} /\ UNCHANGED <<need, attempt>> /\ need[p] = {}
    BY <1>2 DEF PruneGoesOn
  <2> QED BY <1>1, <2>1 DEF Built, Cleared, ContainerPc, BothPc
<1>3. CASE DiscardGoesOn(p, r, ok)
  <2>1. /\ pc'[p] = "remove" /\ UNCHANGED <<need, attempt>> /\ need[p] # {}
        /\ todo'[p] = todo[p] \ {r} /\ failed'[p] = (failed[p] \/ ~ok)
    BY <1>3 DEF DiscardGoesOn
  <2>2. ~failed'[p] => \A s \in need[p] \ todo[p] : Clean(s)
    BY <1>1, <2>1 DEF Cleared
  <2> QED BY <1>1, <2>1, <2>2 DEF Built, Cleared, ContainerPc, BothPc
<1>4. CASE DiscardEnds(p, r, ok) /\ Retry(p, ok)
  <2>1. /\ pc'[p] = "ensure" /\ UNCHANGED need /\ todo'[p] = need[p] /\ need[p] # {}
        /\ todo[p] = {r} /\ ok /\ ~failed[p]
    BY <1>4 DEF DiscardEnds, Retry
  <2>2. \A s \in need[p] : Clean(s)'
    BY <1>1, <2>1 DEF Cleared
  <2> QED BY <2>1, <2>2 DEF Built, Cleared, ContainerPc, BothPc
<1>5. CASE DiscardEnds(p, r, ok) /\ ~Retry(p, ok)
  <2>1. pc'[p] = "idle" /\ attempt'[p] = 1
    BY <1>5 DEF DiscardEnds, End
  <2> QED BY <2>1 DEF Built, Cleared, ContainerPc, BothPc
<1>6. CASE PruneAborts(p)
  <2>1. pc'[p] = "idle" /\ UNCHANGED <<need, attempt>> /\ need[p] = {}
    BY <1>6 DEF PruneAborts
  <2> QED BY <1>1, <2>1 DEF Built, Cleared, ContainerPc, BothPc
<1> QED BY <1>2, <1>3, <1>4, <1>5, <1>6 DEF AfterRemoval, DiscardEnds

(* Removals keep Stored: what is removed is clean, and nothing else is     *)
(* touched.                                                                *)
LEMMA StoredRemovals ==
  ASSUME Typed, Locked, Stored, NEW p \in Procs,
         Remove(p) \/ RemoveDirEnds(p) \/ RemoveFails(p) \/ Forget(p) \/ ForgetFails(p)
  PROVE  Stored'
<1>0. OthersStay(p) /\ OthersKeep(p) /\ pc[p] \in BothPc /\ Built(p) /\ Cleared(p)
  BY StepStays, StepKeeps
  DEF Step, Remove, RemoveDirEnds, RemoveFails, Forget, ForgetFails, BothPc, Stored
<1>1. CASE Remove(p)
  <2>1. PICK r \in Doomed(p) :
          \/ /\ r \in Volumes /\ ~Mounted(r) /\ pc' = [pc EXCEPT ![p] = "forget"]
             /\ content' = [content EXCEPT ![r] = "absent"]
             /\ marked' = [marked EXCEPT ![r] = FALSE]
          \/ /\ r \in Dirs /\ pc' = [pc EXCEPT ![p] = "removing"]
             /\ content' = [content EXCEPT ![r] = IF @ = "whole" THEN "partial" ELSE @]
             /\ \E m \in {FALSE, marked[r]} : marked' = [marked EXCEPT ![r] = m]
    BY <1>1 DEF Remove, Goto
  <2>2. UNCHANGED <<need, todo, at, attempt, failed, orphans>>
    BY <1>1 DEF Remove, loopVars
  <2>3. /\ r \in Resources /\ lock[r] = p /\ \A s \in Doomed(p) : s = r
        /\ need[p] # {} => r \in need[p] /\ r \in todo[p]
    BY <1>0, DoomedIsOne
  <2>4. Doomed(p)' = Doomed(p)
    BY <2>2 DEF Doomed, NextOf
  <2>5. \A s \in Resources : s # r => content'[s] = content[s] /\ Clean(s)' = Clean(s)
    BY <2>1, <2>2 DEF Clean, Typed, TypeOK
  <2>6. pc'[p] = "forget" => r \in Volumes /\ content'[r] = "absent" /\ Clean(r)'
    BY <2>1, <2>2, <2>3 DEF Clean, Mounted, Typed, TypeOK
  <2>7. pc'[p] = "removing" => r \in Dirs
    BY <2>1 DEF Typed, TypeOK
  <2>8. pc'[p] \in {"removing", "forget"}
    BY <2>1 DEF Typed, TypeOK
  <2>a. need[p] \in SUBSET Resources
    BY DEF Typed, TypeOK
  <2>9. Built(p)'
    BY <2>3, <2>4, <2>6, <2>7, <2>8 DEF Built, ContainerPc
  <2>10. Cleared(p)'
    <3>1. need'[p] = {} \/ pc'[p] = "lock" => attempt'[p] = 1
      BY <1>0, <2>2, <2>8 DEF Cleared
    <3>2. ~failed'[p] => \A s \in need'[p] \ todo'[p] : Clean(s)'
      BY <1>0, <2>2, <2>3, <2>5, <2>a DEF Cleared
    <3> QED BY <2>8, <3>1, <3>2 DEF Cleared
  <2> QED BY <1>0, <2>2, <2>3, <2>5, <2>9, <2>10, StoredByOne DEF Stored
<1>2. CASE RemoveDirEnds(p)
  <2>1. PICK r \in Doomed(p) :
          /\ content' = [content EXCEPT ![r] = "absent"]
          /\ marked' = [marked EXCEPT ![r] = FALSE]
          /\ orphans' = {Loses(o, r) : o \in orphans}
          /\ AfterRemoval(p, r, TRUE)
    BY <1>2 DEF RemoveDirEnds
  <2>3. r \in Resources /\ lock[r] = p
    BY <1>0, DoomedIsOne
  <2>a. ASSUME NEW o \in orphans
        PROVE  Loses(o, r).need = o.need \ {r} /\ Loses(o, r).todo = o.todo \ {r}
    <3>1. o \in Orphan
      BY DEF Typed, TypeOK
    <3> QED BY <3>1 DEF Loses, Orphan
  <2>4. /\ \A o \in orphans' : o.todo \subseteq o.need /\ r \notin o.need
        /\ \A o \in orphans' : \E x \in orphans : o.need \subseteq x.need
    BY <2>1, <2>a DEF Stored
  <2>5. \A s \in Resources : s # r => content'[s] = content[s] /\ marked'[s] = marked[s]
    BY <2>1 DEF Typed, TypeOK
  <2>6. Clean(r)'
    BY <2>1, <2>3, <2>4 DEF Clean, Typed, TypeOK
  <2>7. \A s \in Resources : Clean(s) => Clean(s)'
    BY <2>4, <2>5, <2>6 DEF Clean
  <2>8. Built(p)' /\ Cleared(p)'
    BY <1>0, <2>1, <2>6, <2>7, StoredAfterRemoval
  <2> QED BY <1>0, <2>3, <2>4, <2>5, <2>7, <2>8, StoredByOne
<1>3. CASE RemoveFails(p) \/ Forget(p) \/ ForgetFails(p)
  <2>1. PICK r \in Doomed(p), ok \in BOOLEAN :
          (AfterRemoval(p, r, ok) \/ PruneAborts(p)) /\ (ok => Forget(p))
    BY <1>3 DEF RemoveFails, Forget, ForgetFails, AfterRemoval
  <2>2. UNCHANGED <<content, marked, orphans>>
    BY <1>3 DEF RemoveFails, Forget, ForgetFails, storeVars
  <2>3. \A s \in Resources : Clean(s)' = Clean(s)
    BY <2>2 DEF Clean
  <2>4. ok => Clean(r)'
    <3>1. ok => pc[p] = "forget"
      BY <2>1 DEF Forget
    <3> QED BY <1>0, <2>1, <2>2, <3>1 DEF Built, Clean
  <2>5. Built(p)' /\ Cleared(p)'
    BY <1>0, <2>1, <2>3, <2>4, StoredAfterRemoval
  <2> QED BY <1>0, <2>2, <2>3, <2>5, StoredByOne DEF Stored
<1> QED BY <1>1, <1>2, <1>3

(* A process that dies leaves its container in what it has locked only.    *)
LEMMA StoredDie ==
  ASSUME Typed, Locked, Stored, NEW p \in Procs, Die(p)
  PROVE  Stored'
<1>1. OthersStay(p) /\ OthersKeep(p)
  BY StepStays, StepKeeps
<1>2. UNCHANGED <<content, marked>> /\ pc' = [pc EXCEPT ![p] = "idle"]
      /\ attempt' = [attempt EXCEPT ![p] = 1]
  BY DEF Die, Goto, storeVars
<1>3. \/ UNCHANGED orphans
      \/ /\ pc[p] \in ContainerPc
         /\ orphans' = orphans \cup
              {[id |-> deaths', need |-> need[p], phase |-> pc[p], todo |-> todo[p]]}
  BY DEF Die
<1>4. pc[p] \in ContainerPc => todo[p] \subseteq need[p] /\ \A r \in need[p] : lock[r] = p
  BY LoopInNeed, NeedIsHeld DEF StepPc, ContainerPc
<1>5. \A o \in orphans' : o.todo \subseteq o.need
  BY <1>3, <1>4 DEF Stored
<1>6. ASSUME NEW r \in Resources, lock[r] # p, Clean(r) PROVE Clean(r)'
  <2>1. \A o \in orphans' : r \notin o.need
    BY <1>3, <1>4, <1>6 DEF Clean
  <2> QED BY <1>2, <1>6, <2>1 DEF Clean
<1>7. Built(p)' /\ Cleared(p)'
  BY <1>2 DEF Built, Cleared, ContainerPc, BothPc, Typed, TypeOK
<1> QED BY <1>1, <1>2, <1>5, <1>6, <1>7, StoredByOne

(* A container without its process only works in what it has mounted.      *)
LEMMA StoredOrphan ==
  ASSUME Typed, Stored, OrphanStep
  PROVE  Stored'
<1>1. UNCHANGED <<pc, need, todo, at, attempt, failed>>
  BY DEF OrphanStep, loopVars
<1>2. PICK o \in orphans : OrphanWorks(o) \/ (orphans' = orphans \ {o} /\ UNCHANGED <<content, marked>>)
  BY DEF OrphanStep
<1>3. o \in Orphan /\ o.todo \subseteq o.need
  BY DEF Typed, TypeOK, Stored
<1>a. \A x : /\ [o EXCEPT !.phase = "mark", !.todo = x].need = o.need
            /\ [o EXCEPT !.phase = "mark", !.todo = x].todo = x
            /\ [o EXCEPT !.todo = x].need = o.need
            /\ [o EXCEPT !.todo = x].todo = x
  BY <1>3 DEF Orphan
<1>b. \A x \in orphans' : x \in orphans \/ (x.need = o.need /\ x.todo \subseteq o.need)
  <2>1. CASE orphans' = orphans \ {o}
    BY <2>1
  <2>2. CASE OrphanWorks(o)
    <3>1. \/ orphans' = (orphans \ {o}) \cup {[o EXCEPT !.phase = "mark", !.todo = o.need]}
          \/ \E r : orphans' = (orphans \ {o}) \cup {[o EXCEPT !.todo = o.todo \ {r}]}
      BY <2>2 DEF OrphanWorks
    <3>2. CASE orphans' = (orphans \ {o}) \cup {[o EXCEPT !.phase = "mark", !.todo = o.need]}
      BY <1>a, <3>2
    <3>3. ASSUME NEW r, orphans' = (orphans \ {o}) \cup {[o EXCEPT !.todo = o.todo \ {r}]}
          PROVE  \A x \in orphans' : x \in orphans \/ (x.need = o.need /\ x.todo \subseteq o.need)
      BY <1>3, <1>a, <3>3
    <3> QED BY <3>1, <3>2, <3>3
  <2> QED BY <1>2, <2>1, <2>2
<1>4. \A x \in orphans' : /\ x.todo \subseteq x.need
                          /\ \E y \in orphans : x.need = y.need
  BY <1>b DEF Stored
<1>5. \A r \in Resources :
        /\ content'[r] = content[r] \/ (r \in o.need /\ content'[r] = "whole")
        /\ marked'[r] = marked[r] \/ r \in o.need
  BY <1>2, <1>3 DEF OrphanWorks, Filled, Typed, TypeOK
<1>6. \A r \in Resources :
        /\ Clean(r) => Clean(r)' /\ content'[r] = content[r]
        /\ content[r] # "absent" => content'[r] # "absent"
  BY <1>4, <1>5 DEF Clean
<1> SUFFICES ASSUME NEW p \in Procs PROVE Built(p)' /\ Cleared(p)'
  BY <1>4 DEF Stored
<1>7. /\ Built(p) /\ Cleared(p) /\ need[p] \in SUBSET Resources
      /\ pc[p] = "record" => NextOf(p) \subseteq Resources
      /\ NextOf(p)' = NextOf(p) /\ Doomed(p)' = Doomed(p)
  BY <1>1 DEF Stored, Typed, TypeOK, NextOf, Doomed, Shape, ShapeOf, Resources
<1>8. \A r \in Volumes : r \in Resources
  BY DEF Resources
<1>c. ASSUME NEW r \in Resources, Clean(r) PROVE Clean(r)' /\ content'[r] = content[r]
  BY <1>6, <1>c
<1>d. ASSUME NEW r \in need[p], Clean(r) PROVE Clean(r)'
  BY <1>7, <1>c, <1>d
<1>9. Built(p)'
  <2>1. \A r \in Doomed(p) : pc[p] = "forget" =>
          r \in Volumes /\ content'[r] = "absent" /\ Clean(r)'
    BY <1>7, <1>8, <1>c DEF Built
  <2>2. \A r \in need[p] : content[r] # "absent" => content'[r] # "absent"
    BY <1>6, <1>7
  <2>3. pc[p] = "record" => \A r \in NextOf(p) : content[r] # "absent" => content'[r] # "absent"
    BY <1>6, <1>7
  <2> QED BY <1>1, <1>7, <2>1, <2>2, <2>3 DEF Built
<1>10. Cleared(p)'
  BY <1>1, <1>7, <1>d DEF Cleared
<1> QED BY <1>9, <1>10

(* Every step keeps Stored.                                                *)
LEMMA StoredStep ==
  ASSUME Typed, Locked, Stored, [Next]_vars
  PROVE  Stored'
<1>1. ASSUME NEW p \in Procs, StartStep(p) \/ StartPrune(p) \/ Step(p) \/ Die(p)
      PROVE  Stored'
  BY <1>1, StoredQuiet, StoredEnsure, StoredPrepare, StoredRemovals, StoredDie DEF Step
<1>2. CASE UNCHANGED vars
  BY <1>2 DEF vars, storeVars, loopVars, Stored, Built, Cleared, Clean, Doomed, NextOf
<1> QED BY <1>1, <1>2, StoredOrphan DEF Next, Rest

(* Types, locks and stores are invariant together.                         *)
LEMMA StoredInvariant == Spec => [](Typed /\ Locked /\ Stored)
<1>1. Init => Locked /\ Stored
  BY DependencyAssumption DEF Init, Locked, Holds, Stored, Built, Cleared, StepPc, ContainerPc, BothPc
<1>2. Typed /\ Locked /\ Stored /\ [Next]_vars => Locked' /\ Stored'
  BY LockedStep, StoredStep
<1> QED BY <1>1, <1>2, TypedInvariant, PTL DEF Spec

(* "one clean retry": the second attempt starts over empty resources, also *)
(* when containers of killed processes are still at work.                  *)
THEOREM RetriesAreClean == Spec => RetryClean
<1>1. ASSUME Typed /\ Locked /\ Stored, NEW p \in Procs, StartPrepare(p), attempt[p] = 2,
             NEW r \in need[p]
      PROVE  content[r] = "empty" /\ ~marked[r]
  <2>1. pc[p] = "start" /\ Built(p) /\ Cleared(p)
    BY <1>1 DEF StartPrepare, Stored
  <2>2. Clean(r) /\ content[r] # "absent"
    BY <1>1, <2>1 DEF Built, Cleared
  <2> QED BY <2>2 DEF Clean
<1>2. Typed /\ Locked /\ Stored =>
        [\A p \in Procs : StartPrepare(p) /\ attempt[p] = 2 =>
           \A r \in need[p] : content[r] = "empty" /\ ~marked[r]]_vars
  BY <1>1
<1> QED BY <1>2, StoredInvariant, PTL DEF RetryClean

(* A failed preparation ends its step with every resource clean, if none   *)
(* of the removals was refused.                                            *)
LEMMA FailureIsClean ==
  ASSUME Typed, Locked, Stored, NEW p \in Procs,
         StartStep(p) \/ StartPrune(p) \/ Step(p) \/ Die(p),
         outcome'[p] = "prepare", outcome[p] # "prepare", ~failed'[p], NEW r \in need[p]
  PROVE  content'[r] \in {"absent", "empty"} /\ ~marked'[r]
<1> USE DEF Typed, TypeOK, loopVars
<1>0. Built(p) /\ Cleared(p) /\ need[p] \in SUBSET Resources
  BY DEF Stored
<1>1. CASE EnsureFails(p) \/ RecordFails(p)
  <2>1. pc[p] \in {"ensure", "record"} /\ attempt[p] = 2 /\ UNCHANGED <<content, marked>>
    BY <1>1 DEF EnsureFails, RecordFails, End, storeVars
  <2> QED BY <1>0, <2>1 DEF Cleared, Clean
<1>2. CASE RemoveDirEnds(p) \/ RemoveFails(p) \/ Forget(p) \/ ForgetFails(p)
  <2>0. pc[p] \in BothPc
    BY <1>2 DEF RemoveDirEnds, RemoveFails, Forget, ForgetFails, BothPc
  <2>a. ~PruneAborts(p)
    BY DEF PruneAborts
  <2>1. PICK s \in Doomed(p), ok \in BOOLEAN :
          /\ AfterRemoval(p, s, ok)
          /\ \/ /\ RemoveDirEnds(p) /\ content' = [content EXCEPT ![s] = "absent"]
                /\ marked' = [marked EXCEPT ![s] = FALSE]
             \/ UNCHANGED <<content, marked>> /\ (ok => Forget(p))
    BY <1>2, <2>a DEF RemoveDirEnds, RemoveFails, Forget, ForgetFails, AfterRemoval, storeVars
  <2>2. need[p] # {} /\ todo[p] = {s} /\ failed'[p] = (failed[p] \/ ~ok)
    BY <2>1 DEF AfterRemoval, PruneGoesOn, DiscardGoesOn, DiscardEnds
  <2>3. ~failed[p] /\ ok
    BY <2>2
  <2>4. r = s \/ Clean(r)
    BY <1>0, <2>0, <2>2, <2>3 DEF Cleared
  <2>5. s \in Resources
    BY <2>0, DoomedIsOne
  <2>6. CASE RemoveDirEnds(p) /\ content' = [content EXCEPT ![s] = "absent"]
             /\ marked' = [marked EXCEPT ![s] = FALSE]
    BY <1>0, <2>4, <2>5, <2>6 DEF Clean
  <2>7. CASE UNCHANGED <<content, marked>> /\ Forget(p)
    <3>1. Clean(s)
      BY <1>0, <2>1, <2>7 DEF Forget, Built
    <3> QED BY <2>4, <2>7, <3>1 DEF Clean
  <2> QED BY <2>1, <2>3, <2>6, <2>7
<1>3. CASE FinishTest(p)
  BY <1>3 DEF FinishTest, End
<1>4. CASE StartStep(p) \/ StartPrune(p) \/ Die(p) \/ Lock(p) \/ Ensure(p) \/ Record(p)
           \/ StartPrepare(p) \/ FinishPrepare(p) \/ Mark(p) \/ PrepareFails(p)
           \/ StartTest(p) \/ Remove(p) \/ List(p) \/ Pick(p) \/ Await(p)
  <2>1. outcome' = outcome \/ outcome'[p] \in {"none", "error"}
    BY <1>4 DEF StartStep, StartPrune, Die, Lock, Ensure, Record, StartPrepare, FinishPrepare,
                Mark, PrepareFails, StartTest, Remove, List, Pick, Await
  <2> QED BY <2>1
<1> QED BY <1>1, <1>2, <1>3, <1>4 DEF Step

(* "leaves the scoped cache clean": the same of every step of the system.  *)
THEOREM FailuresAreClean == Spec => FailureLeavesClean
<1>1. ASSUME Typed /\ Locked /\ Stored, [Next]_vars, NEW p \in Procs,
             outcome'[p] = "prepare", outcome[p] # "prepare", ~failed'[p], NEW r \in need[p]
      PROVE  content'[r] \in {"absent", "empty"} /\ ~marked'[r]
  <2>1. ASSUME NEW q \in Procs, StartStep(q) \/ StartPrune(q) \/ Step(q) \/ Die(q)
        PROVE  content'[r] \in {"absent", "empty"} /\ ~marked'[r]
    <3>1. p = q
      BY <1>1, <2>1, StepKeeps DEF OthersKeep
    <3> QED BY <1>1, <2>1, <3>1, FailureIsClean
  <2>2. CASE OrphanStep \/ UNCHANGED vars
    <3>1. UNCHANGED outcome
      BY <2>2 DEF OrphanStep, vars, loopVars
    <3> QED BY <1>1, <3>1
  <2> QED BY <1>1, <2>1, <2>2 DEF Next, Rest
<1>2. Typed /\ Locked /\ Stored /\ [Next]_vars =>
        [\A p \in Procs : outcome'[p] = "prepare" /\ outcome[p] # "prepare" /\ ~failed'[p] =>
           \A r \in need[p] : content'[r] \in {"absent", "empty"} /\ ~marked'[r]]_vars
  BY <1>1
<1> QED BY <1>2, StoredInvariant, PTL DEF FailureLeavesClean, Spec

-----------------------------------------------------------------------------
(* The registry is right about every volume but the one a process has made *)
(* and not recorded, or removed and not forgotten, under its lock.         *)
Exact(v) == v \in registry <=> content[v] # "absent"
Busy(p, v) ==
  \/ pc[p] = "record" /\ v \in NextOf(p)
  \/ pc[p] = "forget" /\ v \in Doomed(p)
Registered ==
  deaths = 0 =>
    /\ orphans = {}
    /\ \A v \in Volumes \ unwritten : Exact(v) \/ \E p \in Procs : Busy(p, v)

(* A process is busy with a volume under its lock.                         *)
LEMMA BusyHolds ==
  ASSUME Typed, Locked, NEW p \in Procs, NEW v, Busy(p, v)
  PROVE  lock[v] = p
BY NextIsHeld, DoomedIsOne DEF Busy, StepPc, BothPc

(* A step of p keeps Registered when it keeps it for what p has locked.    *)
LEMMA RegisteredByOne ==
  ASSUME Typed, Locked, Registered, NEW p \in Procs, OthersStay(p),
         deaths' = deaths, deaths = 0 => orphans' = {},
         \A v \in Volumes : lock[v] # p =>
           /\ content'[v] = content[v] /\ (v \in registry' <=> v \in registry)
           /\ v \in unwritten => v \in unwritten',
         \A v \in Volumes : lock[v] = p /\ (v \in unwritten \/ Exact(v) \/ Busy(p, v)) =>
           v \in unwritten' \/ Exact(v)' \/ Busy(p, v)'
  PROVE  Registered'
<1> SUFFICES ASSUME deaths = 0, NEW v \in Volumes, v \notin unwritten'
             PROVE  Exact(v)' \/ \E q \in Procs : Busy(q, v)'
  BY DEF Registered
<1>1. v \in unwritten \/ Exact(v) \/ \E q \in Procs : Busy(q, v)
  BY DEF Registered
<1>2. CASE lock[v] = p
  <2>1. v \in unwritten \/ Exact(v) \/ Busy(p, v)
    BY <1>1, <1>2, BusyHolds
  <2> QED BY <1>2, <2>1
<1>3. CASE lock[v] # p /\ (Exact(v) \/ v \in unwritten)
  BY <1>3 DEF Exact
<1>4. ASSUME lock[v] # p, NEW q \in Procs, Busy(q, v) PROVE Busy(q, v)'
  <2>1. q # p
    BY <1>4, BusyHolds
  <2>2. NextOf(q)' = NextOf(q) /\ Doomed(q)' = Doomed(q) /\ pc'[q] = pc[q]
    BY <2>1 DEF OthersStay, NextOf, Doomed
  <2> QED BY <1>4, <2>2 DEF Busy
<1> QED BY <1>1, <1>2, <1>3, <1>4

(* Steps of a process that is busy with nothing and leaves all as it is.   *)
LEMMA RegisteredQuiet ==
  ASSUME Typed, Locked, Registered, NEW p \in Procs,
         \/ StartStep(p) \/ StartPrune(p) \/ List(p) \/ Pick(p) \/ Await(p) \/ Lock(p)
         \/ EnsureFails(p) \/ FinishTest(p) \/ PrepareFails(p) \/ StartTest(p) \/ Mark(p)
         \/ RemoveFails(p)
  PROVE  Registered'
<1>1. UNCHANGED <<content, registry, unwritten, orphans, deaths>>
  BY DEF StartStep, StartPrune, List, Pick, Await, Lock, EnsureFails, FinishTest,
         PrepareFails, StartTest, Mark, RemoveFails, storeVars, countVars
<1>2. pc[p] \notin {"record", "forget"}
  BY DEF StartStep, StartPrune, List, Pick, Await, Lock, EnsureFails, FinishTest,
         PrepareFails, StartTest, Mark, RemoveFails
<1>3. OthersStay(p)
  BY StepStays DEF Step
<1>4. \A v \in Volumes : ~Busy(p, v) /\ Exact(v)' = Exact(v)
  BY <1>1, <1>2 DEF Busy, Exact
<1> QED BY <1>1, <1>3, <1>4, RegisteredByOne DEF Registered

(* Steps that make volumes or fill them.                                   *)
LEMMA RegisteredMade ==
  ASSUME Typed, Locked, Stored, Registered, NEW p \in Procs,
         Ensure(p) \/ Record(p) \/ StartPrepare(p) \/ FinishPrepare(p)
  PROVE  Registered'
<1> USE DEF Typed, TypeOK, Goto
<1>0. Built(p) /\ OthersStay(p) /\ UNCHANGED <<orphans, deaths>>
  BY StepStays DEF Stored, Step, Ensure, Record, StartPrepare, FinishPrepare, countVars
<1>1. CASE Ensure(p)
  <2>1. PICK r \in NextOf(p) :
          /\ content' = [content EXCEPT ![r] = IF @ = "absent" THEN "empty" ELSE @]
          /\ \/ r \in Dirs
             \/ r \in Volumes /\ pc' = [pc EXCEPT ![p] = "record"] /\ UNCHANGED todo
    BY <1>1 DEF Ensure
  <2>2. pc[p] = "ensure" /\ UNCHANGED <<registry, unwritten>>
    BY <1>1 DEF Ensure
  <2>3. r \in Resources /\ lock[r] = p
    BY <2>2, NextIsHeld DEF StepPc
  <2>4. \A v \in Volumes : v # r => content'[v] = content[v]
    BY <2>1 DEF Resources
  <2>5. r \in Volumes => Busy(p, r)'
    <3>1. r \in Volumes => NextOf(p)' = NextOf(p) /\ pc'[p] = "record"
      BY <2>1, DependencyAssumption DEF NextOf
    <3> QED BY <2>1, <3>1 DEF Busy
  <2>6. \A v \in Volumes : ~Busy(p, v)
    BY <2>2 DEF Busy
  <2> QED BY <1>0, <2>2, <2>3, <2>4, <2>5, <2>6, RegisteredByOne DEF Exact, Registered
<1>2. CASE Record(p)
  <2>1. PICK r \in NextOf(p) : registry' = registry \cup {r} /\ unwritten' = unwritten \ {r}
    BY <1>2 DEF Record
  <2>2. pc[p] = "record" /\ UNCHANGED content
    BY <1>2 DEF Record
  <2>3. r \in Resources /\ lock[r] = p /\ \A s \in NextOf(p) : s = r
    BY <2>2, NextIsHeld DEF StepPc
  <2>4. content[r] # "absent"
    BY <1>0, <2>1, <2>2 DEF Built
  <2>5. \A v \in Volumes : Busy(p, v) => v = r
    BY <2>2, <2>3 DEF Busy
  <2> QED BY <1>0, <2>1, <2>2, <2>3, <2>4, <2>5, RegisteredByOne DEF Exact, Registered
<1>3. CASE StartPrepare(p) \/ FinishPrepare(p)
  <2>1. pc[p] \in {"start", "prepare"} /\ UNCHANGED <<registry, unwritten>>
    BY <1>3 DEF StartPrepare, FinishPrepare
  <2>2. \A r \in need[p] : lock[r] = p /\ content[r] # "absent"
    BY <1>0, <2>1, NeedIsHeld DEF Built, StepPc, ContainerPc
  <2>3. \A v \in Volumes :
          content'[v] = content[v] \/ (v \in need[p] /\ content'[v] # "absent")
    BY <1>3 DEF StartPrepare, FinishPrepare, Filled, Resources
  <2>4. \A v \in Volumes : ~Busy(p, v)
    BY <2>1 DEF Busy
  <2> QED BY <1>0, <2>1, <2>2, <2>3, <2>4, RegisteredByOne DEF Exact, Registered
<1> QED BY <1>1, <1>2, <1>3

(* Steps that remove volumes or directories.                               *)
LEMMA RegisteredRemoved ==
  ASSUME Typed, Locked, Stored, Registered, NEW p \in Procs,
         Remove(p) \/ RemoveDirEnds(p) \/ Forget(p)
  PROVE  Registered'
<1> USE DEF Typed, TypeOK, Goto
<1>a. Built(p) /\ OthersStay(p) /\ UNCHANGED deaths /\ pc[p] \in BothPc
  BY StepStays DEF Stored, Step, Remove, RemoveDirEnds, Forget, countVars, BothPc
<1>b. orphans = {} => orphans' = {}
  <2>1. CASE RemoveDirEnds(p)
    <3>1. PICK r \in Doomed(p) : orphans' = {Loses(o, r) : o \in orphans}
      BY <2>1 DEF RemoveDirEnds
    <3> QED BY <3>1
  <2>2. CASE Remove(p) \/ Forget(p)
    BY <2>2 DEF Remove, Forget
  <2> QED BY <2>1, <2>2
<1>0. /\ Built(p) /\ OthersStay(p) /\ UNCHANGED deaths /\ pc[p] \in BothPc
      /\ deaths = 0 => orphans' = {}
  BY <1>a, <1>b DEF Registered
<1>1. CASE Remove(p)
  <2>1. PICK r \in Doomed(p) :
          /\ \A s \in Resources : s # r => content'[s] = content[s]
          /\ (r \in Volumes /\ pc'[p] = "forget") \/ r \in Dirs
    BY <1>1 DEF Remove
  <2>2. pc[p] = "remove" /\ UNCHANGED <<registry, unwritten, need, todo, at>>
    BY <1>1 DEF Remove, loopVars
  <2>3. r \in Resources /\ lock[r] = p
    BY <1>0, DoomedIsOne
  <2>4. Doomed(p)' = Doomed(p)
    BY <2>2 DEF Doomed, NextOf
  <2>5. r \in Volumes => Busy(p, r)'
    BY <2>1, <2>4, DependencyAssumption DEF Busy
  <2>6. \A v \in Volumes : ~Busy(p, v)
    BY <2>2 DEF Busy
  <2> QED BY <1>0, <2>1, <2>2, <2>3, <2>5, <2>6, RegisteredByOne DEF Exact, Resources
<1>2. CASE RemoveDirEnds(p)
  <2>1. PICK r \in Doomed(p) : content' = [content EXCEPT ![r] = "absent"]
    BY <1>2 DEF RemoveDirEnds
  <2>2. pc[p] = "removing" /\ UNCHANGED <<registry, unwritten>>
    BY <1>2 DEF RemoveDirEnds
  <2>3. r \notin Volumes
    BY <1>0, <2>1, <2>2, DependencyAssumption DEF Built
  <2>4. \A v \in Volumes : content'[v] = content[v] /\ ~Busy(p, v)
    BY <2>1, <2>2, <2>3 DEF Busy, Resources
  <2> QED BY <1>0, <2>2, <2>4, RegisteredByOne DEF Exact
<1>3. CASE Forget(p)
  <2>1. PICK r \in Doomed(p) : registry' = registry \ {r} /\ unwritten' = unwritten \ {r}
    BY <1>3 DEF Forget
  <2>2. pc[p] = "forget" /\ UNCHANGED content
    BY <1>3 DEF Forget
  <2>3. lock[r] = p /\ content[r] = "absent" /\ \A s \in Doomed(p) : s = r
    BY <1>0, <2>1, <2>2, DoomedIsOne DEF Built
  <2>4. \A v \in Volumes : Busy(p, v) => v = r
    BY <2>2, <2>3 DEF Busy
  <2> QED BY <1>0, <2>1, <2>2, <2>3, <2>4, RegisteredByOne DEF Exact
<1> QED BY <1>1, <1>2, <1>3

(* A write of the registry that fails is about the volume of its process.  *)
LEMMA RegisteredFails ==
  ASSUME Typed, Locked, Registered, NEW p \in Procs, RecordFails(p) \/ ForgetFails(p)
  PROVE  Registered'
<1>1. /\ OthersStay(p) /\ UNCHANGED <<content, registry, orphans, deaths>>
      /\ pc[p] = "record" \/ pc[p] = "forget"
  BY StepStays DEF Step, RecordFails, ForgetFails, countVars
<1>2. PICK r : /\ unwritten' = unwritten \cup {r}
               /\ \A v : Busy(p, v) => v = r
  <2>1. CASE RecordFails(p)
    <3>1. PICK r \in NextOf(p) : unwritten' = unwritten \cup {r}
      BY <2>1 DEF RecordFails
    <3>2. pc[p] = "record"
      BY <2>1 DEF RecordFails
    <3> QED BY <3>1, <3>2, NextIsOne DEF Busy
  <2>2. CASE ForgetFails(p)
    <3>1. PICK r \in Doomed(p) : unwritten' = unwritten \cup {r}
      BY <2>2 DEF ForgetFails
    <3>2. pc[p] = "forget"
      BY <2>2 DEF ForgetFails
    <3> QED BY <3>1, <3>2, DoomedIsOne DEF Busy, BothPc
  <2> QED BY <2>1, <2>2
<1> QED BY <1>1, <1>2, RegisteredByOne DEF Exact, Registered

(* While no process dies, the registry names the volumes that exist,       *)
(* neither more nor fewer, wherever nobody holds the volume's lock and the *)
(* last write about the volume did not fail.                               *)
THEOREM RegistryIsExact == Spec => []RegistryExact
<1>1. Init => Registered
  BY DEF Init, Registered, Exact, Resources
<1>2. Typed /\ Locked /\ Stored /\ Registered /\ [Next]_vars => Registered'
  <2> SUFFICES ASSUME Typed, Locked, Stored, Registered, [Next]_vars PROVE Registered'
    OBVIOUS
  <2>1. ASSUME NEW p \in Procs, Die(p) PROVE Registered'
    BY <2>1 DEF Die, Registered, Typed, TypeOK
  <2>2. CASE OrphanStep
    BY <2>2 DEF OrphanStep, Registered, countVars
  <2>3. CASE UNCHANGED vars
    BY <2>3 DEF vars, storeVars, loopVars, countVars, Registered, Exact, Busy, Doomed, NextOf
  <2> QED BY <2>1, <2>2, <2>3, RegisteredQuiet, RegisteredMade, RegisteredRemoved,
          RegisteredFails DEF Next, Rest, Step
<1>3. Typed /\ Locked /\ Registered => RegistryExact
  BY BusyHolds, DependencyAssumption DEF Registered, RegistryExact, Exact
<1> QED BY <1>1, <1>2, <1>3, StoredInvariant, PTL DEF Spec
=============================================================================
