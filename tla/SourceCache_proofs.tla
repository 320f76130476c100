------------------------ MODULE SourceCache_proofs ------------------------
(***************************************************************************)
(* Proofs about SourceCache, for any checks, prunes and bounds.            *)
(***************************************************************************)
EXTENDS SourceCache, TLAPS

(* What a control point goes with.                                         *)
Shape ==
  /\ \A c \in Checks : pc[c] \in {"start", "done"} \cup CachePc
  /\ \A x \in Prunes : pc[x] \in {"done"} \cup PrunePc
  /\ \A c \in Checks : pc[c] = "discarding" => at[c] = Cache
  /\ \A x \in Prunes :
       pc[x] \in {"await", "open", "removing"} => at[x] \in Places
  /\ \A c \in Checks : open[c] \in {None, Cache}

Typed == TypeOK /\ Shape

(* A check holds the lock of the cache from its first look to its end, a   *)
(* prune the lock of the name it removes.                                  *)
Held ==
  /\ \A c \in Checks : pc[c] \in CachePc => lock[Cache] = c
  /\ \A x \in Prunes : pc[x] \in {"open", "removing"} => lock[at[x]] = x

(* What is open is there, so that nothing comes back from the dead, and a  *)
(* check whose discard has nothing open is done with the cache.            *)
OpenThere ==
  /\ \A x \in Actors : open[x] # None => tree[open[x]] # "absent"
  /\ \A c \in Checks :
       pc[c] = "discarding" /\ open[c] = None => tree[Cache] = "absent"

(* A hit is a whole copy, and only the last steps of a check are hits.     *)
Hits ==
  \A c \in Checks :
    /\ pc[c] = "touch" \/ hit[c] => mine[c] = "whole"
    /\ hit[c] => pc[c] \in {"plan", "complete", "release", "done"}

(* A discard that leaves something, and every error, has its excuse.       *)
Excuses ==
  \A c \in Checks :
    /\ pc[c] = "discarded" /\ tree[Cache] # "absent" => c \in excused
    /\ outcome[c] = "error" => c \in excused

(* A temporary directory belongs to a check that is filling it, was killed *)
(* or could not remove it.                                                 *)
Temporaries ==
  \A c \in Checks :
    tree[c] # "absent" => c \in left \/ pc[c] \in {"fill", "promote", "cleanup"}

Inv == Typed /\ Held /\ OpenThere /\ Hits /\ Excuses /\ Temporaries

(* One lemma per part of the invariant; its steps are those of a check,    *)
(* its failures, the steps of a prune, removals and crashes.               *)
LEMMA TypesKept ==
  ASSUME Typed, Next
  PROVE  TypeOK'
<1>1. ASSUME NEW c \in Checks, LockCache(c) \/ Look(c) \/ Store(c)
     PROVE  TypeOK'
  BY SourceAssumption, <1>1 DEF LockCache, Goto, Look, Store, Typed,
     TypeOK, Shape, Actors, Places, CachePc, PrunePc, worldVars
<1>2. ASSUME NEW c \in Checks, Validate(c) \/ Plan(c)
     PROVE  TypeOK'
  BY SourceAssumption, <1>2 DEF Validate, Goto, Plan, Typed, TypeOK,
     Shape, Actors, Places, CachePc, PrunePc, worldVars
<1>3. ASSUME NEW c \in Checks, Copy(c) \/ Discard(c)
     PROVE  TypeOK'
  BY SourceAssumption, <1>3 DEF Copy, Goto, Discard, Typed, TypeOK, Shape,
     Actors, Places, CachePc, PrunePc, worldVars
<1>4. ASSUME NEW c \in Checks, Fetch(c) PROVE TypeOK'
  BY SourceAssumption, <1>4 DEF Fetch, Goto, Typed, TypeOK, Shape, Actors,
     Places, CachePc, PrunePc, worldVars
<1>5. ASSUME NEW c \in Checks, Discarded(c) PROVE TypeOK'
  BY SourceAssumption, <1>5 DEF Discarded, Goto, Raise, Release, Typed,
     TypeOK, Shape, Actors, Places, CachePc, PrunePc, worldVars
<1>6. ASSUME NEW c \in Checks, Complete(c) PROVE TypeOK'
  BY SourceAssumption, <1>6 DEF Complete, Goto, Raise, Release, Typed,
     TypeOK, Shape, Actors, Places, CachePc, PrunePc, worldVars
<1>7. ASSUME NEW c \in Checks, Touch(c) PROVE TypeOK'
  BY SourceAssumption, <1>7 DEF Touch, Goto, Put, Typed, TypeOK, Shape,
     Actors, Places, CachePc, PrunePc, worldVars
<1>8. ASSUME NEW c \in Checks, Mkdir(c) PROVE TypeOK'
  BY SourceAssumption, <1>8 DEF Mkdir, Goto, Put, Typed, TypeOK, Shape,
     Actors, Places, CachePc, PrunePc, worldVars
<1>9. ASSUME NEW c \in Checks, Fill(c) PROVE TypeOK'
  BY SourceAssumption, <1>9 DEF Fill, Goto, Put, Typed, TypeOK, Shape,
     Actors, Places, CachePc, PrunePc, worldVars
<1>10. ASSUME NEW c \in Checks, Promote(c) PROVE TypeOK'
  BY SourceAssumption, <1>10 DEF Promote, Goto, Typed, TypeOK, Shape,
     Actors, Places, CachePc, PrunePc, worldVars
<1>11. ASSUME NEW c \in Checks, Stored(c) PROVE TypeOK'
  BY SourceAssumption, <1>11 DEF Stored, Goto, Put, Typed, TypeOK, Shape,
     Actors, Places, CachePc, PrunePc, worldVars
<1>12. ASSUME NEW c \in Checks, Cleanup(c) PROVE TypeOK'
  BY SourceAssumption, <1>12 DEF Cleanup, Goto, Put, Typed, TypeOK, Shape,
     Actors, Places, CachePc, PrunePc, worldVars
<1>13. ASSUME NEW c \in Checks, ReleaseCache(c) PROVE TypeOK'
  BY SourceAssumption, <1>13 DEF ReleaseCache, Goto, Release, Typed,
     TypeOK, Shape, Actors, Places, CachePc, PrunePc, worldVars
<1>14. ASSUME NEW c \in Checks, CheckFails(c) PROVE TypeOK'
  BY SourceAssumption, <1>14 DEF CheckFails, Goto, Raise, Fails, Release,
     Typed, TypeOK, Shape, Actors, Places, CachePc, PrunePc, worldVars
<1>15. ASSUME NEW x \in Prunes, List(x) \/ Pick(x) \/ Await(x) \/ Open(x)
     PROVE  TypeOK'
  BY SourceAssumption, <1>15 DEF List, Goto, Pick, Await, Open, Typed,
     TypeOK, Shape, Actors, Places, CachePc, PrunePc, worldVars
<1>16. ASSUME NEW x \in Actors, RemoveEntry(x) PROVE TypeOK'
  BY SourceAssumption, <1>16 DEF RemoveEntry, Put, Typed, TypeOK, Shape,
     Actors, Places, CachePc, PrunePc, worldVars
<1>17. ASSUME NEW x \in Actors, RemoveName(x) PROVE TypeOK'
  BY SourceAssumption, <1>17 DEF RemoveName, Goto, Put, Removed, Release,
     Typed, TypeOK, Shape, Actors, Places, CachePc, PrunePc, worldVars
<1>18. ASSUME NEW x \in Actors, RemoveFails(x) PROVE TypeOK'
  BY SourceAssumption, <1>18 DEF RemoveFails, Goto, Fails, Removed,
     Release, Typed, TypeOK, Shape, Actors, Places, CachePc, PrunePc,
     worldVars
<1>19. ASSUME NEW x \in Actors, Crash(x) PROVE TypeOK'
  BY SourceAssumption, <1>19 DEF Crash, Goto, Release, Typed, TypeOK,
     Shape, Actors, Places, CachePc, PrunePc, worldVars
<1>20. CASE Rest
  BY SourceAssumption, <1>20 DEF Rest, vars, worldVars, Typed, TypeOK,
     Shape, Actors, Places, CachePc, PrunePc, worldVars
<1>21. QED
  BY <1>1, <1>2, <1>3, <1>4, <1>5, <1>6, <1>7, <1>8, <1>9, <1>10, <1>11,
     <1>12, <1>13, <1>14, <1>15, <1>16, <1>17, <1>18, <1>19, <1>20 DEF Next,
     CheckStep, PruneStep

(* Moving on keeps what a control point goes with.                         *)
LEMMA ShapeKept ==
  ASSUME Typed, Next
  PROVE  Shape'
<1>1. ASSUME NEW c \in Checks, LockCache(c) \/ Look(c) \/ Copy(c) \/
           Validate(c) \/ Discard(c) \/ Discarded(c) \/ Fetch(c) \/
           Plan(c) \/ Complete(c)
     PROVE  Shape'
  BY SourceAssumption, <1>1 DEF LockCache, Goto, Look, Copy, Validate,
     Discard, Discarded, Raise, Release, Fetch, Plan, Complete, Typed,
     TypeOK, Shape, Actors, Places, CachePc, PrunePc
<1>2. ASSUME NEW c \in Checks, Touch(c) \/ Store(c) \/ Mkdir(c) \/ Fill(c)
           \/ Promote(c) \/ Stored(c) \/ Cleanup(c) \/ ReleaseCache(c)
     PROVE  Shape'
  BY SourceAssumption, <1>2 DEF Touch, Goto, Put, Store, Mkdir, Fill,
     Promote, Stored, Cleanup, ReleaseCache, Release, Typed, TypeOK,
     Shape, Actors, Places, CachePc, PrunePc
<1>3. ASSUME NEW c \in Checks, CheckFails(c) PROVE Shape'
  BY SourceAssumption, <1>3 DEF CheckFails, Goto, Raise, Fails, Release,
     Typed, TypeOK, Shape, Actors, Places, CachePc, PrunePc
<1>4. ASSUME NEW x \in Prunes, List(x) \/ Pick(x) \/ Await(x) \/ Open(x)
     PROVE  Shape'
  BY SourceAssumption, <1>4 DEF List, Goto, Pick, Await, Open, Typed,
     TypeOK, Shape, Actors, Places, CachePc, PrunePc
<1>5. ASSUME NEW x \in Actors, RemoveEntry(x) PROVE Shape'
  BY SourceAssumption, <1>5 DEF RemoveEntry, Put, Typed, TypeOK, Shape,
     Actors, Places, CachePc, PrunePc
<1>6. ASSUME NEW x \in Actors, RemoveName(x) PROVE Shape'
  BY SourceAssumption, <1>6 DEF RemoveName, Goto, Put, Removed, Release,
     Typed, TypeOK, Shape, Actors, Places, CachePc, PrunePc
<1>7. ASSUME NEW x \in Actors, RemoveFails(x) PROVE Shape'
  BY SourceAssumption, <1>7 DEF RemoveFails, Goto, Fails, Removed,
     Release, Typed, TypeOK, Shape, Actors, Places, CachePc, PrunePc
<1>8. ASSUME NEW x \in Actors, Crash(x) PROVE Shape'
  BY SourceAssumption, <1>8 DEF Crash, Goto, Release, Typed, TypeOK,
     Shape, Actors, Places, CachePc, PrunePc
<1>9. CASE Rest
  BY SourceAssumption, <1>9 DEF Rest, vars, worldVars, Typed, TypeOK, Shape,
     Actors, Places, CachePc, PrunePc
<1>10. QED
  BY <1>1, <1>2, <1>3, <1>4, <1>5, <1>6, <1>7, <1>8, <1>9 DEF Next,
     CheckStep, PruneStep

(* A lock is only taken when it is free, and a step releases only its own. *)
LEMMA HeldKept ==
  ASSUME Typed, Held, Next
  PROVE  Held'
<1>1. ASSUME NEW c \in Checks, LockCache(c) \/ Look(c) \/ Copy(c) \/
           Validate(c) \/ Discard(c) \/ Discarded(c) \/ Fetch(c) \/
           Plan(c) \/ Complete(c)
     PROVE  Held'
  BY SourceAssumption, <1>1 DEF LockCache, Goto, Look, Copy, Validate,
     Discard, Discarded, Raise, Release, Fetch, Plan, Complete, Typed,
     TypeOK, Shape, Actors, Places, CachePc, PrunePc, Held
<1>2. ASSUME NEW c \in Checks, Touch(c) \/ Store(c) \/ Mkdir(c) \/ Fill(c)
           \/ Promote(c) \/ Stored(c) \/ Cleanup(c) \/ ReleaseCache(c)
     PROVE  Held'
  BY SourceAssumption, <1>2 DEF Touch, Goto, Put, Store, Mkdir, Fill,
     Promote, Stored, Cleanup, ReleaseCache, Release, Typed, TypeOK,
     Shape, Actors, Places, CachePc, PrunePc, Held
<1>3. ASSUME NEW c \in Checks, CheckFails(c) PROVE Held'
  BY SourceAssumption, <1>3 DEF CheckFails, Goto, Raise, Fails, Release,
     Typed, TypeOK, Shape, Actors, Places, CachePc, PrunePc, Held
<1>4. ASSUME NEW x \in Prunes, List(x) \/ Pick(x) \/ Await(x) \/ Open(x)
     PROVE  Held'
  BY SourceAssumption, <1>4 DEF List, Goto, Pick, Await, Open, Typed,
     TypeOK, Shape, Actors, Places, CachePc, PrunePc, Held
<1>5. ASSUME NEW x \in Actors, RemoveEntry(x) PROVE Held'
  BY SourceAssumption, <1>5 DEF RemoveEntry, Put, Typed, TypeOK, Shape,
     Actors, Places, CachePc, PrunePc, Held
<1>6. ASSUME NEW x \in Actors, RemoveName(x) PROVE Held'
  BY SourceAssumption, <1>6 DEF RemoveName, Goto, Put, Removed, Release,
     Typed, TypeOK, Shape, Actors, Places, CachePc, PrunePc, Held
<1>7. ASSUME NEW x \in Actors, RemoveFails(x) PROVE Held'
  BY SourceAssumption, <1>7 DEF RemoveFails, Goto, Fails, Removed,
     Release, Typed, TypeOK, Shape, Actors, Places, CachePc, PrunePc, Held
<1>8. ASSUME NEW x \in Actors, Crash(x) PROVE Held'
  BY SourceAssumption, <1>8 DEF Crash, Goto, Release, Typed, TypeOK,
     Shape, Actors, Places, CachePc, PrunePc, Held
<1>9. CASE Rest
  BY SourceAssumption, <1>9 DEF Rest, vars, worldVars, Typed, TypeOK, Shape,
     Actors, Places, CachePc, PrunePc, Held
<1>10. QED
  BY <1>1, <1>2, <1>3, <1>4, <1>5, <1>6, <1>7, <1>8, <1>9 DEF Next,
     CheckStep, PruneStep

(* What makes a directory absent also ends what was open on it.            *)
LEMMA OpenThereKept ==
  ASSUME Typed, Held, OpenThere, Next
  PROVE  OpenThere'
<1>1. ASSUME NEW c \in Checks, LockCache(c) \/ Look(c) \/ Copy(c) \/
           Validate(c) \/ Discard(c) \/ Discarded(c) \/ Fetch(c) \/
           Plan(c) \/ Complete(c)
     PROVE  OpenThere'
  BY SourceAssumption, <1>1 DEF LockCache, Goto, Look, Copy, Validate,
     Discard, Discarded, Raise, Release, Fetch, Plan, Complete, Typed,
     TypeOK, Shape, Actors, Places, CachePc, PrunePc, Held, OpenThere
<1>2. ASSUME NEW c \in Checks, Touch(c) \/ Store(c) \/ Mkdir(c) \/ Fill(c)
           \/ Promote(c) \/ Stored(c) \/ Cleanup(c) \/ ReleaseCache(c)
     PROVE  OpenThere'
  BY SourceAssumption, <1>2 DEF Touch, Goto, Put, Store, Mkdir, Fill,
     Promote, Stored, Cleanup, ReleaseCache, Release, Typed, TypeOK,
     Shape, Actors, Places, CachePc, PrunePc, Held, OpenThere
<1>3. ASSUME NEW c \in Checks, CheckFails(c) PROVE OpenThere'
  BY SourceAssumption, <1>3 DEF CheckFails, Goto, Raise, Fails, Release,
     Typed, TypeOK, Shape, Actors, Places, CachePc, PrunePc, Held,
     OpenThere
<1>4. ASSUME NEW x \in Prunes, List(x) \/ Pick(x) \/ Await(x) \/ Open(x)
     PROVE  OpenThere'
  BY SourceAssumption, <1>4 DEF List, Goto, Pick, Await, Open, Typed,
     TypeOK, Shape, Actors, Places, CachePc, PrunePc, Held, OpenThere
<1>5. ASSUME NEW x \in Actors, RemoveEntry(x) PROVE OpenThere'
  BY SourceAssumption, <1>5 DEF RemoveEntry, Put, Typed, TypeOK, Shape,
     Actors, Places, CachePc, PrunePc, Held, OpenThere
<1>6. ASSUME NEW x \in Actors, RemoveName(x) PROVE OpenThere'
  BY SourceAssumption, <1>6 DEF RemoveName, Goto, Put, Removed, Release,
     Typed, TypeOK, Shape, Actors, Places, CachePc, PrunePc, Held,
     OpenThere
<1>7. ASSUME NEW x \in Actors, RemoveFails(x) PROVE OpenThere'
  BY SourceAssumption, <1>7 DEF RemoveFails, Goto, Fails, Removed,
     Release, Typed, TypeOK, Shape, Actors, Places, CachePc, PrunePc,
     Held, OpenThere
<1>8. ASSUME NEW x \in Actors, Crash(x) PROVE OpenThere'
  BY SourceAssumption, <1>8 DEF Crash, Goto, Release, Typed, TypeOK,
     Shape, Actors, Places, CachePc, PrunePc, Held, OpenThere
<1>9. CASE Rest
  BY SourceAssumption, <1>9 DEF Rest, vars, worldVars, Typed, TypeOK, Shape,
     Actors, Places, CachePc, PrunePc, Held, OpenThere
<1>10. QED
  BY <1>1, <1>2, <1>3, <1>4, <1>5, <1>6, <1>7, <1>8, <1>9 DEF Next,
     CheckStep, PruneStep

(* A hit is decided after the copy was validated, and ends in release.     *)
LEMMA HitsKept ==
  ASSUME Typed, Hits, Next
  PROVE  Hits'
<1>1. ASSUME NEW c \in Checks, LockCache(c) \/ Look(c) \/ Copy(c) \/
           Validate(c) \/ Discard(c) \/ Discarded(c) \/ Fetch(c) \/
           Plan(c) \/ Complete(c)
     PROVE  Hits'
  BY SourceAssumption, <1>1 DEF LockCache, Goto, Look, Copy, Validate,
     Discard, Discarded, Raise, Release, Fetch, Plan, Complete, Typed,
     TypeOK, Shape, Actors, Places, CachePc, PrunePc, Hits
<1>2. ASSUME NEW c \in Checks, Touch(c) \/ Store(c) \/ Mkdir(c) \/ Fill(c)
           \/ Promote(c) \/ Stored(c) \/ Cleanup(c) \/ ReleaseCache(c)
     PROVE  Hits'
  BY SourceAssumption, <1>2 DEF Touch, Goto, Put, Store, Mkdir, Fill,
     Promote, Stored, Cleanup, ReleaseCache, Release, Typed, TypeOK,
     Shape, Actors, Places, CachePc, PrunePc, Hits
<1>3. ASSUME NEW c \in Checks, CheckFails(c) PROVE Hits'
  BY SourceAssumption, <1>3 DEF CheckFails, Goto, Raise, Fails, Release,
     Typed, TypeOK, Shape, Actors, Places, CachePc, PrunePc, Hits
<1>4. ASSUME NEW x \in Prunes, List(x) \/ Pick(x) \/ Await(x) \/ Open(x)
     PROVE  Hits'
  BY SourceAssumption, <1>4 DEF List, Goto, Pick, Await, Open, Typed,
     TypeOK, Shape, Actors, Places, CachePc, PrunePc, Hits
<1>5. ASSUME NEW x \in Actors, RemoveEntry(x) PROVE Hits'
  BY SourceAssumption, <1>5 DEF RemoveEntry, Put, Typed, TypeOK, Shape,
     Actors, Places, CachePc, PrunePc, Hits
<1>6. ASSUME NEW x \in Actors, RemoveName(x) PROVE Hits'
  BY SourceAssumption, <1>6 DEF RemoveName, Goto, Put, Removed, Release,
     Typed, TypeOK, Shape, Actors, Places, CachePc, PrunePc, Hits
<1>7. ASSUME NEW x \in Actors, RemoveFails(x) PROVE Hits'
  BY SourceAssumption, <1>7 DEF RemoveFails, Goto, Fails, Removed,
     Release, Typed, TypeOK, Shape, Actors, Places, CachePc, PrunePc, Hits
<1>8. ASSUME NEW x \in Actors, Crash(x) PROVE Hits'
  BY SourceAssumption, <1>8 DEF Crash, Goto, Release, Typed, TypeOK,
     Shape, Actors, Places, CachePc, PrunePc, Hits
<1>9. CASE Rest
  BY SourceAssumption, <1>9 DEF Rest, vars, worldVars, Typed, TypeOK, Shape,
     Actors, Places, CachePc, PrunePc, Hits
<1>10. QED
  BY <1>1, <1>2, <1>3, <1>4, <1>5, <1>6, <1>7, <1>8, <1>9 DEF Next,
     CheckStep, PruneStep

(* Nobody fills the cache again while its lock is held for a discard.      *)
LEMMA ExcusesKept ==
  ASSUME Typed, Held, OpenThere, Hits, Excuses, Next
  PROVE  Excuses'
<1>1. ASSUME NEW c \in Checks, LockCache(c) \/ Look(c) \/ Copy(c) \/
           Validate(c) \/ Discard(c) \/ Discarded(c) \/ Fetch(c) \/
           Plan(c) \/ Complete(c)
     PROVE  Excuses'
  BY SourceAssumption, <1>1 DEF LockCache, Goto, Look, Copy, Validate,
     Discard, Discarded, Raise, Release, Fetch, Plan, Complete, Typed,
     TypeOK, Shape, Actors, Places, CachePc, PrunePc, Held, OpenThere,
     Hits, Excuses, worldVars
<1>2. ASSUME NEW c \in Checks, Touch(c) \/ Store(c) \/ Mkdir(c) \/ Fill(c)
           \/ Promote(c) \/ Stored(c) \/ Cleanup(c) \/ ReleaseCache(c)
     PROVE  Excuses'
  BY SourceAssumption, <1>2 DEF Touch, Goto, Put, Store, Mkdir, Fill,
     Promote, Stored, Cleanup, ReleaseCache, Release, Typed, TypeOK,
     Shape, Actors, Places, CachePc, PrunePc, Held, OpenThere, Hits,
     Excuses, worldVars
<1>3. ASSUME NEW c \in Checks, CheckFails(c) PROVE Excuses'
  BY SourceAssumption, <1>3 DEF CheckFails, Goto, Raise, Fails, Release,
     Typed, TypeOK, Shape, Actors, Places, CachePc, PrunePc, Held,
     OpenThere, Hits, Excuses, worldVars
<1>4. ASSUME NEW x \in Prunes, List(x) \/ Pick(x) \/ Await(x) \/ Open(x)
     PROVE  Excuses'
  BY SourceAssumption, <1>4 DEF List, Goto, Pick, Await, Open, Typed,
     TypeOK, Shape, Actors, Places, CachePc, PrunePc, Held, OpenThere,
     Hits, Excuses, worldVars
<1>5. ASSUME NEW x \in Actors, RemoveEntry(x) PROVE Excuses'
  BY SourceAssumption, <1>5 DEF RemoveEntry, Put, Typed, TypeOK, Shape,
     Actors, Places, CachePc, PrunePc, Held, OpenThere, Hits, Excuses,
     worldVars
<1>6. ASSUME NEW x \in Actors, RemoveName(x) PROVE Excuses'
  BY SourceAssumption, <1>6 DEF RemoveName, Goto, Put, Removed, Release,
     Typed, TypeOK, Shape, Actors, Places, CachePc, PrunePc, Held,
     OpenThere, Hits, Excuses, worldVars
<1>7. ASSUME NEW x \in Actors, RemoveFails(x) PROVE Excuses'
  BY SourceAssumption, <1>7 DEF RemoveFails, Goto, Fails, Removed,
     Release, Typed, TypeOK, Shape, Actors, Places, CachePc, PrunePc,
     Held, OpenThere, Hits, Excuses, worldVars
<1>8. ASSUME NEW x \in Actors, Crash(x) PROVE Excuses'
  BY SourceAssumption, <1>8 DEF Crash, Goto, Release, Typed, TypeOK,
     Shape, Actors, Places, CachePc, PrunePc, Held, OpenThere, Hits,
     Excuses, worldVars
<1>9. CASE Rest
  BY SourceAssumption, <1>9 DEF Rest, vars, worldVars, Typed, TypeOK, Shape,
     Actors, Places, CachePc, PrunePc, Held, OpenThere, Hits, Excuses,
     worldVars
<1>10. QED
  BY <1>1, <1>2, <1>3, <1>4, <1>5, <1>6, <1>7, <1>8, <1>9 DEF Next,
     CheckStep, PruneStep

(* A store promotes its directory, removes it or fails to remove it.       *)
LEMMA TemporariesKept ==
  ASSUME Typed, OpenThere, Temporaries, Next
  PROVE  Temporaries'
<1>1. ASSUME NEW c \in Checks, LockCache(c) \/ Look(c) \/ Copy(c) \/
           Validate(c) \/ Discard(c) \/ Discarded(c) \/ Fetch(c) \/
           Plan(c) \/ Complete(c)
     PROVE  Temporaries'
  BY SourceAssumption, <1>1 DEF LockCache, Goto, Look, Copy, Validate,
     Discard, Discarded, Raise, Release, Fetch, Plan, Complete, Typed,
     TypeOK, Shape, Actors, Places, CachePc, PrunePc, OpenThere,
     Temporaries, worldVars
<1>2. ASSUME NEW c \in Checks, Touch(c) \/ Store(c) \/ Mkdir(c) \/ Fill(c)
           \/ Promote(c) \/ Stored(c) \/ Cleanup(c) \/ ReleaseCache(c)
     PROVE  Temporaries'
  BY SourceAssumption, <1>2 DEF Touch, Goto, Put, Store, Mkdir, Fill,
     Promote, Stored, Cleanup, ReleaseCache, Release, Typed, TypeOK,
     Shape, Actors, Places, CachePc, PrunePc, OpenThere, Temporaries,
     worldVars
<1>3. ASSUME NEW c \in Checks, CheckFails(c) PROVE Temporaries'
  BY SourceAssumption, <1>3 DEF CheckFails, Goto, Raise, Fails, Release,
     Typed, TypeOK, Shape, Actors, Places, CachePc, PrunePc, OpenThere,
     Temporaries, worldVars
<1>4. ASSUME NEW x \in Prunes, List(x) \/ Pick(x) \/ Await(x) \/ Open(x)
     PROVE  Temporaries'
  BY SourceAssumption, <1>4 DEF List, Goto, Pick, Await, Open, Typed,
     TypeOK, Shape, Actors, Places, CachePc, PrunePc, OpenThere,
     Temporaries, worldVars
<1>5. ASSUME NEW x \in Actors, RemoveEntry(x) PROVE Temporaries'
  BY SourceAssumption, <1>5 DEF RemoveEntry, Put, Typed, TypeOK, Shape,
     Actors, Places, CachePc, PrunePc, OpenThere, Temporaries, worldVars
<1>6. ASSUME NEW x \in Actors, RemoveName(x) PROVE Temporaries'
  BY SourceAssumption, <1>6 DEF RemoveName, Goto, Put, Removed, Release,
     Typed, TypeOK, Shape, Actors, Places, CachePc, PrunePc, OpenThere,
     Temporaries, worldVars
<1>7. ASSUME NEW x \in Actors, RemoveFails(x) PROVE Temporaries'
  BY SourceAssumption, <1>7 DEF RemoveFails, Goto, Fails, Removed,
     Release, Typed, TypeOK, Shape, Actors, Places, CachePc, PrunePc,
     OpenThere, Temporaries, worldVars
<1>8. ASSUME NEW x \in Actors, Crash(x) PROVE Temporaries'
  BY SourceAssumption, <1>8 DEF Crash, Goto, Release, Typed, TypeOK,
     Shape, Actors, Places, CachePc, PrunePc, OpenThere, Temporaries,
     worldVars
<1>9. CASE Rest
  BY SourceAssumption, <1>9 DEF Rest, vars, worldVars, Typed, TypeOK, Shape,
     Actors, Places, CachePc, PrunePc, OpenThere, Temporaries, worldVars
<1>10. QED
  BY <1>1, <1>2, <1>3, <1>4, <1>5, <1>6, <1>7, <1>8, <1>9 DEF Next,
     CheckStep, PruneStep

(* The invariant is about these variables only.                            *)
LEMMA Stutters ==
  ASSUME Inv, UNCHANGED vars
  PROVE  Inv'
  BY DEF Inv, Typed, TypeOK, Shape, Held, OpenThere, Hits, Excuses,
     Temporaries, vars, worldVars

(* The inductive invariant.                                                *)
LEMMA InvHolds == Spec => []Inv
<1>1. Init => Inv
  BY SourceAssumption DEF Init, Inv, Typed, TypeOK, Shape, Held, OpenThere,
     Hits, Excuses, Temporaries, Actors, Places, CachePc, PrunePc
<1>2. Inv /\ [Next]_vars => Inv'
  <2>1. ASSUME Inv, Next PROVE Inv'
    BY <2>1, TypesKept, ShapeKept, HeldKept, OpenThereKept, HitsKept,
       ExcusesKept, TemporariesKept DEF Inv, Typed
  <2>2. QED
    BY <2>1, Stutters
<1>3. QED
  BY <1>1, <1>2, PTL DEF Spec

(* Every variable keeps its type, at any number of checks and prunes.      *)
THEOREM SourceTyped == Spec => []TypeOK
<1>1. Inv => TypeOK
  BY DEF Inv, Typed
<1>2. QED
  BY <1>1, InvHolds, PTL

(* No check goes on as a hit with an incomplete copy, whatever prunes and  *)
(* crashes did to the cache that _initialize_cached_materialization read.  *)
THEOREM HitsAreWhole == Spec => []HitIsWhole
<1>1. Inv => HitIsWhole
  BY DEF Inv, Hits, HitIsWhole
<1>2. QED
  BY <1>1, InvHolds, PTL

(* A damaged cache never fails a check: the discard in the except branch   *)
(* of _check_resolved_repository leaves nothing unless it failed itself.   *)
THEOREM DamageIsHarmless == Spec => []DamageNeverFails
<1>1. Inv => DamageNeverFails
  BY DEF Inv, Excuses, DamageNeverFails
<1>2. QED
  BY <1>1, InvHolds, PTL

(* The "finally" of store_source_cache removes what it did not promote, if *)
(* it can: whatever else fails, and whatever the prunes do, a directory    *)
(* that outlives its check was left by a kill or by that removal.          *)
THEOREM TemporariesRemoved == Spec => []TemporariesGone
<1>1. Inv => TemporariesGone
  BY DEF Inv, Temporaries, TemporariesGone
<1>2. QED
  BY <1>1, InvHolds, PTL

(* Only the holder of its lock empties the name of the cache.              *)
THEOREM RemovalsLocked == Spec => RemovedUnderLock
<1> DEFINE Empties == tree[Cache] # "absent" /\ tree'[Cache] = "absent"
           ByHolder == \E x \in Actors : lock[Cache] = x /\ at[x] = Cache
<1>1. Inv /\ [Next]_vars => [Empties => ByHolder]_vars
  <2> SUFFICES ASSUME Inv, Next, Empties PROVE ByHolder
    OBVIOUS
  <2>1. PICK x \in Actors : RemoveName(x)
    BY SourceAssumption DEF Inv, Typed, TypeOK, OpenThere, Actors, Places,
       Next, CheckStep, PruneStep, LockCache, Look, Copy, Validate, Touch,
       Discard, Discarded, Fetch, Plan, Complete, Store, Mkdir, Fill, Promote,
       Stored, Cleanup, ReleaseCache, CheckFails, List, Pick, Await, Open,
       RemoveEntry, RemoveFails, Crash, Rest, vars, worldVars, Put
  <2>2. open[x] = at[x] /\ at[x] = Cache
    BY <2>1, SourceAssumption DEF RemoveName, Inv, Typed, TypeOK, Actors,
       Places, Put
  <2>3. lock[Cache] = x
    BY <2>1, <2>2, SourceAssumption DEF RemoveName, Inv, Held, Typed, TypeOK,
       Shape, Actors, CachePc, PrunePc
  <2>4. QED
    BY <2>2, <2>3
<1>2. QED
  BY <1>1, InvHolds, PTL DEF Spec, RemovedUnderLock
=============================================================================
