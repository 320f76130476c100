------------------------ MODULE PreparedDependencies ------------------------
(***************************************************************************)
(* The dependency state run_step shares between checks: container volumes  *)
(* and host cache directories, the success markers inside them, the        *)
(* registry of volumes, and one lock per resource.  A step locks what it   *)
(* needs, makes it exist, runs a prepare container unless every marker is  *)
(* there, marks, tests, and after a failed preparation discards all of it  *)
(* and tries once more.  Prunes remove resources one at a time; processes  *)
(* stop, or are killed and leave their container running.                  *)
(***************************************************************************)
EXTENDS Integers, FiniteSets

CONSTANTS
  Procs,
  Volumes,     \* volumes of the container runner, listed in the registry
  Dirs,        \* host cache directories, found by walking the cache root
  StepNeeds,   \* the sets of resources the steps of all plans use
  Rank,        \* the order of the sorted names of resources
  Labelled,    \* whether the runner can list its volumes by label
  Deaths,      \* how processes die: "stop" ends the container, "kill" does not
  None,
  MaxSteps,    \* bound: steps started over a behaviour
  MaxPrunes,   \* bound: prunes started over a behaviour
  MaxDeaths    \* bound: processes stopped or killed over a behaviour

Resources == Volumes \cup Dirs

ASSUME DependencyAssumption ==
  /\ Volumes \cap Dirs = {}
  /\ StepNeeds \subseteq (SUBSET Resources) \ {{}}
  /\ \A m, n \in StepNeeds : m = n \/ m \cap n = {}
  /\ Rank \in [Resources -> Nat]
  /\ \A r, s \in Resources : Rank[r] = Rank[s] => r = s
  /\ Labelled \in BOOLEAN
  /\ Deaths \subseteq {"stop", "kill"}
  /\ None \notin Procs \cup Resources
  /\ MaxSteps \in Nat /\ MaxPrunes \in Nat /\ MaxDeaths \in Nat

VARIABLES
  content,    \* content[r]: "absent", "empty", "partial", "whole"
  marked,     \* marked[r]: the success marker is inside it
  registry,   \* volumes cache-registry.json names
  unwritten,  \* history: volumes the last write of it was about and failed
  lock,       \* lock[r]: who holds the lock of a resource
  pc,
  need,       \* what the running step uses; {} while pruning or idle
  todo,       \* what the current loop has still to handle
  at,         \* the resource a prune is at
  attempt,    \* 1, or 2 after a clean retry began
  failed,     \* a discard of this loop was refused
  outcome,    \* what the last step ended with
  orphans,    \* containers whose process was killed
  steps, prunes, deaths

storeVars == <<content, marked, registry, unwritten>>
loopVars  == <<need, todo, at, attempt, failed, outcome>>
countVars == <<steps, prunes, deaths>>
vars == <<storeVars, lock, pc, loopVars, orphans, countVars>>

ContainerPc == {"prepare", "mark", "test"}
StepPc  == {"lock", "ensure", "record", "start", "pretest"} \cup ContainerPc
PrunePc == {"dirs", "volumes", "pickdir", "pickvolume", "await"}
BothPc  == {"remove", "removing", "forget"}
Orphan  == [id : Nat, need : SUBSET Resources, phase : ContainerPc,
            todo : SUBSET Resources]

TypeOK ==
  /\ content \in [Resources -> {"absent", "empty", "partial", "whole"}]
  /\ marked \in [Resources -> BOOLEAN]
  /\ registry \in SUBSET Volumes /\ unwritten \in SUBSET Volumes
  /\ lock \in [Resources -> Procs \cup {None}]
  /\ pc \in [Procs -> {"idle"} \cup StepPc \cup PrunePc \cup BothPc]
  /\ need \in [Procs -> SUBSET Resources]
  /\ todo \in [Procs -> SUBSET Resources]
  /\ at \in [Procs -> Resources \cup {None}]
  /\ attempt \in [Procs -> 1..2]
  /\ failed \in [Procs -> BOOLEAN]
  /\ outcome \in [Procs -> {"none", "pass", "test", "prepare", "error"}]
  /\ orphans \in SUBSET Orphan
  /\ steps \in 0..MaxSteps /\ prunes \in 0..MaxPrunes /\ deaths \in 0..MaxDeaths

Init ==
  /\ content = [r \in Resources |-> "absent"]
  /\ marked = [r \in Resources |-> FALSE]
  /\ registry = {} /\ unwritten = {}
  /\ lock = [r \in Resources |-> None]
  /\ pc = [p \in Procs |-> "idle"]
  /\ need = [p \in Procs |-> {}]
  /\ todo = [p \in Procs |-> {}]
  /\ at = [p \in Procs |-> None]
  /\ attempt = [p \in Procs |-> 1]
  /\ failed = [p \in Procs |-> FALSE]
  /\ outcome = [p \in Procs |-> "none"]
  /\ orphans = {}
  /\ steps = 0 /\ prunes = 0 /\ deaths = 0

-----------------------------------------------------------------------------
Goto(p, label) == pc' = [pc EXCEPT ![p] = label]
Release(p) == lock' = [r \in Resources |-> IF lock[r] = p THEN None ELSE lock[r]]

\* The next resources of a loop, in the order of their names.
NextOf(p) == {r \in todo[p] : \A s \in todo[p] : Rank[r] <= Rank[s]}

\* A loop goes on at label with what is left, or at done over all of the need.
Advance(p, r, label, done) ==
  \/ /\ todo[p] # {r}
     /\ todo' = [todo EXCEPT ![p] = @ \ {r}]
     /\ Goto(p, label)
  \/ /\ todo[p] = {r}
     /\ todo' = [todo EXCEPT ![p] = need[p]]
     /\ Goto(p, done)

\* Leaving run_step drops its locks.
End(p, result) ==
  /\ Release(p)
  /\ Goto(p, "idle")
  /\ need' = [need EXCEPT ![p] = {}]
  /\ todo' = [todo EXCEPT ![p] = {}]
  /\ attempt' = [attempt EXCEPT ![p] = 1]
  /\ outcome' = [outcome EXCEPT ![p] = result]
  /\ UNCHANGED at

\* A running container has its volumes mounted; the runner will not remove them.
Mounted(r) ==
  \/ \E q \in Procs : pc[q] \in ContainerPc /\ r \in need[q]
  \/ \E o \in orphans : r \in o.need

-----------------------------------------------------------------------------
(* run_step.                                                               *)

StartStep(p) ==
  /\ pc[p] = "idle"
  /\ steps < MaxSteps
  /\ steps' = steps + 1
  /\ \E n \in StepNeeds :
       /\ need' = [need EXCEPT ![p] = n]
       /\ todo' = [todo EXCEPT ![p] = n]
  /\ failed' = [failed EXCEPT ![p] = FALSE]
  /\ outcome' = [outcome EXCEPT ![p] = "none"]
  /\ Goto(p, "lock")
  /\ UNCHANGED <<storeVars, lock, at, attempt, orphans, prunes, deaths>>

\* Mutant: the locks are taken in whatever order.
LockAnyOrder(p) ==
  /\ pc[p] = "lock"
  /\ \E r \in todo[p] :
       /\ lock[r] = None
       /\ lock' = [lock EXCEPT ![r] = p]
       /\ Advance(p, r, "lock", "ensure")
  /\ UNCHANGED <<storeVars, need, at, attempt, failed, outcome, orphans, countVars>>

\* Mutant: a lock that somebody holds is taken all the same.
LockTaken(p) ==
  /\ pc[p] = "lock"
  /\ \E r \in NextOf(p) :
       /\ lock' = [lock EXCEPT ![r] = p]
       /\ Advance(p, r, "lock", "ensure")
  /\ UNCHANGED <<storeVars, need, at, attempt, failed, outcome, orphans, countVars>>

Lock(p) ==
  /\ pc[p] = "lock"
  /\ \E r \in NextOf(p) :
       /\ lock[r] = None
       /\ lock' = [lock EXCEPT ![r] = p]
       /\ Advance(p, r, "lock", "ensure")
  /\ UNCHANGED <<storeVars, need, at, attempt, failed, outcome, orphans, countVars>>

\* touch_dependency_cache makes a directory; a volume is inspected, created
\* when it is not there, and then recorded.
Ensure(p) ==
  /\ pc[p] = "ensure"
  /\ \E r \in NextOf(p) :
       /\ content' = [content EXCEPT ![r] = IF @ = "absent" THEN "empty" ELSE @]
       /\ \/ r \in Dirs /\ Advance(p, r, "ensure", "start")
          \/ r \in Volumes /\ Goto(p, "record") /\ UNCHANGED todo
  /\ UNCHANGED <<marked, registry, unwritten, lock, need, at, attempt, failed, outcome,
                 orphans, countVars>>

\* record_prepared_volume, an atomic replacement under the registry's lock.
Record(p) ==
  /\ pc[p] = "record"
  /\ \E r \in NextOf(p) :
       /\ registry' = registry \cup {r}
       /\ unwritten' = unwritten \ {r}
       /\ Advance(p, r, "ensure", "start")
  /\ UNCHANGED <<content, marked, lock, need, at, attempt, failed, outcome,
                 orphans, countVars>>

\* The runner or the disk refuses: before the first attempt the step raises,
\* before the retry the failed preparation stands.
EnsureFails(p) ==
  /\ pc[p] = "ensure"
  /\ End(p, IF attempt[p] = 1 THEN "error" ELSE "prepare")
  /\ UNCHANGED <<storeVars, failed, orphans, countVars>>

\* Mutant: one marker is as good as all of them.
AnyMarker(p) == \E r \in need[p] : marked[r]

\* "test -f" over every marker path, inside the prepare container.
AllMarkers(p) == \A r \in need[p] : marked[r]

\* The prepare container starts: a hit ends it at once, a miss starts the
\* package manager over whatever content an earlier attempt left.
StartPrepare(p) ==
  /\ pc[p] = "start"
  /\ \/ /\ AllMarkers(p)
        /\ Goto(p, "pretest")
        /\ UNCHANGED content
     \/ /\ ~AllMarkers(p)
        /\ content' = [r \in Resources |-> IF r \in need[p] THEN "partial" ELSE content[r]]
        /\ Goto(p, "prepare")
  /\ UNCHANGED <<marked, registry, unwritten, lock, loopVars, orphans, countVars>>

\* Another package manager is at work in this resource.
Contended(r, p, o) ==
  \/ \E q \in Procs \ {p} : pc[q] = "prepare" /\ r \in need[q]
  \/ \E x \in orphans \ {o} : x.phase = "prepare" /\ r \in x.need

\* The package manager of process p, or of orphan o, has done its work.
Filled(rs, p, o) ==
  content' = [r \in Resources |->
    IF r \in rs /\ ~Contended(r, p, o) THEN "whole" ELSE content[r]]

FinishPrepare(p) ==
  /\ pc[p] = "prepare"
  /\ Filled(need[p], p, None)
  /\ Goto(p, "mark")
  /\ UNCHANGED <<marked, registry, unwritten, lock, loopVars, orphans, countVars>>

\* "touch" of every marker path, one after the other.
Mark(p) ==
  /\ pc[p] = "mark"
  /\ \E r \in NextOf(p) :
       /\ marked' = [marked EXCEPT ![r] = TRUE]
       /\ Advance(p, r, "mark", "pretest")
  /\ UNCHANGED <<content, registry, unwritten, lock, need, at, attempt, failed, outcome,
                 orphans, countVars>>

\* Mutant: the second failure is not discarded.
PrepareFailsKeeps(p) ==
  /\ pc[p] \in {"start", "prepare", "mark"}
  /\ \/ /\ attempt[p] = 1
        /\ todo' = [todo EXCEPT ![p] = need[p]]
        /\ Goto(p, "remove")
        /\ UNCHANGED <<lock, need, at, attempt, outcome>>
     \/ attempt[p] = 2 /\ End(p, "prepare")
  /\ failed' = [failed EXCEPT ![p] = FALSE]
  /\ UNCHANGED <<storeVars, orphans, countVars>>

\* The container cannot start, or the package manager or a touch fails.
PrepareFails(p) ==
  /\ pc[p] \in {"start", "prepare", "mark"}
  /\ todo' = [todo EXCEPT ![p] = need[p]]
  /\ failed' = [failed EXCEPT ![p] = FALSE]
  /\ Goto(p, "remove")
  /\ UNCHANGED <<storeVars, lock, need, at, attempt, outcome, orphans, countVars>>

StartTest(p) ==
  /\ pc[p] = "pretest"
  /\ Goto(p, "test")
  /\ UNCHANGED <<storeVars, lock, loopVars, orphans, countVars>>

\* A failed test keeps the prepared dependencies.
FinishTest(p) ==
  /\ pc[p] = "test"
  /\ \E verdict \in {"pass", "test"} : End(p, verdict)
  /\ UNCHANGED <<storeVars, failed, orphans, countVars>>

-----------------------------------------------------------------------------
(* Removal, by the discard of a failed preparation and by prunes.          *)

\* What a discard or a prune removes next.
Doomed(p) == IF need[p] = {} THEN {at[p]} ELSE NextOf(p)

\* A prune lets the resource go and looks for another.
PruneGoesOn(p, r) ==
  /\ need[p] = {}
  /\ Release(p)
  /\ at' = [at EXCEPT ![p] = None]
  /\ Goto(p, IF r \in Dirs THEN "pickdir" ELSE "pickvolume")
  /\ UNCHANGED <<need, todo, attempt, failed, outcome>>

\* A discard tries every resource of the step, whatever was refused before.
DiscardGoesOn(p, r, ok) ==
  /\ need[p] # {} /\ todo[p] # {r}
  /\ todo' = [todo EXCEPT ![p] = @ \ {r}]
  /\ failed' = [failed EXCEPT ![p] = @ \/ ~ok]
  /\ Goto(p, "remove")
  /\ UNCHANGED <<lock, need, at, attempt, outcome>>

\* Mutant: nothing bounds the retries.
RetryAlways(p, ok) == ok /\ ~failed[p]

\* Mutant: a retry over what could not be discarded.
RetryAnyway(p, ok) == attempt[p] = 1

\* Only a first attempt, and only when all of it is gone, is tried again.
Retry(p, ok) == attempt[p] = 1 /\ ok /\ ~failed[p]

DiscardEnds(p, r, ok) ==
  /\ need[p] # {} /\ todo[p] = {r}
  /\ failed' = [failed EXCEPT ![p] = @ \/ ~ok]
  /\ \/ /\ Retry(p, ok)
        /\ attempt' = [attempt EXCEPT ![p] = @ + 1]
        /\ todo' = [todo EXCEPT ![p] = need[p]]
        /\ Goto(p, "ensure")
        /\ UNCHANGED <<lock, need, at, outcome>>
     \/ ~Retry(p, ok) /\ End(p, "prepare")

AfterRemoval(p, r, ok) ==
  PruneGoesOn(p, r) \/ DiscardGoesOn(p, r, ok) \/ DiscardEnds(p, r, ok)

\* The runner removes a volume that is not mounted, and is content when there
\* is none.  A directory goes file by file, the marker sooner or later.
Remove(p) ==
  /\ pc[p] = "remove"
  /\ \E r \in Doomed(p) :
       \/ /\ r \in Volumes
          /\ ~Mounted(r)
          /\ content' = [content EXCEPT ![r] = "absent"]
          /\ marked' = [marked EXCEPT ![r] = FALSE]
          /\ Goto(p, "forget")
       \/ /\ r \in Dirs
          /\ content' = [content EXCEPT ![r] = IF @ = "whole" THEN "partial" ELSE @]
          /\ \E m \in {FALSE, marked[r]} : marked' = [marked EXCEPT ![r] = m]
          /\ Goto(p, "removing")
  /\ UNCHANGED <<registry, unwritten, lock, loopVars, orphans, countVars>>

\* What an orphan has mounted of a removed directory reaches nobody any more.
Loses(o, r) == [o EXCEPT !.need = o.need \ {r}, !.todo = o.todo \ {r}]

RemoveDirEnds(p) ==
  /\ pc[p] = "removing"
  /\ \E r \in Doomed(p) :
       /\ content' = [content EXCEPT ![r] = "absent"]
       /\ marked' = [marked EXCEPT ![r] = FALSE]
       /\ orphans' = {Loses(o, r) : o \in orphans}
       /\ AfterRemoval(p, r, TRUE)
  /\ UNCHANGED <<registry, unwritten, countVars>>

\* Mutant: a volume the runner refuses to remove is forgotten all the same.
ForgetRefused(p) ==
  /\ pc[p] \in {"remove", "removing"}
  /\ \E r \in Doomed(p) :
       /\ r \in Volumes \/ pc[p] = "removing"
       /\ registry' = registry \ {r}
       /\ AfterRemoval(p, r, FALSE)
  /\ UNCHANGED <<content, marked, unwritten, orphans, countVars>>

\* The runner refuses, or a file of the directory cannot be unlinked.
RemoveFails(p) ==
  /\ pc[p] \in {"remove", "removing"}
  /\ \E r \in Doomed(p) :
       /\ r \in Volumes \/ pc[p] = "removing"
       /\ AfterRemoval(p, r, FALSE)
  /\ UNCHANGED <<storeVars, orphans, countVars>>

Forget(p) ==
  /\ pc[p] = "forget"
  /\ \E r \in Doomed(p) :
       /\ registry' = registry \ {r}
       /\ unwritten' = unwritten \ {r}
       /\ AfterRemoval(p, r, TRUE)
  /\ UNCHANGED <<content, marked, orphans, countVars>>

\* The error leaves the prune, and the lock of the volume with it.
PruneAborts(p) ==
  /\ need[p] = {}
  /\ Release(p)
  /\ at' = [at EXCEPT ![p] = None]
  /\ todo' = [todo EXCEPT ![p] = {}]
  /\ Goto(p, "idle")
  /\ UNCHANGED <<need, attempt, failed, outcome>>

\* The registry cannot be written: the step ends as when the volume cannot be made.
RecordFails(p) ==
  /\ pc[p] = "record"
  /\ \E r \in NextOf(p) : unwritten' = unwritten \cup {r}
  /\ End(p, IF attempt[p] = 1 THEN "error" ELSE "prepare")
  /\ UNCHANGED <<content, marked, registry, failed, orphans, countVars>>

\* Nothing is written to forget a volume that is not named.  A discard counts
\* the volume as refused.
ForgetFails(p) ==
  /\ pc[p] = "forget"
  /\ \E r \in Doomed(p) \cap registry :
       /\ unwritten' = unwritten \cup {r}
       /\ DiscardGoesOn(p, r, FALSE) \/ DiscardEnds(p, r, FALSE) \/ PruneAborts(p)
  /\ UNCHANGED <<content, marked, registry, orphans, countVars>>

-----------------------------------------------------------------------------
(* _prune_cache_unlocked over host entries and over volumes: any of them    *)
(* may be condemned by the limits; each is locked while it is removed.     *)

StartPrune(p) ==
  /\ pc[p] = "idle"
  /\ prunes < MaxPrunes
  /\ prunes' = prunes + 1
  /\ Goto(p, "dirs")
  /\ UNCHANGED <<storeVars, lock, loopVars, orphans, steps, deaths>>

\* _managed_volumes: the registry and what the runner lists by label.
Managed == registry \cup {v \in Volumes : Labelled /\ content[v] # "absent"}

List(p) ==
  /\ \/ /\ pc[p] = "dirs"
        /\ \E ds \in SUBSET {d \in Dirs : content[d] # "absent"} :
             todo' = [todo EXCEPT ![p] = ds]
        /\ Goto(p, "pickdir")
     \/ /\ pc[p] = "volumes"
        /\ \E vs \in SUBSET Managed : todo' = [todo EXCEPT ![p] = vs]
        /\ Goto(p, "pickvolume")
  /\ UNCHANGED <<storeVars, lock, need, at, attempt, failed, outcome, orphans, countVars>>

Pick(p) ==
  /\ pc[p] \in {"pickdir", "pickvolume"}
  /\ \/ \E r \in todo[p] :
          /\ at' = [at EXCEPT ![p] = r]
          /\ todo' = [todo EXCEPT ![p] = @ \ {r}]
          /\ Goto(p, "await")
     \/ /\ todo[p] = {}
        /\ Goto(p, IF pc[p] = "pickdir" THEN "volumes" ELSE "idle")
        /\ UNCHANGED <<at, todo>>
  /\ UNCHANGED <<storeVars, lock, need, attempt, failed, outcome, orphans, countVars>>

Await(p) ==
  /\ pc[p] = "await"
  /\ lock[at[p]] = None
  /\ lock' = [lock EXCEPT ![at[p]] = p]
  /\ Goto(p, "remove")
  /\ UNCHANGED <<storeVars, loopVars, orphans, countVars>>

-----------------------------------------------------------------------------
(* Deaths.  An error, an interrupt or SIGTERM stops the container; SIGKILL  *)
(* takes the process and its locks and leaves the container running.       *)

Die(p) ==
  /\ pc[p] # "idle"
  /\ deaths < MaxDeaths
  /\ deaths' = deaths + 1
  /\ \/ "stop" \in Deaths /\ UNCHANGED orphans
     \/ /\ "kill" \in Deaths
        /\ pc[p] \in ContainerPc
        /\ orphans' = orphans \cup
             {[id |-> deaths', need |-> need[p], phase |-> pc[p], todo |-> todo[p]]}
  /\ Release(p)
  /\ Goto(p, "idle")
  /\ need' = [need EXCEPT ![p] = {}]
  /\ todo' = [todo EXCEPT ![p] = {}]
  /\ at' = [at EXCEPT ![p] = None]
  /\ attempt' = [attempt EXCEPT ![p] = 1]
  /\ outcome' = [outcome EXCEPT ![p] = "error"]
  /\ UNCHANGED <<storeVars, failed, steps, prunes>>

\* An orphan's package manager finishes, its markers are touched, it ends.
OrphanWorks(o) ==
  \/ /\ o.phase = "prepare"
     /\ Filled(o.need, None, o)
     /\ orphans' = (orphans \ {o}) \cup {[o EXCEPT !.phase = "mark", !.todo = o.need]}
     /\ UNCHANGED marked
  \/ /\ o.phase = "mark" /\ o.todo # {}
     /\ \E r \in o.todo :
          /\ \A s \in o.todo : Rank[r] <= Rank[s]
          /\ marked' = [marked EXCEPT ![r] = TRUE]
          /\ orphans' = (orphans \ {o}) \cup {[o EXCEPT !.todo = o.todo \ {r}]}
     /\ UNCHANGED content

OrphanStep ==
  /\ \E o \in orphans :
       OrphanWorks(o) \/ (orphans' = orphans \ {o} /\ UNCHANGED <<content, marked>>)
  /\ UNCHANGED <<registry, unwritten, lock, pc, loopVars, countVars>>

-----------------------------------------------------------------------------
Step(p) ==
  \/ Lock(p) \/ Ensure(p) \/ Record(p) \/ EnsureFails(p) \/ StartPrepare(p)
  \/ FinishPrepare(p) \/ Mark(p) \/ PrepareFails(p) \/ StartTest(p) \/ FinishTest(p)
  \/ Remove(p) \/ RemoveDirEnds(p) \/ RemoveFails(p) \/ Forget(p)
  \/ RecordFails(p) \/ ForgetFails(p)
  \/ List(p) \/ Pick(p) \/ Await(p)

Rest ==
  /\ steps = MaxSteps /\ prunes = MaxPrunes
  /\ \A p \in Procs : pc[p] = "idle"
  /\ UNCHANGED vars

Next ==
  \/ \E p \in Procs : StartStep(p) \/ StartPrune(p) \/ Step(p) \/ Die(p)
  \/ OrphanStep
  \/ Rest

Spec == Init /\ [][Next]_vars

\* Processes are scheduled, a released lock is granted, containers end.
FairSpec == Spec /\ \A p \in Procs : WF_vars(Step(p))
-----------------------------------------------------------------------------
(* Properties.                                                             *)

\* "without treating an interrupted preparation as reusable": a test runs
\* only over dependencies a preparation has finished, in every resource of
\* its step, whatever was pruned, discarded or interrupted before.
TestOnWhole ==
  \A p \in Procs : pc[p] = "test" => \A r \in need[p] : content[r] = "whole"

\* "one clean retry": the second attempt starts over empty resources, all of
\* them made anew.
RetryClean ==
  [][\A p \in Procs : StartPrepare(p) /\ attempt[p] = 2 =>
       \A r \in need[p] : content[r] = "empty" /\ ~marked[r]]_vars

\* "leaves the scoped cache clean": when a step ends with a failed preparation
\* and no removal was refused, nothing of it is left to be reused.
FailureLeavesClean ==
  [][\A p \in Procs :
       outcome'[p] = "prepare" /\ outcome[p] # "prepare" /\ ~failed'[p] =>
         \A r \in need[p] : content'[r] \in {"absent", "empty"} /\ ~marked'[r]]_vars

\* As long as no process dies, the registry names the volumes that exist,
\* neither more nor fewer, wherever nobody holds the volume's lock and the last
\* write about the volume did not fail; the next one that does not sets it right.
RegistryExact ==
  deaths = 0 => \A v \in Volumes \ unwritten :
    lock[v] = None => (v \in registry <=> content[v] # "absent")

\* Every step and every prune ends: resources are locked in one order.
StepsEnd == \A p \in Procs : (pc[p] # "idle") ~> (pc[p] = "idle")

\* "concurrent agents neither corrupt a shared prepared volume": no two
\* package managers work in one volume at the same time.  A process that is
\* killed leaves its package manager behind without its lock.
OneWriter ==
  \A r \in Resources, p \in Procs :
    pc[p] = "prepare" /\ r \in need[p] => ~Contended(r, p, None)
=============================================================================
