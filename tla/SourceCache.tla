---------------------------- MODULE SourceCache ----------------------------
(***************************************************************************)
(* The cache of Git objects of one commit and component.  Under its lock a *)
(* check copies it, validates the copy, and falls back to a fetch; a check *)
(* that fetched fills a directory beside it and renames that into place.   *)
(* Prunes list both kinds of directory, lock the one they remove under its *)
(* own name, and remove it entry by entry through an open descriptor,      *)
(* which goes along when the directory is renamed.                         *)
(***************************************************************************)
EXTENDS Naturals

CONSTANTS
  Checks,   \* calls of _check_resolved_repository, each with its temporary name
  Prunes,   \* calls of _prune_cache_unlocked
  Cache,    \* the name of the cache directory
  None,
  Failures, \* bound: how often the outside world may fail a call
  Crashes   \* bound: processes killed

ASSUME SourceAssumption ==
  /\ Checks \cap Prunes = {}
  /\ {Cache, None} \cap (Checks \cup Prunes) = {} /\ Cache # None
  /\ Failures \in Nat /\ Crashes \in Nat

\* The temporary directory of check c, .source-<uuid>.tmp, goes by c.
Actors == Checks \cup Prunes
Places == Checks \cup {Cache}

VARIABLES
  tree,     \* tree[d]: what is at a name: "absent", "part", "torn", "whole"
  lock,     \* lock[d]: who holds the lock of a name
  pc,
  mine,     \* the objects of a check's own checkout
  hit,      \* the checkout came from the cache
  at,       \* the name an actor removes
  open,     \* where the directory it removes is now, None when it is gone
  todo,     \* the names a prune has still to remove
  outcome,
  excused,  \* history: checks a failure outside the cache has met
  left,     \* history: checks killed, or unable to remove what they made
  failures, crashes

worldVars == <<excused, left, failures, crashes>>
vars == <<tree, lock, pc, mine, hit, at, open, todo, outcome, worldVars>>

CachePc == {"look", "copy", "validate", "touch", "discard", "discarding", "discarded",
            "fetch", "plan", "complete", "store", "mkdir", "fill", "promote", "stored",
            "cleanup", "release"}
PrunePc == {"list", "pick", "await", "open", "removing"}

TypeOK ==
  /\ tree \in [Places -> {"absent", "part", "torn", "whole"}]
  /\ lock \in [Places -> Actors \cup {None}]
  /\ pc \in [Actors -> {"start", "done"} \cup CachePc \cup PrunePc]
  /\ mine \in [Checks -> {"none", "part", "whole"}]
  /\ hit \in [Checks -> BOOLEAN]
  /\ at \in [Actors -> Places \cup {None}]
  /\ open \in [Actors -> Places \cup {None}]
  /\ todo \in [Prunes -> SUBSET Places]
  /\ outcome \in [Checks -> {"none", "ready", "error"}]
  /\ excused \in SUBSET Checks /\ left \in SUBSET Checks
  /\ failures \in 0..Failures /\ crashes \in 0..Crashes

Init ==
  /\ tree = [d \in Places |-> "absent"]
  /\ lock = [d \in Places |-> None]
  /\ pc = [x \in Actors |-> IF x \in Checks THEN "start" ELSE "list"]
  /\ mine = [c \in Checks |-> "none"]
  /\ hit = [c \in Checks |-> FALSE]
  /\ at = [x \in Actors |-> None]
  /\ open = [x \in Actors |-> None]
  /\ todo = [x \in Prunes |-> {}]
  /\ outcome = [c \in Checks |-> "none"]
  /\ excused = {} /\ left = {}
  /\ failures = 0 /\ crashes = 0

-----------------------------------------------------------------------------
Goto(x, label) == pc' = [pc EXCEPT ![x] = label]
Put(d, content) == tree' = [tree EXCEPT ![d] = content]
Release(x) == lock' = [d \in Places |-> IF lock[d] = x THEN None ELSE lock[d]]

\* Something outside the cache fails: the network, the disk, git, the runner.
Fails(c) ==
  /\ failures < Failures
  /\ failures' = failures + 1
  /\ excused' = excused \cup {c}
  /\ UNCHANGED <<left, crashes>>

\* Mutant: the exception does not leave the ExitStack.
RaiseLocked(c) ==
  /\ UNCHANGED lock
  /\ Goto(c, "done")
  /\ outcome' = [outcome EXCEPT ![c] = "error"]

\* The exception leaves the ExitStack and the check.
Raise(c) ==
  /\ Release(c)
  /\ Goto(c, "done")
  /\ outcome' = [outcome EXCEPT ![c] = "error"]

-----------------------------------------------------------------------------
(* materialize_plan_inputs and the fallback of _check_resolved_repository. *)

LockCache(c) ==
  /\ pc[c] = "start"
  /\ lock[Cache] = None
  /\ lock' = [lock EXCEPT ![Cache] = c]
  /\ Goto(c, "look")
  /\ UNCHANGED <<tree, mine, hit, at, open, todo, outcome, worldVars>>

Look(c) ==
  /\ pc[c] = "look"
  /\ Goto(c, IF tree[Cache] = "absent" THEN "fetch" ELSE "copy")
  /\ UNCHANGED <<tree, lock, mine, hit, at, open, todo, outcome, worldVars>>

\* Mutant: a cache that cannot be read ends the check.
CopyRaises(c) ==
  /\ pc[c] = "copy"
  /\ \/ /\ mine' = [mine EXCEPT ![c] = IF tree[Cache] = "whole" THEN "whole" ELSE "part"]
        /\ Goto(c, "validate")
        /\ UNCHANGED <<lock, outcome>>
     \/ /\ tree[Cache] # "whole"
        /\ Raise(c)
        /\ UNCHANGED mine
  /\ UNCHANGED <<tree, hit, at, open, todo, worldVars>>

\* Metadata, tree and objects are read into a new repository; what is missing
\* is either noticed at once or copied as far as it goes.
Copy(c) ==
  /\ pc[c] = "copy"
  /\ \/ /\ mine' = [mine EXCEPT ![c] = IF tree[Cache] = "whole" THEN "whole" ELSE "part"]
        /\ Goto(c, "validate")
     \/ /\ tree[Cache] # "whole"
        /\ Goto(c, "discard")
        /\ UNCHANGED mine
  /\ UNCHANGED <<tree, lock, hit, at, open, todo, outcome, worldVars>>

\* Mutant: git fsck is left out.
ValidateNothing(c) ==
  /\ pc[c] = "validate"
  /\ Goto(c, "touch")
  /\ UNCHANGED <<tree, lock, mine, hit, at, open, todo, outcome, worldVars>>

\* git fsck --full --strict and the closure of the component, on the copy;
\* git itself may also fail over a whole copy.
Validate(c) ==
  /\ pc[c] = "validate"
  /\ \/ mine[c] = "whole" /\ Goto(c, "touch")
     \/ Goto(c, "discard")
  /\ UNCHANGED <<tree, lock, mine, hit, at, open, todo, outcome, worldVars>>

\* touch_dependency_cache makes the directory when it is not there.
Touch(c) ==
  /\ pc[c] = "touch"
  /\ Put(Cache, IF tree[Cache] = "absent" THEN "torn" ELSE tree[Cache])
  /\ hit' = [hit EXCEPT ![c] = TRUE]
  /\ Goto(c, "plan")
  /\ UNCHANGED <<lock, mine, at, open, todo, outcome, worldVars>>

Discard(c) ==
  /\ pc[c] = "discard"
  /\ at' = [at EXCEPT ![c] = Cache]
  /\ open' = [open EXCEPT ![c] = IF tree[Cache] = "absent" THEN None ELSE Cache]
  /\ Goto(c, "discarding")
  /\ UNCHANGED <<tree, lock, mine, hit, todo, outcome, worldVars>>

\* Nothing of the invalid cache may be left before the check starts afresh.
Discarded(c) ==
  /\ pc[c] = "discarded"
  /\ \/ /\ tree[Cache] = "absent"
        /\ mine' = [mine EXCEPT ![c] = "none"]
        /\ Goto(c, "fetch")
        /\ UNCHANGED <<lock, outcome>>
     \/ /\ tree[Cache] # "absent"
        /\ Raise(c)
        /\ UNCHANGED mine
  /\ UNCHANGED <<tree, hit, at, open, todo, worldVars>>

\* A fetch of the commit without its blobs.
Fetch(c) ==
  /\ pc[c] = "fetch"
  /\ mine' = [mine EXCEPT ![c] = "part"]
  /\ Goto(c, "plan")
  /\ UNCHANGED <<tree, lock, hit, at, open, todo, outcome, worldVars>>

\* The plan's receipt may be a PASS already, or else the check goes on.
Plan(c) ==
  /\ pc[c] = "plan"
  /\ \E label \in {"complete", "release"} : Goto(c, label)
  /\ UNCHANGED <<tree, lock, mine, hit, at, open, todo, outcome, worldVars>>

\* complete_materialization fetches what is missing, but never on a hit.
\* Without a workspace archive nothing is stored.
Complete(c) ==
  /\ pc[c] = "complete"
  /\ \/ /\ ~hit[c] \/ mine[c] = "whole"
        /\ mine' = [mine EXCEPT ![c] = "whole"]
        /\ \/ ~hit[c] /\ Goto(c, "store")
           \/ Goto(c, "release")
        /\ UNCHANGED <<lock, outcome>>
     \/ /\ hit[c] /\ mine[c] # "whole"
        /\ Raise(c)
        /\ UNCHANGED mine
  /\ UNCHANGED <<tree, hit, at, open, todo, worldVars>>

-----------------------------------------------------------------------------
(* store_source_cache.                                                     *)

Store(c) ==
  /\ pc[c] = "store"
  /\ Goto(c, IF tree[Cache] = "absent" THEN "mkdir" ELSE "release")
  /\ UNCHANGED <<tree, lock, mine, hit, at, open, todo, outcome, worldVars>>

Mkdir(c) ==
  /\ pc[c] = "mkdir"
  /\ Put(c, "part")
  /\ Goto(c, "fill")
  /\ UNCHANGED <<lock, mine, hit, at, open, todo, outcome, worldVars>>

\* Objects, shallow boundary and metadata.  A copy into a directory somebody
\* removes meanwhile fails, or ends with or without what was removed.
Fill(c) ==
  /\ pc[c] = "fill"
  /\ \/ /\ \E content \in IF tree[c] = "part" THEN {"whole"} ELSE {"torn", "whole"} :
             Put(c, content)
        /\ Goto(c, "promote")
     \/ /\ tree[c] # "part"
        /\ Goto(c, "cleanup")
        /\ UNCHANGED tree
  /\ UNCHANGED <<lock, mine, hit, at, open, todo, outcome, worldVars>>

\* temporary.replace(cache): whoever has the directory open comes along.
Promote(c) ==
  /\ pc[c] = "promote"
  /\ \/ /\ tree[c] # "absent" /\ tree[Cache] = "absent"
        /\ tree' = [tree EXCEPT ![Cache] = tree[c], ![c] = "absent"]
        /\ open' = [x \in Actors |-> IF open[x] = c THEN Cache ELSE open[x]]
        /\ Goto(c, "stored")
     \/ /\ tree[c] = "absent" \/ tree[Cache] # "absent"
        /\ Goto(c, "cleanup")
        /\ UNCHANGED <<tree, open>>
  /\ UNCHANGED <<lock, mine, hit, at, todo, outcome, worldVars>>

Stored(c) ==
  /\ pc[c] = "stored"
  /\ Put(Cache, IF tree[Cache] = "absent" THEN "torn" ELSE tree[Cache])
  /\ Goto(c, "release")
  /\ UNCHANGED <<lock, mine, hit, at, open, todo, outcome, worldVars>>

\* Mutant: what could not be promoted is left to the prunes.
CleanupLeaves(c) ==
  /\ pc[c] = "cleanup"
  /\ Goto(c, "release")
  /\ UNCHANGED <<tree, lock, mine, hit, at, open, todo, outcome, worldVars>>

\* "finally": a temporary directory that is still there is removed.  Errors
\* are ignored: what cannot be removed stays, and nobody is told.
Cleanup(c) ==
  /\ pc[c] = "cleanup"
  /\ \/ /\ Put(c, "absent")
        /\ open' = [x \in Actors |-> IF open[x] = c THEN None ELSE open[x]]
        /\ UNCHANGED left
     \/ /\ tree[c] # "absent"
        /\ \E content \in {tree[c], "torn"} : Put(c, content)
        /\ left' = left \cup {c}
        /\ UNCHANGED open
  /\ Goto(c, "release")
  /\ UNCHANGED <<lock, mine, hit, at, todo, outcome, excused, failures, crashes>>

\* source_locks.close(), before the steps run.
ReleaseCache(c) ==
  /\ pc[c] = "release"
  /\ Release(c)
  /\ outcome' = [outcome EXCEPT ![c] = "ready"]
  /\ Goto(c, "done")
  /\ UNCHANGED <<tree, mine, hit, at, open, todo, worldVars>>

\* A fetch, a plan or a completion that fails ends the check; a copy of the
\* cache that fails is discarded; a store that fails is given up.
CheckFails(c) ==
  /\ \/ /\ pc[c] \in {"fetch", "plan", "complete", "touch", "stored"}
        /\ Raise(c)
     \/ /\ pc[c] = "copy"
        /\ Goto(c, "discard")
        /\ UNCHANGED <<lock, outcome>>
     \/ /\ pc[c] \in {"store", "mkdir"}
        /\ Goto(c, "release")
        /\ UNCHANGED <<lock, outcome>>
     \/ /\ pc[c] \in {"fill", "promote"}
        /\ Goto(c, "cleanup")
        /\ UNCHANGED <<lock, outcome>>
  /\ Fails(c)
  /\ UNCHANGED <<tree, mine, hit, at, open, todo>>

-----------------------------------------------------------------------------
(* _prune_cache_unlocked over host entries, _remove_host_entry.            *)

\* _host_entries lists every directory, temporary ones included; the limits
\* may condemn any of them.
List(x) ==
  /\ pc[x] = "list"
  /\ \E ds \in SUBSET {d \in Places : tree[d] # "absent"} : todo' = [todo EXCEPT ![x] = ds]
  /\ Goto(x, "pick")
  /\ UNCHANGED <<tree, lock, mine, hit, at, open, outcome, worldVars>>

Pick(x) ==
  /\ pc[x] = "pick"
  /\ \/ \E d \in todo[x] :
          /\ at' = [at EXCEPT ![x] = d]
          /\ todo' = [todo EXCEPT ![x] = @ \ {d}]
          /\ Goto(x, "await")
     \/ todo[x] = {} /\ Goto(x, "done") /\ UNCHANGED <<at, todo>>
  /\ UNCHANGED <<tree, lock, mine, hit, open, outcome, worldVars>>

\* Mutant: a prune does not wait for the lock.
AwaitNothing(x) ==
  /\ pc[x] = "await"
  /\ Goto(x, "open")
  /\ UNCHANGED <<tree, lock, mine, hit, at, open, todo, outcome, worldVars>>

Await(x) ==
  /\ pc[x] = "await"
  /\ lock[at[x]] = None
  /\ lock' = [lock EXCEPT ![at[x]] = x]
  /\ Goto(x, "open")
  /\ UNCHANGED <<tree, mine, hit, at, open, todo, outcome, worldVars>>

Open(x) ==
  /\ pc[x] = "open"
  /\ open' = [open EXCEPT ![x] = IF tree[at[x]] = "absent" THEN None ELSE at[x]]
  /\ Goto(x, "removing")
  /\ UNCHANGED <<tree, lock, mine, hit, at, todo, outcome, worldVars>>

\* Entries go one by one, wherever the open directory is by now.
RemoveEntry(x) ==
  /\ pc[x] \in {"removing", "discarding"}
  /\ open[x] # None
  /\ tree[open[x]] # "torn"
  /\ Put(open[x], "torn")
  /\ UNCHANGED <<lock, pc, mine, hit, at, open, todo, outcome, worldVars>>

\* A prune lets the name go; a discard is looked at again.
Removed(x) ==
  \/ pc[x] = "removing" /\ Release(x) /\ Goto(x, "pick")
  \/ pc[x] = "discarding" /\ Goto(x, "discarded") /\ UNCHANGED lock

\* Mutant: the directory that was opened goes, whatever its name is by now.
RemoveOpened(x) ==
  /\ pc[x] \in {"removing", "discarding"}
  /\ IF open[x] # None
     THEN /\ Put(open[x], "absent")
          /\ open' = [y \in Actors |-> IF open[y] = open[x] THEN None ELSE open[y]]
     ELSE UNCHANGED <<tree, open>>
  /\ Removed(x)
  /\ UNCHANGED <<mine, hit, at, todo, outcome, worldVars>>

\* rmdir goes by the name; one that is not there any more is as good as gone.
RemoveName(x) ==
  /\ pc[x] \in {"removing", "discarding"}
  /\ IF open[x] = at[x]
     THEN /\ Put(at[x], "absent")
          /\ open' = [y \in Actors |-> IF open[y] = at[x] THEN None ELSE open[y]]
     ELSE /\ open' = [open EXCEPT ![x] = None]
          /\ UNCHANGED tree
  /\ Removed(x)
  /\ UNCHANGED <<mine, hit, at, todo, outcome, worldVars>>

\* An entry cannot be unlinked, or the directory keeps being filled.
RemoveFails(x) ==
  /\ pc[x] \in {"removing", "discarding"}
  /\ open[x] # None
  /\ \/ x \in Checks /\ Fails(x)
     \/ x \in Prunes /\ UNCHANGED worldVars
  /\ open' = [open EXCEPT ![x] = None]
  /\ Removed(x)
  /\ UNCHANGED <<tree, mine, hit, at, todo, outcome>>

-----------------------------------------------------------------------------
\* A killed process loses its locks and leaves its temporary directory.
Crash(x) ==
  /\ pc[x] # "done"
  /\ crashes < Crashes
  /\ crashes' = crashes + 1
  /\ left' = left \cup ({x} \cap Checks)
  /\ Release(x)
  /\ open' = [open EXCEPT ![x] = None]
  /\ Goto(x, "done")
  /\ UNCHANGED <<tree, mine, hit, at, todo, outcome, excused, failures>>

CheckStep(c) ==
  \/ LockCache(c) \/ Look(c) \/ Copy(c) \/ Validate(c) \/ Touch(c) \/ Discard(c)
  \/ Discarded(c) \/ Fetch(c) \/ Plan(c) \/ Complete(c) \/ Store(c) \/ Mkdir(c)
  \/ Fill(c) \/ Promote(c) \/ Stored(c) \/ Cleanup(c) \/ ReleaseCache(c)

PruneStep(x) == List(x) \/ Pick(x) \/ Await(x) \/ Open(x)

Rest ==
  /\ \A x \in Actors : pc[x] = "done"
  /\ UNCHANGED vars

Next ==
  \/ \E c \in Checks : CheckStep(c) \/ CheckFails(c)
  \/ \E x \in Prunes : PruneStep(x)
  \/ \E x \in Actors : RemoveEntry(x) \/ RemoveName(x) \/ RemoveFails(x) \/ Crash(x)
  \/ Rest

Spec == Init /\ [][Next]_vars

\* Processes are scheduled and a released lock is granted.
FairSpec ==
  /\ Spec
  /\ \A c \in Checks : WF_vars(CheckStep(c))
  /\ \A x \in Prunes : WF_vars(PruneStep(x))
  /\ \A x \in Actors : WF_vars(RemoveName(x))
-----------------------------------------------------------------------------
(* Properties.                                                             *)

\* A check that counts as a hit has every object it needs in its own copy,
\* whatever is done to the cache while it reads and afterwards.
HitIsWhole ==
  \A c \in Checks : hit[c] /\ pc[c] \in {"plan", "complete", "release"} => mine[c] = "whole"

\* A cache that a crash or a prune has damaged never fails a check: it is
\* discarded and fetched anew, and an error has a cause outside the cache.
DamageNeverFails == \A c \in Checks : outcome[c] = "error" => c \in excused

\* The name of the cache is only ever emptied by the holder of its lock, even
\* by a prune whose directory became the cache while it was removing it.
RemovedUnderLock ==
  [][tree[Cache] # "absent" /\ tree'[Cache] = "absent" =>
       \E x \in Actors : lock[Cache] = x /\ at[x] = Cache]_vars

\* Only a check that was killed, or that could not remove its directory at
\* the end of a store, leaves a temporary directory behind: a failed or raced
\* store by itself leaves none, nor does a prune bring one back.
TemporariesGone ==
  \A c \in Checks : pc[c] = "done" /\ tree[c] # "absent" => c \in left

\* Every check and every prune ends.
AllEnd == \A x \in Actors : <>(pc[x] = "done")
=============================================================================
