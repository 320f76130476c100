--------------------------- MODULE EvidenceStore ---------------------------
(***************************************************************************)
(* The part of the application cache that holds evidence: for every        *)
(* destination (one plan, runner and limits) a receipt and one log per     *)
(* step, and for every probe key a PASS index naming a destination.        *)
(* receipts.py writes these files, cache.py prunes them, and both guard    *)
(* them with per-resource flock files.  This module owns the files, the    *)
(* locks and the prune procedure; ProbeWorkflow runs checks over it.       *)
(***************************************************************************)
EXTENDS Integers, FiniteSets

CONSTANTS
  Procs,      \* operating-system processes (or threads) using one cache root
  Keys,       \* probe identities: repository, commit, profile, runner, ...
  Dests,      \* receipt destinations: a key together with one plan digest
  KeyOf,      \* the key a destination belongs to
  NumSteps,   \* steps of every plan
  None,       \* no holder, no file, no destination
  Bad         \* an index file whose JSON is malformed

ASSUME StoreAssumption ==
  /\ KeyOf \in [Dests -> Keys]
  /\ NumSteps \in Nat \ {0}
  /\ None \notin Procs \cup Keys \cup Dests \cup {Bad}
  /\ Bad \notin Dests

Steps == 1..NumSteps
Json  == 0
File  == 0..NumSteps   \* the receipt, then the step logs

VARIABLES
  receipt,    \* receipt[d]: "none", "junk" (unreadable or old), "pass", "fail"
  log,        \* log[d][i]: "none", "open" (unfinished), "pass", "fail"
  index,      \* index[k]: None, Bad, or the destination it names
  probeLock,  \* probeLock[k]: who holds the probe lock of k
  fileLock,   \* fileLock[d][f]: who holds the path lock of an evidence file
  pruneLock,  \* who holds the automatic-maintenance lock
  pc,         \* control point of every process
  ret,        \* where a process continues after its prune
  scan,       \* index files a prune has still to look at
  target,     \* the index file it is about to unlink
  victims,    \* evidence entries it has still to remove
  entry,      \* the entry it is locking or removing
  renewed     \* history: receipts written since its snapshot

storeVars == <<receipt, log, index>>
lockVars  == <<probeLock, fileLock, pruneLock>>
pruneVars == <<ret, scan, target, victims, entry, renewed>>

Holder    == Procs \cup {None}
Entry     == [dest : Dests, files : SUBSET File]
NoEntry   == [dest |-> None, files |-> {}]
PrunePc   == {"scan1", "unlink1", "victim", "lock", "remove", "scan2", "unlink2"}
Returns   == {"idle", "reserve2", "reserve3", "return"}

StoreTypeOK ==
  /\ receipt \in [Dests -> {"none", "junk", "pass", "fail"}]
  /\ log \in [Dests -> [Steps -> {"none", "open", "pass", "fail"}]]
  /\ index \in [Keys -> Dests \cup {None, Bad}]
  /\ probeLock \in [Keys -> Holder]
  /\ fileLock \in [Dests -> [File -> Holder]]
  /\ pruneLock \in Holder
  /\ ret \in [Procs -> Returns]
  /\ scan \in [Procs -> SUBSET Keys]
  /\ target \in [Procs -> Keys \cup {None}]
  /\ victims \in [Procs -> SUBSET Entry]
  /\ entry \in [Procs -> Entry \cup {NoEntry}]
  /\ renewed \in [Procs -> SUBSET Dests]

-----------------------------------------------------------------------------
(* Locks.  An advisory flock on a file of its own per resource; the        *)
(* operating system drops a lock with the descriptor of its holder.        *)

Goto(p, label) == pc' = [pc EXCEPT ![p] = label]

ReleaseFiles(p) ==
  fileLock' = [d \in Dests |-> [f \in File |->
                 IF fileLock[d][f] = p THEN None ELSE fileLock[d][f]]]

ReleaseProbe(p) ==
  probeLock' = [k \in Keys |-> IF probeLock[k] = p THEN None ELSE probeLock[k]]

ReleasePrune(p) == pruneLock' = IF pruneLock = p THEN None ELSE pruneLock

ReleaseAll(p) == ReleaseFiles(p) /\ ReleaseProbe(p) /\ ReleasePrune(p)

-----------------------------------------------------------------------------
(* _prune_cache_unlocked over evidence: sweep dangling indexes, take a     *)
(* snapshot of the evidence, remove what the limits condemn, sweep again.  *)

ResetPrune(p) ==
  /\ ret' = [ret EXCEPT ![p] = "idle"]
  /\ scan' = [scan EXCEPT ![p] = {}]
  /\ target' = [target EXCEPT ![p] = None]
  /\ victims' = [victims EXCEPT ![p] = {}]
  /\ entry' = [entry EXCEPT ![p] = NoEntry]
  /\ renewed' = [renewed EXCEPT ![p] = {}]

\* _index_files: a sweep goes over the index files it finds at its start.
IndexFiles == {k \in Keys : index[k] # None}

\* The caller's part of entering prune_cache; back is where it continues.
BeginPrune(p, back) ==
  /\ Goto(p, "scan1")
  /\ ret' = [ret EXCEPT ![p] = back]
  /\ scan' = [scan EXCEPT ![p] = IndexFiles]
  /\ UNCHANGED <<target, victims, entry, renewed>>

\* Mutant: a sweep that forgives a missing receipt.
MalformedOnly(k) == index[k] = Bad

Dangling(k) ==
  \/ index[k] = Bad
  \/ index[k] \in Dests /\ receipt[index[k]] = "none"

\* One index file is read and judged; nothing is locked.  A file that has
\* gone since the listing cannot be read, and is judged like a malformed one.
Condemned(k) == index[k] = None \/ Dangling(k)

ScanIndex(p) ==
  /\ pc[p] \in {"scan1", "scan2"}
  /\ \E k \in scan[p] :
       /\ scan' = [scan EXCEPT ![p] = @ \ {k}]
       /\ \/ /\ Condemned(k)
             /\ target' = [target EXCEPT ![p] = k]
             /\ Goto(p, IF pc[p] = "scan1" THEN "unlink1" ELSE "unlink2")
          \/ /\ ~Condemned(k)
             /\ UNCHANGED <<target, pc>>
  /\ UNCHANGED <<storeVars, lockVars, ret, victims, entry, renewed>>

\* The index judged dangling is unlinked, whatever it says by now.
UnlinkIndex(p) ==
  /\ pc[p] \in {"unlink1", "unlink2"}
  /\ index' = [index EXCEPT ![target[p]] = None]
  /\ target' = [target EXCEPT ![p] = None]
  /\ Goto(p, IF pc[p] = "unlink1" THEN "scan1" ELSE "scan2")
  /\ UNCHANGED <<receipt, log, lockVars, ret, scan, victims, entry, renewed>>

LogsOf(d) == {i \in Steps : log[d][i] # "none"}

\* A receipt claims the logs beside it; a log without a receipt stands alone.
EntriesOf(d) ==
  IF receipt[d] # "none"
  THEN {[dest |-> d, files |-> {Json} \cup LogsOf(d)]}
  ELSE {[dest |-> d, files |-> {i}] : i \in LogsOf(d)}

Entries == UNION {EntriesOf(d) : d \in Dests}
Stale(e) == Json \in e.files /\ receipt[e.dest] = "junk"

\* Age, count and byte limits over arbitrary times and sizes condemn any
\* entries; incompatible or unreadable ones are always condemned.
Snapshot(p) ==
  /\ pc[p] = "scan1"
  /\ scan[p] = {}
  /\ \E condemned \in SUBSET Entries :
       /\ {e \in Entries : Stale(e)} \subseteq condemned
       /\ victims' = [victims EXCEPT ![p] = condemned]
  /\ renewed' = [renewed EXCEPT ![p] = {}]
  /\ Goto(p, "victim")
  /\ UNCHANGED <<storeVars, lockVars, ret, scan, target, entry>>

NextVictim(p) ==
  /\ pc[p] = "victim"
  /\ \/ \E e \in victims[p] :
          /\ entry' = [entry EXCEPT ![p] = e]
          /\ victims' = [victims EXCEPT ![p] = @ \ {e}]
          /\ Goto(p, "lock")
          /\ UNCHANGED scan
     \/ /\ victims[p] = {}
        /\ scan' = [scan EXCEPT ![p] = IndexFiles]
        /\ Goto(p, "scan2")
        /\ UNCHANGED <<entry, victims>>
  /\ UNCHANGED <<storeVars, lockVars, ret, target, renewed>>

\* sorted(entry.files, key=_normalized_lock_path): "X-1-eco.log" < "X.json".
SortRank(f) == IF f = Json THEN NumSteps + 1 ELSE f
Unlocked(p) == {f \in entry[p].files : fileLock[entry[p].dest][f] # p}

\* Mutant: the locks of an entry are taken in the order of its files, or of
\* nothing at all.
LockVictimUnsorted(p) ==
  /\ pc[p] = "lock"
  /\ \E f \in Unlocked(p) :
       /\ fileLock[entry[p].dest][f] = None
       /\ fileLock' = [fileLock EXCEPT ![entry[p].dest][f] = p]
       /\ IF Unlocked(p) = {f} THEN Goto(p, "remove") ELSE UNCHANGED pc
  /\ UNCHANGED <<storeVars, probeLock, pruneLock, pruneVars>>

\* Mutant: a prune removes its entries without their locks.
LockVictimBlind(p) ==
  /\ pc[p] = "lock"
  /\ Goto(p, "remove")
  /\ UNCHANGED <<storeVars, lockVars, pruneVars>>

LockVictim(p) ==
  /\ pc[p] = "lock"
  /\ \E f \in Unlocked(p) :
       /\ \A g \in Unlocked(p) : SortRank(f) <= SortRank(g)
       /\ fileLock[entry[p].dest][f] = None
       /\ fileLock' = [fileLock EXCEPT ![entry[p].dest][f] = p]
       /\ \/ Unlocked(p) = {f} /\ Goto(p, "remove")
          \/ Unlocked(p) # {f} /\ UNCHANGED pc
  /\ UNCHANGED <<storeVars, probeLock, pruneLock, pruneVars>>

\* The files of the entry go one by one, the receipt first; what the limits
\* said before the locks were granted is not looked at again.
RemoveVictim(p) ==
  LET d == entry[p].dest IN
  /\ pc[p] = "remove"
  /\ \E f \in entry[p].files :
       /\ \A g \in entry[p].files : f <= g
       /\ \/ /\ f = Json
             /\ receipt' = [receipt EXCEPT ![d] = "none"]
             /\ UNCHANGED log
          \/ /\ f # Json
             /\ log' = [log EXCEPT ![d][f] = "none"]
             /\ UNCHANGED receipt
       /\ \/ /\ entry[p].files = {f}
             /\ entry' = [entry EXCEPT ![p] = NoEntry]
             /\ ReleaseFiles(p)
             /\ Goto(p, "victim")
          \/ /\ entry[p].files # {f}
             /\ entry' = [entry EXCEPT ![p].files = @ \ {f}]
             /\ UNCHANGED <<fileLock, pc>>
  /\ UNCHANGED <<index, probeLock, pruneLock, ret, scan, target, victims, renewed>>

EndPrune(p) ==
  /\ pc[p] = "scan2"
  /\ scan[p] = {}
  /\ Goto(p, ret[p])
  /\ ResetPrune(p)
  /\ UNCHANGED <<storeVars, lockVars>>

PruneStep(p) ==
  \/ ScanIndex(p) \/ UnlinkIndex(p) \/ Snapshot(p) \/ NextVictim(p)
  \/ LockVictim(p) \/ RemoveVictim(p) \/ EndPrune(p)
=============================================================================
