--------------------------- MODULE ProbeWorkflow ---------------------------
(***************************************************************************)
(* workflow.check_repository: look for a known PASS, take the probe lock,  *)
(* look again, compile the plan, run its steps under evidence locks,       *)
(* write the receipt and the PASS index, and leave maintenance behind.     *)
(* Any number of processes do this over one cache, prune it by hand, fail  *)
(* and crash; EvidenceStore holds the files, the locks and the prune.      *)
(***************************************************************************)
EXTENDS EvidenceStore

CONSTANTS
  Alternatives,  \* Alternatives[d]: d under each runner that may turn out ready
  CacheModes,    \* the use_cache arguments callers pass
  Triggers,      \* what may start a prune: "manual", "reserve", "automatic"
  Seeded,        \* destinations whose PASS evidence an earlier session left
  MaxStarts,     \* bound: commands started over a behaviour
  MaxCrashes     \* bound: processes killed over a behaviour

ASSUME WorkflowAssumption ==
  /\ Alternatives \in [Dests -> SUBSET Dests]
  /\ CacheModes \subseteq BOOLEAN
  /\ Triggers \subseteq {"manual", "reserve", "automatic"}
  /\ Seeded \subseteq Dests
  /\ \A d, e \in Seeded : KeyOf[d] = KeyOf[e] => d = e
  /\ MaxStarts \in Nat /\ MaxCrashes \in Nat

VARIABLES
  req,        \* the destination a check works towards
  useCache,   \* its use_cache argument
  found,      \* the destination it read from an index
  step,       \* the plan step it runs
  outcome,    \* the verdict of its run
  answer,     \* what it returns: a kind and a destination
  proven,     \* history: destinations whose steps have all passed
  starts, crashes

checkVars == <<req, useCache, found, step, outcome>>
countVars == <<proven, starts, crashes>>
vars == <<storeVars, lockVars, pruneVars, checkVars, countVars, pc, answer>>

LookupPc  == {"index1", "receipt1", "index2", "receipt2", "index3", "receipt3"}
ReservePc == {"reserve", "reserve2", "reserve3"}
RunPc     == {"locklog", "run", "write", "publish", "unlock"}
CheckPc   == LookupPc \cup ReservePc \cup RunPc \cup
             {"touch", "select", "probe", "plan", "touchplan", "lockjson",
              "maintain", "return"}
Labels    == {"idle"} \cup PrunePc \cup CheckPc
Answer    == [kind : {"none", "cached", "pass", "fail", "error"},
              dest : Dests \cup {None}]
NoAnswer  == [kind |-> "none", dest |-> None]

Key(p)  == KeyOf[req[p]]
Executing(p) == pc[p] \in RunPc

TypeOK ==
  /\ StoreTypeOK
  /\ pc \in [Procs -> Labels]
  /\ req \in [Procs -> Dests \cup {None}]
  /\ useCache \in [Procs -> BOOLEAN]
  /\ found \in [Procs -> Dests \cup {None}]
  /\ step \in [Procs -> Steps]
  /\ outcome \in [Procs -> {"pass", "fail"}]
  /\ answer \in [Procs -> Answer]
  /\ proven \in SUBSET Dests
  /\ starts \in 0..MaxStarts /\ crashes \in 0..MaxCrashes

Init ==
  /\ receipt = [d \in Dests |-> IF d \in Seeded THEN "pass" ELSE "none"]
  /\ log = [d \in Dests |-> [i \in Steps |-> IF d \in Seeded THEN "pass" ELSE "none"]]
  /\ index = [k \in Keys |-> IF \E d \in Seeded : KeyOf[d] = k
                             THEN CHOOSE d \in Seeded : KeyOf[d] = k ELSE None]
  /\ probeLock = [k \in Keys |-> None]
  /\ fileLock = [d \in Dests |-> [f \in File |-> None]]
  /\ pruneLock = None
  /\ pc = [p \in Procs |-> "idle"]
  /\ ret = [p \in Procs |-> "idle"]
  /\ scan = [p \in Procs |-> {}]
  /\ target = [p \in Procs |-> None]
  /\ victims = [p \in Procs |-> {}]
  /\ entry = [p \in Procs |-> NoEntry]
  /\ renewed = [p \in Procs |-> {}]
  /\ req = [p \in Procs |-> None]
  /\ useCache = [p \in Procs |-> FALSE]
  /\ found = [p \in Procs |-> None]
  /\ step = [p \in Procs |-> 1]
  /\ outcome = [p \in Procs |-> "pass"]
  /\ answer = [p \in Procs |-> NoAnswer]
  /\ proven = Seeded
  /\ starts = 0 /\ crashes = 0

-----------------------------------------------------------------------------
(* Commands.                                                               *)

\* A check of a resolved target; --no-cache skips every lookup.
StartCheck(p) ==
  /\ pc[p] = "idle"
  /\ starts < MaxStarts
  /\ starts' = starts + 1
  /\ \E d \in Dests, c \in CacheModes :
       /\ req' = [req EXCEPT ![p] = d]
       /\ useCache' = [useCache EXCEPT ![p] = c]
       /\ Goto(p, IF c THEN "index1" ELSE "select")
  /\ answer' = [answer EXCEPT ![p] = NoAnswer]
  /\ UNCHANGED <<storeVars, lockVars, pruneVars, found, step, outcome, proven, crashes>>

\* gh freshclone cache prune: no maintenance lock is taken.
StartPrune(p) ==
  /\ pc[p] = "idle"
  /\ "manual" \in Triggers
  /\ starts < MaxStarts
  /\ starts' = starts + 1
  /\ BeginPrune(p, "idle")
  /\ answer' = [answer EXCEPT ![p] = NoAnswer]
  /\ UNCHANGED <<storeVars, lockVars, checkVars, proven, crashes>>

-----------------------------------------------------------------------------
(* read_indexed_pass_receipt, called for the preferred runner, for the     *)
(* ready runner when it differs, and once more under the probe lock.       *)

ReceiptPc == [index1 |-> "receipt1", index2 |-> "receipt2", index3 |-> "receipt3"]

MissPc == [index1 |-> "select", index2 |-> "probe", index3 |-> "reserve",
           receipt1 |-> "select", receipt2 |-> "probe", receipt3 |-> "reserve"]

ReadIndex(p) ==
  /\ pc[p] \in {"index1", "index2", "index3"}
  /\ \/ /\ index[Key(p)] \in Dests
        /\ found' = [found EXCEPT ![p] = index[Key(p)]]
        /\ Goto(p, ReceiptPc[pc[p]])
     \/ /\ index[Key(p)] \notin Dests
        /\ Goto(p, MissPc[pc[p]])
        /\ UNCHANGED found
  /\ UNCHANGED <<storeVars, lockVars, pruneVars, req, useCache, step, outcome,
                 countVars, answer>>

\* Mutant: any receipt file will do.
AnyReceipt(d) == receipt[d] # "none"

\* read_pass_receipt: a readable, current receipt whose status is pass.
PassReceipt(d) == receipt[d] = "pass"

\* An indexed receipt has to agree with the request on everything in the key.
Usable(p, d) == PassReceipt(d) /\ KeyOf[d] = Key(p)

ReadReceipt(p) ==
  /\ pc[p] \in {"receipt1", "receipt2", "receipt3"}
  /\ \/ /\ Usable(p, found[p])
        /\ answer' = [answer EXCEPT ![p] = [kind |-> "cached", dest |-> found[p]]]
        /\ Goto(p, "touch")
        /\ UNCHANGED found
     \/ /\ ~Usable(p, found[p])
        /\ Goto(p, MissPc[pc[p]])
        /\ found' = [found EXCEPT ![p] = None]
        /\ UNCHANGED answer
  /\ UNCHANGED <<storeVars, lockVars, pruneVars, req, useCache, step, outcome, countVars>>

\* _touch_cache_file: a file unlinked between its stat and its touch comes
\* back empty.  The index is touched only when the hit came through it.
Touch(p) ==
  LET d == found[p] IN
  /\ pc[p] \in {"touch", "touchplan"}
  /\ receipt' \in {receipt} \cup
       (IF receipt[d] = "none" THEN {[receipt EXCEPT ![d] = "junk"]} ELSE {})
  /\ index' \in {index} \cup
       (IF pc[p] = "touch" /\ index[Key(p)] = None
        THEN {[index EXCEPT ![Key(p)] = Bad]} ELSE {})
  /\ found' = [found EXCEPT ![p] = None]
  /\ Goto(p, "return")
  /\ UNCHANGED <<log, lockVars, pruneVars, req, useCache, step, outcome, countVars, answer>>

\* select_runner may fall back to another runner, which is another key.
SelectRunner(p) ==
  /\ pc[p] = "select"
  /\ \E d \in Alternatives[req[p]] :
       /\ req' = [req EXCEPT ![p] = d]
       /\ Goto(p, IF useCache[p] /\ KeyOf[d] # Key(p) THEN "index2" ELSE "probe")
  /\ UNCHANGED <<storeVars, lockVars, pruneVars, useCache, found, step, outcome,
                 countVars, answer>>

\* Mutant: the probe lock excludes nobody.
AcquireNothing(p) ==
  /\ pc[p] = "probe"
  /\ Goto(p, IF useCache[p] THEN "index3" ELSE "reserve")
  /\ UNCHANGED <<storeVars, lockVars, pruneVars, checkVars, countVars, answer>>

\* Mutant: no second look under the probe lock.
AcquireOnce(p) ==
  /\ pc[p] = "probe"
  /\ probeLock[Key(p)] = None
  /\ probeLock' = [probeLock EXCEPT ![Key(p)] = p]
  /\ Goto(p, "reserve")
  /\ UNCHANGED <<storeVars, fileLock, pruneLock, pruneVars, checkVars, countVars, answer>>

AcquireProbe(p) ==
  /\ pc[p] = "probe"
  /\ probeLock[Key(p)] = None
  /\ probeLock' = [probeLock EXCEPT ![Key(p)] = p]
  /\ Goto(p, IF useCache[p] THEN "index3" ELSE "reserve")
  /\ UNCHANGED <<storeVars, fileLock, pruneLock, pruneVars, checkVars, countVars, answer>>

-----------------------------------------------------------------------------
(* _check_resolved_repository, all of it under the probe lock.             *)

\* ensure_storage_reserve: go on, or prune at most twice, then give up (Abort).
Reserve(p) ==
  /\ pc[p] \in ReservePc
  /\ \/ /\ Goto(p, "plan")
        /\ UNCHANGED pruneVars
     \/ /\ "reserve" \in Triggers
        /\ pc[p] # "reserve3"
        /\ BeginPrune(p, IF pc[p] = "reserve" THEN "reserve2" ELSE "reserve3")
  /\ UNCHANGED <<storeVars, lockVars, checkVars, countVars, answer>>

\* Mutant: the index is trusted to know every PASS.
PlanBlind(p) ==
  /\ pc[p] = "plan"
  /\ Goto(p, "lockjson")
  /\ UNCHANGED <<storeVars, lockVars, pruneVars, checkVars, countVars, answer>>

\* The plan fixes the destination, whose receipt may already be a PASS; it is
\* read without its lock and the index is not written again.
Plan(p) ==
  /\ pc[p] = "plan"
  /\ \/ /\ useCache[p] /\ PassReceipt(req[p])
        /\ answer' = [answer EXCEPT ![p] = [kind |-> "cached", dest |-> req[p]]]
        /\ found' = [found EXCEPT ![p] = req[p]]
        /\ Goto(p, "touchplan")
     \/ /\ ~(useCache[p] /\ PassReceipt(req[p]))
        /\ Goto(p, "lockjson")
        /\ UNCHANGED <<answer, found>>
  /\ UNCHANGED <<storeVars, lockVars, pruneVars, req, useCache, step, outcome, countVars>>

LockReceipt(p) ==
  /\ pc[p] = "lockjson"
  /\ fileLock[req[p]][Json] = None
  /\ fileLock' = [fileLock EXCEPT ![req[p]][Json] = p]
  /\ step' = [step EXCEPT ![p] = 1]
  /\ Goto(p, "locklog")
  /\ UNCHANGED <<storeVars, probeLock, pruneLock, pruneVars, req, useCache, found,
                 outcome, countVars, answer>>

\* The log is locked, then truncated; its lock is kept with the others.
LockLog(p) ==
  /\ pc[p] = "locklog"
  /\ fileLock[req[p]][step[p]] = None
  /\ fileLock' = [fileLock EXCEPT ![req[p]][step[p]] = p]
  /\ log' = [log EXCEPT ![req[p]][step[p]] = "open"]
  /\ Goto(p, "run")
  /\ UNCHANGED <<receipt, index, probeLock, pruneLock, pruneVars, checkVars,
                 countVars, answer>>

\* Mutant: the loop does not notice the last step.
FinishStepUnbounded(p) ==
  /\ pc[p] = "run"
  /\ log' = [log EXCEPT ![req[p]][step[p]] = "pass"]
  /\ step' = [step EXCEPT ![p] = @ + 1]
  /\ Goto(p, "locklog")
  /\ UNCHANGED <<receipt, index, lockVars, pruneVars, req, useCache, found, outcome,
                 countVars, answer>>

\* The first step that does not pass ends the loop and names the verdict.
FinishStep(p) ==
  /\ pc[p] = "run"
  /\ \E verdict \in {"pass", "fail"} :
       /\ log' = [log EXCEPT ![req[p]][step[p]] = verdict]
       /\ \/ /\ verdict = "pass" /\ step[p] < NumSteps
             /\ step' = [step EXCEPT ![p] = @ + 1]
             /\ Goto(p, "locklog")
             /\ UNCHANGED outcome
          \/ /\ verdict = "fail" \/ step[p] = NumSteps
             /\ outcome' = [outcome EXCEPT ![p] = verdict]
             /\ Goto(p, "write")
             /\ UNCHANGED step
  /\ UNCHANGED <<receipt, index, lockVars, pruneVars, req, useCache, found,
                 countVars, answer>>

\* history: a receipt written now is newer than every running prune's snapshot
Renew(d) ==
  renewed' = [q \in Procs |-> IF pc[q] \in {"victim", "lock", "remove"}
                              THEN renewed[q] \cup {d} ELSE renewed[q]]

\* Mutant: the index is written before the receipt it names.
WriteIndexFirst(p) ==
  /\ pc[p] = "write"
  /\ IF outcome[p] = "pass" /\ index[Key(p)] # req[p]
     THEN /\ index' = [index EXCEPT ![Key(p)] = req[p]]
          /\ UNCHANGED <<receipt, pc>>
     ELSE /\ receipt' = [receipt EXCEPT ![req[p]] = outcome[p]]
          /\ Goto(p, IF outcome[p] = "pass" THEN "publish" ELSE "unlock")
          /\ UNCHANGED index
  /\ UNCHANGED <<log, lockVars, pruneVars, checkVars, countVars, answer>>

\* write_receipt: the receipt is replaced atomically, then (on a pass) the index.
WriteReceipt(p) ==
  /\ pc[p] = "write"
  /\ receipt' = [receipt EXCEPT ![req[p]] = outcome[p]]
  /\ proven' = IF \A i \in Steps : log[req[p]][i] = "pass"
               THEN proven \cup {req[p]} ELSE proven
  /\ Renew(req[p])
  /\ Goto(p, IF outcome[p] = "pass" THEN "publish" ELSE "unlock")
  /\ UNCHANGED <<log, index, lockVars, ret, scan, target, victims, entry, checkVars,
                 starts, crashes, answer>>

WriteIndex(p) ==
  /\ pc[p] = "publish"
  /\ index' = [index EXCEPT ![Key(p)] = req[p]]
  /\ Goto(p, "unlock")
  /\ UNCHANGED <<receipt, log, lockVars, pruneVars, checkVars, countVars, answer>>

ReleaseEvidence(p) ==
  /\ pc[p] = "unlock"
  /\ ReleaseFiles(p)
  /\ answer' = [answer EXCEPT ![p] = [kind |-> outcome[p], dest |-> req[p]]]
  /\ step' = [step EXCEPT ![p] = 1]
  /\ outcome' = [outcome EXCEPT ![p] = "pass"]
  /\ Goto(p, "maintain")
  /\ UNCHANGED <<storeVars, probeLock, pruneLock, pruneVars, req, useCache, found, countVars>>

\* maybe_prune_cache: under the maintenance lock, prune when a day or a limit
\* says so; the probe lock is still held.
Maintain(p) ==
  /\ pc[p] = "maintain"
  /\ pruneLock = None
  /\ \/ /\ Goto(p, "return")
        /\ UNCHANGED <<pruneLock, pruneVars>>
     \/ /\ "automatic" \in Triggers
        /\ pruneLock' = p
        /\ BeginPrune(p, "return")
  /\ UNCHANGED <<storeVars, probeLock, fileLock, checkVars, countVars, answer>>

\* Leaving the with-blocks releases whatever is still held.
Return(p) ==
  /\ pc[p] = "return"
  /\ ReleaseAll(p)
  /\ useCache' = [useCache EXCEPT ![p] = FALSE]
  /\ Goto(p, "idle")
  /\ UNCHANGED <<storeVars, pruneVars, req, found, step, outcome, countVars, answer>>

-----------------------------------------------------------------------------
(* Failures.                                                               *)

\* Mutant: an error leaves the locks of the evidence to nobody.
AbortHolds(p) ==
  /\ pc[p] \in {"select", "reserve2", "reserve3", "plan", "locklog", "run"}
  /\ ReleaseProbe(p)
  /\ answer' = [answer EXCEPT ![p] = [kind |-> "error", dest |-> None]]
  /\ step' = [step EXCEPT ![p] = 1]
  /\ useCache' = [useCache EXCEPT ![p] = FALSE]
  /\ Goto(p, "idle")
  /\ UNCHANGED <<storeVars, fileLock, pruneLock, pruneVars, req, found, outcome, countVars>>

\* No ready runner, no free space, no plan, a failed fetch or a runner that
\* cannot start: the exception unwinds every lock.
Abort(p) ==
  /\ pc[p] \in {"select", "reserve2", "reserve3", "plan", "locklog", "run"}
  /\ ReleaseAll(p)
  /\ answer' = [answer EXCEPT ![p] = [kind |-> "error", dest |-> None]]
  /\ step' = [step EXCEPT ![p] = 1]
  /\ useCache' = [useCache EXCEPT ![p] = FALSE]
  /\ Goto(p, "idle")
  /\ UNCHANGED <<storeVars, pruneVars, req, found, outcome, countVars>>

\* maybe_prune_cache swallows OSError and ValueError; the check still answers.
MaintenanceFails(p) ==
  /\ pc[p] \in PrunePc
  /\ ret[p] = "return"
  /\ ReleaseFiles(p)
  /\ ReleasePrune(p)
  /\ ResetPrune(p)
  /\ Goto(p, "return")
  /\ UNCHANGED <<storeVars, probeLock, checkVars, countVars, answer>>

\* A killed process leaves its files as they are and loses its locks.
Crash(p) ==
  /\ pc[p] # "idle"
  /\ crashes < MaxCrashes
  /\ crashes' = crashes + 1
  /\ ReleaseAll(p)
  /\ ResetPrune(p)
  /\ req' = [req EXCEPT ![p] = None]
  /\ useCache' = [useCache EXCEPT ![p] = FALSE]
  /\ found' = [found EXCEPT ![p] = None]
  /\ step' = [step EXCEPT ![p] = 1]
  /\ outcome' = [outcome EXCEPT ![p] = "pass"]
  /\ answer' = [answer EXCEPT ![p] = NoAnswer]
  /\ Goto(p, "idle")
  /\ UNCHANGED <<storeVars, proven, starts>>

-----------------------------------------------------------------------------
CheckStep(p) ==
  \/ ReadIndex(p) \/ ReadReceipt(p) \/ Touch(p) \/ SelectRunner(p)
  \/ AcquireProbe(p) \/ Reserve(p) \/ Plan(p) \/ LockReceipt(p) \/ LockLog(p)
  \/ FinishStep(p) \/ WriteReceipt(p) \/ WriteIndex(p) \/ ReleaseEvidence(p)
  \/ Maintain(p) \/ Return(p)

Prune(p) == PruneStep(p) /\ UNCHANGED <<checkVars, countVars, answer>>

\* Every bounded command has been given and has ended.
Rest ==
  /\ starts = MaxStarts
  /\ \A p \in Procs : pc[p] = "idle"
  /\ UNCHANGED vars

Next ==
  \/ \E p \in Procs :
       \/ StartCheck(p) \/ StartPrune(p)
       \/ CheckStep(p) \/ Prune(p)
       \/ Abort(p) \/ MaintenanceFails(p) \/ Crash(p)
  \/ Rest

Spec == Init /\ [][Next]_vars

\* Processes are scheduled, a released flock is granted, containers end.
FairSpec == Spec /\ \A p \in Procs : WF_vars(CheckStep(p) \/ Prune(p))
-----------------------------------------------------------------------------
(* Properties.                                                             *)

\* Single flight: two processes never execute plans of one probe key at the
\* same time (the probe lock is held from before the last lookup to the end).
SingleFlight ==
  \A p, q \in Procs : Executing(p) /\ Executing(q) /\ Key(p) = Key(q) => p = q

\* README: "concurrent agents neither ... nor duplicate a known PASS build".
\* While a check that may use the cache executes, no PASS is known for it,
\* neither at its own destination nor through the index of its key.
KnownPassNotRebuilt ==
  \A p \in Procs :
    pc[p] \in {"lockjson", "locklog", "run", "write"} /\ useCache[p] =>
      /\ receipt[req[p]] # "pass"
      /\ index[Key(p)] \in Dests => receipt[index[Key(p)]] # "pass"

\* A cached answer is one whose plan really ran to an all-pass end, for the
\* very key (repository, commit, runner, limits, network) that was asked for.
CachedAnswerProven ==
  \A p \in Procs : answer[p].kind = "cached" =>
    answer[p].dest \in proven /\ KeyOf[answer[p].dest] = Key(p)

\* The files of a running check stay until it lets go of them: no prune takes
\* a log or the receipt from under it.
InUseEvidenceKept ==
  \A p \in Procs : Executing(p) =>
    /\ \A i \in Steps : i < step[p] => log[req[p]][i] = "pass"
    /\ pc[p] = "run" => log[req[p]][step[p]] = "open"
    /\ pc[p] \in {"write", "publish", "unlock"} =>
         log[req[p]][step[p]] = outcome[p]
    /\ pc[p] \in {"publish", "unlock"} => receipt[req[p]] = outcome[p]

\* Where every check may use the cache and nothing prunes, a PASS receipt has
\* beside it the complete log of every step, whatever crashed in between.
PassEvidenceWhole ==
  \A d \in Dests : receipt[d] = "pass" => \A i \in Steps : log[d][i] = "pass"

\* An index that exists is readable and names a receipt that exists.
NamesReceipt(k) ==
  /\ index[k] # Bad
  /\ index[k] \in Dests => receipt[index[k]] # "none"

\* Without a prune an index never names a missing receipt, even after a crash
\* between the two writes of write_receipt.
IndexNeverDangles == \A k \in Keys : NamesReceipt(k)

\* Every command ends: locks are taken in an order in which somebody can
\* always go on, and every path gives them back.
CommandsEnd == \A p \in Procs : (pc[p] # "idle") ~> (pc[p] = "idle")

\* When a prune that nothing disturbs ends, no index it leaves is malformed
\* or dangling, whatever an earlier killed prune left behind.
PruneLeavesNoDangling ==
  [][\A p \in Procs : EndPrune(p) => \A k \in Keys : NamesReceipt(k)]_vars

\* A prune that waits for evidence in use goes on when it is released.
PruneEnds == \A p \in Procs : (pc[p] \in PrunePc) ~> (pc[p] \notin PrunePc)

\* Two prunes never wait for each other: both lock the files of an entry in the
\* order of their names.
WaitsFor(p, q) ==
  /\ pc[p] = "lock"
  /\ \E f \in Unlocked(p) :
       /\ \A g \in Unlocked(p) : SortRank(f) <= SortRank(g)
       /\ fileLock[entry[p].dest][f] = q
PrunesNeverCross ==
  \A p, q \in Procs : pc[q] = "lock" /\ WaitsFor(p, q) => ~WaitsFor(q, p)

\* "race-free LRU pruning": a prune removes no receipt that was written after
\* the snapshot in which it judged that receipt old or superfluous.
RenewedEvidenceSpared ==
  [][\A p \in Procs : RemoveVictim(p) /\ Json \in entry[p].files =>
       entry[p].dest \notin renewed[p]]_vars

\* The detailed workflow implements BaselineLedger.
Execution(k) ==
  IF \E p \in Procs : Executing(p) /\ Key(p) = k
  THEN LET p == CHOOSE q \in Procs : Executing(q) /\ Key(q) = k
       IN  [dest |-> req[p], forced |-> ~useCache[p]]
  ELSE [dest |-> None, forced |-> FALSE]

Ledger == INSTANCE BaselineLedger WITH
  stored  <- {d \in Dests : receipt[d] = "pass"},
  indexed <- [k \in Keys |-> IF index[k] \in Dests THEN index[k] ELSE None],
  running <- [k \in Keys |-> Execution(k)],
  served  <- [p \in Procs |-> IF answer[p].kind = "cached" THEN answer[p].dest ELSE None]

ImplementsLedger == Ledger!Spec
=============================================================================
