----------------------- MODULE ProbeWorkflow_proofs -----------------------
(***************************************************************************)
(* Proofs about ProbeWorkflow, for any number of processes, keys,          *)
(* destinations and steps.                                                 *)
(***************************************************************************)
EXTENDS ProbeWorkflow, TLAPS

(* What the control point of a process points at exists.                   *)
Referents ==
  \A p \in Procs :
    /\ pc[p] \in CheckPc \/ (pc[p] \in PrunePc /\ ret[p] # "idle") => req[p] \in Dests
    /\ pc[p] \in {"receipt1", "receipt2", "receipt3", "touch", "touchplan"} =>
         found[p] \in Dests
    /\ pc[p] \in {"lock", "remove"} => entry[p] \in Entry

Typed == TypeOK /\ Referents

(* The lookup records lead from a lookup point to the points they name.    *)
LEMMA MissLabels ==
  ASSUME NEW c \in {"index1", "index2", "index3", "receipt1", "receipt2", "receipt3"}
  PROVE  /\ MissPc[c] \in {"select", "probe", "reserve"}
         /\ MissPc[c] = "select" => c \in {"index1", "receipt1"}
         /\ MissPc[c] = "reserve" => c \in {"index3", "receipt3"}
BY DEF MissPc

(* So does the record from an index read to the read of its receipt.       *)
LEMMA ReceiptLabels ==
  ASSUME NEW c \in {"index1", "index2", "index3"}
  PROVE  /\ ReceiptPc[c] \in {"receipt1", "receipt2", "receipt3"}
         /\ ReceiptPc[c] = "receipt1" => c = "index1"
         /\ ReceiptPc[c] = "receipt3" => c = "index3"
BY DEF ReceiptPc

-----------------------------------------------------------------------------
(* ReadIndex keeps the types and the referents.                            *)
LEMMA TypedReadIndex ==
  ASSUME Typed, NEW p \in Procs, ReadIndex(p)
  PROVE  Typed'
<1>1. /\ MissPc[pc[p]] \in {"select", "probe", "reserve"}
      /\ ReceiptPc[pc[p]] \in {"receipt1", "receipt2", "receipt3"}
  BY MissLabels, ReceiptLabels DEF ReadIndex
<1>2. pc' \in [Procs -> Labels]
  BY <1>1 DEF ReadIndex, Goto, Typed, TypeOK, Labels, CheckPc, LookupPc, ReservePc
<1>3. found' \in [Procs -> Dests \cup {None}]
  BY DEF ReadIndex, Typed, TypeOK
<1>4. TypeOK'
  BY <1>2, <1>3
  DEF ReadIndex, Typed, TypeOK, StoreTypeOK, storeVars, lockVars, pruneVars, countVars
<1>5. Referents'
  BY <1>1 DEF ReadIndex, Goto, Typed, TypeOK, Referents, pruneVars,
     CheckPc, LookupPc, ReservePc, RunPc, PrunePc
<1> QED BY <1>4, <1>5 DEF Typed

(* ReadReceipt keeps the types and the referents.                          *)
LEMMA TypedReadReceipt ==
  ASSUME Typed, NEW p \in Procs, ReadReceipt(p)
  PROVE  Typed'
<1>1. MissPc[pc[p]] \in {"select", "probe", "reserve"}
  BY MissLabels DEF ReadReceipt
<1>2. pc' \in [Procs -> Labels]
  BY <1>1 DEF ReadReceipt, Goto, Typed, TypeOK, Labels, CheckPc, LookupPc, ReservePc
<1>3. found' \in [Procs -> Dests \cup {None}]
  BY DEF ReadReceipt, Typed, TypeOK
<1>4. answer' \in [Procs -> Answer]
  BY DEF ReadReceipt, Typed, TypeOK, Answer
<1>5. TypeOK'
  BY <1>2, <1>3, <1>4
  DEF ReadReceipt, Typed, TypeOK, StoreTypeOK, storeVars, lockVars, pruneVars, countVars
<1>6. Referents'
  BY <1>1 DEF ReadReceipt, Goto, Typed, TypeOK, Referents, pruneVars,
     CheckPc, LookupPc, ReservePc, RunPc, PrunePc
<1> QED BY <1>5, <1>6 DEF Typed

(* Touch keeps the types and the referents.                                *)
LEMMA TypedTouch ==
  ASSUME Typed, NEW p \in Procs, Touch(p)
  PROVE  Typed'
<1>1. receipt' \in [Dests -> {"none", "junk", "pass", "fail"}]
  <2>1. receipt' = receipt \/ \E d : receipt' = [receipt EXCEPT ![d] = "junk"]
    BY DEF Touch
  <2> QED BY <2>1 DEF Typed, TypeOK, StoreTypeOK
<1>2. index' \in [Keys -> Dests \cup {None, Bad}]
  <2>1. index' = index \/ \E k : index' = [index EXCEPT ![k] = Bad]
    BY DEF Touch
  <2> QED BY <2>1 DEF Typed, TypeOK, StoreTypeOK
<1>3. TypeOK'
  BY <1>1, <1>2 DEF Touch, Goto, Typed, TypeOK, StoreTypeOK, lockVars, pruneVars, countVars,
     Labels, CheckPc
<1>4. Referents'
  BY DEF Touch, Goto, Typed, TypeOK, Referents, pruneVars,
     CheckPc, LookupPc, ReservePc, RunPc, PrunePc
<1> QED BY <1>3, <1>4 DEF Typed

(* Plan keeps the types and the referents.                                 *)
LEMMA TypedPlan ==
  ASSUME Typed, NEW p \in Procs, Plan(p)
  PROVE  Typed'
<1>1. pc' \in [Procs -> Labels]
  BY DEF Plan, Goto, Typed, TypeOK, Labels, CheckPc
<1>2. found' \in [Procs -> Dests \cup {None}]
  BY DEF Plan, Typed, TypeOK, Referents, CheckPc
<1>3. answer' \in [Procs -> Answer]
  BY DEF Plan, Typed, TypeOK, Referents, CheckPc, Answer
<1>4. TypeOK'
  BY <1>1, <1>2, <1>3
  DEF Plan, Typed, TypeOK, StoreTypeOK, storeVars, lockVars, pruneVars, countVars
<1>5. Referents'
  BY DEF Plan, Goto, Typed, TypeOK, Referents, pruneVars,
     CheckPc, LookupPc, ReservePc, RunPc, PrunePc
<1> QED BY <1>4, <1>5 DEF Typed

(* FinishStep keeps the types and the referents.                           *)
LEMMA TypedFinishStep ==
  ASSUME Typed, NEW p \in Procs, FinishStep(p)
  PROVE  Typed'
<1>1. pc' \in [Procs -> Labels]
  BY DEF FinishStep, Goto, Typed, TypeOK, Labels, CheckPc, RunPc
<1>2. step' \in [Procs -> Steps]
  BY StoreAssumption DEF FinishStep, Typed, TypeOK, Steps
<1>3. outcome' \in [Procs -> {"pass", "fail"}]
  BY DEF FinishStep, Typed, TypeOK
<1>4. log' \in [Dests -> [Steps -> {"none", "open", "pass", "fail"}]]
  <2>1. PICK v \in {"pass", "fail"} : log' = [log EXCEPT ![req[p]][step[p]] = v]
    BY DEF FinishStep
  <2> QED BY <2>1 DEF Typed, TypeOK, StoreTypeOK
<1>5. TypeOK'
  BY <1>1, <1>2, <1>3, <1>4
  DEF FinishStep, Typed, TypeOK, StoreTypeOK, lockVars, pruneVars, countVars
<1>6. Referents'
  BY DEF FinishStep, Goto, Typed, TypeOK, Referents, pruneVars,
     CheckPc, RunPc, PrunePc
<1> QED BY <1>5, <1>6 DEF Typed

(* Every step of a check keeps the types and the referents.                *)
LEMMA TypedCheckStep ==
  ASSUME Typed, NEW p \in Procs, CheckStep(p)
  PROVE  Typed'
<1> USE StoreAssumption, WorkflowAssumption
    DEF Typed, TypeOK, StoreTypeOK, Referents, Goto, storeVars, lockVars, pruneVars,
        checkVars, countVars, Labels, CheckPc, LookupPc, ReservePc, RunPc, PrunePc
<1>2. ASSUME SelectRunner(p) PROVE Typed'
  BY <1>2 DEF SelectRunner
<1>3. ASSUME AcquireProbe(p) PROVE Typed'
  BY <1>3 DEF AcquireProbe, Holder
<1>4. ASSUME Reserve(p) PROVE Typed'
  <2>1. CASE pc' = [pc EXCEPT ![p] = "plan"] /\ UNCHANGED pruneVars
    BY <1>4, <2>1 DEF Reserve
  <2>2. CASE pc[p] = "reserve" /\ BeginPrune(p, "reserve2")
    BY <1>4, <2>2 DEF Reserve, BeginPrune, IndexFiles, Returns
  <2>3. CASE pc[p] # "reserve" /\ BeginPrune(p, "reserve3")
    BY <1>4, <2>3 DEF Reserve, BeginPrune, IndexFiles, Returns
  <2> QED BY <1>4, <2>1, <2>2, <2>3 DEF Reserve
<1>5. ASSUME LockReceipt(p) PROVE Typed'
  BY <1>5 DEF LockReceipt, File, Json, Holder, Steps
<1>6. ASSUME LockLog(p) PROVE Typed'
  BY <1>6 DEF LockLog, File, Holder, Steps
<1>7. ASSUME WriteReceipt(p) PROVE Typed'
  BY <1>7 DEF WriteReceipt, Renew
<1>8. ASSUME WriteIndex(p) PROVE Typed'
  BY <1>8 DEF WriteIndex, Key
<1>9. ASSUME ReleaseEvidence(p) PROVE Typed'
  BY <1>9 DEF ReleaseEvidence, ReleaseFiles, Holder, Steps, Answer
<1>10. ASSUME Maintain(p) PROVE Typed'
  <2>1. CASE pc' = [pc EXCEPT ![p] = "return"] /\ UNCHANGED <<pruneLock, pruneVars>>
    BY <1>10, <2>1 DEF Maintain
  <2>2. CASE pruneLock' = p /\ BeginPrune(p, "return")
    BY <1>10, <2>2 DEF Maintain, BeginPrune, IndexFiles, Returns, Holder
  <2> QED BY <1>10, <2>1, <2>2 DEF Maintain
<1>11. ASSUME Return(p) PROVE Typed'
  BY <1>11 DEF Return, ReleaseAll, ReleaseFiles, ReleaseProbe, ReleasePrune, Holder
<1> QED
  BY <1>2, <1>3, <1>4, <1>5, <1>6, <1>7, <1>8, <1>9, <1>10, <1>11,
     TypedReadIndex, TypedReadReceipt, TypedTouch, TypedPlan, TypedFinishStep DEF CheckStep

-----------------------------------------------------------------------------
(* A snapshot finds nothing but evidence entries.                          *)
LEMMA EntriesAreEntries == Entries \subseteq Entry
<1> SUFFICES ASSUME NEW d \in Dests PROVE EntriesOf(d) \subseteq Entry
  BY DEF Entries
<1>1. LogsOf(d) \subseteq File
  BY StoreAssumption DEF LogsOf, Steps, File
<1> QED BY <1>1, StoreAssumption DEF EntriesOf, Entry, File, Json

(* ScanIndex and UnlinkIndex keep the types and the referents.             *)
LEMMA TypedSweep ==
  ASSUME Typed, NEW p \in Procs, ScanIndex(p) \/ UnlinkIndex(p),
         UNCHANGED <<checkVars, countVars, answer>>
  PROVE  Typed'
<1>1. pc' \in [Procs -> Labels]
  <2>1. pc \in [Procs -> Labels] /\ PrunePc \subseteq Labels
    BY DEF Typed, TypeOK, Labels
  <2>2. CASE ScanIndex(p)
    BY <2>1, <2>2 DEF ScanIndex, Goto, PrunePc
  <2>3. CASE UnlinkIndex(p)
    BY <2>1, <2>3 DEF UnlinkIndex, Goto, PrunePc
  <2> QED BY <2>2, <2>3
<1>2. scan' \in [Procs -> SUBSET Keys]
  <2>1. scan \in [Procs -> SUBSET Keys]
    BY DEF Typed, TypeOK, StoreTypeOK
  <2>2. CASE ScanIndex(p)
    <3>1. scan' = scan \/ \E k : scan' = [scan EXCEPT ![p] = @ \ {k}]
      BY <2>2 DEF ScanIndex
    <3> QED BY <2>1, <3>1
  <2>3. CASE UnlinkIndex(p)
    BY <2>1, <2>3 DEF UnlinkIndex
  <2> QED BY <2>2, <2>3
<1>3. target' \in [Procs -> Keys \cup {None}]
  BY DEF ScanIndex, UnlinkIndex, Typed, TypeOK, StoreTypeOK
<1>4. index' \in [Keys -> Dests \cup {None, Bad}]
  BY DEF ScanIndex, UnlinkIndex, Typed, TypeOK, StoreTypeOK, storeVars
<1>5. TypeOK'
  BY <1>1, <1>2, <1>3, <1>4 DEF ScanIndex, UnlinkIndex, Typed, TypeOK, StoreTypeOK,
     storeVars, lockVars, checkVars, countVars
<1>6. Referents'
  BY DEF ScanIndex, UnlinkIndex, Goto, Typed, TypeOK, Referents, checkVars,
     PrunePc, CheckPc, LookupPc, ReservePc, RunPc
<1> QED BY <1>5, <1>6 DEF Typed

(* Snapshot and NextVictim keep the types and the referents.               *)
LEMMA TypedJudge ==
  ASSUME Typed, NEW p \in Procs, Snapshot(p) \/ NextVictim(p),
         UNCHANGED <<checkVars, countVars, answer>>
  PROVE  Typed'
<1>1. pc' \in [Procs -> Labels]
  BY DEF Snapshot, NextVictim, Goto, Typed, TypeOK, Labels, PrunePc
<1>2. scan' \in [Procs -> SUBSET Keys]
  BY DEF Snapshot, NextVictim, IndexFiles, Typed, TypeOK, StoreTypeOK
<1>3. victims' \in [Procs -> SUBSET Entry]
  <2>1. CASE Snapshot(p)
    <3>1. PICK condemned \in SUBSET Entries : victims' = [victims EXCEPT ![p] = condemned]
      BY <2>1 DEF Snapshot
    <3> QED BY <3>1, EntriesAreEntries DEF Typed, TypeOK, StoreTypeOK
  <2>2. CASE NextVictim(p)
    <3>1. victims' = victims \/ \E e : victims' = [victims EXCEPT ![p] = @ \ {e}]
      BY <2>2 DEF NextVictim
    <3> QED BY <3>1 DEF Typed, TypeOK, StoreTypeOK
  <2> QED BY <2>1, <2>2
<1>4. entry' \in [Procs -> Entry \cup {NoEntry}]
  BY DEF Snapshot, NextVictim, Typed, TypeOK, StoreTypeOK
<1>5. renewed' \in [Procs -> SUBSET Dests]
  BY DEF Snapshot, NextVictim, Typed, TypeOK, StoreTypeOK
<1>6. TypeOK'
  BY <1>1, <1>2, <1>3, <1>4, <1>5 DEF Snapshot, NextVictim, Typed, TypeOK, StoreTypeOK,
     storeVars, lockVars, checkVars, countVars
<1>7. Referents'
  BY DEF Snapshot, NextVictim, Goto, Typed, TypeOK, StoreTypeOK, Referents, checkVars,
     PrunePc, CheckPc, LookupPc, ReservePc, RunPc
<1> QED BY <1>6, <1>7 DEF Typed

(* LockVictim keeps the types and the referents.                           *)
LEMMA TypedLockVictim ==
  ASSUME Typed, NEW p \in Procs, LockVictim(p),
         UNCHANGED <<checkVars, countVars, answer>>
  PROVE  Typed'
<1>1. entry[p] \in Entry
  BY DEF LockVictim, Typed, Referents
<1>2. pc' \in [Procs -> Labels] /\ (pc' = pc \/ pc' = [pc EXCEPT ![p] = "remove"])
  BY DEF LockVictim, Goto, Typed, TypeOK, Labels, PrunePc
<1>3. fileLock' \in [Dests -> [File -> Holder]]
  <2>1. PICK f : fileLock' = [fileLock EXCEPT ![entry[p].dest][f] = p]
    BY DEF LockVictim
  <2>2. entry[p].dest \in Dests
    BY <1>1 DEF Entry
  <2> QED BY <2>1, <2>2 DEF Holder, Typed, TypeOK, StoreTypeOK
<1>4. TypeOK'
  BY <1>2, <1>3 DEF LockVictim, Typed, TypeOK, StoreTypeOK,
     storeVars, pruneVars, checkVars, countVars
<1>5. Referents'
  BY <1>1, <1>2 DEF LockVictim, Typed, TypeOK, StoreTypeOK, Referents,
     checkVars, pruneVars, PrunePc, CheckPc, LookupPc, ReservePc, RunPc
<1> QED BY <1>4, <1>5 DEF Typed

(* RemoveVictim keeps the types and the referents.                         *)
LEMMA TypedRemoveVictim ==
  ASSUME Typed, NEW p \in Procs, RemoveVictim(p),
         UNCHANGED <<checkVars, countVars, answer>>
  PROVE  Typed'
<1>1. entry[p] \in Entry
  BY DEF RemoveVictim, Typed, Referents
<1>2. \/ pc' = pc /\ \E f : entry' = [entry EXCEPT ![p].files = @ \ {f}]
      \/ pc' = [pc EXCEPT ![p] = "victim"] /\ entry' = [entry EXCEPT ![p] = NoEntry]
  BY DEF RemoveVictim, Goto
<1>3. pc' \in [Procs -> Labels]
  BY <1>2 DEF Typed, TypeOK, Labels, PrunePc
<1>4. fileLock' \in [Dests -> [File -> Holder]]
  BY DEF RemoveVictim, ReleaseFiles, Holder, Typed, TypeOK, StoreTypeOK
<1>5. receipt' \in [Dests -> {"none", "junk", "pass", "fail"}]
  BY DEF RemoveVictim, Typed, TypeOK, StoreTypeOK
<1>6. log' \in [Dests -> [Steps -> {"none", "open", "pass", "fail"}]]
  <2>1. log' = log \/ \E f : log' = [log EXCEPT ![entry[p].dest][f] = "none"]
    BY DEF RemoveVictim
  <2>2. ASSUME NEW f, log' = [log EXCEPT ![entry[p].dest][f] = "none"]
        PROVE  log' \in [Dests -> [Steps -> {"none", "open", "pass", "fail"}]]
    <3>1. entry[p].dest \in Dests
      BY <1>1 DEF Entry
    <3> QED BY <2>2, <3>1 DEF Typed, TypeOK, StoreTypeOK
  <2> QED BY <2>1, <2>2 DEF Typed, TypeOK, StoreTypeOK
<1>7. entry' \in [Procs -> Entry \cup {NoEntry}] /\ (pc'[p] = "remove" => entry'[p] \in Entry)
  <2>1. ASSUME NEW f, entry' = [entry EXCEPT ![p].files = @ \ {f}]
        PROVE  entry' \in [Procs -> Entry \cup {NoEntry}] /\ entry'[p] \in Entry
    <3>1. [entry[p] EXCEPT !.files = @ \ {f}] \in Entry
      BY <1>1 DEF Entry
    <3> QED BY <2>1, <3>1 DEF Typed, TypeOK, StoreTypeOK
  <2>2. CASE pc' = [pc EXCEPT ![p] = "victim"] /\ entry' = [entry EXCEPT ![p] = NoEntry]
    BY <2>2 DEF Typed, TypeOK, StoreTypeOK
  <2> QED BY <1>2, <2>1, <2>2
<1>8. TypeOK'
  BY <1>3, <1>4, <1>5, <1>6, <1>7 DEF RemoveVictim, Typed, TypeOK, StoreTypeOK,
     checkVars, countVars
<1>9. Referents'
  BY <1>2, <1>7 DEF RemoveVictim, Typed, TypeOK, StoreTypeOK, Referents,
     checkVars, PrunePc, CheckPc, LookupPc, ReservePc, RunPc
<1> QED BY <1>8, <1>9 DEF Typed

(* EndPrune keeps the types and the referents.                             *)
LEMMA TypedEndPrune ==
  ASSUME Typed, NEW p \in Procs, EndPrune(p),
         UNCHANGED <<checkVars, countVars, answer>>
  PROVE  Typed'
<1>1. pc' \in [Procs -> Labels]
  BY DEF EndPrune, Goto, Returns, Typed, TypeOK, StoreTypeOK, Labels, CheckPc, ReservePc
<1>2. TypeOK'
  BY <1>1 DEF EndPrune, ResetPrune, Returns, Typed, TypeOK, StoreTypeOK,
     storeVars, lockVars, checkVars, countVars
<1>3. Referents'
  BY DEF EndPrune, ResetPrune, Goto, Returns, Typed, TypeOK, StoreTypeOK, Referents,
     checkVars, PrunePc, CheckPc, LookupPc, ReservePc, RunPc
<1> QED BY <1>2, <1>3 DEF Typed

(* Every step of a prune keeps the types and the referents.                *)
LEMMA TypedPruneStep ==
  ASSUME Typed, NEW p \in Procs, Prune(p)
  PROVE  Typed'
BY TypedSweep, TypedJudge, TypedLockVictim, TypedRemoveVictim, TypedEndPrune DEF Prune, PruneStep

-----------------------------------------------------------------------------
(* Starting, aborting, failing and crashing keep types and referents.      *)
LEMMA TypedCommandStep ==
  ASSUME Typed, NEW p \in Procs,
         \/ StartCheck(p) \/ StartPrune(p)
         \/ Abort(p) \/ MaintenanceFails(p) \/ Crash(p)
  PROVE  Typed'
<1> USE StoreAssumption, WorkflowAssumption
    DEF Typed, TypeOK, StoreTypeOK, Referents, Goto, storeVars, lockVars, pruneVars,
        checkVars, countVars, Labels, CheckPc, LookupPc, ReservePc, RunPc, PrunePc
<1>1. ASSUME StartCheck(p) PROVE Typed'
  BY <1>1 DEF StartCheck, NoAnswer, Answer
<1>2. ASSUME StartPrune(p) PROVE Typed'
  BY <1>2 DEF StartPrune, BeginPrune, IndexFiles, Returns, NoAnswer, Answer
<1>3. ASSUME Abort(p) PROVE Typed'
  BY <1>3 DEF Abort, ReleaseAll, ReleaseFiles, ReleaseProbe, ReleasePrune, Holder, Answer,
     Steps
<1>4. ASSUME MaintenanceFails(p) PROVE Typed'
  BY <1>4 DEF MaintenanceFails, ReleaseFiles, ReleasePrune, ResetPrune, Holder, Returns
<1>5. ASSUME Crash(p) PROVE Typed'
  BY <1>5 DEF Crash, ReleaseAll, ReleaseFiles, ReleaseProbe, ReleasePrune, ResetPrune,
     Holder, Returns, NoAnswer, Answer, Steps
<1> QED BY <1>1, <1>2, <1>3, <1>4, <1>5

(* The types and the referents are an invariant of the workflow.           *)
LEMMA TypedInvariant == Spec => []Typed
<1>1. Init => Typed
  BY StoreAssumption, WorkflowAssumption
  DEF Init, Typed, TypeOK, StoreTypeOK, Referents, Steps, File, Holder, Returns, Labels,
      CheckPc, LookupPc, ReservePc, RunPc, PrunePc, NoAnswer, Answer
<1>2. Typed /\ [Next]_vars => Typed'
  <2>1. ASSUME Typed, UNCHANGED vars PROVE Typed'
    BY <2>1 DEF vars, storeVars, lockVars, pruneVars, checkVars, countVars,
       Typed, TypeOK, StoreTypeOK, Referents
  <2> QED
    BY <2>1, TypedCommandStep, TypedCheckStep, TypedPruneStep DEF Next, Rest
<1> QED BY <1>1, <1>2, PTL DEF Spec

(* Every variable of the workflow and of its store keeps its type.         *)
THEOREM TypeCorrect == Spec => []TypeOK
<1>1. Typed => TypeOK
  BY DEF Typed
<1> QED BY <1>1, TypedInvariant, PTL

-----------------------------------------------------------------------------
(* A process that is past the probe lock and has not answered holds it.    *)
HoldsProbe(p) ==
  \/ pc[p] \in {"index3", "receipt3", "plan", "lockjson"} \cup ReservePc \cup RunPc
  \/ pc[p] \in PrunePc /\ ret[p] \in {"reserve2", "reserve3"}

ProbeOwned == \A p \in Procs : HoldsProbe(p) => probeLock[Key(p)] = p

(* Every step keeps the ownership of probe locks.                          *)
LEMMA ProbeOwnedStep ==
  ASSUME Typed, ProbeOwned, [Next]_vars
  PROVE  ProbeOwned'
<1> USE StoreAssumption DEF Typed, TypeOK, StoreTypeOK, Referents, ProbeOwned, HoldsProbe,
        Key, Goto, ReservePc, RunPc, PrunePc, CheckPc, LookupPc,
        storeVars, lockVars, pruneVars, checkVars, countVars
<1>1. ASSUME NEW p \in Procs, StartCheck(p)
      PROVE  ProbeOwned'
  BY <1>1 DEF StartCheck
<1>2. ASSUME NEW p \in Procs, StartPrune(p)
      PROVE  ProbeOwned'
  BY <1>2 DEF StartPrune, BeginPrune
<1>3. ASSUME NEW p \in Procs, ReadIndex(p)
      PROVE  ProbeOwned'
  <2>1. /\ MissPc[pc[p]] \in {"select", "probe", "reserve"}
        /\ MissPc[pc[p]] = "select" => pc[p] = "index1"
        /\ MissPc[pc[p]] = "reserve" => pc[p] = "index3"
        /\ ReceiptPc[pc[p]] \in {"receipt1", "receipt2", "receipt3"}
        /\ ReceiptPc[pc[p]] = "receipt1" => pc[p] = "index1"
        /\ ReceiptPc[pc[p]] = "receipt3" => pc[p] = "index3"
    BY <1>3, MissLabels, ReceiptLabels DEF ReadIndex
  <2> QED BY <1>3, <2>1 DEF ReadIndex
<1>4. ASSUME NEW p \in Procs, ReadReceipt(p)
      PROVE  ProbeOwned'
  <2>1. /\ MissPc[pc[p]] \in {"select", "probe", "reserve"}
        /\ MissPc[pc[p]] = "select" => pc[p] = "receipt1"
        /\ MissPc[pc[p]] = "reserve" => pc[p] = "receipt3"
    BY <1>4, MissLabels, ReceiptLabels DEF ReadReceipt
  <2> QED BY <1>4, <2>1 DEF ReadReceipt
<1>5. ASSUME NEW p \in Procs, Touch(p)
      PROVE  ProbeOwned'
  BY <1>5 DEF Touch
<1>6. ASSUME NEW p \in Procs, SelectRunner(p)
      PROVE  ProbeOwned'
  BY <1>6 DEF SelectRunner
<1>7. ASSUME NEW p \in Procs, AcquireProbe(p)
      PROVE  ProbeOwned'
  BY <1>7 DEF AcquireProbe
<1>8. ASSUME NEW p \in Procs, Reserve(p)
      PROVE  ProbeOwned'
  BY <1>8 DEF Reserve, BeginPrune
<1>9. ASSUME NEW p \in Procs, Plan(p)
      PROVE  ProbeOwned'
  BY <1>9 DEF Plan
<1>10. ASSUME NEW p \in Procs, LockReceipt(p)
      PROVE  ProbeOwned'
  BY <1>10 DEF LockReceipt
<1>11. ASSUME NEW p \in Procs, LockLog(p)
      PROVE  ProbeOwned'
  BY <1>11 DEF LockLog
<1>12. ASSUME NEW p \in Procs, FinishStep(p)
      PROVE  ProbeOwned'
  BY <1>12 DEF FinishStep
<1>13. ASSUME NEW p \in Procs, WriteReceipt(p)
      PROVE  ProbeOwned'
  BY <1>13 DEF WriteReceipt
<1>14. ASSUME NEW p \in Procs, WriteIndex(p)
      PROVE  ProbeOwned'
  BY <1>14 DEF WriteIndex
<1>15. ASSUME NEW p \in Procs, ReleaseEvidence(p)
      PROVE  ProbeOwned'
  BY <1>15 DEF ReleaseEvidence
<1>16. ASSUME NEW p \in Procs, Maintain(p)
      PROVE  ProbeOwned'
  BY <1>16 DEF Maintain, BeginPrune
<1>17. ASSUME NEW p \in Procs, Return(p)
      PROVE  ProbeOwned'
  BY <1>17 DEF Return, ReleaseAll, ReleaseProbe
<1>18. ASSUME NEW p \in Procs, Abort(p)
      PROVE  ProbeOwned'
  BY <1>18 DEF Abort, ReleaseAll, ReleaseProbe
<1>19. ASSUME NEW p \in Procs, MaintenanceFails(p)
      PROVE  ProbeOwned'
  BY <1>19 DEF MaintenanceFails, ResetPrune
<1>20. ASSUME NEW p \in Procs, Crash(p)
      PROVE  ProbeOwned'
  BY <1>20 DEF Crash, ResetPrune, ReleaseAll, ReleaseProbe
<1>21. ASSUME NEW p \in Procs, ScanIndex(p), UNCHANGED <<checkVars, countVars, answer>>
      PROVE  ProbeOwned'
  BY <1>21 DEF ScanIndex
<1>22. ASSUME NEW p \in Procs, UnlinkIndex(p), UNCHANGED <<checkVars, countVars, answer>>
      PROVE  ProbeOwned'
  BY <1>22 DEF UnlinkIndex
<1>23. ASSUME NEW p \in Procs, Snapshot(p), UNCHANGED <<checkVars, countVars, answer>>
      PROVE  ProbeOwned'
  BY <1>23 DEF Snapshot
<1>24. ASSUME NEW p \in Procs, NextVictim(p), UNCHANGED <<checkVars, countVars, answer>>
      PROVE  ProbeOwned'
  BY <1>24 DEF NextVictim
<1>25. ASSUME NEW p \in Procs, LockVictim(p), UNCHANGED <<checkVars, countVars, answer>>
      PROVE  ProbeOwned'
  BY <1>25 DEF LockVictim
<1>26. ASSUME NEW p \in Procs, RemoveVictim(p), UNCHANGED <<checkVars, countVars, answer>>
      PROVE  ProbeOwned'
  BY <1>26 DEF RemoveVictim
<1>27. ASSUME NEW p \in Procs, EndPrune(p), UNCHANGED <<checkVars, countVars, answer>>
      PROVE  ProbeOwned'
  BY <1>27 DEF EndPrune, ResetPrune, Returns
<1>28. CASE UNCHANGED vars
  BY <1>28 DEF vars
<1> QED
  BY <1>1, <1>2, <1>3, <1>4, <1>5, <1>6, <1>7, <1>8, <1>9, <1>10, <1>11, <1>12,
     <1>13, <1>14, <1>15, <1>16, <1>17, <1>18, <1>19, <1>20, <1>21, <1>22, <1>23,
     <1>24, <1>25, <1>26, <1>27, <1>28
  DEF Next, CheckStep, Prune, PruneStep, Rest

(* Two processes never execute plans of one probe key at the same time.    *)
THEOREM SingleFlightHolds == Spec => []SingleFlight
<1>1. Init => ProbeOwned
  BY DEF Init, ProbeOwned, HoldsProbe, ReservePc, RunPc, PrunePc
<1>2. ProbeOwned => SingleFlight
  BY DEF ProbeOwned, HoldsProbe, SingleFlight, Executing
<1> QED BY <1>1, <1>2, TypedInvariant, ProbeOwnedStep, PTL DEF Spec

-----------------------------------------------------------------------------
(* A running check holds the locks of its receipt and of every log it has  *)
(* written; a removing prune holds those of all files it will remove.      *)
Owns(p) ==
  /\ pc[p] \in RunPc =>
       /\ fileLock[req[p]][Json] = p
       /\ \A i \in Steps : i < step[p] => fileLock[req[p]][i] = p
  /\ pc[p] \in RunPc \ {"locklog"} => fileLock[req[p]][step[p]] = p
  /\ pc[p] = "remove" => \A f \in entry[p].files : fileLock[entry[p].dest][f] = p

FilesOwned == \A p \in Procs : Owns(p)

(* What only the owner of a lock changes.                                  *)
OthersStay(p) ==
  \A q \in Procs \ {p} :
    pc'[q] = pc[q] /\ req'[q] = req[q] /\ step'[q] = step[q] /\ entry'[q] = entry[q]

(* A step of p that leaves what others do and hold alone keeps FilesOwned.  *)
LEMMA OthersOwn ==
  ASSUME Typed, FilesOwned, NEW p \in Procs, Owns(p)',
         OthersStay(p),
         \A q \in Procs \ {p}, d \in Dests, f \in File :
           fileLock[d][f] = q => fileLock'[d][f] = q
  PROVE  FilesOwned'
<1> SUFFICES ASSUME NEW q \in Procs, q # p PROVE Owns(q)'
  BY DEF FilesOwned
<1>1. Json \in File /\ Steps \subseteq File
  BY StoreAssumption DEF Json, File, Steps
<1>2. /\ pc[q] \in RunPc => req[q] \in Dests
      /\ pc[q] = "remove" => entry[q].dest \in Dests /\ entry[q].files \subseteq File
      /\ step[q] \in Steps
  BY DEF Typed, TypeOK, Referents, CheckPc, Entry
<1> QED BY <1>1, <1>2 DEF FilesOwned, Owns, OthersStay

(* Releasing takes nothing from anybody else.                              *)
LEMMA ReleaseKeepsOthers ==
  ASSUME Typed, NEW p \in Procs, ReleaseFiles(p), NEW q \in Procs \ {p},
         NEW d \in Dests, NEW f \in File, fileLock[d][f] = q
  PROVE  fileLock'[d][f] = q
BY DEF ReleaseFiles, Typed, TypeOK, StoreTypeOK

(* FinishStep keeps the ownership of file locks.                           *)
LEMMA FilesOwnedFinishStep ==
  ASSUME Typed, FilesOwned, NEW p \in Procs, FinishStep(p)
  PROVE  FilesOwned'
<1>1. Owns(p)'
  BY DEF FinishStep, Steps, Owns, FilesOwned, Goto, Typed, TypeOK, RunPc, lockVars
<1>2. OthersStay(p) /\ UNCHANGED fileLock
  <2>1. /\ UNCHANGED <<req, entry, fileLock>>
        /\ \E c, i : pc' = [pc EXCEPT ![p] = c] /\ step' \in {step, [step EXCEPT ![p] = i]}
    BY DEF FinishStep, Goto, pruneVars, lockVars
  <2> QED BY <2>1 DEF OthersStay, Typed, TypeOK
<1> QED BY <1>1, <1>2, OthersOwn

(* ReleaseEvidence keeps the ownership of file locks.                      *)
LEMMA FilesOwnedReleaseEvidence ==
  ASSUME Typed, FilesOwned, NEW p \in Procs, ReleaseEvidence(p)
  PROVE  FilesOwned'
<1>1. pc'[p] \notin RunPc \cup {"remove"}
  BY DEF ReleaseEvidence, Goto, Typed, TypeOK, RunPc
<1>2. ReleaseFiles(p)
  BY DEF ReleaseEvidence
<1>3. OthersStay(p)
  BY DEF ReleaseEvidence, OthersStay, Goto, pruneVars, checkVars
<1> QED BY <1>1, <1>2, <1>3, OthersOwn, ReleaseKeepsOthers DEF Owns

(* Return keeps the ownership of file locks.                               *)
LEMMA FilesOwnedReturn ==
  ASSUME Typed, FilesOwned, NEW p \in Procs, Return(p)
  PROVE  FilesOwned'
<1>1. pc'[p] \notin RunPc \cup {"remove"}
  BY DEF Return, ReleaseAll, Goto, Typed, TypeOK, RunPc
<1>2. ReleaseFiles(p)
  BY DEF Return, ReleaseAll
<1>3. OthersStay(p)
  BY DEF Return, ReleaseAll, OthersStay, Goto, pruneVars, checkVars
<1> QED BY <1>1, <1>2, <1>3, OthersOwn, ReleaseKeepsOthers DEF Owns

(* Abort keeps the ownership of file locks.                                *)
LEMMA FilesOwnedAbort ==
  ASSUME Typed, FilesOwned, NEW p \in Procs, Abort(p)
  PROVE  FilesOwned'
<1>1. pc'[p] \notin RunPc \cup {"remove"}
  BY DEF Abort, ReleaseAll, Goto, Typed, TypeOK, RunPc
<1>2. ReleaseFiles(p)
  BY DEF Abort, ReleaseAll
<1>3. OthersStay(p)
  BY DEF Abort, ReleaseAll, OthersStay, Goto, pruneVars, checkVars
<1> QED BY <1>1, <1>2, <1>3, OthersOwn, ReleaseKeepsOthers DEF Owns

(* MaintenanceFails keeps the ownership of file locks.                     *)
LEMMA FilesOwnedMaintenanceFails ==
  ASSUME Typed, FilesOwned, NEW p \in Procs, MaintenanceFails(p)
  PROVE  FilesOwned'
<1>1. pc'[p] \notin RunPc \cup {"remove"}
  BY DEF MaintenanceFails, ResetPrune, Goto, Typed, TypeOK, RunPc
<1>2. ReleaseFiles(p)
  BY DEF MaintenanceFails, ResetPrune
<1>3. OthersStay(p)
  BY DEF MaintenanceFails, ResetPrune, OthersStay, Goto, pruneVars, checkVars
<1> QED BY <1>1, <1>2, <1>3, OthersOwn, ReleaseKeepsOthers DEF Owns

(* Crash keeps the ownership of file locks.                                *)
LEMMA FilesOwnedCrash ==
  ASSUME Typed, FilesOwned, NEW p \in Procs, Crash(p)
  PROVE  FilesOwned'
<1>1. pc'[p] \notin RunPc \cup {"remove"}
  BY DEF Crash, ResetPrune, ReleaseAll, Goto, Typed, TypeOK, RunPc
<1>2. ReleaseFiles(p)
  BY DEF Crash, ResetPrune, ReleaseAll
<1>3. OthersStay(p)
  BY DEF Crash, ResetPrune, ReleaseAll, OthersStay, Goto, pruneVars, checkVars
<1> QED BY <1>1, <1>2, <1>3, OthersOwn, ReleaseKeepsOthers DEF Owns

(* LockVictim keeps the ownership of file locks.                           *)
LEMMA FilesOwnedLockVictim ==
  ASSUME Typed, FilesOwned, NEW p \in Procs, LockVictim(p),
         UNCHANGED <<checkVars, countVars, answer>>
  PROVE  FilesOwned'
<1>1. OthersStay(p)
  <2>1. /\ UNCHANGED <<req, step, entry>>
        /\ pc' \in {pc, [pc EXCEPT ![p] = "remove"]}
    BY DEF LockVictim, Goto, pruneVars, checkVars
  <2> QED BY <2>1 DEF OthersStay, Typed, TypeOK
<1>2. PICK f \in Unlocked(p) :
        /\ fileLock[entry[p].dest][f] = None
        /\ fileLock' = [fileLock EXCEPT ![entry[p].dest][f] = p]
        /\ \/ Unlocked(p) = {f} /\ Goto(p, "remove")
           \/ Unlocked(p) # {f} /\ UNCHANGED pc
  BY DEF LockVictim
<1>3. /\ entry' = entry /\ entry[p] \in Entry /\ f \in entry[p].files
      /\ pc[p] = "lock" /\ pc \in [Procs -> Labels]
      /\ fileLock \in [Dests -> [File -> Holder]]
  BY <1>2 DEF LockVictim, Unlocked, pruneVars, Typed, TypeOK, StoreTypeOK, Referents
<1>4. \A g \in entry[p].files \ Unlocked(p) : fileLock[entry[p].dest][g] = p
  BY DEF Unlocked
<1>5. pc'[p] = "remove" =>
        \A g \in entry[p].files : fileLock'[entry[p].dest][g] = p
  BY <1>2, <1>3, <1>4 DEF Goto, Entry
<1>6. Owns(p)'
  BY <1>2, <1>3, <1>5 DEF Owns, Goto, RunPc
<1>7. \A q \in Procs \ {p}, d \in Dests, g \in File :
        fileLock[d][g] = q => fileLock'[d][g] = q
  BY <1>2, <1>3, StoreAssumption DEF Entry
<1> QED BY <1>1, <1>6, <1>7, OthersOwn

(* RemoveVictim keeps the ownership of file locks.                         *)
LEMMA FilesOwnedRemoveVictim ==
  ASSUME Typed, FilesOwned, NEW p \in Procs, RemoveVictim(p),
         UNCHANGED <<checkVars, countVars, answer>>
  PROVE  FilesOwned'
<1>1. OthersStay(p)
  <2>1. /\ UNCHANGED <<req, step>>
        /\ pc' \in {pc, [pc EXCEPT ![p] = "victim"]}
        /\ \E e : entry' = [entry EXCEPT ![p] = e]
    BY DEF RemoveVictim, Goto, checkVars
  <2> QED BY <2>1 DEF OthersStay, Typed, TypeOK, StoreTypeOK
<1>2. \/ /\ pc' = [pc EXCEPT ![p] = "victim"]
         /\ ReleaseFiles(p)
      \/ /\ UNCHANGED <<fileLock, pc>>
         /\ \E f : entry' = [entry EXCEPT ![p].files = entry[p].files \ {f}]
  BY DEF RemoveVictim, Goto
<1>3. CASE pc' = [pc EXCEPT ![p] = "victim"] /\ ReleaseFiles(p)
  <2>1. Owns(p)'
    BY <1>3 DEF Owns, Typed, TypeOK, RunPc
  <2> QED BY <1>1, <1>3, <2>1, OthersOwn, ReleaseKeepsOthers
<1>4. CASE /\ UNCHANGED <<fileLock, pc>>
           /\ \E f : entry' = [entry EXCEPT ![p].files = entry[p].files \ {f}]
  <2>1. pc[p] = "remove" /\ entry[p] \in Entry /\ entry \in [Procs -> Entry \cup {NoEntry}]
    BY DEF RemoveVictim, Typed, TypeOK, StoreTypeOK, Referents
  <2>2. entry'[p].dest = entry[p].dest /\ entry'[p].files \subseteq entry[p].files
    BY <1>4, <2>1 DEF Entry
  <2>3. Owns(p)'
    BY <1>4, <2>1, <2>2 DEF FilesOwned, Owns, RunPc
  <2> QED BY <1>1, <1>4, <2>3, OthersOwn
<1> QED BY <1>2, <1>3, <1>4

(* EndPrune keeps the ownership of file locks.                             *)
LEMMA FilesOwnedEndPrune ==
  ASSUME Typed, FilesOwned, NEW p \in Procs, EndPrune(p),
         UNCHANGED <<checkVars, countVars, answer>>
  PROVE  FilesOwned'
<1>1. Owns(p)'
  BY DEF EndPrune, Returns, Owns, Goto, Typed, TypeOK, StoreTypeOK, RunPc
<1>2. OthersStay(p) /\ UNCHANGED fileLock
  BY DEF EndPrune, ResetPrune, OthersStay, Goto, lockVars, checkVars
<1> QED BY <1>1, <1>2, OthersOwn

(* Every step keeps the ownership of file locks.                           *)
LEMMA FilesOwnedStep ==
  ASSUME Typed, FilesOwned, [Next]_vars
  PROVE  FilesOwned'
<1> USE StoreAssumption DEF Typed, TypeOK, StoreTypeOK, Referents, FilesOwned, Owns, Goto,
        ReservePc, RunPc, PrunePc, CheckPc, LookupPc,
        storeVars, lockVars, pruneVars, checkVars, countVars
<1>1. ASSUME NEW p \in Procs, StartCheck(p)
      PROVE  FilesOwned'
  BY <1>1 DEF StartCheck
<1>2. ASSUME NEW p \in Procs, StartPrune(p)
      PROVE  FilesOwned'
  BY <1>2 DEF StartPrune, BeginPrune
<1>3. ASSUME NEW p \in Procs, ReadIndex(p)
      PROVE  FilesOwned'
  <2>1. /\ MissPc[pc[p]] \in {"select", "probe", "reserve"}
        /\ MissPc[pc[p]] = "select" => pc[p] = "index1"
        /\ MissPc[pc[p]] = "reserve" => pc[p] = "index3"
        /\ ReceiptPc[pc[p]] \in {"receipt1", "receipt2", "receipt3"}
        /\ ReceiptPc[pc[p]] = "receipt1" => pc[p] = "index1"
        /\ ReceiptPc[pc[p]] = "receipt3" => pc[p] = "index3"
    BY <1>3, MissLabels, ReceiptLabels DEF ReadIndex
  <2> QED BY <1>3, <2>1 DEF ReadIndex
<1>4. ASSUME NEW p \in Procs, ReadReceipt(p)
      PROVE  FilesOwned'
  <2>1. /\ MissPc[pc[p]] \in {"select", "probe", "reserve"}
        /\ MissPc[pc[p]] = "select" => pc[p] = "receipt1"
        /\ MissPc[pc[p]] = "reserve" => pc[p] = "receipt3"
    BY <1>4, MissLabels, ReceiptLabels DEF ReadReceipt
  <2> QED BY <1>4, <2>1 DEF ReadReceipt
<1>5. ASSUME NEW p \in Procs, Touch(p)
      PROVE  FilesOwned'
  BY <1>5 DEF Touch
<1>6. ASSUME NEW p \in Procs, SelectRunner(p)
      PROVE  FilesOwned'
  BY <1>6 DEF SelectRunner
<1>7. ASSUME NEW p \in Procs, AcquireProbe(p)
      PROVE  FilesOwned'
  BY <1>7 DEF AcquireProbe
<1>8. ASSUME NEW p \in Procs, Reserve(p)
      PROVE  FilesOwned'
  BY <1>8 DEF Reserve, BeginPrune
<1>9. ASSUME NEW p \in Procs, Plan(p)
      PROVE  FilesOwned'
  BY <1>9 DEF Plan
<1>10. ASSUME NEW p \in Procs, LockReceipt(p)
      PROVE  FilesOwned'
  BY <1>10 DEF LockReceipt, Steps, File, Json
<1>11. ASSUME NEW p \in Procs, LockLog(p)
      PROVE  FilesOwned'
  BY <1>11 DEF LockLog, Steps, File, Json
<1>12. ASSUME NEW p \in Procs, WriteReceipt(p)
      PROVE  FilesOwned'
  BY <1>12 DEF WriteReceipt
<1>13. ASSUME NEW p \in Procs, WriteIndex(p)
      PROVE  FilesOwned'
  BY <1>13 DEF WriteIndex
<1>14. ASSUME NEW p \in Procs, Maintain(p)
      PROVE  FilesOwned'
  BY <1>14 DEF Maintain, BeginPrune
<1>15. ASSUME NEW p \in Procs, ScanIndex(p), UNCHANGED <<checkVars, countVars, answer>>
      PROVE  FilesOwned'
  BY <1>15 DEF ScanIndex
<1>16. ASSUME NEW p \in Procs, UnlinkIndex(p), UNCHANGED <<checkVars, countVars, answer>>
      PROVE  FilesOwned'
  BY <1>16 DEF UnlinkIndex
<1>17. ASSUME NEW p \in Procs, Snapshot(p), UNCHANGED <<checkVars, countVars, answer>>
      PROVE  FilesOwned'
  BY <1>17 DEF Snapshot
<1>18. ASSUME NEW p \in Procs, NextVictim(p), UNCHANGED <<checkVars, countVars, answer>>
      PROVE  FilesOwned'
  BY <1>18 DEF NextVictim
<1>19. CASE UNCHANGED vars
  BY <1>19 DEF vars
<1> QED
  BY <1>1, <1>2, <1>3, <1>4, <1>5, <1>6, <1>7, <1>8, <1>9, <1>10, <1>11, <1>12,
     <1>13, <1>14, <1>15, <1>16, <1>17, <1>18, <1>19, FilesOwnedFinishStep,
     FilesOwnedReleaseEvidence, FilesOwnedReturn, FilesOwnedAbort,
     FilesOwnedMaintenanceFails, FilesOwnedCrash, FilesOwnedLockVictim,
     FilesOwnedRemoveVictim, FilesOwnedEndPrune
  DEF Next, CheckStep, Prune, PruneStep, Rest

(* A run that ended in a pass has gone through every step.                 *)
PassIsLast ==
  \A p \in Procs : pc[p] \in {"write", "publish", "unlock"} /\ outcome[p] = "pass" =>
    step[p] = NumSteps

Kept == InUseEvidenceKept /\ PassIsLast

KeptBy(p) ==
  pc[p] \in RunPc =>
    /\ \A i \in Steps : i < step[p] => log[req[p]][i] = "pass"
    /\ pc[p] = "run" => log[req[p]][step[p]] = "open"
    /\ pc[p] \in {"write", "publish", "unlock"} =>
         /\ log[req[p]][step[p]] = outcome[p]
         /\ outcome[p] = "pass" => step[p] = NumSteps
    /\ pc[p] \in {"publish", "unlock"} => receipt[req[p]] = outcome[p]

(* Kept, one process at a time.                                            *)
LEMMA KeptByAll == Kept <=> \A p \in Procs : KeptBy(p)
BY DEF Kept, KeptBy, InUseEvidenceKept, PassIsLast, Executing, RunPc

(* A step of p that writes no file another process has locked leaves the   *)
(* evidence of the others as it is.                                        *)
LEMMA OthersKept ==
  ASSUME Typed, FilesOwned, Kept, NEW p \in Procs, KeptBy(p)',
         \A q \in Procs \ {p} :
           pc'[q] = pc[q] /\ req'[q] = req[q] /\ step'[q] = step[q] /\ outcome'[q] = outcome[q],
         \A q \in Procs \ {p}, d \in Dests, i \in Steps :
           fileLock[d][i] = q => log'[d][i] = log[d][i],
         \A q \in Procs \ {p}, d \in Dests :
           fileLock[d][Json] = q => receipt'[d] = receipt[d] \/ receipt[d] = "none"
  PROVE  Kept'
<1> SUFFICES ASSUME NEW q \in Procs, q # p, pc[q] \in RunPc PROVE KeptBy(q)'
  BY KeptByAll DEF KeptBy, Kept, InUseEvidenceKept, PassIsLast, Executing, RunPc
<1>1. /\ req[q] \in Dests /\ step[q] \in Steps /\ outcome[q] \in {"pass", "fail"}
      /\ KeptBy(q) /\ Owns(q)
  BY KeptByAll DEF Typed, TypeOK, Referents, CheckPc, FilesOwned
<1>2. \A i \in Steps : i < step[q] => log'[req[q]][i] = "pass"
  BY <1>1 DEF KeptBy, Owns
<1>3. pc[q] # "locklog" => log'[req[q]][step[q]] = log[req[q]][step[q]]
  BY <1>1 DEF Owns
<1>4. pc[q] \in {"publish", "unlock"} => receipt'[req[q]] = outcome[q]
  BY <1>1 DEF KeptBy, Owns
<1> QED BY <1>1, <1>2, <1>3, <1>4 DEF KeptBy, RunPc

(* Touch keeps the evidence of running checks.                             *)
LEMMA KeptTouch ==
  ASSUME Typed, FilesOwned, Kept, NEW p \in Procs, Touch(p)
  PROVE  Kept'
<1>1. pc' = [pc EXCEPT ![p] = "return"] /\ UNCHANGED <<req, step, outcome, log>>
  BY DEF Touch, Goto
<1>2. \A d \in Dests : receipt'[d] = receipt[d] \/ receipt[d] = "none"
  <2>1. ASSUME NEW e, receipt[e] = "none", receipt' = [receipt EXCEPT ![e] = "junk"],
               NEW d \in Dests
        PROVE  receipt'[d] = receipt[d] \/ receipt[d] = "none"
    BY <2>1 DEF Typed, TypeOK, StoreTypeOK
  <2> QED BY <2>1 DEF Touch
<1>3. KeptBy(p)'
  BY <1>1 DEF KeptBy, RunPc, Typed, TypeOK
<1> QED BY <1>1, <1>2, <1>3, OthersKept DEF Typed, TypeOK

(* LockReceipt keeps the evidence of running checks.                       *)
LEMMA KeptLockReceipt ==
  ASSUME Typed, FilesOwned, Kept, NEW p \in Procs, LockReceipt(p)
  PROVE  Kept'
<1>1. /\ pc' = [pc EXCEPT ![p] = "locklog"] /\ step' = [step EXCEPT ![p] = 1]
      /\ UNCHANGED <<req, outcome, receipt, log>>
  BY DEF LockReceipt, Goto, storeVars
<1>2. KeptBy(p)'
  BY <1>1, StoreAssumption DEF KeptBy, Steps, Typed, TypeOK
<1> QED BY <1>1, <1>2, OthersKept DEF Typed, TypeOK

(* LockLog keeps the evidence of running checks.                           *)
LEMMA KeptLockLog ==
  ASSUME Typed, FilesOwned, Kept, NEW p \in Procs, LockLog(p)
  PROVE  Kept'
<1>1. /\ pc[p] = "locklog" /\ pc' = [pc EXCEPT ![p] = "run"]
      /\ fileLock[req[p]][step[p]] = None
      /\ log' = [log EXCEPT ![req[p]][step[p]] = "open"]
      /\ UNCHANGED <<req, step, outcome, receipt>>
  BY DEF LockLog, Goto, checkVars
<1>2. req[p] \in Dests /\ step[p] \in Steps
  BY <1>1 DEF Typed, TypeOK, Referents, CheckPc, RunPc
<1>3. KeptBy(p)'
  <2>1. KeptBy(p)
    BY KeptByAll
  <2>2. /\ log'[req[p]][step[p]] = "open"
        /\ \A i \in Steps : i # step[p] => log'[req[p]][i] = log[req[p]][i]
    BY <1>1, <1>2 DEF Typed, TypeOK, StoreTypeOK
  <2>3. \A i \in Steps : i < step[p] => i # step[p]
    BY <1>2 DEF Steps
  <2> QED BY <1>1, <2>1, <2>2, <2>3 DEF KeptBy, RunPc, Typed, TypeOK
<1>4. \A q \in Procs, d \in Dests, i \in Steps : fileLock[d][i] = q => log'[d][i] = log[d][i]
  BY <1>1, <1>2, StoreAssumption DEF Typed, TypeOK, StoreTypeOK
<1> QED BY <1>1, <1>3, <1>4, OthersKept DEF Typed, TypeOK

(* FinishStep keeps the evidence of running checks.                        *)
LEMMA KeptFinishStep ==
  ASSUME Typed, FilesOwned, Kept, NEW p \in Procs, FinishStep(p)
  PROVE  Kept'
<1>1. PICK verdict \in {"pass", "fail"} :
        /\ log' = [log EXCEPT ![req[p]][step[p]] = verdict]
        /\ \/ /\ verdict = "pass" /\ step[p] < NumSteps
              /\ step' = [step EXCEPT ![p] = step[p] + 1]
              /\ pc' = [pc EXCEPT ![p] = "locklog"]
              /\ UNCHANGED outcome
           \/ /\ verdict = "fail" \/ step[p] = NumSteps
              /\ outcome' = [outcome EXCEPT ![p] = verdict]
              /\ pc' = [pc EXCEPT ![p] = "write"]
              /\ UNCHANGED step
  BY DEF FinishStep, Goto
<1>2. pc[p] = "run" /\ UNCHANGED <<req, receipt>>
  BY DEF FinishStep
<1>3. /\ req[p] \in Dests /\ step[p] \in Steps /\ fileLock[req[p]][step[p]] = p
      /\ \A i \in Steps : i < step[p] => log[req[p]][i] = "pass"
  BY <1>2, KeptByAll DEF Typed, TypeOK, Referents, CheckPc, RunPc, FilesOwned, Owns, KeptBy
<1>4. \A i \in Steps :
        log'[req[p]][i] = IF i = step[p] THEN verdict ELSE log[req[p]][i]
  BY <1>1, <1>3 DEF Typed, TypeOK, StoreTypeOK
<1>5. KeptBy(p)'
  <2>1. CASE /\ step' = [step EXCEPT ![p] = step[p] + 1]
             /\ pc' = [pc EXCEPT ![p] = "locklog"]
             /\ verdict = "pass"
    BY <1>2, <1>3, <1>4, <2>1, StoreAssumption DEF KeptBy, Steps, Typed, TypeOK
  <2>2. CASE /\ verdict = "fail" \/ step[p] = NumSteps
             /\ outcome' = [outcome EXCEPT ![p] = verdict]
             /\ pc' = [pc EXCEPT ![p] = "write"] /\ UNCHANGED step
    BY <1>2, <1>3, <1>4, <2>2, StoreAssumption DEF KeptBy, Steps, Typed, TypeOK
  <2> QED BY <1>1, <2>1, <2>2
<1>6. \A q \in Procs \ {p}, d \in Dests, i \in Steps :
        fileLock[d][i] = q => log'[d][i] = log[d][i]
  BY <1>1, <1>3 DEF Typed, TypeOK, StoreTypeOK
<1>7. \A q \in Procs \ {p} : pc'[q] = pc[q] /\ step'[q] = step[q] /\ outcome'[q] = outcome[q]
  BY <1>1 DEF Typed, TypeOK
<1> QED BY <1>2, <1>5, <1>6, <1>7, OthersKept

(* WriteReceipt keeps the evidence of running checks.                      *)
LEMMA KeptWriteReceipt ==
  ASSUME Typed, FilesOwned, Kept, NEW p \in Procs, WriteReceipt(p)
  PROVE  Kept'
<1>1. /\ pc[p] = "write"
      /\ \E c \in {"publish", "unlock"} : pc' = [pc EXCEPT ![p] = c]
      /\ receipt' = [receipt EXCEPT ![req[p]] = outcome[p]]
      /\ UNCHANGED <<req, step, outcome, log>>
  BY DEF WriteReceipt, Goto, checkVars
<1>2. req[p] \in Dests /\ fileLock[req[p]][Json] = p /\ KeptBy(p)
  BY <1>1, KeptByAll DEF Typed, TypeOK, Referents, CheckPc, RunPc, FilesOwned, Owns
<1>3. KeptBy(p)'
  BY <1>1, <1>2 DEF KeptBy, RunPc, Typed, TypeOK, StoreTypeOK
<1> QED BY <1>1, <1>2, <1>3, OthersKept DEF Typed, TypeOK, StoreTypeOK

(* RemoveVictim keeps the evidence of running checks.                      *)
LEMMA KeptRemoveVictim ==
  ASSUME Typed, FilesOwned, Kept, NEW p \in Procs, RemoveVictim(p),
         UNCHANGED <<checkVars, countVars, answer>>
  PROVE  Kept'
<1>1. /\ pc[p] = "remove" /\ UNCHANGED <<req, step, outcome>>
      /\ pc' \in {pc, [pc EXCEPT ![p] = "victim"]}
  BY DEF RemoveVictim, Goto, checkVars
<1>2. PICK f \in entry[p].files :
        \/ receipt' = [receipt EXCEPT ![entry[p].dest] = "none"] /\ f = Json /\ UNCHANGED log
        \/ log' = [log EXCEPT ![entry[p].dest][f] = "none"] /\ UNCHANGED receipt
  BY DEF RemoveVictim
<1>3. fileLock[entry[p].dest][f] = p
  BY <1>1 DEF FilesOwned, Owns
<1>4. KeptBy(p)'
  BY <1>1 DEF KeptBy, RunPc, Typed, TypeOK
<1>5. \A q \in Procs \ {p}, d \in Dests, i \in Steps :
        fileLock[d][i] = q => log'[d][i] = log[d][i]
  <2>1. CASE log' = [log EXCEPT ![entry[p].dest][f] = "none"]
    BY <1>3, <2>1 DEF Typed, TypeOK, StoreTypeOK
  <2> QED BY <1>2, <2>1
<1>6. \A q \in Procs \ {p}, d \in Dests :
        fileLock[d][Json] = q => receipt'[d] = receipt[d]
  BY <1>2, <1>3 DEF Typed, TypeOK, StoreTypeOK
<1> QED BY <1>1, <1>4, <1>5, <1>6, OthersKept DEF Typed, TypeOK

(* EndPrune keeps the evidence of running checks.                          *)
LEMMA KeptEndPrune ==
  ASSUME Typed, FilesOwned, Kept, NEW p \in Procs, EndPrune(p),
         UNCHANGED <<checkVars, countVars, answer>>
  PROVE  Kept'
<1>1. pc' = [pc EXCEPT ![p] = ret[p]] /\ UNCHANGED <<req, step, outcome, receipt, log>>
  BY DEF EndPrune, Goto, storeVars, checkVars
<1>2. KeptBy(p)'
  BY <1>1 DEF KeptBy, RunPc, Returns, Typed, TypeOK, StoreTypeOK
<1> QED BY <1>1, <1>2, OthersKept DEF Typed, TypeOK

(* Every step keeps the evidence of running checks.                        *)
LEMMA KeptStep ==
  ASSUME Typed, FilesOwned, Kept, [Next]_vars
  PROVE  Kept'
<1> USE StoreAssumption DEF Typed, TypeOK, StoreTypeOK, Referents, FilesOwned, Owns, Kept,
        InUseEvidenceKept, PassIsLast, Executing, Goto,
        ReservePc, RunPc, PrunePc, CheckPc, LookupPc,
        storeVars, lockVars, pruneVars, checkVars, countVars
<1>1. ASSUME NEW p \in Procs, StartCheck(p)
      PROVE  Kept'
  BY <1>1 DEF StartCheck
<1>2. ASSUME NEW p \in Procs, StartPrune(p)
      PROVE  Kept'
  BY <1>2 DEF StartPrune, BeginPrune
<1>3. ASSUME NEW p \in Procs, ReadIndex(p)
      PROVE  Kept'
  <2>1. /\ MissPc[pc[p]] \in {"select", "probe", "reserve"}
        /\ MissPc[pc[p]] = "select" => pc[p] = "index1"
        /\ MissPc[pc[p]] = "reserve" => pc[p] = "index3"
        /\ ReceiptPc[pc[p]] \in {"receipt1", "receipt2", "receipt3"}
        /\ ReceiptPc[pc[p]] = "receipt1" => pc[p] = "index1"
        /\ ReceiptPc[pc[p]] = "receipt3" => pc[p] = "index3"
    BY <1>3, MissLabels, ReceiptLabels DEF ReadIndex
  <2> QED BY <1>3, <2>1 DEF ReadIndex
<1>4. ASSUME NEW p \in Procs, ReadReceipt(p)
      PROVE  Kept'
  <2>1. /\ MissPc[pc[p]] \in {"select", "probe", "reserve"}
        /\ MissPc[pc[p]] = "select" => pc[p] = "receipt1"
        /\ MissPc[pc[p]] = "reserve" => pc[p] = "receipt3"
    BY <1>4, MissLabels, ReceiptLabels DEF ReadReceipt
  <2> QED BY <1>4, <2>1 DEF ReadReceipt
<1>5. ASSUME NEW p \in Procs, SelectRunner(p)
      PROVE  Kept'
  BY <1>5 DEF SelectRunner
<1>6. ASSUME NEW p \in Procs, AcquireProbe(p)
      PROVE  Kept'
  BY <1>6 DEF AcquireProbe
<1>7. ASSUME NEW p \in Procs, Reserve(p)
      PROVE  Kept'
  BY <1>7 DEF Reserve, BeginPrune
<1>8. ASSUME NEW p \in Procs, Plan(p)
      PROVE  Kept'
  BY <1>8 DEF Plan
<1>9. ASSUME NEW p \in Procs, WriteIndex(p)
      PROVE  Kept'
  BY <1>9 DEF WriteIndex
<1>10. ASSUME NEW p \in Procs, ReleaseEvidence(p)
      PROVE  Kept'
  BY <1>10 DEF ReleaseEvidence
<1>11. ASSUME NEW p \in Procs, Maintain(p)
      PROVE  Kept'
  BY <1>11 DEF Maintain, BeginPrune
<1>12. ASSUME NEW p \in Procs, Return(p)
      PROVE  Kept'
  BY <1>12 DEF Return
<1>13. ASSUME NEW p \in Procs, Abort(p)
      PROVE  Kept'
  BY <1>13 DEF Abort
<1>14. ASSUME NEW p \in Procs, MaintenanceFails(p)
      PROVE  Kept'
  BY <1>14 DEF MaintenanceFails, ResetPrune
<1>15. ASSUME NEW p \in Procs, Crash(p)
      PROVE  Kept'
  BY <1>15 DEF Crash, ResetPrune
<1>16. ASSUME NEW p \in Procs, ScanIndex(p), UNCHANGED <<checkVars, countVars, answer>>
      PROVE  Kept'
  BY <1>16 DEF ScanIndex
<1>17. ASSUME NEW p \in Procs, UnlinkIndex(p), UNCHANGED <<checkVars, countVars, answer>>
      PROVE  Kept'
  BY <1>17 DEF UnlinkIndex
<1>18. ASSUME NEW p \in Procs, Snapshot(p), UNCHANGED <<checkVars, countVars, answer>>
      PROVE  Kept'
  BY <1>18 DEF Snapshot
<1>19. ASSUME NEW p \in Procs, NextVictim(p), UNCHANGED <<checkVars, countVars, answer>>
      PROVE  Kept'
  BY <1>19 DEF NextVictim
<1>20. ASSUME NEW p \in Procs, LockVictim(p), UNCHANGED <<checkVars, countVars, answer>>
      PROVE  Kept'
  BY <1>20 DEF LockVictim
<1>21. CASE UNCHANGED vars
  BY <1>21 DEF vars
<1> QED
  BY <1>1, <1>2, <1>3, <1>4, <1>5, <1>6, <1>7, <1>8, <1>9, <1>10, <1>11, <1>12,
     <1>13, <1>14, <1>15, <1>16, <1>17, <1>18, <1>19, <1>20, <1>21, KeptTouch,
     KeptLockReceipt, KeptLockLog, KeptFinishStep, KeptWriteReceipt,
     KeptRemoveVictim, KeptEndPrune
  DEF Next, CheckStep, Prune, PruneStep, Rest

(* No prune takes a log or the receipt from under a running check.         *)
THEOREM EvidenceKept == Spec => []InUseEvidenceKept
<1>1. Init => FilesOwned /\ Kept
  BY DEF Init, FilesOwned, Owns, RunPc, Kept, InUseEvidenceKept, PassIsLast, Executing
<1>2. Kept => InUseEvidenceKept
  BY DEF Kept
<1> QED BY <1>1, <1>2, TypedInvariant, FilesOwnedStep, KeptStep, PTL DEF Spec

-----------------------------------------------------------------------------
(* A PASS receipt stands for a plan that has passed.                       *)
ReceiptsProven == \A d \in Dests : receipt[d] = "pass" => d \in proven

(* A check that may still change its runner has no answer.                 *)
NotYetAnswered ==
  \A p \in Procs : pc[p] \in {"index1", "receipt1", "select"} => answer[p].kind = "none"

Answered == ReceiptsProven /\ NotYetAnswered /\ CachedAnswerProven

(* Every step keeps PASS receipts standing for passed plans.               *)
LEMMA ReceiptsProvenStep ==
  ASSUME Typed, FilesOwned, Kept, ReceiptsProven, [Next]_vars
  PROVE  ReceiptsProven'
<1> USE StoreAssumption DEF Typed, TypeOK, StoreTypeOK, Referents, ReceiptsProven, Goto,
        ReservePc, RunPc, PrunePc, CheckPc, LookupPc,
        storeVars, lockVars, pruneVars, checkVars, countVars
<1>1. ASSUME NEW p \in Procs, StartCheck(p)
      PROVE  ReceiptsProven'
  BY <1>1 DEF StartCheck
<1>2. ASSUME NEW p \in Procs, StartPrune(p)
      PROVE  ReceiptsProven'
  BY <1>2 DEF StartPrune, BeginPrune
<1>3. ASSUME NEW p \in Procs, ReadIndex(p)
      PROVE  ReceiptsProven'
  BY <1>3 DEF ReadIndex
<1>4. ASSUME NEW p \in Procs, ReadReceipt(p)
      PROVE  ReceiptsProven'
  BY <1>4 DEF ReadReceipt
<1>5. ASSUME NEW p \in Procs, Touch(p)
      PROVE  ReceiptsProven'
  BY <1>5 DEF Touch
<1>6. ASSUME NEW p \in Procs, SelectRunner(p)
      PROVE  ReceiptsProven'
  BY <1>6 DEF SelectRunner
<1>7. ASSUME NEW p \in Procs, AcquireProbe(p)
      PROVE  ReceiptsProven'
  BY <1>7 DEF AcquireProbe
<1>8. ASSUME NEW p \in Procs, Reserve(p)
      PROVE  ReceiptsProven'
  BY <1>8 DEF Reserve, BeginPrune
<1>9. ASSUME NEW p \in Procs, Plan(p)
      PROVE  ReceiptsProven'
  BY <1>9 DEF Plan
<1>10. ASSUME NEW p \in Procs, LockReceipt(p)
      PROVE  ReceiptsProven'
  BY <1>10 DEF LockReceipt
<1>11. ASSUME NEW p \in Procs, LockLog(p)
      PROVE  ReceiptsProven'
  BY <1>11 DEF LockLog
<1>12. ASSUME NEW p \in Procs, FinishStep(p)
      PROVE  ReceiptsProven'
  BY <1>12 DEF FinishStep
<1>13. ASSUME NEW p \in Procs, WriteReceipt(p)
      PROVE  ReceiptsProven'
  BY <1>13 DEF WriteReceipt, Kept, InUseEvidenceKept, PassIsLast, Executing, Steps
<1>14. ASSUME NEW p \in Procs, WriteIndex(p)
      PROVE  ReceiptsProven'
  BY <1>14 DEF WriteIndex
<1>15. ASSUME NEW p \in Procs, ReleaseEvidence(p)
      PROVE  ReceiptsProven'
  BY <1>15 DEF ReleaseEvidence
<1>16. ASSUME NEW p \in Procs, Maintain(p)
      PROVE  ReceiptsProven'
  BY <1>16 DEF Maintain, BeginPrune
<1>17. ASSUME NEW p \in Procs, Return(p)
      PROVE  ReceiptsProven'
  BY <1>17 DEF Return
<1>18. ASSUME NEW p \in Procs, Abort(p)
      PROVE  ReceiptsProven'
  BY <1>18 DEF Abort
<1>19. ASSUME NEW p \in Procs, MaintenanceFails(p)
      PROVE  ReceiptsProven'
  BY <1>19 DEF MaintenanceFails, ResetPrune
<1>20. ASSUME NEW p \in Procs, Crash(p)
      PROVE  ReceiptsProven'
  BY <1>20 DEF Crash, ResetPrune
<1>21. ASSUME NEW p \in Procs, ScanIndex(p), UNCHANGED <<checkVars, countVars, answer>>
      PROVE  ReceiptsProven'
  BY <1>21 DEF ScanIndex
<1>22. ASSUME NEW p \in Procs, UnlinkIndex(p), UNCHANGED <<checkVars, countVars, answer>>
      PROVE  ReceiptsProven'
  BY <1>22 DEF UnlinkIndex
<1>23. ASSUME NEW p \in Procs, Snapshot(p), UNCHANGED <<checkVars, countVars, answer>>
      PROVE  ReceiptsProven'
  BY <1>23 DEF Snapshot
<1>24. ASSUME NEW p \in Procs, NextVictim(p), UNCHANGED <<checkVars, countVars, answer>>
      PROVE  ReceiptsProven'
  BY <1>24 DEF NextVictim
<1>25. ASSUME NEW p \in Procs, LockVictim(p), UNCHANGED <<checkVars, countVars, answer>>
      PROVE  ReceiptsProven'
  BY <1>25 DEF LockVictim
<1>26. ASSUME NEW p \in Procs, RemoveVictim(p), UNCHANGED <<checkVars, countVars, answer>>
      PROVE  ReceiptsProven'
  BY <1>26 DEF RemoveVictim
<1>27. ASSUME NEW p \in Procs, EndPrune(p), UNCHANGED <<checkVars, countVars, answer>>
      PROVE  ReceiptsProven'
  BY <1>27 DEF EndPrune, ResetPrune, Returns
<1>28. CASE UNCHANGED vars
  BY <1>28 DEF vars
<1> QED
  BY <1>1, <1>2, <1>3, <1>4, <1>5, <1>6, <1>7, <1>8, <1>9, <1>10, <1>11, <1>12,
     <1>13, <1>14, <1>15, <1>16, <1>17, <1>18, <1>19, <1>20, <1>21, <1>22, <1>23,
     <1>24, <1>25, <1>26, <1>27, <1>28
  DEF Next, CheckStep, Prune, PruneStep, Rest

(* Every step keeps the invariant about answers.                           *)
LEMMA AnsweredStep ==
  ASSUME Typed, Answered, [Next]_vars
  PROVE  (NotYetAnswered /\ CachedAnswerProven)'
<1> USE StoreAssumption DEF Typed, TypeOK, StoreTypeOK, Referents, Answered,
        ReceiptsProven, NotYetAnswered, CachedAnswerProven, Key, Goto,
        ReservePc, RunPc, PrunePc, CheckPc, LookupPc,
        storeVars, lockVars, pruneVars, checkVars, countVars
<1>1. ASSUME NEW p \in Procs, StartCheck(p)
      PROVE  (NotYetAnswered /\ CachedAnswerProven)'
  BY <1>1 DEF StartCheck, NoAnswer
<1>2. ASSUME NEW p \in Procs, StartPrune(p)
      PROVE  (NotYetAnswered /\ CachedAnswerProven)'
  BY <1>2 DEF StartPrune, BeginPrune, NoAnswer
<1>3. ASSUME NEW p \in Procs, ReadIndex(p)
      PROVE  (NotYetAnswered /\ CachedAnswerProven)'
  <2>1. /\ MissPc[pc[p]] \in {"select", "probe", "reserve"}
        /\ MissPc[pc[p]] = "select" => pc[p] = "index1"
        /\ MissPc[pc[p]] = "reserve" => pc[p] = "index3"
        /\ ReceiptPc[pc[p]] \in {"receipt1", "receipt2", "receipt3"}
        /\ ReceiptPc[pc[p]] = "receipt1" => pc[p] = "index1"
        /\ ReceiptPc[pc[p]] = "receipt3" => pc[p] = "index3"
    BY <1>3, MissLabels, ReceiptLabels DEF ReadIndex
  <2> QED BY <1>3, <2>1 DEF ReadIndex
<1>4. ASSUME NEW p \in Procs, ReadReceipt(p)
      PROVE  (NotYetAnswered /\ CachedAnswerProven)'
  <2>1. /\ MissPc[pc[p]] \in {"select", "probe", "reserve"}
        /\ MissPc[pc[p]] = "select" => pc[p] = "receipt1"
    BY <1>4, MissLabels DEF ReadReceipt
  <2>2. found[p] \in Dests
    BY <1>4 DEF ReadReceipt
  <2>3. CASE answer' = answer /\ Goto(p, MissPc[pc[p]])
    BY <1>4, <2>1, <2>3 DEF ReadReceipt
  <2>4. CASE /\ Usable(p, found[p]) /\ Goto(p, "touch")
             /\ answer' = [answer EXCEPT ![p] = [kind |-> "cached", dest |-> found[p]]]
    BY <1>4, <2>2, <2>4 DEF ReadReceipt, Usable, PassReceipt
  <2> QED BY <1>4, <2>3, <2>4 DEF ReadReceipt
<1>5. ASSUME NEW p \in Procs, Touch(p)
      PROVE  (NotYetAnswered /\ CachedAnswerProven)'
  BY <1>5 DEF Touch
<1>6. ASSUME NEW p \in Procs, SelectRunner(p)
      PROVE  (NotYetAnswered /\ CachedAnswerProven)'
  BY <1>6 DEF SelectRunner
<1>7. ASSUME NEW p \in Procs, AcquireProbe(p)
      PROVE  (NotYetAnswered /\ CachedAnswerProven)'
  BY <1>7 DEF AcquireProbe
<1>8. ASSUME NEW p \in Procs, Reserve(p)
      PROVE  (NotYetAnswered /\ CachedAnswerProven)'
  BY <1>8 DEF Reserve, BeginPrune
<1>9. ASSUME NEW p \in Procs, Plan(p)
      PROVE  (NotYetAnswered /\ CachedAnswerProven)'
  <2>1. CASE answer' = answer /\ Goto(p, "lockjson")
    BY <1>9, <2>1 DEF Plan
  <2>2. CASE /\ PassReceipt(req[p]) /\ Goto(p, "touchplan")
             /\ answer' = [answer EXCEPT ![p] = [kind |-> "cached", dest |-> req[p]]]
    BY <1>9, <2>2 DEF Plan, PassReceipt
  <2> QED BY <1>9, <2>1, <2>2 DEF Plan
<1>10. ASSUME NEW p \in Procs, LockReceipt(p)
      PROVE  (NotYetAnswered /\ CachedAnswerProven)'
  BY <1>10 DEF LockReceipt
<1>11. ASSUME NEW p \in Procs, LockLog(p)
      PROVE  (NotYetAnswered /\ CachedAnswerProven)'
  BY <1>11 DEF LockLog
<1>12. ASSUME NEW p \in Procs, FinishStep(p)
      PROVE  (NotYetAnswered /\ CachedAnswerProven)'
  BY <1>12 DEF FinishStep
<1>13. ASSUME NEW p \in Procs, WriteReceipt(p)
      PROVE  (NotYetAnswered /\ CachedAnswerProven)'
  BY <1>13 DEF WriteReceipt
<1>14. ASSUME NEW p \in Procs, WriteIndex(p)
      PROVE  (NotYetAnswered /\ CachedAnswerProven)'
  BY <1>14 DEF WriteIndex
<1>15. ASSUME NEW p \in Procs, ReleaseEvidence(p)
      PROVE  (NotYetAnswered /\ CachedAnswerProven)'
  BY <1>15 DEF ReleaseEvidence
<1>16. ASSUME NEW p \in Procs, Maintain(p)
      PROVE  (NotYetAnswered /\ CachedAnswerProven)'
  BY <1>16 DEF Maintain, BeginPrune
<1>17. ASSUME NEW p \in Procs, Return(p)
      PROVE  (NotYetAnswered /\ CachedAnswerProven)'
  BY <1>17 DEF Return
<1>18. ASSUME NEW p \in Procs, Abort(p)
      PROVE  (NotYetAnswered /\ CachedAnswerProven)'
  BY <1>18 DEF Abort
<1>19. ASSUME NEW p \in Procs, MaintenanceFails(p)
      PROVE  (NotYetAnswered /\ CachedAnswerProven)'
  BY <1>19 DEF MaintenanceFails, ResetPrune
<1>20. ASSUME NEW p \in Procs, Crash(p)
      PROVE  (NotYetAnswered /\ CachedAnswerProven)'
  BY <1>20 DEF Crash, ResetPrune, NoAnswer
<1>21. ASSUME NEW p \in Procs, ScanIndex(p), UNCHANGED <<checkVars, countVars, answer>>
      PROVE  (NotYetAnswered /\ CachedAnswerProven)'
  BY <1>21 DEF ScanIndex
<1>22. ASSUME NEW p \in Procs, UnlinkIndex(p), UNCHANGED <<checkVars, countVars, answer>>
      PROVE  (NotYetAnswered /\ CachedAnswerProven)'
  BY <1>22 DEF UnlinkIndex
<1>23. ASSUME NEW p \in Procs, Snapshot(p), UNCHANGED <<checkVars, countVars, answer>>
      PROVE  (NotYetAnswered /\ CachedAnswerProven)'
  BY <1>23 DEF Snapshot
<1>24. ASSUME NEW p \in Procs, NextVictim(p), UNCHANGED <<checkVars, countVars, answer>>
      PROVE  (NotYetAnswered /\ CachedAnswerProven)'
  BY <1>24 DEF NextVictim
<1>25. ASSUME NEW p \in Procs, LockVictim(p), UNCHANGED <<checkVars, countVars, answer>>
      PROVE  (NotYetAnswered /\ CachedAnswerProven)'
  BY <1>25 DEF LockVictim
<1>26. ASSUME NEW p \in Procs, RemoveVictim(p), UNCHANGED <<checkVars, countVars, answer>>
      PROVE  (NotYetAnswered /\ CachedAnswerProven)'
  BY <1>26 DEF RemoveVictim
<1>27. ASSUME NEW p \in Procs, EndPrune(p), UNCHANGED <<checkVars, countVars, answer>>
      PROVE  (NotYetAnswered /\ CachedAnswerProven)'
  BY <1>27 DEF EndPrune, ResetPrune, Returns
<1>28. CASE UNCHANGED vars
  BY <1>28 DEF vars
<1> QED
  BY <1>1, <1>2, <1>3, <1>4, <1>5, <1>6, <1>7, <1>8, <1>9, <1>10, <1>11, <1>12,
     <1>13, <1>14, <1>15, <1>16, <1>17, <1>18, <1>19, <1>20, <1>21, <1>22, <1>23,
     <1>24, <1>25, <1>26, <1>27, <1>28
  DEF Next, CheckStep, Prune, PruneStep, Rest

(* A cached answer stands for a plan that has passed, for the key asked for. *)
THEOREM CachedProven == Spec => []CachedAnswerProven
<1>1. Init => FilesOwned /\ Kept /\ Answered
  BY DEF Init, FilesOwned, Owns, RunPc, Kept, InUseEvidenceKept, PassIsLast, Executing,
     Answered, ReceiptsProven, NotYetAnswered, CachedAnswerProven, NoAnswer
<1>2. Typed /\ FilesOwned /\ Kept /\ Answered /\ [Next]_vars => Answered'
  BY ReceiptsProvenStep, AnsweredStep DEF Answered
<1>3. Answered => CachedAnswerProven
  BY DEF Answered
<1> QED BY <1>1, <1>2, <1>3, TypedInvariant, FilesOwnedStep, KeptStep, PTL DEF Spec

-----------------------------------------------------------------------------
(* Only a running check and a prune at an entry hold file locks; a prune   *)
(* that still locks has those of its entry that come before the others.    *)
OrderedBy(p) ==
  \A d \in Dests, f \in File : fileLock[d][f] = p =>
    /\ pc[p] \in RunPc \cup {"lock", "remove"}
    /\ pc[p] = "lock" => /\ d = entry[p].dest
                         /\ \A g \in Unlocked(p) : SortRank(f) < SortRank(g)

Ordered == \A p \in Procs : OrderedBy(p)

(* No two files of an entry have one place in the order.                   *)
LEMMA RankOrders ==
  ASSUME NEW f \in File, NEW g \in File
  PROVE  /\ SortRank(f) \in Nat
         /\ SortRank(f) = SortRank(g) => f = g
BY StoreAssumption DEF SortRank, File, Json

(* A step of p that leaves what others do and hold alone keeps Ordered.    *)
LEMMA OthersOrdered ==
  ASSUME Typed, Ordered, NEW p \in Procs, OrderedBy(p)', OthersStay(p),
         \A q \in Procs \ {p}, d \in Dests, f \in File :
           fileLock[d][f] = q <=> fileLock'[d][f] = q
  PROVE  Ordered'
<1> SUFFICES ASSUME NEW q \in Procs, q # p PROVE OrderedBy(q)'
  BY DEF Ordered
<1>1. pc'[q] = pc[q] /\ entry'[q] = entry[q] /\ OrderedBy(q)
  BY DEF OthersStay, Ordered
<1>2. pc[q] = "lock" => entry[q].dest \in Dests /\ entry[q].files \subseteq File
  BY DEF Typed, Referents, Entry
<1>3. pc[q] = "lock" => Unlocked(q)' = Unlocked(q)
  BY <1>1, <1>2 DEF Unlocked
<1> QED BY <1>1, <1>3 DEF OrderedBy, SortRank

(* So does one that ends with nothing of p locked.                         *)
LEMMA ReleaseOrders ==
  ASSUME Typed, Ordered, NEW p \in Procs, ReleaseFiles(p), OthersStay(p)
  PROVE  Ordered'
<1>1. \A d \in Dests, f \in File : fileLock'[d][f] # p
  BY StoreAssumption DEF ReleaseFiles
<1>2. \A q \in Procs \ {p}, d \in Dests, f \in File :
        fileLock[d][f] = q <=> fileLock'[d][f] = q
  BY StoreAssumption DEF ReleaseFiles
<1> QED BY <1>1, <1>2, OthersOrdered DEF OrderedBy

(* And one that locks nothing and goes to a point where p may hold what it *)
(* holds.                                                                  *)
LEMMA HoldingOrders ==
  ASSUME Typed, Ordered, NEW p \in Procs, UNCHANGED fileLock, OthersStay(p),
         \/ pc[p] \notin RunPc \cup {"lock", "remove"}
         \/ pc'[p] \in RunPc \cup {"remove"}
  PROVE  Ordered'
<1>1. OrderedBy(p)'
  BY DEF Ordered, OrderedBy, RunPc
<1> QED BY <1>1, OthersOrdered

(* LockVictim goes on with the first file that is left.                    *)
LEMMA OrderedLockVictim ==
  ASSUME Typed, Ordered, NEW p \in Procs, LockVictim(p),
         UNCHANGED <<checkVars, countVars, answer>>
  PROVE  Ordered'
<1>1. OthersStay(p)
  <2>1. /\ UNCHANGED <<req, step, entry>>
        /\ pc' \in {pc, [pc EXCEPT ![p] = "remove"]}
    BY DEF LockVictim, Goto, pruneVars, checkVars
  <2> QED BY <2>1 DEF OthersStay, Typed, TypeOK
<1>2. PICK f \in Unlocked(p) :
        /\ \A g \in Unlocked(p) : SortRank(f) <= SortRank(g)
        /\ fileLock[entry[p].dest][f] = None
        /\ fileLock' = [fileLock EXCEPT ![entry[p].dest][f] = p]
        /\ \/ Unlocked(p) = {f} /\ Goto(p, "remove")
           \/ Unlocked(p) # {f} /\ UNCHANGED pc
  BY DEF LockVictim
<1>3. /\ entry' = entry /\ entry[p].dest \in Dests /\ entry[p].files \subseteq File
      /\ pc[p] = "lock" /\ pc \in [Procs -> Labels]
      /\ fileLock \in [Dests -> [File -> Holder]]
  BY DEF LockVictim, pruneVars, Typed, TypeOK, StoreTypeOK, Referents, Entry
<1>4. f \in File /\ Unlocked(p) \subseteq File
  BY <1>2, <1>3 DEF Unlocked
<1>5. \A g \in Unlocked(p)' : g \in Unlocked(p) /\ g # f
  BY <1>2, <1>3, <1>4 DEF Unlocked
<1>6. ASSUME NEW d \in Dests, NEW g \in File, fileLock'[d][g] = p
      PROVE  d = entry[p].dest /\ (g = f \/ fileLock[d][g] = p)
  <2>1. fileLock[d][g] = p => d = entry[p].dest
    BY <1>3 DEF Ordered, OrderedBy
  <2> QED BY <1>2, <1>3, <1>4, <1>6, <2>1
<1>7. ASSUME NEW d \in Dests, NEW g \in File, fileLock'[d][g] = p, NEW h \in Unlocked(p)'
      PROVE  SortRank(g) < SortRank(h)
  <2>1. h \in Unlocked(p) /\ h # f /\ h \in File
    BY <1>4, <1>5, <1>7
  <2>2. CASE g = f
    BY <1>2, <1>4, <2>1, <2>2, RankOrders
  <2>3. CASE fileLock[d][g] = p
    BY <1>3, <2>1, <2>3 DEF Ordered, OrderedBy
  <2> QED BY <1>6, <1>7, <2>2, <2>3
<1>8. OrderedBy(p)'
  <2>1. pc'[p] \in {"lock", "remove"}
    BY <1>2, <1>3 DEF Goto
  <2> QED BY <1>3, <1>6, <1>7, <2>1 DEF OrderedBy, SortRank
<1>9. \A q \in Procs \ {p}, d \in Dests, g \in File :
        fileLock[d][g] = q <=> fileLock'[d][g] = q
  BY <1>2, <1>3, <1>4, StoreAssumption
<1> QED BY <1>1, <1>8, <1>9, OthersOrdered

(* A check locks its receipt and its logs while it runs.                   *)
LEMMA OrderedLockFile ==
  ASSUME Typed, Ordered, NEW p \in Procs, LockReceipt(p) \/ LockLog(p)
  PROVE  Ordered'
<1>1. PICK f \in File :
        /\ fileLock[req[p]][f] = None
        /\ fileLock' = [fileLock EXCEPT ![req[p]][f] = p]
  BY StoreAssumption DEF LockReceipt, LockLog, File, Json, Typed, TypeOK, Steps
<1>2. /\ pc' \in {[pc EXCEPT ![p] = "locklog"], [pc EXCEPT ![p] = "run"]}
      /\ UNCHANGED <<req, entry>>
      /\ step' \in {step, [step EXCEPT ![p] = 1]}
      /\ req[p] \in Dests
  BY DEF LockReceipt, LockLog, Goto, pruneVars, checkVars, Typed, Referents, CheckPc, RunPc
<1>3. OthersStay(p)
  BY <1>2 DEF OthersStay, Typed, TypeOK
<1>4. OrderedBy(p)'
  BY <1>2 DEF OrderedBy, RunPc, Typed, TypeOK
<1>5. \A q \in Procs \ {p}, d \in Dests, g \in File :
        fileLock[d][g] = q <=> fileLock'[d][g] = q
  BY <1>1, <1>2, StoreAssumption DEF Typed, TypeOK, StoreTypeOK
<1> QED BY <1>3, <1>4, <1>5, OthersOrdered

(* Between two files of an entry a prune keeps its locks, after the last   *)
(* it has none.                                                            *)
LEMMA OrderedRemoveVictim ==
  ASSUME Typed, Ordered, NEW p \in Procs, RemoveVictim(p),
         UNCHANGED <<checkVars, countVars, answer>>
  PROVE  Ordered'
<1>1. OthersStay(p)
  <2>1. /\ UNCHANGED <<req, step>>
        /\ pc' \in {pc, [pc EXCEPT ![p] = "victim"]}
        /\ \E e : entry' = [entry EXCEPT ![p] = e]
    BY DEF RemoveVictim, Goto, checkVars
  <2> QED BY <2>1 DEF OthersStay, Typed, TypeOK, StoreTypeOK
<1>2. \/ ReleaseFiles(p)
      \/ UNCHANGED <<fileLock, pc>> /\ pc[p] = "remove"
  BY DEF RemoveVictim
<1> QED BY <1>1, <1>2, ReleaseOrders, HoldingOrders

(* Every step keeps the order.                                             *)
LEMMA OrderedStep ==
  ASSUME Typed, Ordered, [Next]_vars
  PROVE  Ordered'
<1> USE DEF Goto, lockVars, pruneVars, checkVars
<1>1. ASSUME NEW p \in Procs,
             StartCheck(p) \/ StartPrune(p) \/ ReadIndex(p) \/ ReadReceipt(p) \/ Touch(p)
               \/ SelectRunner(p) \/ AcquireProbe(p) \/ Reserve(p) \/ Plan(p) \/ Maintain(p)
      PROVE  Ordered'
  <2>1. UNCHANGED fileLock /\ pc[p] \notin RunPc \cup {"lock", "remove"}
    BY <1>1 DEF StartCheck, StartPrune, ReadIndex, ReadReceipt, Touch, SelectRunner,
       AcquireProbe, Reserve, Plan, Maintain, BeginPrune, RunPc, ReservePc
  <2>2. OthersStay(p)
    BY <1>1 DEF StartCheck, StartPrune, ReadIndex, ReadReceipt, Touch, SelectRunner,
       AcquireProbe, Reserve, Plan, Maintain, BeginPrune, OthersStay, Typed, TypeOK
  <2> QED BY <2>1, <2>2, HoldingOrders
<1>2. ASSUME NEW p \in Procs, FinishStep(p) \/ WriteReceipt(p) \/ WriteIndex(p)
      PROVE  Ordered'
  <2>1. UNCHANGED fileLock /\ pc'[p] \in RunPc
    BY <1>2 DEF FinishStep, WriteReceipt, WriteIndex, RunPc, Typed, TypeOK
  <2>2. /\ UNCHANGED <<req, entry>>
        /\ \E c, i : pc' = [pc EXCEPT ![p] = c] /\ step' \in {step, [step EXCEPT ![p] = i]}
    BY <1>2 DEF FinishStep, WriteReceipt, WriteIndex
  <2>3. OthersStay(p)
    BY <2>2 DEF OthersStay, Typed, TypeOK
  <2> QED BY <2>1, <2>3, HoldingOrders
<1>3. ASSUME NEW p \in Procs,
             ReleaseEvidence(p) \/ Return(p) \/ Abort(p) \/ MaintenanceFails(p) \/ Crash(p)
      PROVE  Ordered'
  <2>1. ReleaseFiles(p)
    BY <1>3 DEF ReleaseEvidence, Return, Abort, MaintenanceFails, Crash, ReleaseAll
  <2>2. CASE ReleaseEvidence(p)
    BY <2>1, <2>2, ReleaseOrders DEF ReleaseEvidence, OthersStay
  <2>6. CASE Return(p)
    BY <2>1, <2>6, ReleaseOrders DEF Return, ReleaseAll, OthersStay
  <2>3. CASE Abort(p)
    BY <2>1, <2>3, ReleaseOrders DEF Abort, ReleaseAll, OthersStay
  <2>4. CASE MaintenanceFails(p)
    BY <2>1, <2>4, ReleaseOrders DEF MaintenanceFails, ResetPrune, OthersStay
  <2>5. CASE Crash(p)
    BY <2>1, <2>5, ReleaseOrders DEF Crash, ReleaseAll, ResetPrune, OthersStay
  <2> QED BY <1>3, <2>2, <2>3, <2>4, <2>5, <2>6
<1>4. ASSUME NEW p \in Procs, UNCHANGED <<checkVars, countVars, answer>>,
             ScanIndex(p) \/ UnlinkIndex(p) \/ Snapshot(p) \/ NextVictim(p) \/ EndPrune(p)
      PROVE  Ordered'
  <2>1. UNCHANGED fileLock /\ pc[p] \notin RunPc \cup {"lock", "remove"}
    BY <1>4 DEF ScanIndex, UnlinkIndex, Snapshot, NextVictim, EndPrune, RunPc
  <2>2. OthersStay(p)
    <3>1. /\ UNCHANGED <<req, step>>
          /\ pc' = pc \/ \E c : pc' = [pc EXCEPT ![p] = c]
          /\ entry' = entry \/ \E e : entry' = [entry EXCEPT ![p] = e]
      BY <1>4 DEF ScanIndex, UnlinkIndex, Snapshot, NextVictim, EndPrune, ResetPrune
    <3> QED BY <3>1 DEF OthersStay, Typed, TypeOK, StoreTypeOK
  <2> QED BY <2>1, <2>2, HoldingOrders
<1>5. CASE UNCHANGED vars
  BY <1>5 DEF vars, Ordered, OrderedBy, Unlocked, SortRank
<1> QED
  BY <1>1, <1>2, <1>3, <1>4, <1>5, OrderedLockVictim, OrderedLockFile, OrderedRemoveVictim
  DEF Next, CheckStep, Prune, PruneStep, Rest

(* Two prunes never wait for each other over the files of one entry.       *)
THEOREM PrunesOrdered == Spec => []PrunesNeverCross
<1>1. Init => Ordered
  BY StoreAssumption DEF Init, Ordered, OrderedBy
<1>2. Typed /\ Ordered => PrunesNeverCross
  <2> SUFFICES ASSUME Typed, Ordered, NEW p \in Procs, NEW q \in Procs,
                      pc[q] = "lock", WaitsFor(p, q), WaitsFor(q, p)
               PROVE  FALSE
    BY DEF PrunesNeverCross
  <2>1. \A r \in {p, q} : /\ entry[r].dest \in Dests /\ entry[r].files \subseteq File
                          /\ Unlocked(r) \subseteq File
    BY DEF WaitsFor, Typed, Referents, Entry, Unlocked
  <2>2. PICK f \in Unlocked(p) : fileLock[entry[p].dest][f] = q
    BY DEF WaitsFor
  <2>3. PICK g \in Unlocked(q) : fileLock[entry[q].dest][g] = p
    BY DEF WaitsFor
  <2>4. SortRank(f) < SortRank(g) /\ SortRank(g) < SortRank(f)
    BY <2>1, <2>2, <2>3 DEF WaitsFor, Ordered, OrderedBy
  <2> QED BY <2>1, <2>2, <2>3, <2>4, RankOrders
<1> QED BY <1>1, <1>2, TypedInvariant, OrderedStep, PTL DEF Spec

-----------------------------------------------------------------------------
(* What a check knows when it starts to run steps, and what the files of   *)
(* the store say of each other.                                            *)

(* An index names a destination of its own key.                            *)
IndexKeyed == \A k \in Keys : index[k] \in Dests => KeyOf[index[k]] = k

(* From its last miss to its receipt a check works at an unknown PASS.     *)
Seeking(p) ==
  \/ pc[p] \in ReservePc \cup {"plan", "lockjson", "locklog", "run", "write"}
  \/ pc[p] \in PrunePc /\ ret[p] \in {"reserve2", "reserve3"}

UnknownTo(p) ==
  useCache[p] =>
    /\ pc[p] = "receipt3" /\ index[Key(p)] \in Dests => index[Key(p)] = found[p]
    /\ Seeking(p) /\ index[Key(p)] \in Dests => receipt[index[Key(p)]] # "pass"
    /\ pc[p] \in {"lockjson", "locklog", "run", "write"} => receipt[req[p]] # "pass"

Unknown == IndexKeyed /\ \A p \in Procs : UnknownTo(p)

(* A step that makes no PASS known for k.                                  *)
NoNews(k) ==
  /\ index'[k] \in Dests => index'[k] = index[k]
  /\ \A d \in Dests : KeyOf[d] = k /\ receipt'[d] = "pass" => receipt[d] = "pass"

(* A step that leaves what the other processes are about alone.            *)
OthersAsk(p) ==
  \A q \in Procs \ {p} :
    /\ pc'[q] = pc[q] /\ ret'[q] = ret[q]
    /\ req'[q] = req[q] /\ useCache'[q] = useCache[q] /\ found'[q] = found[q]

(* What a check does not know about its key only the holder of the probe   *)
(* lock of that key can make known.                                        *)
LEMMA OthersUnknown ==
  ASSUME Typed, ProbeOwned, Unknown, NEW p \in Procs, OthersAsk(p),
         \A k \in Keys : NoNews(k) \/ (HoldsProbe(p) /\ k = Key(p)),
         \A k \in Keys : index'[k] \in Dests => KeyOf[index'[k]] = k,
         UnknownTo(p)'
  PROVE  Unknown'
<1>1. ASSUME NEW q \in Procs, q # p, useCache[q], pc[q] = "receipt3" \/ Seeking(q)
      PROVE  UnknownTo(q)'
  <2>1. req[q] \in Dests /\ Key(q) \in Keys
    BY <1>1, StoreAssumption
    DEF Typed, Referents, Seeking, CheckPc, LookupPc, RunPc, Key
  <2>2. HoldsProbe(q) /\ probeLock[Key(q)] = q
    BY <1>1 DEF Seeking, HoldsProbe, ProbeOwned, RunPc
  <2>3. NoNews(Key(q))
    BY <1>1, <2>1, <2>2 DEF ProbeOwned
  <2>4. Key(q)' = Key(q) /\ Seeking(q)' = Seeking(q)
    BY <1>1 DEF OthersAsk, Key, Seeking
  <2>5. KeyOf[req[q]] = Key(q)
    BY DEF Key
  <2> QED BY <1>1, <2>1, <2>3, <2>4, <2>5 DEF Unknown, UnknownTo, IndexKeyed, NoNews, OthersAsk
<1>2. ASSUME NEW q \in Procs, q # p, ~useCache[q] \/ ~(pc[q] = "receipt3" \/ Seeking(q))
      PROVE  UnknownTo(q)'
  BY <1>2 DEF OthersAsk, UnknownTo, Seeking
<1> QED BY <1>1, <1>2 DEF Unknown, IndexKeyed

(* Nothing is news where no file of the store changes.                     *)
LEMMA QuietNoNews == ASSUME UNCHANGED <<receipt, index>> PROVE \A k \in Keys : NoNews(k)
BY DEF NoNews

(* The lookups: the last one, under the probe lock, ends in a hit or with  *)
(* nothing known.                                                          *)
LEMMA UnknownLookup ==
  ASSUME Typed, ProbeOwned, Unknown, NEW p \in Procs,
         ReadIndex(p) \/ ReadReceipt(p) \/ Plan(p)
  PROVE  Unknown'
<1>1. UNCHANGED <<receipt, log, index, ret, req, useCache>>
  BY DEF ReadIndex, ReadReceipt, Plan, storeVars, pruneVars
<1>2. OthersAsk(p)
  BY <1>1 DEF ReadIndex, ReadReceipt, Plan, Goto, OthersAsk, Typed, TypeOK
<1>3. Key(p)' = Key(p) /\ req[p] \in Dests /\ Key(p) \in Keys
  BY <1>1, StoreAssumption
  DEF Key, ReadIndex, ReadReceipt, Plan, Typed, Referents, CheckPc, LookupPc
<1>4. UnknownTo(p)'
  <2> USE DEF Unknown, UnknownTo, Seeking, Goto, Typed, TypeOK, RunPc, ReservePc, PrunePc
  <2>1. CASE ReadIndex(p)
    <3>1. /\ MissPc[pc[p]] \in {"select", "probe", "reserve"}
          /\ MissPc[pc[p]] = "reserve" => pc[p] = "index3"
          /\ ReceiptPc[pc[p]] \in {"receipt1", "receipt2", "receipt3"}
      BY <2>1, MissLabels, ReceiptLabels DEF ReadIndex
    <3>2. CASE pc' = [pc EXCEPT ![p] = ReceiptPc[pc[p]]] /\ found' = [found EXCEPT ![p] = index[Key(p)]]
      BY <1>1, <1>3, <3>1, <3>2
    <3>3. CASE pc' = [pc EXCEPT ![p] = MissPc[pc[p]]] /\ index[Key(p)] \notin Dests
      BY <1>1, <1>3, <3>1, <3>3
    <3> QED BY <2>1, <3>2, <3>3 DEF ReadIndex
  <2>2. CASE ReadReceipt(p)
    <3>1. /\ MissPc[pc[p]] \in {"select", "probe", "reserve"}
          /\ MissPc[pc[p]] = "reserve" => pc[p] = "receipt3"
      BY <2>2, MissLabels DEF ReadReceipt
    <3>2. CASE pc' = [pc EXCEPT ![p] = "touch"]
      BY <3>2
    <3>3. CASE pc' = [pc EXCEPT ![p] = MissPc[pc[p]]] /\ ~Usable(p, found[p])
      BY <1>1, <1>3, <3>1, <3>3 DEF Usable, PassReceipt, IndexKeyed
    <3> QED BY <2>2, <3>2, <3>3 DEF ReadReceipt
  <2>3. CASE Plan(p)
    BY <1>1, <1>3, <2>3 DEF Plan, PassReceipt
  <2> QED BY <2>1, <2>2, <2>3
<1> QED BY <1>1, <1>2, <1>4, QuietNoNews, OthersUnknown DEF Unknown, IndexKeyed

(* The writes: they make a PASS known to nobody but those who wait for the *)
(* probe lock.                                                             *)
LEMMA UnknownWrite ==
  ASSUME Typed, ProbeOwned, Unknown, NEW p \in Procs, WriteReceipt(p) \/ WriteIndex(p)
  PROVE  Unknown'
<1>1. /\ pc[p] \in {"write", "publish"} /\ UNCHANGED <<ret, req, useCache, found>>
      /\ \E c \in {"publish", "unlock"} : pc' = [pc EXCEPT ![p] = c]
  BY DEF WriteReceipt, WriteIndex, Goto, pruneVars, checkVars
<1>2. HoldsProbe(p) /\ req[p] \in Dests /\ Key(p) = KeyOf[req[p]] /\ Key(p) \in Keys
  BY <1>1, StoreAssumption DEF HoldsProbe, RunPc, Typed, Referents, CheckPc, Key
<1>3. OthersAsk(p)
  BY <1>1 DEF OthersAsk, Typed, TypeOK
<1>4. \A k \in Keys : NoNews(k) \/ k = Key(p)
  BY <1>2 DEF WriteReceipt, WriteIndex, NoNews, Typed, TypeOK, StoreTypeOK
<1>5. \A k \in Keys : index'[k] \in Dests => KeyOf[index'[k]] = k
  BY <1>2 DEF WriteReceipt, WriteIndex, Unknown, IndexKeyed, Typed, TypeOK, StoreTypeOK
<1>6. UnknownTo(p)'
  BY <1>1 DEF UnknownTo, Seeking, RunPc, ReservePc, PrunePc, Typed, TypeOK
<1> QED BY <1>2, <1>3, <1>4, <1>5, <1>6, OthersUnknown

(* Prunes and touches take knowledge away and never add any.               *)
LEMMA LossIsNoNews ==
  ASSUME Typed, NEW p \in Procs, Touch(p) \/ UnlinkIndex(p) \/ RemoveVictim(p)
  PROVE  /\ \A k \in Keys : NoNews(k)
         /\ \A k \in Keys : index'[k] \in Dests => index'[k] = index[k]
<1>1. \A k \in Keys : index'[k] \in {index[k], None, Bad}
  <2>1. ASSUME NEW k, NEW v \in {None, Bad}, index' = [index EXCEPT ![k] = v]
        PROVE  \A j \in Keys : index'[j] \in {index[j], None, Bad}
    BY <2>1 DEF Typed, TypeOK, StoreTypeOK
  <2> QED BY <2>1 DEF Touch, UnlinkIndex, RemoveVictim
<1>2. \A d \in Dests : receipt'[d] \in {receipt[d], "none", "junk"}
  <2>1. ASSUME NEW e, NEW v \in {"none", "junk"}, receipt' = [receipt EXCEPT ![e] = v]
        PROVE  \A d \in Dests : receipt'[d] \in {receipt[d], "none", "junk"}
    BY <2>1 DEF Typed, TypeOK, StoreTypeOK
  <2> QED BY <2>1 DEF Touch, UnlinkIndex, RemoveVictim
<1> QED BY <1>1, <1>2, StoreAssumption DEF NoNews

(* Everything else writes no file a check asks for.                        *)
LEMMA UnknownMove ==
  ASSUME Typed, ProbeOwned, Unknown, NEW p \in Procs, UNCHANGED <<receipt, index>>,
         \/ StartCheck(p) \/ StartPrune(p) \/ SelectRunner(p) \/ AcquireProbe(p)
         \/ Reserve(p) \/ LockReceipt(p) \/ LockLog(p) \/ FinishStep(p)
         \/ ReleaseEvidence(p) \/ Maintain(p) \/ Return(p)
         \/ Abort(p) \/ MaintenanceFails(p) \/ Crash(p)
  PROVE  Unknown'
<1> USE DEF Goto, pruneVars, checkVars, Typed, TypeOK, StoreTypeOK
<1>1. OthersAsk(p)
  BY DEF OthersAsk, StartCheck, StartPrune, BeginPrune, SelectRunner, AcquireProbe, Reserve,
         LockReceipt, LockLog, FinishStep, ReleaseEvidence, Maintain, Return, Abort,
         MaintenanceFails, Crash, ResetPrune
<1>2. UnknownTo(p)'
  <2> USE DEF Unknown, UnknownTo, Seeking, RunPc, ReservePc, PrunePc
  <2>1. CASE StartCheck(p) \/ StartPrune(p)
    BY <2>1 DEF StartCheck, StartPrune, BeginPrune
  <2>2. CASE SelectRunner(p) \/ AcquireProbe(p)
    BY <2>2 DEF SelectRunner, AcquireProbe
  <2>3. CASE Reserve(p)
    BY <2>3 DEF Reserve, BeginPrune, Key
  <2>4. CASE LockReceipt(p) \/ LockLog(p) \/ FinishStep(p)
    <3>1. pc' \in {[pc EXCEPT ![p] = "locklog"], [pc EXCEPT ![p] = "run"], [pc EXCEPT ![p] = "write"]}
      BY <2>4 DEF LockReceipt, LockLog, FinishStep
    <3>2. pc[p] \in {"lockjson", "locklog", "run"} /\ UNCHANGED <<req, useCache>>
      BY <2>4 DEF LockReceipt, LockLog, FinishStep
    <3> QED BY <3>1, <3>2 DEF Key
  <2>5. CASE ReleaseEvidence(p) \/ Return(p) \/ Abort(p) \/ MaintenanceFails(p) \/ Crash(p)
    BY <2>5 DEF ReleaseEvidence, Return, Abort, MaintenanceFails, Crash
  <2>6. CASE Maintain(p)
    BY <2>6 DEF Maintain, BeginPrune
  <2> QED BY <2>1, <2>2, <2>3, <2>4, <2>5, <2>6
<1> QED BY <1>1, <1>2, QuietNoNews, OthersUnknown DEF Unknown, IndexKeyed

(* A prune sets out from a point at which nothing was known, and comes     *)
(* back to one.                                                            *)
LEMMA UnknownPrune ==
  ASSUME Typed, ProbeOwned, Unknown, NEW p \in Procs, Prune(p)
  PROVE  Unknown'
<1> USE DEF Goto, checkVars, storeVars, Typed, TypeOK, StoreTypeOK
<1>1. /\ UNCHANGED <<req, useCache, found>>
      /\ \/ UNCHANGED ret /\ (pc' = pc \/ \E c \in PrunePc : pc' = [pc EXCEPT ![p] = c])
         \/ EndPrune(p)
  <2>1. CASE ScanIndex(p) \/ UnlinkIndex(p) \/ Snapshot(p) \/ NextVictim(p)
    BY <2>1 DEF Prune, ScanIndex, UnlinkIndex, Snapshot, NextVictim, PrunePc
  <2>3. CASE EndPrune(p)
    BY <2>3 DEF Prune
  <2>2. CASE LockVictim(p) \/ RemoveVictim(p)
    BY <2>2 DEF Prune, LockVictim, RemoveVictim, PrunePc, pruneVars
  <2> QED BY <2>1, <2>2, <2>3 DEF Prune, PruneStep
<1>2. OthersAsk(p)
  BY <1>1 DEF OthersAsk, EndPrune, ResetPrune
<1>3. /\ \A k \in Keys : NoNews(k)
      /\ \A k \in Keys : index'[k] \in Dests => index'[k] = index[k]
  <2>1. CASE UNCHANGED <<receipt, index>>
    BY <2>1, QuietNoNews
  <2>2. CASE UnlinkIndex(p) \/ RemoveVictim(p)
    BY <2>2, LossIsNoNews
  <2> QED BY <2>1, <2>2 DEF Prune, PruneStep, ScanIndex, Snapshot, NextVictim, LockVictim, EndPrune
<1>4. \A k \in Keys : index'[k] \in Dests => KeyOf[index'[k]] = k
  BY <1>3 DEF Unknown, IndexKeyed
<1>5. UnknownTo(p)'
  <2>1. pc[p] \in PrunePc /\ pc'[p] \notin {"receipt3", "lockjson", "locklog", "run", "write"}
    BY <1>1 DEF Prune, PruneStep, ScanIndex, UnlinkIndex, Snapshot, NextVictim, LockVictim,
       RemoveVictim, EndPrune, PrunePc, Returns
  <2>2. Seeking(p)' => Seeking(p)
    <3>1. CASE EndPrune(p)
      BY <2>1, <3>1 DEF EndPrune, ResetPrune, Seeking, PrunePc, ReservePc, Returns
    <3>2. CASE ~EndPrune(p)
      BY <1>1, <2>1, <3>2 DEF Seeking, PrunePc, ReservePc
    <3> QED BY <3>1, <3>2
  <2>3. Seeking(p) => req[p] \in Dests /\ Key(p) \in Keys
    BY StoreAssumption DEF Seeking, Referents, CheckPc, RunPc, Key
  <2>4. Key(p)' = Key(p) /\ useCache'[p] = useCache[p]
    BY <1>1 DEF Key
  <2>5. ASSUME useCache[p], Seeking(p), index'[Key(p)] \in Dests
        PROVE  receipt'[index'[Key(p)]] # "pass"
    <3>1. index'[Key(p)] = index[Key(p)] /\ receipt[index[Key(p)]] # "pass"
      BY <1>3, <2>3, <2>5 DEF Unknown, UnknownTo
    <3>2. KeyOf[index[Key(p)]] = Key(p)
      BY <2>3, <2>5, <3>1 DEF Unknown, IndexKeyed
    <3> QED BY <1>3, <2>3, <2>5, <3>1, <3>2 DEF NoNews
  <2> QED BY <2>1, <2>2, <2>4, <2>5 DEF UnknownTo
<1> QED BY <1>2, <1>3, <1>4, <1>5, OthersUnknown

(* Every step keeps what a check does not know unknown.                    *)
LEMMA UnknownStep ==
  ASSUME Typed, ProbeOwned, Unknown, [Next]_vars
  PROVE  Unknown'
<1>1. ASSUME NEW p \in Procs, Touch(p)
      PROVE  Unknown'
  <2>1. UNCHANGED <<ret, req, useCache>>
        /\ pc' = [pc EXCEPT ![p] = "return"] /\ found' = [found EXCEPT ![p] = None]
    BY <1>1 DEF Touch, Goto, pruneVars
  <2>2. OthersAsk(p) /\ UnknownTo(p)'
    BY <2>1 DEF OthersAsk, UnknownTo, Seeking, RunPc, ReservePc, PrunePc, Typed, TypeOK
  <2>3. \A k \in Keys : index'[k] \in Dests => KeyOf[index'[k]] = k
    BY <1>1, LossIsNoNews DEF Unknown, IndexKeyed
  <2> QED BY <1>1, <2>2, <2>3, LossIsNoNews, OthersUnknown
<1>2. ASSUME NEW p \in Procs,
             \/ StartCheck(p) \/ StartPrune(p) \/ SelectRunner(p) \/ AcquireProbe(p)
             \/ Reserve(p) \/ LockReceipt(p) \/ LockLog(p) \/ FinishStep(p)
             \/ ReleaseEvidence(p) \/ Maintain(p) \/ Return(p)
             \/ Abort(p) \/ MaintenanceFails(p) \/ Crash(p)
      PROVE  Unknown'
  <2>1. UNCHANGED <<receipt, index>>
    BY <1>2 DEF StartCheck, StartPrune, SelectRunner, AcquireProbe, Reserve, LockReceipt,
       LockLog, FinishStep, ReleaseEvidence, Maintain, Return, Abort, MaintenanceFails, Crash,
       storeVars
  <2> QED BY <1>2, <2>1, UnknownMove
<1>3. CASE UNCHANGED vars
  BY <1>3 DEF vars, storeVars, checkVars, pruneVars, Unknown, IndexKeyed, UnknownTo, Seeking, Key
<1> QED
  BY <1>1, <1>2, <1>3, UnknownLookup, UnknownWrite, UnknownPrune DEF Next, CheckStep, Rest

(* At the start an index names a seeded destination of its key.            *)
LEMMA UnknownInit == Init => ProbeOwned /\ Unknown
<1> SUFFICES ASSUME Init PROVE ProbeOwned /\ Unknown
  OBVIOUS
<1>1. ASSUME NEW k \in Keys, index[k] \in Dests PROVE KeyOf[index[k]] = k
  <2>1. CASE \E d \in Seeded : KeyOf[d] = k
    <3> DEFINE seed == CHOOSE d \in Seeded : KeyOf[d] = k
    <3>1. seed \in Seeded /\ KeyOf[seed] = k
      BY <2>1
    <3>2. index[k] = seed
      BY <2>1 DEF Init
    <3> QED BY <3>1, <3>2
  <2>2. CASE ~\E d \in Seeded : KeyOf[d] = k
    BY <1>1, <2>2, StoreAssumption DEF Init
  <2> QED BY <2>1, <2>2
<1>2. ProbeOwned /\ \A p \in Procs : UnknownTo(p)
  BY DEF Init, ProbeOwned, HoldsProbe, UnknownTo, Seeking, RunPc, ReservePc, PrunePc
<1> QED BY <1>1, <1>2 DEF Unknown, IndexKeyed

(* What is not known to a check, one invariant with the probe locks.       *)
LEMMA UnknownInvariant == Spec => [](Typed /\ ProbeOwned /\ Unknown)
BY UnknownInit, TypedInvariant, ProbeOwnedStep, UnknownStep, PTL DEF Spec

(* "neither ... nor duplicate a known PASS build": a check that may use    *)
(* the cache never runs steps for a PASS that is known for its key.        *)
THEOREM NothingRebuilt == Spec => []KnownPassNotRebuilt
<1>1. Unknown => KnownPassNotRebuilt
  BY DEF Unknown, UnknownTo, Seeking, KnownPassNotRebuilt
<1> QED BY <1>1, UnknownInvariant, PTL

-----------------------------------------------------------------------------
(* Where nothing starts a prune, nothing unlinks an index: the one that a  *)
(* lookup has read is still there when it is touched.                      *)
Unpruned ==
  /\ \A p \in Procs : pc[p] \notin PrunePc
  /\ \A p \in Procs : pc[p] \in {"receipt1", "receipt2", "receipt3", "touch"} =>
       index[Key(p)] \in Dests
  /\ IndexNeverDangles

(* A step of p that only adds to the indexes keeps them so.                *)
LEMMA OthersUnpruned ==
  ASSUME Typed, Unpruned, NEW p \in Procs,
         \A q \in Procs \ {p} : pc'[q] = pc[q] /\ req'[q] = req[q],
         pc'[p] \notin PrunePc,
         pc'[p] \in {"receipt1", "receipt2", "receipt3", "touch"} => index[Key(p)'] \in Dests,
         \A k \in Keys : index'[k] = index[k] \/ index'[k] \in Dests,
         \A d \in Dests : receipt[d] # "none" => receipt'[d] # "none",
         \A k \in Keys : index'[k] # index[k] => receipt'[index'[k]] # "none",
         pc'[p] \in {"receipt1", "receipt2", "receipt3", "touch"} => req'[p] \in Dests
  PROVE  Unpruned'
<1>1. ASSUME NEW q \in Procs, pc'[q] \in {"receipt1", "receipt2", "receipt3", "touch"}
      PROVE  index'[Key(q)'] \in Dests
  <2>1. req'[q] \in Dests /\ index[Key(q)'] \in Dests
    BY <1>1 DEF Unpruned, Key, Typed, Referents, CheckPc, LookupPc
  <2>2. Key(q)' \in Keys
    BY <2>1, StoreAssumption DEF Key
  <2> QED BY <2>1, <2>2
<1>2. \A k \in Keys : NamesReceipt(k)'
  <2> SUFFICES ASSUME NEW k \in Keys PROVE NamesReceipt(k)'
    OBVIOUS
  <2>1. NamesReceipt(k)
    BY DEF Unpruned, IndexNeverDangles
  <2> QED BY <2>1, StoreAssumption DEF NamesReceipt
<1> QED BY <1>1, <1>2 DEF Unpruned, IndexNeverDangles

(* Every step that no prune takes keeps the indexes.                       *)
LEMMA UnprunedStep ==
  ASSUME Triggers = {}, Typed, Kept, Unpruned, [Next]_vars
  PROVE  Unpruned'
<1> USE DEF Goto, storeVars, checkVars, Typed, TypeOK, StoreTypeOK
<1>1. ASSUME NEW p \in Procs, ReadIndex(p) \/ ReadReceipt(p)
      PROVE  Unpruned'
  <2>1. /\ MissPc[pc[p]] \in {"select", "probe", "reserve"}
        /\ ReadIndex(p) => ReceiptPc[pc[p]] \in {"receipt1", "receipt2", "receipt3"}
    BY <1>1, MissLabels, ReceiptLabels DEF ReadIndex, ReadReceipt
  <2>2. /\ UNCHANGED <<receipt, index, req>> /\ pc'[p] \notin PrunePc
        /\ \A q \in Procs \ {p} : pc'[q] = pc[q]
    BY <1>1, <2>1 DEF ReadIndex, ReadReceipt, PrunePc
  <2>3. req[p] \in Dests
    BY <1>1 DEF ReadIndex, ReadReceipt, Referents, CheckPc, LookupPc
  <2>4. pc'[p] \in {"receipt1", "receipt2", "receipt3", "touch"} => index[Key(p)] \in Dests
    BY <1>1, <2>1 DEF ReadIndex, ReadReceipt, Unpruned
  <2> QED BY <2>2, <2>3, <2>4, OthersUnpruned DEF Key
<1>2. ASSUME NEW p \in Procs, Touch(p)
      PROVE  Unpruned'
  <2>1. /\ UNCHANGED req /\ pc' = [pc EXCEPT ![p] = "return"]
        /\ receipt' = receipt \/ \E d : receipt' = [receipt EXCEPT ![d] = "junk"]
    BY <1>2 DEF Touch
  <2>2. index' = index
    BY <1>2, StoreAssumption DEF Touch, Unpruned
  <2> QED BY <2>1, <2>2, OthersUnpruned DEF PrunePc
<1>3. ASSUME NEW p \in Procs, WriteReceipt(p) \/ WriteIndex(p)
      PROVE  Unpruned'
  <2>1. /\ UNCHANGED req /\ pc'[p] \in {"publish", "unlock"}
        /\ \A q \in Procs \ {p} : pc'[q] = pc[q]
    BY <1>3 DEF WriteReceipt, WriteIndex
  <2>2. req[p] \in Dests
    BY <1>3 DEF WriteReceipt, WriteIndex, Referents, CheckPc, RunPc
  <2>3. CASE WriteReceipt(p)
    BY <2>1, <2>3, OthersUnpruned DEF WriteReceipt, PrunePc
  <2>4. CASE WriteIndex(p)
    <3>1. receipt[req[p]] # "none"
      BY <2>4 DEF WriteIndex, Kept, InUseEvidenceKept, Executing, RunPc
    <3> QED BY <2>1, <2>2, <2>4, <3>1, OthersUnpruned DEF WriteIndex, PrunePc
  <2> QED BY <1>3, <2>3, <2>4
<1>4. ASSUME NEW p \in Procs,
             \/ StartCheck(p) \/ SelectRunner(p) \/ AcquireProbe(p)
             \/ Reserve(p) \/ Plan(p) \/ LockReceipt(p) \/ LockLog(p) \/ FinishStep(p)
             \/ ReleaseEvidence(p) \/ Maintain(p) \/ Return(p) \/ Abort(p) \/ Crash(p)
      PROVE  Unpruned'
  <2>1. /\ UNCHANGED <<receipt, index>>
        /\ \A q \in Procs \ {p} : pc'[q] = pc[q] /\ req'[q] = req[q]
        /\ pc'[p] \notin PrunePc \cup {"receipt1", "receipt2", "receipt3", "touch"}
    BY <1>4 DEF StartCheck, SelectRunner, AcquireProbe, Reserve, Plan, LockReceipt, LockLog,
       FinishStep, ReleaseEvidence, Maintain, Return, Abort, Crash, PrunePc
  <2> QED BY <2>1, OthersUnpruned
<1>5. \A p \in Procs : ~StartPrune(p) /\ ~MaintenanceFails(p) /\ ~Prune(p)
  BY DEF StartPrune, MaintenanceFails, Prune, PruneStep, ScanIndex, UnlinkIndex, Snapshot,
     NextVictim, LockVictim, RemoveVictim, EndPrune, Unpruned, PrunePc
<1>6. CASE UNCHANGED vars
  BY <1>6 DEF vars, Unpruned, IndexNeverDangles, NamesReceipt, Key
<1> QED BY <1>1, <1>2, <1>3, <1>4, <1>5, <1>6 DEF Next, CheckStep, Rest

(* The seeded indexes name seeded receipts.                                *)
LEMMA UnprunedInit == Init => Unpruned
<1> SUFFICES ASSUME Init PROVE Unpruned
  OBVIOUS
<1>1. ASSUME NEW k \in Keys PROVE NamesReceipt(k)
  <2>1. CASE \E d \in Seeded : KeyOf[d] = k
    <3> DEFINE seed == CHOOSE d \in Seeded : KeyOf[d] = k
    <3>1. seed \in Seeded
      BY <2>1
    <3>2. index[k] = seed
      BY <2>1 DEF Init
    <3> QED BY <3>1, <3>2, StoreAssumption, WorkflowAssumption DEF Init, NamesReceipt
  <2>2. CASE ~\E d \in Seeded : KeyOf[d] = k
    BY <2>2, StoreAssumption DEF Init, NamesReceipt
  <2> QED BY <2>1, <2>2
<1> QED BY <1>1 DEF Init, Unpruned, IndexNeverDangles, PrunePc

(* Without prunes the locks of the evidence keep it, and the indexes with  *)
(* it.                                                                     *)
LEMMA KeptInvariant == Spec => [](Typed /\ FilesOwned /\ Kept)
<1>1. Init => FilesOwned /\ Kept
  BY DEF Init, FilesOwned, Owns, RunPc, Kept, InUseEvidenceKept, PassIsLast, Executing
<1> QED BY <1>1, TypedInvariant, FilesOwnedStep, KeptStep, PTL DEF Spec

(* Without a prune an index never names a missing receipt: a crash between *)
(* the two writes of write_receipt, and a touch of a file that has just    *)
(* gone, leave none.                                                       *)
THEOREM NoIndexDangles == ASSUME Triggers = {} PROVE Spec => []IndexNeverDangles
<1>1. Typed /\ Kept /\ Unpruned /\ [Next]_vars => Unpruned'
  BY UnprunedStep
<1>2. Unpruned => IndexNeverDangles
  BY DEF Unpruned
<1> QED BY <1>1, <1>2, UnprunedInit, KeptInvariant, PTL DEF Spec

-----------------------------------------------------------------------------
(* Where every caller lets the cache be used, every check under way does.  *)
CacheUsed == \A p \in Procs : pc[p] \in CheckPc => useCache[p]

(* Every step of such a system keeps it so.                                *)
LEMMA CacheUsedStep ==
  ASSUME Triggers = {}, FALSE \notin CacheModes, Typed, Unpruned, CacheUsed, [Next]_vars
  PROVE  CacheUsed'
<1> USE DEF Goto, checkVars, Typed, TypeOK, CacheUsed
<1>1. ASSUME NEW p \in Procs, StartCheck(p)
      PROVE  CacheUsed'
  BY <1>1, WorkflowAssumption DEF StartCheck
<1>2. ASSUME NEW p \in Procs, Return(p) \/ Abort(p) \/ Crash(p)
      PROVE  CacheUsed'
  BY <1>2 DEF Return, Abort, Crash, CheckPc, LookupPc, ReservePc, RunPc
<1>3. ASSUME NEW p \in Procs,
             \/ ReadIndex(p) \/ ReadReceipt(p) \/ Touch(p) \/ SelectRunner(p)
             \/ AcquireProbe(p) \/ Reserve(p) \/ Plan(p) \/ LockReceipt(p) \/ LockLog(p)
             \/ FinishStep(p) \/ WriteReceipt(p) \/ WriteIndex(p) \/ ReleaseEvidence(p)
             \/ Maintain(p)
      PROVE  CacheUsed'
  <2>1. UNCHANGED useCache /\ pc[p] \in CheckPc /\ \A q \in Procs \ {p} : pc'[q] = pc[q]
    BY <1>3 DEF ReadIndex, ReadReceipt, Touch, SelectRunner, AcquireProbe, Reserve, Plan,
       LockReceipt, LockLog, FinishStep, WriteReceipt, WriteIndex, ReleaseEvidence, Maintain,
       CheckPc, LookupPc, ReservePc, RunPc
  <2> QED BY <2>1
<1>4. \A p \in Procs : ~StartPrune(p) /\ ~MaintenanceFails(p) /\ ~Prune(p)
  BY DEF StartPrune, MaintenanceFails, Prune, PruneStep, ScanIndex, UnlinkIndex, Snapshot,
     NextVictim, LockVictim, RemoveVictim, EndPrune, Unpruned, PrunePc
<1>5. CASE UNCHANGED vars
  BY <1>5 DEF vars
<1> QED BY <1>1, <1>2, <1>3, <1>4, <1>5 DEF Next, CheckStep, Rest

(* A check that uses the cache opens no log beside a PASS receipt, and     *)
(* writes one only where every log says pass.                              *)
LEMMA WholeStep ==
  ASSUME Triggers = {}, Typed, Kept, Unpruned, Unknown, CacheUsed, PassEvidenceWhole, [Next]_vars
  PROVE  PassEvidenceWhole'
<1> USE DEF PassEvidenceWhole, Typed, TypeOK, StoreTypeOK
<1>1. ASSUME NEW p \in Procs, LockLog(p) \/ FinishStep(p)
      PROVE  PassEvidenceWhole'
  <2>1. receipt[req[p]] # "pass"
    BY <1>1 DEF LockLog, FinishStep, CacheUsed, CheckPc, RunPc, Unknown, UnknownTo
  <2>2. receipt' = receipt /\ \A d \in Dests : d # req[p] => log'[d] = log[d]
    BY <1>1 DEF LockLog, FinishStep
  <2>3. ASSUME NEW d \in Dests, receipt'[d] = "pass"
        PROVE  \A i \in Steps : log'[d][i] = "pass"
    <3>1. receipt[d] = "pass" /\ d # req[p]
      BY <2>1, <2>2, <2>3
    <3>2. log'[d] = log[d]
      BY <2>2, <3>1
    <3> QED BY <3>1, <3>2
  <2> QED BY <2>3
<1>2. ASSUME NEW p \in Procs, WriteReceipt(p)
      PROVE  PassEvidenceWhole'
  <2>1. log' = log /\ \A d \in Dests : d # req[p] => receipt'[d] = receipt[d]
    BY <1>2 DEF WriteReceipt
  <2>2. req[p] \in Dests /\ receipt'[req[p]] = outcome[p]
    BY <1>2 DEF WriteReceipt, Referents, CheckPc, RunPc
  <2>3. outcome[p] = "pass" => \A i \in Steps : log[req[p]][i] = "pass"
    BY <1>2, StoreAssumption
    DEF WriteReceipt, Kept, InUseEvidenceKept, PassIsLast, Executing, RunPc, Steps
  <2> QED BY <2>1, <2>2, <2>3
<1>3. ASSUME NEW p \in Procs, Touch(p)
      PROVE  PassEvidenceWhole'
  BY <1>3 DEF Touch
<1>4. ASSUME NEW p \in Procs,
             \/ StartCheck(p) \/ ReadIndex(p) \/ ReadReceipt(p) \/ SelectRunner(p)
             \/ AcquireProbe(p) \/ Reserve(p) \/ Plan(p) \/ LockReceipt(p) \/ WriteIndex(p)
             \/ ReleaseEvidence(p) \/ Maintain(p) \/ Return(p) \/ Abort(p) \/ Crash(p)
      PROVE  PassEvidenceWhole'
  <2>1. UNCHANGED <<receipt, log>>
    BY <1>4 DEF StartCheck, ReadIndex, ReadReceipt, SelectRunner, AcquireProbe, Reserve, Plan,
       LockReceipt, WriteIndex, ReleaseEvidence, Maintain, Return, Abort, Crash, storeVars
  <2> QED BY <2>1
<1>5. \A p \in Procs : ~StartPrune(p) /\ ~MaintenanceFails(p) /\ ~Prune(p)
  BY DEF StartPrune, MaintenanceFails, Prune, PruneStep, ScanIndex, UnlinkIndex, Snapshot,
     NextVictim, LockVictim, RemoveVictim, EndPrune, Unpruned, PrunePc
<1>6. CASE UNCHANGED vars
  BY <1>6 DEF vars, storeVars
<1> QED BY <1>1, <1>2, <1>3, <1>4, <1>5, <1>6 DEF Next, CheckStep, Rest

(* Where every check may use the cache and nothing prunes, every PASS      *)
(* receipt has the whole log of every step beside it, crashes included.    *)
THEOREM PassIsWhole ==
  ASSUME Triggers = {}, FALSE \notin CacheModes
  PROVE  Spec => []PassEvidenceWhole
<1>1. Init => CacheUsed /\ PassEvidenceWhole
  BY DEF Init, CacheUsed, PassEvidenceWhole, CheckPc, LookupPc, ReservePc, RunPc
<1>2. Typed /\ Kept /\ Unpruned /\ [Next]_vars => Unpruned'
  BY UnprunedStep
<1>3. Typed /\ Unpruned /\ CacheUsed /\ [Next]_vars => CacheUsed'
  BY CacheUsedStep
<1>4. Typed /\ Kept /\ Unpruned /\ Unknown /\ CacheUsed /\ PassEvidenceWhole /\ [Next]_vars
        => PassEvidenceWhole'
  BY WholeStep
<1> QED BY <1>1, <1>2, <1>3, <1>4, UnprunedInit, KeptInvariant, UnknownInvariant, PTL DEF Spec

-----------------------------------------------------------------------------
(* What the second sweep of a prune has looked at names receipts.          *)
Swept ==
  \A p \in Procs :
    /\ pc[p] = "scan2" => \A k \in Keys \ scan[p] : NamesReceipt(k)
    /\ pc[p] = "unlink2" => \A k \in Keys \ (scan[p] \cup {target[p]}) : NamesReceipt(k)

(* Alone, a sweep finds all there is to find.                              *)
LEMMA SweptStep ==
  ASSUME \A p, q \in Procs : p = q, Typed, Swept, [Next]_vars
  PROVE  Swept'
<1> USE DEF Goto, checkVars, storeVars, Typed, TypeOK, StoreTypeOK
<1>1. ASSUME NEW p \in Procs, pc'[p] \notin {"scan2", "unlink2"}
      PROVE  Swept'
  BY <1>1 DEF Swept
<1>2. ASSUME NEW p \in Procs, Prune(p), pc'[p] \in {"scan2", "unlink2"}
      PROVE  Swept'
  <2> SUFFICES /\ pc'[p] = "scan2" => \A k \in Keys \ scan'[p] : NamesReceipt(k)'
               /\ pc'[p] = "unlink2" =>
                    \A k \in Keys \ (scan'[p] \cup {target'[p]}) : NamesReceipt(k)'
    BY DEF Swept
  <2>1. CASE ScanIndex(p)
    <3>1. UNCHANGED <<receipt, index>>
      BY <2>1 DEF ScanIndex
    <3>2. \A k \in Keys : NamesReceipt(k)' <=> NamesReceipt(k)
      BY <3>1 DEF NamesReceipt
    <3>3. \A k \in Keys : ~Condemned(k) => NamesReceipt(k)
      BY DEF Condemned, Dangling, NamesReceipt
    <3>4. pc[p] = "scan2" /\ \A k \in Keys \ scan[p] : NamesReceipt(k)
      BY <1>2, <2>1 DEF ScanIndex, Swept
    <3>5. PICK k \in scan[p] :
            /\ scan' = [scan EXCEPT ![p] = scan[p] \ {k}]
            /\ \/ target' = [target EXCEPT ![p] = k] /\ pc' = [pc EXCEPT ![p] = "unlink2"]
               \/ ~Condemned(k) /\ UNCHANGED <<target, pc>>
      BY <2>1, <3>4 DEF ScanIndex
    <3> QED BY <3>2, <3>3, <3>4, <3>5
  <2>2. CASE UnlinkIndex(p)
    <3>1. /\ pc[p] = "unlink2" /\ pc'[p] = "scan2" /\ UNCHANGED <<receipt, scan>>
          /\ index' = [index EXCEPT ![target[p]] = None]
      BY <1>2, <2>2 DEF UnlinkIndex
    <3>2. ASSUME NEW k \in Keys \ scan[p] PROVE NamesReceipt(k)'
      BY <3>1, <3>2, StoreAssumption DEF Swept, NamesReceipt
    <3> QED BY <3>1, <3>2
  <2>3. CASE NextVictim(p)
    <3>1. /\ pc'[p] = "scan2" /\ scan'[p] = IndexFiles /\ UNCHANGED <<receipt, index>>
      BY <1>2, <2>3 DEF NextVictim
    <3> QED BY <3>1, StoreAssumption DEF IndexFiles, NamesReceipt
  <2>4. CASE Snapshot(p) \/ LockVictim(p) \/ RemoveVictim(p) \/ EndPrune(p)
    BY <1>2, <2>4 DEF Snapshot, LockVictim, RemoveVictim, EndPrune, Returns
  <2> QED BY <1>2, <2>1, <2>2, <2>3, <2>4 DEF Prune, PruneStep
<1>3. ASSUME NEW p \in Procs,
             \/ StartCheck(p) \/ StartPrune(p) \/ CheckStep(p)
             \/ Abort(p) \/ MaintenanceFails(p) \/ Crash(p)
      PROVE  pc'[p] \notin {"scan2", "unlink2"}
  <2>1. CASE ReadIndex(p) \/ ReadReceipt(p)
    BY <2>1, MissLabels, ReceiptLabels DEF ReadIndex, ReadReceipt
  <2>2. CASE ~(ReadIndex(p) \/ ReadReceipt(p))
    BY <1>3, <2>2 DEF StartCheck, StartPrune, BeginPrune, CheckStep, Touch, SelectRunner,
       AcquireProbe, Reserve, Plan, LockReceipt, LockLog, FinishStep, WriteReceipt, WriteIndex,
       ReleaseEvidence, Maintain, Return, Abort, MaintenanceFails, Crash
  <2> QED BY <2>1, <2>2
<1>4. CASE UNCHANGED vars
  BY <1>4 DEF vars, pruneVars, Swept, NamesReceipt
<1> QED BY <1>1, <1>2, <1>3, <1>4 DEF Next, Rest

(* A prune that nothing disturbs leaves no malformed and no dangling index *)
(* behind, whatever checks and prunes that were killed before it left.     *)
THEOREM PruneCleansIndexes ==
  ASSUME \A p, q \in Procs : p = q
  PROVE  Spec => PruneLeavesNoDangling
<1>1. Init => Swept
  BY DEF Init, Swept
<1>2. Typed /\ Swept /\ [Next]_vars => Swept'
  BY SweptStep
<1>3. Swept => \A p \in Procs : EndPrune(p) => \A k \in Keys : NamesReceipt(k)
  BY DEF Swept, EndPrune
<1>4. Swept /\ [Next]_vars => [\A p \in Procs : EndPrune(p) => \A k \in Keys : NamesReceipt(k)]_vars
  BY <1>3
<1> QED BY <1>1, <1>2, <1>4, TypedInvariant, PTL DEF Spec, PruneLeavesNoDangling
=============================================================================
