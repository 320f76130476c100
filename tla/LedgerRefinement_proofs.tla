---------------------- MODULE LedgerRefinement_proofs ----------------------
(***************************************************************************)
(* ProbeWorkflow implements BaselineLedger: every step of a command, of a  *)
(* prune, of a failure or of a crash is a step of the ledger or changes    *)
(* nothing that the ledger shows.                                          *)
(***************************************************************************)
EXTENDS ProbeWorkflow_proofs

(* What the ledger shows of the workflow.                                  *)
Stored  == {d \in Dests : receipt[d] = "pass"}
Indexed == [k \in Keys |-> IF index[k] \in Dests THEN index[k] ELSE None]
Running == [k \in Keys |-> Execution(k)]
Served  == [p \in Procs |-> IF answer[p].kind = "cached" THEN answer[p].dest ELSE None]

Idle == [dest |-> None, forced |-> FALSE]

-----------------------------------------------------------------------------
(* A check that has not come to an answer has none.                        *)
Working(p) ==
  \/ pc[p] \in CheckPc \ {"touch", "touchplan", "maintain", "return"}
  \/ pc[p] \in PrunePc /\ ret[p] \in {"reserve2", "reserve3"}

Unanswered == \A p \in Procs : Working(p) => answer[p].kind = "none"

(* A step of p that leaves what the others have to say alone.              *)
LEMMA OthersUnanswered ==
  ASSUME Unanswered, NEW p \in Procs, Working(p)' => answer'[p].kind = "none",
         \A q \in Procs \ {p} : pc'[q] = pc[q] /\ ret'[q] = ret[q] /\ answer'[q] = answer[q]
  PROVE  Unanswered'
BY DEF Unanswered, Working

(* Every step keeps it so.                                                 *)
LEMMA UnansweredStep ==
  ASSUME Typed, Unanswered, [Next]_vars
  PROVE  Unanswered'
<1> USE DEF Goto, Typed, TypeOK, StoreTypeOK, Unanswered, Working, CheckPc, LookupPc,
        ReservePc, RunPc, PrunePc
<1>1. ASSUME NEW p \in Procs, StartCheck(p) \/ StartPrune(p) \/ Crash(p)
      PROVE  Unanswered'
  <2>1. answer' = [answer EXCEPT ![p] = NoAnswer]
    BY <1>1 DEF StartCheck, StartPrune, Crash
  <2>2. \A q \in Procs \ {p} : pc'[q] = pc[q] /\ ret'[q] = ret[q]
    BY <1>1 DEF StartCheck, StartPrune, BeginPrune, Crash, ResetPrune, pruneVars
  <2> QED BY <2>1, <2>2, OthersUnanswered DEF NoAnswer
<1>2. ASSUME NEW p \in Procs, ReadIndex(p) \/ ReadReceipt(p)
      PROVE  Unanswered'
  <2>1. MissPc[pc[p]] \in {"select", "probe", "reserve"}
    BY <1>2, MissLabels DEF ReadIndex, ReadReceipt
  <2> QED BY <1>2, <2>1 DEF ReadIndex, ReadReceipt, pruneVars
<1>3. ASSUME NEW p \in Procs,
             Touch(p) \/ ReleaseEvidence(p) \/ Return(p) \/ Abort(p) \/ MaintenanceFails(p)
      PROVE  Unanswered'
  BY <1>3 DEF Touch, ReleaseEvidence, Return, Abort, MaintenanceFails, ResetPrune, pruneVars
<1>4. ASSUME NEW p \in Procs, Plan(p)
      PROVE  Unanswered'
  BY <1>4 DEF Plan, pruneVars
<1>5. ASSUME NEW p \in Procs, Reserve(p) \/ Maintain(p)
      PROVE  Unanswered'
  BY <1>5 DEF Reserve, Maintain, BeginPrune, pruneVars
<1>6. ASSUME NEW p \in Procs,
             \/ SelectRunner(p) \/ AcquireProbe(p) \/ LockReceipt(p) \/ LockLog(p)
             \/ FinishStep(p) \/ WriteReceipt(p) \/ WriteIndex(p)
      PROVE  Unanswered'
  <2>1. UNCHANGED <<answer, ret>> /\ Working(p) /\ \A q \in Procs \ {p} : pc'[q] = pc[q]
    BY <1>6 DEF SelectRunner, AcquireProbe, LockReceipt, LockLog, FinishStep, WriteReceipt,
       WriteIndex, pruneVars
  <2> QED BY <2>1
<1>7. ASSUME NEW p \in Procs, Prune(p)
      PROVE  Unanswered'
  <2>1. CASE EndPrune(p)
    BY <1>7, <2>1 DEF Prune, EndPrune, ResetPrune, Returns
  <2>2. CASE ~EndPrune(p)
    <3>1. UNCHANGED <<answer, ret>> /\ pc[p] \in PrunePc /\ \A q \in Procs \ {p} : pc'[q] = pc[q]
      BY <1>7, <2>2 DEF Prune, PruneStep, ScanIndex, UnlinkIndex, Snapshot, NextVictim,
         LockVictim, RemoveVictim, pruneVars
    <3>2. pc'[p] \in PrunePc
      BY <1>7, <2>2 DEF Prune, PruneStep, ScanIndex, UnlinkIndex, Snapshot, NextVictim,
         LockVictim, RemoveVictim
    <3> QED BY <3>1, <3>2
  <2> QED BY <2>1, <2>2
<1>8. CASE UNCHANGED vars
  BY <1>8 DEF vars, pruneVars
<1> QED BY <1>1, <1>2, <1>3, <1>4, <1>5, <1>6, <1>7, <1>8 DEF Next, CheckStep, Rest

(* Only a run that has passed is published.                                *)
PublishesPass == \A p \in Procs : pc[p] = "publish" => outcome[p] = "pass"

(* Every step keeps it so.                                                 *)
LEMMA PublishesPassStep ==
  ASSUME Typed, PublishesPass, [Next]_vars
  PROVE  PublishesPass'
<1> USE DEF Goto, checkVars, Typed, TypeOK, StoreTypeOK, PublishesPass
<1>1. ASSUME NEW p \in Procs, pc'[p] # "publish",
             \A q \in Procs \ {p} : pc'[q] = pc[q] /\ outcome'[q] = outcome[q]
      PROVE  PublishesPass'
  BY <1>1
<1>2. ASSUME NEW p \in Procs, WriteReceipt(p)
      PROVE  PublishesPass'
  BY <1>2 DEF WriteReceipt
<1>3. ASSUME NEW p \in Procs, ReadIndex(p) \/ ReadReceipt(p)
      PROVE  PublishesPass'
  <2>1. MissPc[pc[p]] # "publish" /\ (ReadIndex(p) => ReceiptPc[pc[p]] # "publish")
    BY <1>3, MissLabels, ReceiptLabels DEF ReadIndex, ReadReceipt
  <2> QED BY <1>1, <1>3, <2>1 DEF ReadIndex, ReadReceipt
<1>4. ASSUME NEW p \in Procs,
             \/ StartCheck(p) \/ StartPrune(p) \/ Touch(p) \/ SelectRunner(p)
             \/ AcquireProbe(p) \/ Reserve(p) \/ Plan(p) \/ LockReceipt(p)
      PROVE  PublishesPass'
  BY <1>1, <1>4 DEF StartCheck, StartPrune, BeginPrune, Touch, SelectRunner, AcquireProbe,
     Reserve, Plan, LockReceipt
<1>7. ASSUME NEW p \in Procs,
             \/ LockLog(p) \/ FinishStep(p) \/ WriteIndex(p) \/ ReleaseEvidence(p) \/ Maintain(p)
             \/ Return(p) \/ Abort(p) \/ MaintenanceFails(p) \/ Crash(p)
      PROVE  PublishesPass'
  BY <1>1, <1>7 DEF LockLog, FinishStep, WriteIndex, ReleaseEvidence, Maintain, BeginPrune,
     Return, Abort, MaintenanceFails, Crash
<1>5. ASSUME NEW p \in Procs, Prune(p)
      PROVE  PublishesPass'
  <2>1. UNCHANGED outcome
    BY <1>5 DEF Prune, PruneStep, ResetPrune
  <2>2. pc'[p] # "publish" /\ \A q \in Procs \ {p} : pc'[q] = pc[q]
    <3>1. CASE ScanIndex(p) \/ UnlinkIndex(p) \/ Snapshot(p) \/ NextVictim(p)
      BY <3>1 DEF ScanIndex, UnlinkIndex, Snapshot, NextVictim
    <3>2. CASE LockVictim(p) \/ RemoveVictim(p)
      BY <3>2 DEF LockVictim, RemoveVictim
    <3>3. CASE EndPrune(p)
      BY <3>3 DEF EndPrune, Returns
    <3> QED BY <1>5, <3>1, <3>2, <3>3 DEF Prune, PruneStep
  <2> QED BY <1>1, <2>1, <2>2
<1>6. CASE UNCHANGED vars
  BY <1>6 DEF vars
<1> QED BY <1>2, <1>3, <1>4, <1>5, <1>6, <1>7 DEF Next, CheckStep, Rest

-----------------------------------------------------------------------------
(* The execution of a key is that of the one process that executes it.     *)
LEMMA ExecutionIs ==
  ASSUME SingleFlight, NEW p \in Procs, Executing(p)
  PROVE  Execution(Key(p)) = [dest |-> req[p], forced |-> ~useCache[p]]
<1> DEFINE one == CHOOSE q \in Procs : Executing(q) /\ Key(q) = Key(p)
<1>1. one \in Procs /\ Executing(one) /\ Key(one) = Key(p)
  OBVIOUS
<1>2. one = p
  BY <1>1 DEF SingleFlight
<1> QED BY <1>2 DEF Execution

(* The same after a step.                                                  *)
LEMMA ExecutionIsNext ==
  ASSUME SingleFlight', NEW p \in Procs, NEW k, Executing(p)', Key(p)' = k
  PROVE  Execution(k)' = [dest |-> req'[p], forced |-> ~useCache'[p]]
<1> DEFINE one == CHOOSE q \in Procs : pc'[q] \in RunPc /\ KeyOf[req'[q]] = k
<1>1. pc'[p] \in RunPc /\ KeyOf[req'[p]] = k
  BY DEF Executing, Key
<1>2. one \in Procs /\ pc'[one] \in RunPc /\ KeyOf[req'[one]] = k
  BY <1>1
<1>3. one = p
  BY <1>1, <1>2 DEF SingleFlight, Executing, Key
<1>4. Execution(k)' = [dest |-> req'[one], forced |-> ~useCache'[one]]
  BY <1>1 DEF Execution, Executing, Key
<1> QED BY <1>3, <1>4

(* A step of p leaves the execution of a key p has nothing to do with.     *)
LEMMA OthersExecute ==
  ASSUME SingleFlight, SingleFlight', NEW p \in Procs, OthersAsk(p), NEW k \in Keys,
         Executing(p) => Key(p) # k, Executing(p)' => Key(p)' # k
  PROVE  Execution(k)' = Execution(k)
<1>1. \A q \in Procs : (Executing(q) /\ Key(q) = k) <=> (Executing(q)' /\ Key(q)' = k)
  BY DEF OthersAsk, Executing, Key
<1>2. CASE \E q \in Procs : Executing(q) /\ Key(q) = k
  <2>1. PICK q \in Procs : Executing(q) /\ Key(q) = k
    BY <1>2
  <2>2. Executing(q)' /\ Key(q)' = k /\ q # p
    BY <1>1, <2>1
  <2>3. req'[q] = req[q] /\ useCache'[q] = useCache[q]
    BY <2>2 DEF OthersAsk
  <2> QED BY <2>1, <2>2, <2>3, ExecutionIs, ExecutionIsNext
<1>3. CASE ~\E q \in Procs : Executing(q) /\ Key(q) = k
  BY <1>1, <1>3 DEF Execution
<1> QED BY <1>2, <1>3

(* A step of p within its execution, or outside of any, leaves them all.   *)
LEMMA RunningStays ==
  ASSUME SingleFlight, SingleFlight', NEW p \in Procs, OthersAsk(p),
         Executing(p)' <=> Executing(p),
         Executing(p) => req'[p] = req[p] /\ useCache'[p] = useCache[p]
  PROVE  Running' = Running
<1> SUFFICES ASSUME NEW k \in Keys PROVE Execution(k)' = Execution(k)
  BY DEF Running
<1>1. CASE Executing(p) /\ Key(p) = k
  <2>1. Key(p)' = k
    BY <1>1 DEF Key
  <2> QED BY <1>1, <2>1, ExecutionIs, ExecutionIsNext
<1>2. CASE ~(Executing(p) /\ Key(p) = k)
  <2>1. Executing(p)' => Key(p)' # k
    BY <1>2 DEF Key
  <2> QED BY <1>2, <2>1, OthersExecute
<1> QED BY <1>1, <1>2

(* A check that begins to execute is the only one of its key.              *)
LEMMA RunningBegins ==
  ASSUME SingleFlight, SingleFlight', NEW p \in Procs, OthersAsk(p),
         ~Executing(p), Executing(p)', Key(p)' \in Keys
  PROVE  /\ Running[Key(p)'] = Idle
         /\ Running' = [Running EXCEPT ![Key(p)'] =
                          [dest |-> req'[p], forced |-> ~useCache'[p]]]
<1>1. \A q \in Procs : ~(Executing(q) /\ Key(q) = Key(p)')
  <2> SUFFICES ASSUME NEW q \in Procs, Executing(q), Key(q) = Key(p)' PROVE FALSE
    OBVIOUS
  <2>1. q # p /\ Executing(q)' /\ Key(q)' = Key(p)'
    BY DEF OthersAsk, Executing, Key
  <2> QED BY <2>1 DEF SingleFlight
<1>2. Execution(Key(p)') = Idle
  BY <1>1 DEF Execution, Idle
<1>3. \A k \in Keys : k # Key(p)' => Execution(k)' = Execution(k)
  BY OthersExecute
<1> QED BY <1>2, <1>3, ExecutionIsNext DEF Running

(* A check that ends leaves its key without an execution.                  *)
LEMMA RunningEnds ==
  ASSUME SingleFlight, SingleFlight', NEW p \in Procs, OthersAsk(p),
         Executing(p), ~Executing(p)', Key(p) \in Keys
  PROVE  Running' = [Running EXCEPT ![Key(p)] = Idle]
<1>1. \A q \in Procs : ~(Executing(q)' /\ Key(q)' = Key(p))
  <2> SUFFICES ASSUME NEW q \in Procs, Executing(q)', Key(q)' = Key(p) PROVE FALSE
    OBVIOUS
  <2>1. q # p /\ Executing(q) /\ Key(q) = Key(p)
    BY DEF OthersAsk, Executing, Key
  <2> QED BY <2>1 DEF SingleFlight
<1>3. \A k \in Keys : k = Key(p) => Execution(k)' = Idle
  BY <1>1 DEF Execution, Idle
<1>4. \A k \in Keys : k # Key(p) => Execution(k)' = Execution(k)
  BY OthersExecute
<1> QED BY <1>3, <1>4 DEF Running

-----------------------------------------------------------------------------
(* The variables of the ledger are what it shows of the workflow.          *)
LEMMA LedgerShows ==
  /\ Ledger!vars = <<Stored, Indexed, Running, Served, proven>>
  /\ Ledger!vars' = <<Stored, Indexed, Running, Served, proven>>'
BY DEF Ledger!vars, Stored, Indexed, Running, Served

(* What a step shows that writes neither receipt nor index.                *)
LEMMA FilesShown ==
  ASSUME UNCHANGED <<receipt, index>>
  PROVE  Stored' = Stored /\ Indexed' = Indexed
BY DEF Stored, Indexed

(* What a step shows that leaves the answers as they are but for one that  *)
(* was not, and is not, a cached one.                                      *)
LEMMA AnswersShown ==
  ASSUME Typed, NEW p \in Procs,
         \A q \in Procs \ {p} : answer'[q] = answer[q],
         answer'[p] = answer[p] \/ (answer[p].kind # "cached" /\ answer'[p].kind # "cached")
  PROVE  Served' = Served
BY DEF Served

(* A check locks its receipt: an execution begins, of a destination for    *)
(* which no PASS is known or that was forced.                              *)
LEMMA BeginShown ==
  ASSUME Typed, SingleFlight, SingleFlight', KnownPassNotRebuilt, NEW p \in Procs, LockReceipt(p)
  PROVE  Ledger!Next
<1>1. /\ pc[p] = "lockjson" /\ pc' = [pc EXCEPT ![p] = "locklog"]
      /\ UNCHANGED <<receipt, index, ret, req, useCache, found, answer, proven>>
  BY DEF LockReceipt, Goto, storeVars, pruneVars, countVars
<1>2. OthersAsk(p) /\ ~Executing(p) /\ Executing(p)'
  BY <1>1 DEF OthersAsk, Executing, RunPc, Typed, TypeOK
<1>3. req[p] \in Dests /\ Key(p)' = Key(p) /\ Key(p) = KeyOf[req[p]] /\ Key(p) \in Keys
  BY <1>1, StoreAssumption DEF Typed, Referents, CheckPc, Key
<1>4. PICK d \in Dests, forced \in BOOLEAN : d = req[p] /\ (forced <=> ~useCache[p])
  BY <1>3
<1>5. /\ Running[KeyOf[d]] = Idle
      /\ Running' = [Running EXCEPT ![KeyOf[d]] = [dest |-> d, forced |-> forced]]
  BY <1>1, <1>2, <1>3, <1>4, RunningBegins
<1>6. forced \/ (d \notin Stored /\ Indexed[KeyOf[d]] \notin Stored)
  BY <1>1, <1>3, <1>4, StoreAssumption DEF KnownPassNotRebuilt, Stored, Indexed
<1>7. Stored' = Stored /\ Indexed' = Indexed /\ Served' = Served /\ proven' = proven
  BY <1>1, FilesShown DEF Served
<1>8. Ledger!Begin(d, forced)
  BY <1>5, <1>6, <1>7
  DEF Ledger!Begin, Ledger!Idle, Ledger!Known, Stored, Indexed, Running, Served, Idle
<1> QED BY <1>8 DEF Ledger!Next

(* The writes of a receipt and an index: a proof, its refutation, and the  *)
(* publication of a proof.                                                 *)
LEMMA WritesShown ==
  ASSUME Typed, SingleFlight, SingleFlight', Kept, PublishesPass, NEW p \in Procs,
         WriteReceipt(p) \/ WriteIndex(p)
  PROVE  Ledger!Next
<1>1. /\ pc[p] \in {"write", "publish"} /\ UNCHANGED <<ret, req, useCache, found, answer>>
      /\ \E c \in {"publish", "unlock"} : pc' = [pc EXCEPT ![p] = c]
  BY DEF WriteReceipt, WriteIndex, Goto, pruneVars, checkVars, countVars
<1>2. OthersAsk(p) /\ Executing(p) /\ Executing(p)'
  BY <1>1 DEF OthersAsk, Executing, RunPc, Typed, TypeOK
<1>3. req[p] \in Dests /\ Key(p) = KeyOf[req[p]] /\ Key(p) \in Keys
  BY <1>1, StoreAssumption DEF Typed, Referents, CheckPc, RunPc, Key
<1>4. Running' = Running /\ Running[Key(p)] = [dest |-> req[p], forced |-> ~useCache[p]]
  BY <1>1, <1>2, <1>3, RunningStays, ExecutionIs DEF Running
<1>5. Running[Key(p)].dest = req[p] /\ Running[Key(p)] # Idle
  BY <1>3, <1>4, StoreAssumption DEF Idle
<1>6. PICK k \in Keys : k = Key(p)
  BY <1>3
<1>7. Served' = Served
  BY <1>1 DEF Served
<1>8. CASE WriteReceipt(p) /\ outcome[p] = "pass"
  <2>1. \A i \in Steps : log[req[p]][i] = "pass"
    BY <1>8, <1>1, StoreAssumption
    DEF WriteReceipt, Kept, InUseEvidenceKept, PassIsLast, Executing, RunPc, Steps
  <2>2. proven' = proven \cup {req[p]}
    BY <1>8, <2>1 DEF WriteReceipt
  <2>3. Stored' = Stored \cup {req[p]} /\ Indexed' = Indexed
    BY <1>3, <1>8 DEF WriteReceipt, Stored, Indexed, Typed, TypeOK, StoreTypeOK
  <2>4. Ledger!Prove(k)
    BY <1>4, <1>5, <1>6, <1>7, <2>2, <2>3
    DEF Ledger!Prove, Ledger!Idle, Stored, Indexed, Running, Served, Idle
  <2> QED BY <2>4 DEF Ledger!Next
<1>9. CASE WriteReceipt(p) /\ outcome[p] # "pass"
  <2>1. step[p] \in Steps /\ log[req[p]][step[p]] # "pass"
    BY <1>9 DEF WriteReceipt, Kept, InUseEvidenceKept, Executing, RunPc, Typed, TypeOK
  <2>2. proven' = proven
    BY <1>9, <2>1 DEF WriteReceipt
  <2>3. Stored' = Stored \ {req[p]} /\ Indexed' = Indexed
    BY <1>3, <1>9 DEF WriteReceipt, Stored, Indexed, Typed, TypeOK, StoreTypeOK
  <2>4. Ledger!Disprove(k)
    BY <1>4, <1>5, <1>6, <1>7, <2>2, <2>3
    DEF Ledger!Disprove, Ledger!Idle, Stored, Indexed, Running, Served, Idle
  <2> QED BY <2>4 DEF Ledger!Next
<1>10. CASE WriteIndex(p)
  <2>1. req[p] \in Stored
    BY <1>3, <1>10 DEF WriteIndex, Kept, InUseEvidenceKept, PublishesPass, Executing, RunPc, Stored
  <2>2. Indexed' = [Indexed EXCEPT ![Key(p)] = req[p]] /\ Stored' = Stored /\ proven' = proven
    BY <1>3, <1>10 DEF WriteIndex, countVars, Stored, Indexed, Typed, TypeOK, StoreTypeOK
  <2>3. Ledger!Publish(k)
    BY <1>4, <1>5, <1>6, <1>7, <2>1, <2>2 DEF Ledger!Publish, Stored, Indexed, Running, Served
  <2> QED BY <2>3 DEF Ledger!Next
<1> QED BY <1>8, <1>9, <1>10

(* An execution ends with its check, in a verdict, an error or a crash.    *)
LEMMA EndShown ==
  ASSUME Typed, SingleFlight, SingleFlight', Unanswered, NEW p \in Procs, Executing(p),
         ReleaseEvidence(p) \/ Abort(p) \/ Crash(p)
  PROVE  Ledger!Next
<1> USE DEF Goto, storeVars, pruneVars, countVars, Typed, TypeOK, StoreTypeOK
<1>1. UNCHANGED <<receipt, index, proven>>
  BY DEF ReleaseEvidence, Abort, Crash
<1>2. OthersAsk(p)
  BY DEF OthersAsk, ReleaseEvidence, Abort, Crash, ResetPrune
<1>3. ~Executing(p)'
  BY DEF Executing, RunPc, ReleaseEvidence, Abort, Crash
<1>4. req[p] \in Dests /\ Key(p) \in Keys
  BY StoreAssumption DEF Referents, Executing, CheckPc, Key
<1>5. PICK k \in Keys : k = Key(p)
  BY <1>4
<1>6. Running' = [Running EXCEPT ![k] = Idle]
  BY <1>2, <1>3, <1>5, RunningEnds
<1>7. answer[p].kind = "none"
  BY DEF Unanswered, Working, Executing, CheckPc, RunPc
<1>8. answer'[p].kind # "cached" /\ \A q \in Procs \ {p} : answer'[q] = answer[q]
  BY DEF ReleaseEvidence, Abort, Crash, NoAnswer
<1>9. Served' = Served
  BY <1>7, <1>8, AnswersShown
<1>10. Ledger!End(k)
  BY <1>1, <1>6, <1>9, FilesShown
  DEF Ledger!End, Ledger!Idle, Stored, Indexed, Running, Served, Idle
<1> QED BY <1>10 DEF Ledger!Next

(* A command that starts over, or ends outside of an execution, has no     *)
(* cached answer.                                                          *)
LEMMA DismissShown ==
  ASSUME Typed, SingleFlight, SingleFlight', NEW p \in Procs, ~Executing(p),
         StartCheck(p) \/ StartPrune(p) \/ Abort(p) \/ Crash(p)
  PROVE  Ledger!Next
<1> USE DEF Goto, storeVars, pruneVars, checkVars, countVars, Typed, TypeOK, StoreTypeOK
<1>1. UNCHANGED <<receipt, index, proven>>
  BY DEF StartCheck, StartPrune, Abort, Crash
<1>2. OthersAsk(p)
  BY DEF OthersAsk, StartCheck, StartPrune, BeginPrune, Abort, Crash, ResetPrune
<1>3. ~Executing(p)'
  BY DEF Executing, RunPc, StartCheck, StartPrune, BeginPrune, Abort, Crash
<1>4. Running' = Running
  BY <1>2, <1>3, RunningStays
<1>5. answer'[p].kind # "cached" /\ \A q \in Procs \ {p} : answer'[q] = answer[q]
  BY DEF StartCheck, StartPrune, Abort, Crash, NoAnswer
<1>6. Served' = [Served EXCEPT ![p] = None]
  BY <1>5 DEF Served
<1>7. Ledger!Dismiss(p)
  BY <1>1, <1>4, <1>6, FilesShown DEF Ledger!Dismiss, Stored, Indexed, Running, Served
<1> QED BY <1>7 DEF Ledger!Next

(* A hit serves a stored PASS; a miss shows nothing.                       *)
LEMMA ServeShown ==
  ASSUME Typed, SingleFlight, SingleFlight', NEW p \in Procs,
         ReadReceipt(p) \/ Plan(p)
  PROVE  [Ledger!Next]_(Ledger!vars)
<1> USE DEF Goto, storeVars, pruneVars, countVars, Typed, TypeOK, StoreTypeOK
<1>1. UNCHANGED <<receipt, index, proven, ret, req, useCache>>
  BY DEF ReadReceipt, Plan
<1>2. MissPc[pc[p]] \in {"select", "probe", "reserve"} \/ Plan(p)
  BY MissLabels DEF ReadReceipt
<1>3. ~Executing(p) /\ ~Executing(p)'
  BY <1>2 DEF Executing, RunPc, ReadReceipt, Plan
<1>4. OthersAsk(p)
  BY <1>1 DEF OthersAsk, ReadReceipt, Plan
<1>5. Running' = Running
  BY <1>3, <1>4, RunningStays
<1>6. CASE answer' = answer
  <2>1. Served' = Served
    BY <1>6 DEF Served
  <2> QED BY <1>1, <1>5, <2>1, FilesShown, LedgerShows
<1>7. CASE answer' # answer
  <2>1. PICK d \in Dests : /\ receipt[d] = "pass"
                           /\ answer' = [answer EXCEPT ![p] = [kind |-> "cached", dest |-> d]]
    <3>1. CASE ReadReceipt(p)
      BY <1>7, <3>1 DEF ReadReceipt, Usable, PassReceipt, Referents
    <3>2. CASE Plan(p)
      BY <1>7, <3>2 DEF Plan, PassReceipt, Referents, CheckPc
    <3> QED BY <3>1, <3>2
  <2>2. Served' = [Served EXCEPT ![p] = d] /\ d \in Stored
    BY <2>1 DEF Served, Stored
  <2>3. Ledger!Serve(p, d)
    BY <1>1, <1>5, <2>2, FilesShown DEF Ledger!Serve, Stored, Indexed, Running, Served
  <2> QED BY <2>3 DEF Ledger!Next
<1> QED BY <1>6, <1>7

(* The removal of a receipt evicts a PASS that nobody works at; that of a  *)
(* log shows nothing.                                                      *)
LEMMA EvictShown ==
  ASSUME Typed, SingleFlight, SingleFlight', FilesOwned, NEW p \in Procs, RemoveVictim(p),
         UNCHANGED <<checkVars, countVars, answer>>
  PROVE  [Ledger!Next]_(Ledger!vars)
<1> USE DEF Goto, checkVars, countVars, Typed, TypeOK, StoreTypeOK
<1>1. UNCHANGED <<index, proven, ret, req, useCache, found, answer>>
  BY DEF RemoveVictim
<1>2. pc[p] = "remove" /\ pc' \in {pc, [pc EXCEPT ![p] = "victim"]}
  BY DEF RemoveVictim
<1>3. OthersAsk(p) /\ ~Executing(p) /\ ~Executing(p)'
  BY <1>1, <1>2 DEF OthersAsk, Executing, RunPc
<1>4. Running' = Running /\ Served' = Served
  BY <1>1, <1>3, RunningStays DEF Served
<1>5. CASE receipt' = receipt
  BY <1>1, <1>4, <1>5, FilesShown, LedgerShows
<1>6. CASE receipt' # receipt
  <2>1. PICK d \in Dests : /\ d = entry[p].dest /\ Json \in entry[p].files
                           /\ receipt' = [receipt EXCEPT ![d] = "none"]
    <3>1. entry[p].dest \in Dests
      BY <1>2 DEF Referents, Entry
    <3> QED BY <1>6, <3>1 DEF RemoveVictim
  <2>2. fileLock[d][Json] = p
    BY <1>2, <2>1 DEF FilesOwned, Owns
  <2>3. \A q \in Procs : Executing(q) => req[q] # d
    BY <1>3, <2>2 DEF FilesOwned, Owns, Executing
  <2>4. Execution(KeyOf[d]).dest # d
    <3>1. CASE \E q \in Procs : Executing(q) /\ Key(q) = KeyOf[d]
      <4>1. PICK q \in Procs : Executing(q) /\ Key(q) = KeyOf[d]
        BY <3>1
      <4>2. Execution(KeyOf[d]).dest = req[q]
        BY <4>1, ExecutionIs
      <4> QED BY <2>3, <4>1, <4>2
    <3>2. CASE ~\E q \in Procs : Executing(q) /\ Key(q) = KeyOf[d]
      BY <3>2, StoreAssumption DEF Execution
    <3> QED BY <3>1, <3>2
  <2>5. KeyOf[d] \in Keys
    BY StoreAssumption
  <2>6. Running[KeyOf[d]].dest # d
    BY <2>4, <2>5 DEF Running
  <2>7. Stored' = Stored \ {d} /\ Indexed' = Indexed
    BY <1>1, <2>1 DEF Stored, Indexed
  <2>8. Ledger!Evict(d)
    BY <1>1, <1>4, <2>6, <2>7 DEF Ledger!Evict, Stored, Indexed, Running, Served
  <2> QED BY <2>8 DEF Ledger!Next
<1> QED BY <1>5, <1>6

(* A sweep takes an index away.                                            *)
LEMMA UnindexShown ==
  ASSUME Typed, SingleFlight, SingleFlight', NEW p \in Procs, UnlinkIndex(p),
         UNCHANGED <<checkVars, countVars, answer>>
  PROVE  [Ledger!Next]_(Ledger!vars)
<1> USE DEF Goto, checkVars, countVars, Typed, TypeOK, StoreTypeOK
<1>1. UNCHANGED <<receipt, proven, ret, req, useCache, found, answer>>
  BY DEF UnlinkIndex
<1>2. pc[p] \in {"unlink1", "unlink2"} /\ \E c \in {"scan1", "scan2"} : pc' = [pc EXCEPT ![p] = c]
  BY DEF UnlinkIndex
<1>3. OthersAsk(p) /\ ~Executing(p) /\ ~Executing(p)'
  BY <1>1, <1>2 DEF OthersAsk, Executing, RunPc
<1>4. Running' = Running /\ Served' = Served /\ Stored' = Stored
  BY <1>1, <1>3, RunningStays DEF Served, Stored
<1>5. CASE target[p] \in Keys
  <2>1. PICK k \in Keys : k = target[p]
    BY <1>5
  <2>2. Indexed' = [Indexed EXCEPT ![k] = None]
    BY <2>1, StoreAssumption DEF UnlinkIndex, Indexed
  <2>3. Ledger!Unindex(k)
    BY <1>1, <1>4, <2>2 DEF Ledger!Unindex, Stored, Indexed, Running, Served
  <2> QED BY <2>3 DEF Ledger!Next
<1>6. CASE target[p] \notin Keys
  <2>1. Indexed' = Indexed
    BY <1>6 DEF UnlinkIndex, Indexed
  <2> QED BY <1>1, <1>4, <2>1, LedgerShows
<1> QED BY <1>5, <1>6

(* Everything else shows nothing: a touch may leave an empty file, but     *)
(* never a PASS and never an index.                                        *)
LEMMA NothingShown ==
  ASSUME Typed, SingleFlight, SingleFlight', NEW p \in Procs,
         \/ ReadIndex(p) \/ Touch(p) \/ SelectRunner(p) \/ AcquireProbe(p) \/ Reserve(p)
         \/ LockLog(p) \/ FinishStep(p) \/ Maintain(p) \/ Return(p) \/ MaintenanceFails(p)
         \/ /\ UNCHANGED <<checkVars, countVars, answer>>
            /\ \/ ScanIndex(p) \/ Snapshot(p) \/ NextVictim(p) \/ LockVictim(p) \/ EndPrune(p)
  PROVE  UNCHANGED Ledger!vars
<1> USE DEF Goto, storeVars, pruneVars, checkVars, countVars, Typed, TypeOK, StoreTypeOK
<1>1. UNCHANGED <<answer, proven>>
  BY DEF ReadIndex, Touch, SelectRunner, AcquireProbe, Reserve, LockLog, FinishStep, Maintain,
     Return, MaintenanceFails, ScanIndex, Snapshot, NextVictim, LockVictim, EndPrune
<1>2. OthersAsk(p)
  <2> USE DEF OthersAsk
  <2>1. CASE ReadIndex(p) \/ Touch(p) \/ SelectRunner(p) \/ AcquireProbe(p) \/ LockLog(p)
    BY <2>1 DEF ReadIndex, Touch, SelectRunner, AcquireProbe, LockLog
  <2>2. CASE FinishStep(p) \/ Return(p) \/ MaintenanceFails(p)
    BY <2>2 DEF FinishStep, Return, MaintenanceFails, ResetPrune
  <2>3. CASE Reserve(p) \/ Maintain(p)
    BY <2>3 DEF Reserve, Maintain, BeginPrune
  <2>4. CASE /\ UNCHANGED <<checkVars, countVars, answer>>
             /\ \/ ScanIndex(p) \/ Snapshot(p) \/ NextVictim(p) \/ LockVictim(p) \/ EndPrune(p)
    BY <2>4 DEF ScanIndex, Snapshot, NextVictim, LockVictim, EndPrune, ResetPrune
  <2> QED BY <2>1, <2>2, <2>3, <2>4
<1>3. /\ Executing(p)' <=> Executing(p)
      /\ Executing(p) => req'[p] = req[p] /\ useCache'[p] = useCache[p]
  <2> USE DEF Executing, RunPc
  <2>1. CASE LockLog(p) \/ FinishStep(p)
    BY <2>1 DEF LockLog, FinishStep
  <2>2. CASE ReadIndex(p)
    <3>1. /\ MissPc[pc[p]] \in {"select", "probe", "reserve"}
          /\ ReceiptPc[pc[p]] \in {"receipt1", "receipt2", "receipt3"}
      BY <2>2, MissLabels, ReceiptLabels DEF ReadIndex
    <3> QED BY <2>2, <3>1 DEF ReadIndex
  <2>3. CASE EndPrune(p)
    BY <2>3 DEF EndPrune, Returns
  <2>4. CASE Touch(p) \/ SelectRunner(p) \/ AcquireProbe(p) \/ Return(p) \/ MaintenanceFails(p)
    BY <2>4 DEF Touch, SelectRunner, AcquireProbe, Return, MaintenanceFails, PrunePc
  <2>5. CASE Reserve(p) \/ Maintain(p)
    BY <2>5 DEF Reserve, Maintain, BeginPrune, ReservePc
  <2>6. CASE ScanIndex(p) \/ Snapshot(p) \/ NextVictim(p) \/ LockVictim(p)
    BY <2>6 DEF ScanIndex, Snapshot, NextVictim, LockVictim
  <2> QED BY <2>1, <2>2, <2>3, <2>4, <2>5, <2>6
<1>4. Running' = Running /\ Served' = Served
  BY <1>1, <1>2, <1>3, RunningStays DEF Served
<1>5. Stored' = Stored /\ Indexed' = Indexed
  <2>1. CASE Touch(p)
    <3>1. \A d \in Dests : receipt'[d] = "pass" <=> receipt[d] = "pass"
      <4>1. ASSUME NEW e, receipt[e] = "none", receipt' = [receipt EXCEPT ![e] = "junk"]
            PROVE  \A d \in Dests : receipt'[d] = "pass" <=> receipt[d] = "pass"
        BY <4>1
      <4> QED BY <2>1, <4>1 DEF Touch
    <3>2. \A k \in Keys : index'[k] = index[k] \/ {index'[k], index[k]} \cap Dests = {}
      <4>1. ASSUME NEW j, index[j] = None, index' = [index EXCEPT ![j] = Bad]
            PROVE  \A k \in Keys : index'[k] = index[k] \/ {index'[k], index[k]} \cap Dests = {}
        BY <4>1, StoreAssumption
      <4> QED BY <2>1, <4>1 DEF Touch
    <3>3. \A k \in Keys : (IF index'[k] \in Dests THEN index'[k] ELSE None)
                            = (IF index[k] \in Dests THEN index[k] ELSE None)
      BY <3>2
    <3> QED BY <3>1, <3>3 DEF Stored, Indexed
  <2>2. CASE ~Touch(p)
    <3>1. UNCHANGED <<receipt, index>>
      BY <2>2 DEF ReadIndex, SelectRunner, AcquireProbe, Reserve, LockLog, FinishStep, Maintain,
         Return, MaintenanceFails, ScanIndex, Snapshot, NextVictim, LockVictim, EndPrune
    <3> QED BY <3>1, FilesShown
  <2> QED BY <2>1, <2>2
<1> QED BY <1>1, <1>4, <1>5, LedgerShows

-----------------------------------------------------------------------------
(* A fresh cache, or one with the evidence of an earlier session, is a     *)
(* ledger.                                                                 *)
LEMMA LedgerInit == Init => Ledger!Init
<1> SUFFICES ASSUME Init PROVE Ledger!Init
  OBVIOUS
<1>1. Stored = Seeded /\ proven = Seeded
  BY WorkflowAssumption DEF Init, Stored
<1>2. \A k \in Keys : Indexed[k] \in Seeded \cup {None}
  <2> SUFFICES ASSUME NEW k \in Keys PROVE index[k] \in Seeded \cup {None}
    BY DEF Indexed
  <2>1. CASE \E d \in Seeded : KeyOf[d] = k
    <3> DEFINE seed == CHOOSE d \in Seeded : KeyOf[d] = k
    <3>1. seed \in Seeded
      BY <2>1
    <3> QED BY <2>1, <3>1 DEF Init
  <2>2. CASE ~\E d \in Seeded : KeyOf[d] = k
    BY <2>2 DEF Init
  <2> QED BY <2>1, <2>2
<1>3. Indexed \in [Keys -> Stored \cup {None}]
  BY <1>1, <1>2 DEF Indexed
<1>4. Running = [k \in Keys |-> Idle]
  BY DEF Init, Running, Execution, Executing, RunPc, Idle
<1>5. Served = [p \in Procs |-> None]
  BY DEF Init, Served, NoAnswer
<1>6. Stored \subseteq Dests
  BY DEF Stored
<1> QED BY <1>1, <1>3, <1>4, <1>5, <1>6
    DEF Ledger!Init, Ledger!Idle, Stored, Indexed, Running, Served, Idle

(* What the mapping needs to know of the workflow.                         *)
Mapped ==
  /\ Typed /\ SingleFlight /\ FilesOwned /\ Kept
  /\ KnownPassNotRebuilt /\ Unanswered /\ PublishesPass

(* Every step of the workflow is a step of the ledger, or shows nothing.   *)
LEMMA LedgerStep ==
  ASSUME Mapped, Mapped', [Next]_vars
  PROVE  [Ledger!Next]_(Ledger!vars)
<1> USE DEF Mapped
<1>1. ASSUME NEW p \in Procs, Abort(p) \/ Crash(p)
      PROVE  Ledger!Next
  BY <1>1, EndShown, DismissShown
<1>2. ASSUME NEW p \in Procs, StartCheck(p) \/ StartPrune(p)
      PROVE  Ledger!Next
  <2>1. ~Executing(p)
    BY <1>2 DEF StartCheck, StartPrune, Executing, RunPc
  <2> QED BY <1>2, <2>1, DismissShown
<1>3. ASSUME NEW p \in Procs, ReleaseEvidence(p)
      PROVE  Ledger!Next
  <2>1. Executing(p)
    BY <1>3 DEF ReleaseEvidence, Executing, RunPc
  <2> QED BY <1>3, <2>1, EndShown
<1>4. ASSUME NEW p \in Procs, CheckStep(p)
      PROVE  [Ledger!Next]_(Ledger!vars)
  BY <1>3, <1>4, BeginShown, WritesShown, ServeShown, NothingShown DEF CheckStep
<1>5. ASSUME NEW p \in Procs, Prune(p)
      PROVE  [Ledger!Next]_(Ledger!vars)
  BY <1>5, EvictShown, UnindexShown, NothingShown DEF Prune, PruneStep
<1>6. ASSUME NEW p \in Procs, MaintenanceFails(p)
      PROVE  UNCHANGED Ledger!vars
  BY <1>6, NothingShown
<1>7. CASE UNCHANGED vars
  <2>1. Stored' = Stored /\ Indexed' = Indexed /\ Served' = Served /\ proven' = proven
    BY <1>7, FilesShown DEF vars, storeVars, countVars, Served
  <2>2. Running' = Running
    BY <1>7 DEF vars, checkVars, Running, Execution, Executing, Key
  <2> QED BY <2>1, <2>2, LedgerShows
<1> QED BY <1>1, <1>2, <1>4, <1>5, <1>6, <1>7 DEF Next, Rest

(* Any number of checks and prunes over one cache, with their failures and *)
(* crashes, keep the promises of the ledger: one execution at a time for a *)
(* key, none of a known PASS unless forced, no PASS served that is not     *)
(* stored, no evidence evicted that is in use.                             *)
THEOREM KeepsTheLedger == Spec => ImplementsLedger
<1>1. Init => Unanswered /\ PublishesPass
  BY DEF Init, Unanswered, Working, PublishesPass, CheckPc, LookupPc, ReservePc, RunPc, PrunePc
<1>2. Typed /\ Unanswered /\ [Next]_vars => Unanswered'
  BY UnansweredStep
<1>3. Typed /\ PublishesPass /\ [Next]_vars => PublishesPass'
  BY PublishesPassStep
<1>4. Spec => [](Unanswered /\ PublishesPass)
  BY <1>1, <1>2, <1>3, TypedInvariant, PTL DEF Spec
<1>5. Typed /\ SingleFlight /\ FilesOwned /\ Kept /\ KnownPassNotRebuilt /\ Unanswered
        /\ PublishesPass => Mapped
  BY DEF Mapped
<1>6. Mapped /\ Mapped' /\ [Next]_vars => [Ledger!Next]_(Ledger!vars)
  BY LedgerStep
<1> QED
  BY <1>4, <1>5, <1>6, LedgerInit, KeptInvariant, SingleFlightHolds, NothingRebuilt, PTL
  DEF Spec, ImplementsLedger, Ledger!Spec
=============================================================================
