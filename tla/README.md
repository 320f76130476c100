# gh-freshclone: a TLA+ model of its shared state

`gh-freshclone` clones one immutable commit, compiles a baseline plan, runs the
plan in disposable containers and keeps a PASS as a receipt that later checks
answer with. Everything that survives a run lives under one cache root, which
any number of processes use at once with no daemon: files, `flock` locks and
container volumes. The modules here model that shared state, the procedures over
it, and the sequential algorithms whose edge cases a test hardly reaches. Paths
are relative to `src/`; line numbers of every definition are in `PROJECT.json`.

Contents: 1 inventory, 2 plan, 3 modules and their correspondence to the code,
4 runs, 5 fairness and failures, 6 proofs, 7 where code and documents disagree,
8 what is not modelled.

## 1. Inventory

| Component | Code (`gh_freshclone/`) | State it keeps | Operations | Where |
|---|---|---|---|---|
| Check workflow | `workflow.py` | locals of a check, the locks it holds | lookups, probe lock, plan, step loop, receipt, maintenance | `ProbeWorkflow`, `SourceCache` |
| Receipts and PASS indexes | `receipts.py` | `receipts/*/*.json`, `*.log`, `indexes/*/*.json` | read, touch, write receipt, write index | `EvidenceStore`, `ProbeWorkflow` |
| Resource locks | `cache.py` 155-208 | one `flock` file per resource | acquire, release on every exit, release by the kernel | in every concurrent module |
| Evidence prune | `cache.py` 442-582, 803-847 | a snapshot of the evidence | sweep, snapshot, lock, remove, sweep | `EvidenceStore` |
| Host-cache and volume prune | `cache.py` 211-402, 585-747, 849-897 | the registry of volumes | list, lock, remove, forget | `PreparedDependencies`, `SourceCache` |
| Limits of a prune | `cache.py` 748-897 | the counters of a loop | order, count, skip, remove | `PrunePolicy` |
| Prepared dependencies | `runners.py` 291-373, 850-1187 | volumes, host directories, success markers | ensure, record, prepare, mark, test, discard, retry | `PreparedDependencies` |
| Log of a step | `runners.py` 732-821 | one log file | header, lines, truncation | `ExecutionLog` |
| Source object cache | `github.py` 500-808, `workflow.py` 306-397 | one directory per commit and component | copy, validate, discard, fetch, store | `SourceCache` |
| Inputs of the plan | `github.py` 811-1540, `detect.py` 54-204 | a partial checkout | select, follow links, read, select | `PlanInputs` |
| Workspace archive | `workspace_archive.py` | a temporary tar | read the stream of objects, replace | `WorkspaceArchive` |
| Runner policy | `runner_policy.py` | none | prefer, select | `RunnerPolicy` |
| GitHub Actions comparison | `github_status.py` | none | combine a page of check runs and the statuses | `GitHubStatus` |
| Resolution of a target | `github.py` 58-425, 1543-1608 | none; the remote's refs move | ls-remote, choose a ref, fetch, fall back, check out | `CommitResolution` |
| Containers of a step | `runners.py` 212-321, 376-641, 1039-1079 | mounts | stores of a step, mounts of a phase, setup, markers, network | `StepContainers` |
| Names of the stores | `receipts.py` 110-201, `detect.py` 207-280, 2210-2250 | names of volumes and directories | fingerprint, hash, name | `PreparedStores` |
| Plan detection | `detect.py` 371-2370 | none | one detector per ecosystem, and the choices between them | `PlanDetection`, `PythonBaseline`, `NodeBaseline`, `RubyLock`, `CheckSteps` |
| Configuration | `configuration.py` | none | validate a step, take or refuse the file | `Configuration` |
| Failure diagnostics | `diagnostics.py`, `runners.py` 808-847 | the lines kept of a phase | keep, cut, judge | `FailureDiagnosis` |
| Storage reserve | `cache.py` 84-148 | none | measure, prune the host cache, then the volumes | `StorageReserve`, `ProbeWorkflow` |
| Subprocess helper | `process.py` | none | one call with a timeout | only its outcomes |
| CLI, API, integrations, scripts | `cli.py`, `api.py`, ... | none | callers of the above | as the commands that start |

**How they interact.** A check reads an index and a receipt without a lock. If
that misses, it selects a runner (which may change the key), takes the probe lock
of its key, looks again, makes sure of the storage reserve (which may prune),
takes the lock of the source cache, materializes the inputs of the plan from the
cache or by a fetch, and compiles the plan, which fixes the destination of the
receipt. It then takes the lock of the receipt, completes and archives the
checkout, and for every step takes the lock of the log and the locks of the
dependencies, prepares them, tests and appends to the log. It replaces the
receipt and then the index, drops the locks of the evidence, starts maintenance
(which may prune) and drops the probe lock. A prune reads everything without a
lock and locks only what it removes.

**What is hard.** Two processes at any two points of that sequence; a prune
anywhere in it, from the outside or from its own middle; processes killed there,
with their locks released by the kernel and their files and containers left; a
removal that stops half-way; locks taken in different orders; decisions made from
state that was read before a lock was waited for. `PROJECT.json` lists 40 such
hazards with their lines and the properties that watch them.

**What makes each component correct.** *Workflow*: one execution per probe key, no
rebuild of a known PASS, a cached answer was proven for the key asked for, every
command ends. *Evidence*: nothing is removed from under a running check, a PASS has
its logs, indexes name receipts, a prune leaves nothing dangling. *Dependencies*: a
test runs only over finished dependencies, a retry starts over nothing, a failed
preparation leaves nothing, the registry names the volumes that exist. *Source cache*:
a damaged cache costs a fetch and never a check, a hit is whole. *Prune limits*: the
limits hold afterwards, by last use, and nothing goes needlessly. *Log*: its phases
keep a limit, and its marker tells the truth. *Status*: never green by mistake,
failures and successes shown. *Plan inputs*: detection sees in the partial checkout
what it would see in the commit. *Archive*: whole or not there. *Resolution*: the
commit that is tested is the one the target meant when it was resolved. *Containers
and stores*: the test finds what the preparation left, a marker is only believed over
what one would have prepared oneself. *Detection*: a test uses only what is in its
image or was prepared; a full check contains the quick one; a download is pinned.
*Diagnostics*: noise does not change the verdict of a line that tells it in its end.
*Reserve*: a check is refused only if the cache could not have made room.

## 2. Plan

Written in this order, the most important behaviour first:

1. `EvidenceStore`, `ProbeWorkflow` over it, and the abstract `BaselineLedger`
   which `ProbeWorkflow` implements; runs `ProbePrune`, `ProbeFallback`,
   `PruneRecovery`, and two runs of disagreements. *Done.*
2. `ProbeWorkflow_proofs`: types, single flight, evidence in use, cached answers,
   the order in which prunes lock. *Done.*
3. `PreparedDependencies` and its proofs; runs `DepsShared`, `DepsDirs`,
   `DepsTornDir`. *Done.*
4. `SourceCache` and its proofs; run `SourceShared`. *Done.*
5. The algorithms `GitHubStatus`, `RunnerPolicy`, `ExecutionLog`, `PrunePolicy`,
   `PlanInputs`, `WorkspaceArchive`; run `Algorithms`. *Done.*
6. The algorithms between them: `CommitResolution`, `StepContainers`,
   `PreparedStores`, `FailureDiagnosis`, `Configuration`, `PlanDetection` with its
   detectors, `StorageReserve`; runs `Algorithms`, `ConfiguredRuns`, `TagObject`.
   *Done.*
7. Next: a composition of the source-cache lock with the evidence locks
   (`workflow.py` 306-482 takes both); the lookups of the network-less index; the
   clone of a local target.
8. The other safety properties of the concurrent modules, in the proof modules of
   items 2 and 3, and `LedgerRefinement_proofs` (the mapping to `BaselineLedger`, one
   lemma for each action of the ledger). *Done.*
9. The algorithms for inputs of any size: `Lists` and `SequenceLemmas` (induction
   over lists and loops), then `PhaseAlgorithms_proofs`, `StorageAlgorithms_proofs`
   and `PlanAlgorithms_proofs`. *Done: every invariant of a passing run is stated by
   a theorem.*
10. Next proofs: what stays true of `IndexNeverDangles` and `PassEvidenceWhole` while
    prunes run, and of `TestOnWhole` with host directories; the properties of the
    composition of item 7.

Every module is written so that it can be proved about: constants carry named
assumptions, each operation is one action, recursion is a recursive function.

## 3. Modules

### EvidenceStore and ProbeWorkflow

`EvidenceStore` holds the files (`receipt`, `log`, `index`), the locks
(`probeLock`, `fileLock`, `pruneLock`) and the prune; `ProbeWorkflow` extends it
with the check. A *destination* is one plan under one runner and its limits, a
*key* the probe identity it belongs to; two refs of one commit are two
destinations of one key, two runners are two keys.

| State | Code |
|---|---|
| `receipt[d]`: none, junk, pass, fail | the receipt file; junk is unreadable, of another version, or the empty file a late touch makes |
| `log[d][i]`: none, open, pass, fail | `<stem>-<i>-<ecosystem>.log`; open is a truncated or unfinished log |
| `index[k]`: None, Bad, a destination | the PASS index; Bad is malformed or empty |
| `pc`, `ret` | where a process is, and what its prune returns to |
| `scan`, `target`, `victims`, `entry` | locals of `_prune_dangling_indexes` and `_prune_cache_unlocked` |
| `renewed`, `proven` | history, read by properties only |

| Action | Code |
|---|---|
| `ReadIndex`, `ReadReceipt`, `Touch` | `read_indexed_pass_receipt`, three times: preferred runner, ready runner, under the lock |
| `SelectRunner`, `AcquireProbe` | `_check_repository_locked` and its caller |
| `Reserve` | `ensure_storage_reserve`: go on, or prune at most twice |
| `Plan`, `LockReceipt`, `LockLog`, `FinishStep` | `_check_resolved_repository` |
| `WriteReceipt`, `WriteIndex`, `ReleaseEvidence` | `write_receipt` and the end of the evidence locks |
| `Maintain`, `Return`, `MaintenanceFails` | `maybe_prune_cache` and the way out |
| `Abort` | every exception that leaves the check: it unwinds all locks |
| `ScanIndex`, `UnlinkIndex`, `Snapshot`, `NextVictim`, `LockVictim`, `RemoveVictim`, `EndPrune` | `_prune_cache_unlocked` over evidence |
| `Crash` | the process is killed: files stay, locks go |

Which entries the limits condemn is any set here (stale ones always); the limits
themselves are `PrunePolicy`. `BaselineLedger` is the abstract promise: what is
stored, indexed, running, served and proven, with an execution beginning only
while no PASS is known. `ImplementsLedger` is the refinement, under the mapping at
the end of `ProbeWorkflow`.

Simplifications: the network-less index of earlier versions is not kept apart;
the temporary files of `_atomic_json` are not seen by anyone; the snapshot of a
prune is one step; the removal of the last file and the release of its lock are
one step, as are the two touches and the lock and truncation of a log; completion
and archive lie between `LockReceipt` and `LockLog` and show as `Abort` there;
every verdict but pass is `fail`; an unlink of evidence is not refused.

### PreparedDependencies

One step of a plan (`run_step`) against volumes and host directories. `content` and
`marked` are what is in a resource and whether the success marker is inside it;
`registry` is `cache-registry.json`; `lock` one lock per resource; `unwritten`
remembers the volumes about which the last write of the registry failed, for
`RegistryExact` only. The loops over resources are explicit (`todo`), as locks are
taken one at a time in the order of sorted names (`Rank`).

| Action | Code |
|---|---|
| `Lock`, `Ensure`, `Record`, `EnsureFails` | resource locks, volume create, `record_volume` |
| `RecordFails`, `ForgetFails` | the registry cannot be written: the step ends, a discard counts the volume as refused, and a prune ends (`PruneAborts`) |
| `StartPrepare`, `FinishPrepare`, `Mark`, `PrepareFails` | the prepare phase and the marker |
| `StartTest`, `FinishTest` | the test phase |
| `Remove`, `RemoveDirEnds`, `RemoveFails`, `Forget` | the discard after a failed preparation, and the same of a prune |
| `Retry`, `DiscardEnds` | the one clean retry |
| `List`, `Pick`, `Await` | `_prune_cache_unlocked` over directories and volumes |
| `Die`, `OrphanStep` | a process stops (its container ends) or is killed (its container goes on without its lock) |

Only steps with a prepare command have resources. Tests are not tracked as
writers. Two package managers in one resource leave it partial. A mounted volume
cannot be removed; a container whose directory is removed loses it.

### SourceCache

The cache of one commit and component; others have directories and locks of their own.
`tree[d]` is what is at a name (the cache or a check's temporary directory): absent,
part (being filled), torn (something was removed), whole. `open` is where the
directory an actor removes is now: `rmtree` holds a descriptor, so a directory that is
renamed while a prune removes it goes on being emptied under its new name. Actions
follow the code call by call: `LockCache`, `Look`, `Copy`, `Validate`, `Touch`,
`Discard`, `Fetch`, `Plan`, `Complete`, `Store`, `Mkdir`, `Fill`, `Promote`,
`Cleanup`, `ReleaseCache`; and for a prune `List`, `Pick`, `Await`, `Open`,
`RemoveEntry`, `RemoveName`. `Cleanup` is `rmtree(ignore_errors=True)`: it may leave
all or part of the temporary directory, and nobody is told. Two histories serve
properties only: `excused`, the checks a failure from outside has met, so that
`DamageNeverFails` can say that damage alone is none; and `left`, the checks that were
killed or could not remove what they made, the only ones `TemporariesGone` lets leave
anything. This is the POSIX behaviour; links, the size budget and Windows are left
out.

### The algorithms

Pure operators, named after the functions they translate. Comprehensions and sums
over lists are `Sieve` and `Total` of `Lists`, recursive functions that one can prove
about, where the library has operators that take operators.

- `GitHubStatus`: `_checks_payload`, `_legacy_status_payload`, `_combined_state`;
  external are what GitHub puts in a page and the verdict it gives on statuses.
- `RunnerPolicy`: `_runner_preferences`, `preferred_runner`, `select_runner`.
- `ExecutionLog`: the whole log of `run_step` on sizes. A `Phase` has a header, lines,
  a cut and a marker, and looks only at the size that was left to it; a `Round` is the
  preparation and the test; `StepLog` is a round, and after a failed preparation the
  messages of the step (`Note`, which asks for no limit) and the clean retry.
- `PrunePolicy`: the three loops of `_prune_cache_unlocked` with their counters, over
  the entries in the order of a stable sort by last use.
- `PlanInputs`: a commit is a function from paths to nothing, a file or a link;
  `AutomaticInputs` and `ComponentInputs` are the two orders in which inputs are
  checked out, read for what they name, and their links followed; `View` and
  `Rejected` are what detection makes of a checkout. One path stands for each
  role (the package manifest, its entry point, a solution, its project, ...).
- `WorkspaceArchive`: the stream `git cat-file --batch` writes as tokens, the
  reader of one object, the links that are refused (a target over 4096 bytes, not of
  UTF-8 or with a NUL), and the destination, which appears last.

- `StepContainers`: a step is its ecosystem, whether it prepares, the network it
  asked for and the stores its caller offers. `Stores` is what `run_step` gives it;
  `Mounts`, the setup and the markers are what `build_runner_command` makes of each
  phase under docker and under Apple container.
- `PreparedStores`: a check is a record of everything the names of its volumes and
  directories are hashed from, and the contents of its files by role (root manifest
  and lock, member manifests, `go.work`, configuration, sources). A hash is the
  tuple of what is hashed. `Reads` is external: what a package manager reads.
- `FailureDiagnosis`: a line is its last 2,000 characters, which are kept, by their
  number and marks, and the marks in front of them, which are looked at and lost; a mark
  stands for the phrases the code looks for together. The tail, the evidence and the cut
  of the detail are the code's, the verdicts are in the code's order.
- `Configuration`: what `load_configuration` accepts, a flag or value for each thing
  it tests of a key, and the plan made of it.
- `PlanDetection`: a root is what each detector reads of it. A step of a plan says
  which tools its image has, what its prepare command leaves at which place, and the
  runs of its test command with what each uses (`CheckSteps`). `PythonBaseline` has
  the interpreter, the dependencies and the runner of tests with tox, `NodeBaseline`
  the scripts and package managers of Node, Bun and Deno, `RubyLock` the acceptance
  of a `Gemfile.lock` and its acquisition manifest; Rust, Go, Maven, Gradle, CMake,
  Make, PHP and .NET are in `PlanDetection`. What a tool needs in order to run is
  external. `PlanSamples` holds the roots that are tried.
- `CommitResolution`: the refs of the remote at the request (`before`) and at the
  fetch (`after`), which objects it serves by id, and what is asked for: nothing, a
  short name, a full ref or an id, as `--ref` or in the URL. Two commits, an
  annotated tag, a branch and a tag of the same name and a pull request's head are
  enough for every rule of precedence to decide.
- `StorageReserve`: free bytes per device, host cache and volumes as entries of
  `PrunePolicy`, whose loops it calls with the bytes to reclaim as limit.

`MCAlgorithms` picks one input of one algorithm in its only step; the invariants
compare what the code makes of it with what it promises. Its constants are the
limits of the code, any number each as far as the theorems go: of a log (`Limit`,
`Marker`, `Header`), of a link's target (`MaxTarget`), of what is kept of an output
(`TailLines`, `DetailSize`), of the downloads of a Ruby step (`MaxDownloads`), of the
reserve (`MinFree`, `Slack`); and the commits of the remote (`Commits`).

## 4. Runs

Sizes are distinct states; times are with two workers.

| Run | Bounds | Size | Shows |
|---|---|---|---|
| `ProbePrune` | 2 processes, 1 key with 2 destinations, 1 step, both cache modes, 3 commands, 1 kill; manual, reserve and automatic prunes | 854,197, 95 s | `SingleFlight`, `InUseEvidenceKept`, `KnownPassNotRebuilt`, `PrunesNeverCross`, `ImplementsLedger`, types |
| `ProbeFallback` | 2 processes, 2 runners with a key each (one of them with 2 destinations), 2 steps, 3 commands, 1 kill, fair | 289,791, 60 s | `CommandsEnd`, `PassEvidenceWhole`, `CachedAnswerProven`, `IndexNeverDangles` |
| `PruneRecovery` | 1 process, seeded evidence, 4 commands, 2 kills | 68,970, 5 s | `PruneLeavesNoDangling` |
| `PruneDeadlock` | 1 destination, a check and a manual prune, fair | violated | the deadlock of section 7 |
| `PruneStale` | 1 destination, seeded, 2 commands | violated | fresh evidence is removed for the age of the old |
| `DepsShared` | 2 processes, one step over 2 volumes, 2 steps, 1 prune, 1 death, fair | 92,425, 20 s | `TestOnWhole`, `OneWriter`, `RegistryExact`, `StepsEnd`, types |
| `DepsDirs` | a volume and a directory, a killed process with its container | 43,563, 5 s | `RetryClean`, `FailureLeavesClean` |
| `DepsTornDir` | a directory, 1 prune, 1 death | violated | a half-removed directory is taken as prepared |
| `SourceShared` | 2 checks, 2 prunes, 1 outside failure, 1 kill, fair | 670,759, 105 s | `HitIsWhole`, `DamageNeverFails`, `TemporariesGone`, `RemovedUnderLock`, `AllEnd` |
| `Algorithms` | below | 756,804, 100 s | the seventeen invariants of the table below |
| `ConfiguredRuns` | the roots with a configuration | violated | a configured step whose test container cannot be made |
| `TagObject` | the same targets | violated | a full ref of an annotated tag stays the tag's id |

| Invariant of `Algorithms` | Says |
|---|---|
| `NoFalseGreen`, `VerdictShown` | the status is not green by mistake; failures that arrived and successes are shown |
| `RunnerIsFirstFit` | the selection of a runner finds the first that fits |
| `LogCutOnce` | no phase takes a log over its limit, only the messages of the step do; there is one marker at most, and it is only missing from a log with a gap where it does not fit |
| `LimitsKept`, `LeastRecentFirst` | a prune keeps the limits, removes nothing without need and goes by last use |
| `PartialNotRejected`, `PlanOfTheCommit` | detection makes of the partial checkout what it would make of the commit |
| `ArchiveFaithful` | whole or nothing, and always whole if git answers, paths and modes are taken, and links are short UTF-8 without NUL |
| `PhasesAgree` | the test finds the stores of the preparation under every runner, and has a network only by the operator's word |
| `PreparedFits` | two checks that believe one marker would have prepared the same |
| `DiagnosisSurvives` | noise before and after telling lines does not change the verdict, where the kept ends of those lines tell it |
| `TestsWhatItPrepared` | what a test uses is in its image or was prepared where the test sees it; the interpreter of the image is within the bounds that are read |
| `QuickWithinFull` | a full check runs what a quick one does in the same image, but for three named choices: the target of Make, the default environment of tox, and the interpreter that environment is named for |
| `RubyPinned` | a Ruby step downloads only what one digest of the lock pins |
| `ExactCommit` | the commit tested is the one the target meant at the request, or the check fails |
| `ReserveReached` | no check is refused while the cache could make room; volumes go last |

**Why these bounds are enough to meet the cases.** Every hazard listed is between two
parties and a third event: two checks and a kill, a check and a prune and a second
check, two checks and a runner that changes. Two processes that each give more than
one command contain them; the third and fourth command find what the first two left.
Two steps are the least with a "not the last" and a "last" step; `ProbePrune` does
with one, because a prune treats all logs alike. Two destinations of a key are the
least with which an index can name another plan. One kill can hit every point; two are
needed for a prune killed twice (`PruneRecovery`). In `DepsShared` two volumes are the
least for which one marker can be there without the other and locks can be taken in
two orders. Processes are symmetric and every temporal property is free of them, so
symmetry is used where no liveness is checked. `Algorithms`: pages of up to 3 of 4
kinds of run with page size 1 to 3, two unusable items and all sets of statuses; every
machine and request for the runner; a log of a preparation and a test of up to 2 lines
each, with a failed preparation, a discard that fails, a store that cannot be made
again, or a retry of up to 1 line a phase, sizes around the limit 13, marker 5 and
header 4, cut 0 or 3 bytes early, and messages that are lost, small, or larger than
the marker; 3 prune entries in an order that is neither of the two, at most one odd in
each respect; commits of each ecosystem in every shape with a link, a second hop, a
target outside and a dangling one, and of all ecosystems together; 2 archive entries
of 5 modes and sizes 0 to 2, one of them with a NUL and one not UTF-8, with the stream
cut anywhere; all steps of 14 ecosystems; a second check that differs from the first
in up to 2 of 9 fields and 2 files (a third difference could only make the names
differ more); 4 lines of output with marks in up to 2 of them, at their ends, in front
of them or both, a tail of 2 lines and a detail of 3, so that a line can be early
enough to be lost, kept only as a diagnostic line, or cut; one ecosystem at a time in
all its shapes, and together those among which `detect_plan` chooses (Maven and
Gradle, CMake and Make) or which share a flag (Rust, Go, PHP); every ref asked for
against every two states of the remote; two devices, up to 2 entries of each store, a
reserve of 4 with a slack of 1.

**Deadlock** is checked in every passing run but two. `ProbePrune` can stop in the
deadlock of section 7. `Algorithms` picks one input and stops. `Rest` in the other
modules is the one state in which everything bounded has been done. The runs
`PruneDeadlock`, `PruneStale`, `ConfiguredRuns` and `TagObject` do not check it.

## 5. Fairness and failures

`FairSpec` is weak fairness of each process's own steps. It stands for three
things: processes are scheduled; a `flock` that is free is granted to a waiter
(weak fairness is enough, as the bounded number of commands cannot starve
anyone for ever); containers and git calls end, by themselves or by the timeouts of
`process.py` and `runners.py`. No fairness is put on `Abort`, `Crash`,
`EnsureFails`, `RecordFails`, `ForgetFails`, `CheckFails` or a failing removal: they may
happen and need not. A
check whose prune waits for ever is therefore a real violation of `PruneEnds`, not
an unlucky schedule.

A kill releases the locks (the kernel closes the descriptors) and leaves files,
temporary directories and, with `Deaths = {"kill"}`, the container. A removal can
stop at any entry. `flock` has no timeout, so there is no action for one.

## 6. Proofs

All proofs are for any number of processes, keys, destinations, resources, steps and
commands, and for lists of any length; the only assumptions are the `ASSUME`s of the
modules (disjoint constants, `KeyOf` a function, distinct ranks, bounds in `Nat`),
which every run evaluates, and the hypotheses named here.

| Module | Theorem | Shows | Along |
|---|---|---|---|
| `ProbeWorkflow_proofs` | `TypeCorrect` | `TypeOK` | `Typed`: with the types, what a control point refers to exists |
| | `SingleFlightHolds` | `SingleFlight` | `ProbeOwned`: from the second look to the end the probe lock of the *current* key is held; the key does not change after it is taken |
| | `EvidenceKept` | `InUseEvidenceKept` | `FilesOwned`: a running check owns receipt and logs up to its step, a removing prune owns every file of its entry; so no two of them are at one file. `Kept` adds that a passed run ended at the last step |
| | `CachedProven` | `CachedAnswerProven` | `Answered`: every PASS receipt is of a proven destination, whether or not its logs are still there |
| | `PrunesOrdered` | `PrunesNeverCross` | `Ordered`: a prune that still locks holds only files of its entry that come before all it lacks |
| | `NothingRebuilt` | `KnownPassNotRebuilt` | `Unknown`: an index names its own key only, and only the holder of the probe lock can make a PASS known for its key; so what a check did not find under that lock stays unknown until it publishes |
| | `NoIndexDangles` | `IndexNeverDangles`, where nothing starts a prune | `Unpruned`: the index a lookup has read is still there when it touches the receipt |
| | `PassIsWhole` | `PassEvidenceWhole`, where nothing starts a prune and every check may use the cache | `CacheUsed` with `Unknown` and `Kept`: a log is only reopened where there is no PASS |
| | `PruneCleansIndexes` | `PruneLeavesNoDangling`, one process at a time | `Swept`: what a scan has passed names its receipt, and the second scan follows the last removal |
| `LedgerRefinement_proofs` | `KeepsTheLedger` | `ImplementsLedger` | `Mapped`: the invariants above with `Unanswered` (a process at work has no answer yet) and `PublishesPass`; every step is one action of the ledger or a stutter, a lemma for each |
| `PreparedDependencies_proofs` | `DependenciesTyped` | `TypeOK` | `Typed` |
| | `TestsRunOnWhole` | `TestOnWhole`, for volumes only and no kills | `Locked` and `Marks`: a full set of markers stands for finished content, and is only changed by a holder of all the locks |
| | `WritersExclude` | `OneWriter`, no kills | `Locked` and no orphans |
| | `RetriesAreClean` | `RetryClean` | `Stored`: a second attempt has discarded every resource it lists, and nobody else fills them under its locks |
| | `FailuresAreClean` | `FailureLeavesClean` | the same for the discard that ends a step |
| | `RegistryIsExact` | `RegistryExact`: while no process has died, for every volume the last write about which did not fail | `Registered`: registry and volume differ only where the holder of the volume's lock is between the two, or where a write failed |
| `SourceCache_proofs` | `SourceTyped` | `TypeOK` | one invariant `Inv`, a lemma for each of its parts |
| | `HitsAreWhole` | `HitIsWhole` | `Hits`: validation decides, whatever happens to the cache later |
| | `DamageIsHarmless` | `DamageNeverFails` | `OpenThere` and `Excuses`: a discard that runs to its end leaves nothing |
| | `TemporariesRemoved` | `TemporariesGone`: only a kill or a removal that failed leaves a temporary directory | `Temporaries` |
| | `RemovalsLocked` | `RemovedUnderLock` | `Held`, `OpenThere` |
| `PhaseAlgorithms_proofs` | `LogIsCutOnce` | `LogCutOnce` | `SoundLogs`: a log with a marker was cut and has at most the rest of a character left to its limit, one with a gap and no marker has less than a marker left; every line keeps that, every phase from whatever was left to it, and so does a message of the step |
| | `GreenIsTrue`, `FailureIsShown`, `GreenIsShown`; `NeverGreenByMistake`, `VerdictIsShown` | `NoFalseGreen`, `VerdictShown` | counting: a page that is not truncated holds every usable run |
| | `FirstFitIsChosen` | `RunnerIsFirstFit` | `RankedPreferences`: the preferences are the runners that fit, each once, by rank |
| | `ArchiveIsFaithful` | `ArchiveFaithful` | after `i` entries the reader is at the place in the stream where the bytes of entry `i + 1` begin, or has stopped; a cut before that place is met |
| | `DiagnosisIsKept` | `DiagnosisSurvives` | the tail, the diagnostic lines and the cut of the detail each keep a sublist of the output, and what they lose begins before what fits |
| `StorageAlgorithms_proofs` | `PreparedForBoth` | `PreparedFits` | `VolumesFit`, `DirectoriesFit`: the hash in a name is over all a preparation reads |
| | `ContainersAgree` | `PhasesAgree` | by the kind of the step |
| | `PruneKeepsLimits`, `OldestGoFirst` | `LimitsKept`, `LeastRecentFirst` | an invariant of the loop: count and bytes are those of what is not gone, and everything before the entry was old, tried or protected when a limit was broken; `Order` is ascending and a permutation |
| | `ReserveIsMade` | `ReserveReached` | the same loop with the bytes to reclaim as its limit: a prune that stops early has freed them |
| `PlanAlgorithms_proofs` | `TheCommitMeant` | `ExactCommit` | what is resolved is what the target means at the request, for each kind of ref; only that object is checked out, however the refs move before the fetch |
| | `OnlyPinnedGems` | `RubyPinned` | a lock that is accepted has one line for each spec, and exactly the required ones have a sum |
| | `RejectedForCause` | `PartialNotRejected` | the partial checkout is a part of the commit that shares its inputs |
| | `PlanSeesTheCommit` | `PlanOfTheCommit` | pigeonhole: every round in which following links adds a path has a link of its own, so the rounds are enough, the checkout is closed under links and resolves each of its paths as the commit does |
| | `TestsUseWhatWasPrepared` | `TestsWhatItPrepared` | `FitStep` for the step of every detector; `QuickTox`: the environment that is chosen is one of the list or the default, under its own interpreter |
| | `FullRunsMore` | `QuickWithinFull` | `StepWithin` for each detector, carried over the concatenation of the steps |
| all three | `PhasesOfTheRuns`, `StorageOfTheRuns`, `PlansOfTheRuns` | all seventeen invariants of `Algorithms`, as `Spec => []...` | what each `Pick...` action picks meets the hypotheses of the theorems above |

**Induction.** The library's induction theorems take an operator as a parameter.
`SequenceLemmas` has its own, about sets: a set of naturals that is not empty has a
least one (from the well-foundedness of the subset order on `0..n`); so a set with 0
and every successor has all naturals (`NatSetInduction`), a set of sequences with the
empty one and every `Append` has all (`SequenceInduction`), and a loop over a list is
a function (`LoopRuns`), whose steps one can cite. What a recursive function of the
model computes is derived from those, for a list of any length.

**What the theorems about algorithms suppose of an input.** A list of check runs of
any length, any page size and set of statuses; any machine. A log line and a message
of the step have any length, and a line is cut at most `MaxCut` bytes early. The
entries of a prune are a list without repetition, with sizes in `Nat` and any fates;
those of the reserve have known sizes and no protection, as in the prunes of
`ensure_storage_reserve`. Committed entries have one of git's modes, any blobs and
sizes, and text of one of three kinds, which only the target of a link is asked for;
the stream may end after any token. What is kept of a line of output fits the detail
together with the message of a retry: the code cuts every line it keeps to its last
2,000 characters and the detail to 4,000 (`runners.py:808-845`, `:1019`); the marks in
front of that are any, and the theorem says what they must not be for the verdict to
survive. Two checks are over one source tree (`OneTree`). The locks of Node are of its
four managers, a Makefile has one of the four kinds of `configure`; a least Python
version is from 11 to 14 and one that is too new from 12 on, as the expressions at
`detect.py:419-420` read no other. Each line of `CHECKSUMS` has a digest, none or a
bad one. A target has any refs and objects. `RejectedForCause` and `PlanSeesTheCommit`
suppose nothing. The last three theorems show that the runs pick nothing else, for
`PhasesOfTheRuns` with a detail of at least 3, which is what the sampled lines need.

The hypotheses are needed and not conveniences. With a host directory `TestOnWhole` is
false (run `DepsTornDir`); with kills `OneWriter` and `RegistryExact` are (a container
outlives the lock of its process, a volume its entry). `RegistryExact` does not speak
of a volume while the last write about it has failed: the volume is then there and not
named, or named and not there, and nothing but a later write about it sets that right.
A prune removes a receipt before the index that names it, and the logs of an entry
before its receipt; a `--no-cache` check reopens the logs of a PASS before it replaces
the receipt; and a second process can remove the receipt behind a scan.
`PreparedForBoth` takes two checks over one source tree, that hashes differ where
their inputs do, and `NamesItsInputs` (section 7).

None of the safety properties is inductive. `SingleFlight` says nothing of who
holds the lock; `InUseEvidenceKept` nothing of why a prune cannot be at the same
file; `TestOnWhole` nothing of markers. The strengthenings above say it; each was
first checked with TLC on the runs' instances.

Only model-checked: the liveness properties `CommandsEnd`, `StepsEnd` and `AllEnd`,
as fairness and `ENABLED` are out of reach for the prover. That `IndexNeverDangles`
and `PassEvidenceWhole` are proved without prunes, and `TestOnWhole` for volumes, is
no gap: with them they are false, as above; the runs check the same instances.

## 7. Where code and documents disagree

Shown by a run:

- `PruneDeadlock`: a prune locks `<stem>-1-<ecosystem>.log` before `<stem>.json`
  (`cache.py:828` sorts names), a check the receipt before the log
  (`workflow.py:358`, `:409`). With both at one destination neither ends;
  `tests/test_cache.py:917-919` expects such a prune to end.
- `PruneStale`: ages and sizes are read before the locks of an entry are waited for
  and not looked at again (`cache.py:827`); `CHANGELOG.md:372-373` says "race-free".
- `DepsTornDir`: a removal of a host directory that stops half-way can leave the
  success marker; `README.md:358-364` says that interrupted state is not reused.
- `ConfiguredRuns`: a configured `php` or `ruby` step may leave out its prepare
  command (`configuration.py:125`); it is planned, gets no volume
  (`runners.py:1051-1059`), and its test container is refused for want of one
  (`runners.py:400`). `README.md:718` calls a configuration authoritative.
- `TagObject`: a full ref of an annotated tag is not peeled (`github.py:297`), a
  short name is (`github.py:302`). The repository is still checked out at the commit,
  under a key that is not a commit; a component fails (`github.py:1589`).
  `README.md:269-270` says that targets are resolved to a full commit SHA.

Seen while modelling, without a run of their own:

- An index judged dangling is unlinked later without a lock, also when a check has
  written it and its receipt anew in between; the docstring at `cache.py:552` says
  only malformed, escaping or orphaned ones go. The cost is one lookup, as the
  receipt is found through the plan (`KnownPassNotRebuilt`).

- In a component, `package.json` and the solution are read before their links are
  followed (`github.py:1393-1471`), in the root after (`github.py:1121-1130`). A
  component whose `package.json` links to a file inside the component compiles
  `npm run build && npm run test` although its entry point is committed, against
  `README.md:383-385`; running the two functions on such a component shows it.
  `ShownLess` in `PlanInputs` keeps it out of `PlanOfTheCommit`.
- Rake tasks without a `Rakefile` are not in the partial checkout of the root but
  are read by detection; links through linked directories are not followed.
- `README.md:537-538` says each log is capped at 10 MiB with a truncation marker. A line
  that does not fit when less than the marker is left is dropped without a marker
  (`runners.py:790-801`), and the messages of the step around a failed preparation are
  appended without a look at the limit (`runners.py:1007-1015`): they pass it by their
  own length. `Bounded` and `MarkedOnce` say what does hold.
- A phrase more than 2,000 characters before the end of a line is seen by
  `is_diagnostic_output` and then lost, and its line takes one of the twenty places of
  the evidence (`runners.py:808-818`): it may crowd out a line that could tell.
- A prune that locked a temporary directory of the source cache can go on emptying
  it under the cache's name (`README.md:533-537` speaks of protection);
  `DamageNeverFails` shows that this costs a fetch at most.
- A process that is killed leaves its package manager in a volume without a lock
  (`README.md:387-389` says concurrent agents never corrupt one).
- Two prunes from the same counters remove more than the limits ask for.
- The fingerprint of a host directory does not name all that its manager reads: the
  members' manifests of a Rust workspace without `Cargo.lock`, and `go.work`
  (`README.md:279`, `:353-359`). The old downloads are then believed and the offline
  test fails until they are pruned. `NamesItsInputs` keeps these out of `PreparedFits`.
  `tox.ini` is not in it either, but Python keeps what it prepares in a volume
  that is named by the commit.
- A commit with a link whose target is over 4096 bytes, not of UTF-8 or has a NUL is not
  archived (`workspace_archive.py:193-204`), so it cannot be checked at all.
- `reproduce` and `full` run every environment tox lists over one image with one
  interpreter, where `quick` runs a single one in the image of the interpreter it is
  named for, whatever `requires-python` allows (`detect.py:485-506`, `:590-599`): the two
  can differ on an environment both run (`OtherInterpreter`). Bounds such as `<=3.12` or
  `<3.11` are not read at all (`detect.py:419-420`), and `InterpreterAllowed` says nothing
  of them. `full` runs one target of a Makefile (`README.md:150` says all known
  scripts); pnpm and yarn named by `packageManager` without a lock install frozen; a
  Gradle wrapper older than 8.5 with a toolchain of 21 gets the image of JDK 21.
- A ref that is deleted between the request and the fetch fails the check; the fetch
  by id is not reached (`README.md:271-273`).
- `diagnose_failure` looks for phrases that `is_diagnostic_output` does not keep (a
  reset connection, `--offline`, a missing image): `Unknown` in `FailureDiagnosis`. Once
  they are out of the tail the verdict is a failing test.
- The host cache is pruned for the deficit of a device it is not on.
- Where the registry cannot be written, a volume that was made stays without a name in
  it (`runners.py:373`), and on Apple container, which lists no labels, no prune finds
  it until the step is run again.
- A temporary directory of the source cache that cannot be removed stays and nobody is
  told (`github.py:806-808`); a later prune finds it by its listing.
- Only PHP and Ruby tests get their store read-only; what other tests write there is
  believed by the next check under the same marker.
- A configured step of another ecosystem, or of Rust and Go outside `/cache`, prepares
  in a container that is removed; its test finds nothing of it.

## 8. Not modelled

- The text of manifests, locks, solution files and output: regular expressions, TOML
  and JSON are read as what matters of them. Image tags but for the interpreter and
  the JDK, evidence, warnings and confidence of a plan.
- Calls of git, gh, docker, podman and Apple container, with those of their arguments
  that are the same for every step. Only the outcomes reach the state. `process.py` is
  one call with a timeout, which shows as `Abort`.
- A local target: its clone and the check that its tree is clean.
- The size budget of the source cache as a number: `Store` may store or not.
- Limits on a configured component (files, bytes), on rake tasks and on projects.
- Parsing, rendering and the JSON shapes of `model.py`, `cli.py`, `api.py`, the
  integrations and the scripts.
- Windows: locks by `msvcrt`, removal of open files, reserved names.
