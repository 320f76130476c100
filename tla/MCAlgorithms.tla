---------------------------- MODULE MCAlgorithms ----------------------------
(***************************************************************************)
(* The sequential algorithms over all inputs of a bounded size: one step   *)
(* picks an input, and the invariants compare what the code makes of it    *)
(* with what it promises.                                                  *)
(***************************************************************************)
EXTENDS GitHubStatus, RunnerPolicy, ExecutionLog, StorageReserve, PlanInputs,
        WorkspaceArchive

CONSTANTS
  MaxDownloads,           \* for a Ruby step
  NoContent,              \* of a file that is not there
  TailLines, DetailSize,  \* of what is kept of an output
  Commits                 \* of a remote

Plans      == INSTANCE PlanSamples
Stores     == INSTANCE PreparedStores WITH Absent <- NoContent
Diagnosis  == INSTANCE FailureDiagnosis
Resolution == INSTANCE CommitResolution

ASSUME SizesAssumption ==
  MaxDownloads \in Nat /\ TailLines \in Nat \ {0} /\ DetailSize \in Nat
ASSUME CommitsAssumption ==
  Commits \cap ({Resolution!NoObject} \cup Resolution!Tags) = {}

VARIABLE input

RunSamples == {[status |-> "queued", conclusion |-> "null"],
               [status |-> "completed", conclusion |-> "success"],
               [status |-> "completed", conclusion |-> "timed_out"],
               [status |-> "completed", conclusion |-> "other"]}

StatusInputs ==
  [of : {"status"}, runs : UNION {[1..n -> RunSamples] : n \in 0..3}, size : 1..3,
   bad : SUBSET (1..2), statuses : SUBSET {"success", "pending", "failure"}]

RunnerInputs == [of : {"runner"}, requested : Supported \cup {"auto", "nerdctl"}, machine : Machine]

Lines == UNION {[1..n -> [bytes : {1, 3, 7, 10}, cut : {0, MaxCut}]] : n \in 0..2}
Brief == {lines \in Lines : Len(lines) < 2}
LogOfRound(prepared, prepare, test) == [prepared |-> prepared, prepare |-> prepare, test |-> test]
Failing(lines) == {LogOfRound("failed", l, <<>>) : l \in lines}
Passing(lines) == {LogOfRound("done", l, k) : l \in lines, k \in lines}
LogRun(first, resources, discarded, recreated, second, messages) ==
  [first |-> first, resources |-> resources, discarded |-> discarded, recreated |-> recreated,
   second |-> second, messages |-> messages]
Messages == {<<a, b, 6>> : a \in {0, 2, 6}, b \in {0, 6}}
Once(first) == LogRun(first, FALSE, FALSE, FALSE, first, <<0, 0, 0>>)
Unretried(first, discarded, messages) == LogRun(first, TRUE, discarded, FALSE, first, messages)
Retried(first, second, messages) == LogRun(first, TRUE, TRUE, TRUE, second, messages)
FirstRounds == {LogOfRound("none", <<>>, l) : l \in Lines} \cup Failing(Lines) \cup Passing(Lines)
RetryRounds == Failing(Brief) \cup Passing(Brief)
LogRuns ==
  {Once(first) : first \in FirstRounds}
  \cup {Unretried(first, discarded, messages) :
          first \in Failing(Lines), discarded \in BOOLEAN, messages \in Messages}
  \cup {Retried(first, second, messages) :
          first \in Failing(Lines), second \in RetryRounds, messages \in Messages}
LogInputs == [of : {"log"}, run : LogRuns]

Triples(S) == [1..3 -> S]
Entry(used, bytes, links, sized, stale, kept, fate) ==
  [used |-> used, bytes |-> bytes, links |-> links, sized |-> sized, stale |-> stale,
   kept |-> kept, fate |-> fate]
\* The listing is in neither order; one entry at most is odd in each respect.
Entries ==
  {[i \in 1..3 |-> Entry(<<2, 3, 1>>[i], b[i], l[i], i # unsized, i = stale, i = kept,
                         IF i = odd THEN fate ELSE "removed")] :
     b \in Triples({1, 2}), l \in Triples({0, 1}), unsized \in 0..1, stale \in 0..1,
     kept \in 0..2, odd \in 1..3, fate \in Fates}
PruneInputs ==
  [of : {"prune"}, kind : Kinds, entries : Entries,
   limits : [entries : 1..2, bytes : {2, 4}, cutoff : {1, 2}]]

\* One ecosystem at a time in every shape, and all of them together in fewer.
Tree(shape) == [p \in Paths |-> IF p \in DOMAIN shape THEN shape[p]
                                ELSE IF p = "shared" THEN File ELSE Absent]
Plain  == {Absent, File}
Linked == {Absent, File, Link("hop")}
AnyNode    == {Absent, File, Link("real"), Link("hop"), Link("shared"), Link("nowhere")}
Hops   == {Absent, Link("real"), Link("shared")}
Shapes ==
  [package : AnyNode, entry : Linked, real : Plain, hop : Hops, config : Plain, nested : Plain, tests : Plain]
  \cup [solution : AnyNode, second : Linked, project : AnyNode, real : Plain, hop : Hops, config : Plain]
  \cup [lock : Linked, rakefile : Linked, task : AnyNode, real : Plain, hop : Hops]
  \cup [package : Linked, solution : Linked, lock : Plain, rakefile : Plain, task : Plain,
        entry : Linked, project : Linked, real : Plain, hop : Hops]
PlanInputInputs == [of : {"plan"}, tree : {Tree(shape) : shape \in Shapes}, scope : Scopes]

\* Blobs of up to two bytes, two of one byte that no target can be.
BlobSize(blob) == IF blob < 4 THEN blob - 1 ELSE 1
BlobText(blob) == IF blob = 4 THEN "nul" ELSE IF blob = 5 THEN "binary" ELSE "utf8"
CommittedAs(mode, blob, portable, missing) ==
  [mode |-> mode, blob |-> blob, size |-> BlobSize(blob), text |-> BlobText(blob),
   portable |-> portable, missing |-> missing]
CommittedEntries ==
  {CommittedAs(mode, blob, odd # "path", odd = "blob") :
     mode \in Modes, blob \in 1..5, odd \in {"", "path", "blob"}}
CommittedTrees == UNION {[1..n -> CommittedEntries] : n \in 0..2}
Archive(entries, sent, exited, before) ==
  input' = [of |-> "archive", entries |-> entries, sent |-> sent, exited |-> exited,
            before |-> before]

\* Two checks whose first preparation has left a marker for the second: it has
\* a fresh tree or component, or changed in up to two respects and two files.
Numbers == [f \in Stores!Files |-> 1]
FirstChecks ==
  {[ecosystem |-> eco, configured |-> configured, extra |-> extra, runner |-> 1, repo |-> 1,
    commit |-> 1, profile |-> 1, component |-> ".", path |-> ".", image |-> 1, identity |-> 1,
    prepare |-> "fetch", tree |-> [Numbers EXCEPT !["lock"] = lock, !["work"] = work]] :
     eco \in {"python", "node", "rust", "go"}, configured \in BOOLEAN, extra \in {{}, {"member"}},
     lock \in 0..1, work \in 0..1}
Fields == {"runner", "repo", "commit", "profile", "component", "path", "image", "identity", "prepare"}
UpToTwo(S) == {{a, b} : a \in S, b \in S} \cup {{}}
Changed(field) ==
  IF field \in {"component", "path"} THEN "sub" ELSE IF field = "prepare" THEN "build" ELSE 2
Second(x, fields, files) ==
  [f \in DOMAIN x |->
     IF f = "tree" THEN [n \in Stores!Files |-> IF n \in files THEN 1 + x.tree[n] ELSE x.tree[n]]
     ELSE IF f \in fields THEN Changed(f) ELSE x[f]]

\* Four lines with marks in one or two of them, at their ends or for one of them
\* in front of that too or only, and lengths of two kinds.
Line(size, front, marks) == [size |-> size, front |-> front, marks |-> marks]
OneEach(m, k)   == <<{}, {m}, {k}>>
BothInOne(m, k) == <<{}, {m, k}, {}>>
InFront(m, k)   == <<{m}, {}, {k}>>
InTheWay(m, k)  == <<{m}, {"unresolved"}, {k}>>
Telling == {"unresolved", "command not found"}
MarkedPairs ==
  {OneEach(m, k) : m \in Diagnosis!Marks, k \in Diagnosis!Marks}
  \cup {BothInOne(m, k) : m \in Diagnosis!Unknown, k \in Diagnosis!Known}
  \cup {InFront(m, k) : m \in Diagnosis!Marks, k \in Telling}
  \cup {InTheWay(m, k) : m \in Diagnosis!Marks, k \in Telling}
Output(a, b, sizes, marks) ==
  [i \in 1..4 |-> Line(IF i \in {a, b} THEN sizes[2] ELSE sizes[1], IF i = a THEN marks[1] ELSE {},
                       (IF i = a THEN marks[2] ELSE {}) \cup (IF i = b THEN marks[3] ELSE {}))]
Finished(output, name, code, lacks, network, retried) ==
  [output |-> output, name |-> name, code |-> code, lacks |-> lacks, network |-> network,
   retried |-> retried]

ReserveEntry(used, bytes, fate) == Entry(used, bytes, 0, TRUE, FALSE, FALSE, fate)
ReserveEntries ==
  {[i \in 1..n |-> ReserveEntry(i, bytes[i], IF i = refused THEN "refused" ELSE "removed")] :
     n \in 0..2, bytes \in [1..2 -> 1..2], refused \in 0..2}
Frees == LET some == {0, 2, 3, 4} IN [{"root"} -> some] \cup [{"root", "temp"} -> some]

Init == input = [of |-> "nothing"]
PickStatus == input' \in StatusInputs
PickRunner == input' \in RunnerInputs
PickLog == input' \in LogInputs
PickPrune == input' \in PruneInputs
PickPlan == input' \in PlanInputInputs
PickArchive ==
  \E entries \in CommittedTrees :
    \/ \E exited \in {0, 1}, before \in {Nothing, Tar(<<>>)} :
         Archive(entries, Len(Stream(entries)), exited, before)
    \/ \E sent \in 0..Len(Stream(entries)) : Archive(entries, sent, 0, Nothing)
PickContainers ==
  \E runner \in {"docker", "container"}, step \in Stores!Steps, operator \in {"none", "enabled"} :
    input' = [of |-> "containers", runner |-> runner, step |-> step, operator |-> operator]
PickStores ==
  \E x \in FirstChecks, fields \in UpToTwo(Fields), files \in UpToTwo(Stores!Files) :
    /\ Stores!OneTree(x, Second(x, fields, files))
    /\ input' = [of |-> "stores", one |-> x, two |-> Second(x, fields, files)]
PickDiagnosis ==
  \E a \in 1..3, b \in 1..3, sizes \in {<<1, 1>>, <<2, 1>>, <<1, 2>>, <<2, 2>>},
     marks \in MarkedPairs :
    \/ \E code \in {0, 1}, lacks \in BOOLEAN, network \in {"none", "enabled"} :
         input' = [of |-> "diagnosis",
                   phase |-> Finished(Output(a, b, sizes, marks), "test", code, lacks, network, FALSE)]
    \/ \E retried \in BOOLEAN :
         input' = [of |-> "diagnosis",
                   phase |-> Finished(Output(a, b, sizes, marks), "prepare", 1, FALSE, "none", retried)]
Root(root) == input' = [of |-> "root", root |-> root]
PickRoot ==
  \/ \E p \in Plans!Pythons : Root([Plans!Bare EXCEPT !.python = p])
  \/ \E n \in Plans!Nodes : Root([Plans!Bare EXCEPT !.node = n])
  \/ \E m \in Plans!Manifests, g \in Plans!Gradles : Root([Plans!Bare EXCEPT !.maven = m, !.gradle = g])
  \/ \E c \in Plans!CMakes, k \in Plans!Makes : Root([Plans!Bare EXCEPT !.cmake = c, !.make = k])
  \/ \E f \in Plans!Manifests, h \in Plans!Phps :
       Root([Plans!Bare EXCEPT !.rust = f, !.go = f, !.php = h])
  \/ \E d \in Plans!Dotnets : Root([Plans!Bare EXCEPT !.dotnet = d])
  \/ \E c \in Plans!Configs : Root([Plans!Bare EXCEPT !.config = c])
  \/ \E r \in Plans!Rubies \cup Plans!OddRubies : Root([Plans!Bare EXCEPT !.ruby = r])
PickTarget ==
  \E ref \in Resolution!Refs, url \in Resolution!UrlRefs, before \in Resolution!Remotes,
     after \in Resolution!Remotes, served \in {{}, Resolution!Objects} \cup {{c} : c \in Commits}, component \in BOOLEAN :
    /\ url # Resolution!NoRef => ref \in {Resolution!NoRef, Resolution!Short}
    /\ input' = [of |-> "target", ref |-> ref, url |-> url, before |-> before, after |-> after,
                 served |-> served, component |-> component]
PickReserve ==
  \E free \in Frees, host \in ReserveEntries, volumes \in ReserveEntries,
     device \in {"root", "temp", "other"}, sized \in BOOLEAN :
    input' = [of |-> "reserve",
              machine |-> [free |-> free, host |-> host, volumes |-> volumes, device |-> device,
                           sized |-> sized]]
Next ==
  /\ input.of = "nothing"
  /\ \/ PickStatus \/ PickRunner \/ PickLog \/ PickPrune \/ PickPlan \/ PickArchive
     \/ PickContainers \/ PickStores \/ PickDiagnosis \/ PickRoot \/ PickTarget \/ PickReserve
Spec == Init /\ [][Next]_input

-----------------------------------------------------------------------------
(* A commit is never called green when a check or status, seen or not, is  *)
(* anything but green (_checks_payload, _combined_state).                  *)
NoFalseGreen == input.of = "status" =>
  NeverFalselyGreen(input.runs, input.size, input.bad, input.statuses)

(* A failing check run or status that arrived is reported as a failure,    *)
(* also from a truncated page; and green checks are reported green although*)
(* GitHub calls a commit without statuses "pending".                       *)
VerdictShown == input.of = "status" =>
  /\ FailureShown(input.runs, input.size, input.bad, input.statuses)
  /\ GreenShown(input.runs, input.size, input.bad, input.statuses)

(* select_runner finds the first runner that fits, if there is one.        *)
RunnerIsFirstFit == input.of = "runner" =>
  SelectRunner(input.requested, input.machine) = FirstFit(input.requested, input.machine)

(* No phase of a step takes its log over the limit, retry included; there  *)
(* is one marker of truncation at most, it tells the truth, and it is only *)
(* missing from a log with a gap where it does not fit.                    *)
LogCutOnce == input.of = "log" =>
  Bounded(StepLog(input.run)) /\ MarkedOnce(StepLog(input.run))

(* A prune whose removals succeed leaves what the limits allow, and one    *)
(* that meets nobody and no half-removed evidence removes nothing more.    *)
LimitsKept == input.of = "prune" =>
  /\ WithinLimits(input.kind, input.entries, input.limits)
  /\ NothingNeedless(input.kind, input.entries, input.limits)

(* A prune for a limit goes by last use.                                   *)
LeastRecentFirst == input.of = "prune" => OldestFirst(input.kind, input.entries, input.limits)

(* A partial checkout never makes detection fail that would not fail on    *)
(* the whole commit: every link among the inputs leads somewhere there.    *)
PartialNotRejected == input.of = "plan" => NotRejectedNeedlessly(input.tree, input.scope)

(* The plan compiled from the partial checkout is that of the commit, but  *)
(* for the commits ShownLess names.                                        *)
PlanOfTheCommit == input.of = "plan" => SeesTheCommit(input.tree, input.scope)

(* An archive appears whole or not at all, wherever git stops answering;   *)
(* and every tree with portable paths and links of short UTF-8 without NUL *)
(* is archived, with the reader of one object leaving the stream where the *)
(* next one starts, whatever the files hold.                               *)
ArchiveFaithful == input.of = "archive" =>
  /\ WholeOrNothing(input.entries, input.sent, input.exited, input.before)
  /\ Archived(input.entries, input.sent, input.exited, input.before)

(* The test container of an automatic step finds in its own mounts what    *)
(* the prepare container left in its, under every runner, with a marker in *)
(* each store; and it has a network only by the operator's word.           *)
PhasesAgree == input.of = "containers" =>
  /\ Stores!SameStores(input.runner, input.step)
  /\ Stores!OfflineUnlessAllowed(input.runner, input.step, input.operator)

(* Two checks that believe one success marker would have prepared the same,*)
(* where the fingerprint or the commit names all that the manager reads.   *)
PreparedFits == input.of = "stores" =>
  (Stores!NamesItsInputs(input.one) /\ Stores!NamesItsInputs(input.two)
     => Stores!FitsBoth(input.one, input.two))

(* A verdict on the machine or the environment is not lost because the     *)
(* output of a phase was long and noisy, where the ends of its telling     *)
(* lines tell it.                                                          *)
DiagnosisSurvives == input.of = "diagnosis" => Diagnosis!VerdictSurvives(input.phase)

(* The test of an automatic step uses what its preparation has put where   *)
(* the test container finds it, or what is in the image.                   *)
TestsWhatItPrepared == input.of = "root" =>
  \A profile \in Plans!Profiles, runner \in {"docker", "container"} :
    Plans!TestsWhatItPrepared(input.root, profile, runner)

(* A full check runs all that a quick one runs, in the same image, but for *)
(* the three choices of the code that NarrowByChoice and OtherInterpreter  *)
(* name.                                                                   *)
QuickWithinFull == input.of = "root" => Plans!QuickWithinFull(input.root)

(* A Ruby step downloads what the lock pins, archive by archive.           *)
RubyPinned == input.of = "root" => Plans!DownloadsPinned(input.root.ruby)

(* However the refs move between the request and the fetch, the commit that*)
(* is tested is the one the target meant when it was resolved.             *)
ExactCommit == input.of = "target" => Resolution!ExactCommitChecked(input)

(* A check is refused for want of space only if all of the cache would not *)
(* make enough, and volumes go only if the host cache would not.           *)
ReserveReached == input.of = "reserve" => ReserveMade(input.machine)

(* Violated: the configured step without a prepare command.  The README    *)
(* calls a configuration authoritative when it is present.                 *)
ConfigurationRuns == input.of = "root" =>
  \A profile \in Plans!Profiles, runner \in {"docker", "container"} :
    Plans!ConfiguredStepsRun(input.root, profile, runner)

(* Violated: an annotated tag by its full ref.  The README says targets are*)
(* resolved to a full commit SHA.                                          *)
TargetIsCommit == input.of = "target" => Resolution!ResolvesToCommit(input)
=============================================================================
