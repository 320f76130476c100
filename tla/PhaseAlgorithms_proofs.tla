----------------------- MODULE PhaseAlgorithms_proofs -----------------------
(***************************************************************************)
(* Proofs about the algorithms around the phases of a check, for inputs of *)
(* any size: the log of a step, the status of a commit, the runner, the    *)
(* archive of the workspace, the diagnosis of a failure.                   *)
(***************************************************************************)
EXTENDS MCAlgorithms, SequenceLemmas

(* A line may be of any length, and a cut falls up to MaxCut bytes early.  *)
LogLine  == [bytes : Nat, cut : 0..MaxCut]
LogRound == [prepared : {"none", "failed", "done"}, prepare : Seq(LogLine), test : Seq(LogLine)]
StepRun  == [first : LogRound, resources : BOOLEAN, discarded : BOOLEAN, recreated : BOOLEAN,
             second : LogRound, messages : [1..3 -> Nat]]
LogState == [size : Nat, full : BOOLEAN, marks : Nat, lost : Nat, late : Nat, said : Nat]

(* What may follow the first gap: less than a marker, or less than what    *)
(* one character takes when the marker is there.                           *)
Spare(s) == IF s.marks = 0 THEN Marker - 1 ELSE MaxCut

(* Once something is lost, what is left of the limit and what has followed *)
(* are together within these bounds.                                       *)
SoundLogs ==
  {s \in LogState :
     /\ s.size <= Limit + s.said /\ s.marks <= 1
     /\ s.marks = 1 => s.lost > 0
     /\ s.lost = 0 => s.late = 0
     /\ s.lost > 0 => s.late <= Spare(s) /\ s.late + Remaining(s) <= Spare(s)
     /\ s.full => s.lost > 0 \/ s.size >= Limit}

(* A phase that still writes is within the limit; a message is not.        *)
PhaseLogs == {s \in SoundLogs : s.full \/ s.size <= Limit}

LEMMA LogFields ==
  ASSUME NEW s \in SoundLogs
  PROVE  /\ s.size \in Nat /\ s.full \in BOOLEAN /\ s.marks \in Nat /\ s.lost \in Nat
         /\ s.late \in Nat /\ s.said \in Nat /\ s \in LogState
         /\ Remaining(s) = Limit - s.size /\ MaxCut = 3
         /\ Spare(s) = IF s.marks = 0 THEN Marker - 1 ELSE 3
         /\ Limit \in Nat /\ Marker \in Nat /\ Header \in Nat /\ 4 < Marker /\ 3 < Header
BY LogAssumption DEF SoundLogs, LogState, Remaining, MaxCut, Spare

(* A state is sound by its fields.                                         *)
LEMMA SoundByFields ==
  ASSUME NEW t \in LogState, t.size <= Limit + t.said, t.marks <= 1,
         t.marks = 1 => t.lost > 0, t.lost = 0 => t.late = 0,
         t.lost > 0 => /\ t.late <= IF t.marks = 0 THEN Marker - 1 ELSE 3
                       /\ t.late + (Limit - t.size) <= IF t.marks = 0 THEN Marker - 1 ELSE 3,
         t.full => t.lost > 0 \/ t.size >= Limit
  PROVE  t \in SoundLogs
BY DEF SoundLogs, Spare, MaxCut, Remaining

LEMMA GrowSound ==
  ASSUME NEW s \in PhaseLogs, ~s.full, NEW n \in Nat, n <= Remaining(s)
  PROVE  Grow(s, n) \in PhaseLogs
<1> DEFINE t == Grow(s, n)
           late == IF s.lost > 0 THEN s.late + n ELSE s.late
<1>0. s \in SoundLogs
  BY DEF PhaseLogs
<1>1. late \in Nat /\ s.size + n \in Nat
  BY <1>0, LogFields
<1>2. t = [s EXCEPT !.size = @ + n, !.late = late]
  BY DEF Grow
<1>3. /\ t \in LogState /\ t.size = s.size + n /\ t.late = late /\ t.marks = s.marks
      /\ t.lost = s.lost /\ t.full = FALSE /\ t.said = s.said
  <2> HIDE DEF t, late
  <2> QED BY <1>0, <1>1, <1>2, LogFields DEF LogState
<1> HIDE DEF t
<1>4. /\ t.size <= Limit /\ t.size <= Limit + t.said /\ t.marks <= 1
      /\ t.marks = 1 => t.lost > 0
      /\ t.lost = 0 => t.late = 0
  BY <1>0, <1>3, LogFields DEF SoundLogs
<1>5. t.lost > 0 => /\ t.late <= IF t.marks = 0 THEN Marker - 1 ELSE 3
                    /\ t.late + (Limit - t.size) <= IF t.marks = 0 THEN Marker - 1 ELSE 3
  BY <1>0, <1>3, LogFields DEF SoundLogs
<1>6. t \in SoundLogs
  BY <1>3, <1>4, <1>5, SoundByFields
<1> QED BY <1>4, <1>6 DEF PhaseLogs, t

LEMMA CutSound ==
  ASSUME NEW s \in PhaseLogs, ~s.full, NEW n \in Nat, NEW cut \in 0..MaxCut, n > Remaining(s)
  PROVE  Cut(s, n, cut) \in PhaseLogs
<1> DEFINE room == Remaining(s) - Marker
           content == IF room > cut THEN room - cut ELSE 0
           t == Cut(s, n, cut)
<1>0. s \in SoundLogs /\ s.size <= Limit
  BY DEF PhaseLogs
<1>1. cut \in Nat /\ cut <= 3
  BY DEF MaxCut
<1>2. CASE room >= 0
  <2>1. s.lost = 0 /\ s.marks = 0 /\ s.late = 0
    BY <1>0, <1>2, LogFields DEF SoundLogs
  <2>2. content \in Nat /\ content < n
    BY <1>0, <1>1, <1>2, LogFields
  <2>3. s.size + content + Marker <= Limit /\ Limit - 3 <= s.size + content + Marker
    BY <1>0, <1>1, <1>2, LogFields
  <2>4. t = [s EXCEPT !.size = @ + content + Marker, !.marks = @ + 1,
                      !.lost = @ + n - content, !.full = TRUE]
    BY <1>2 DEF Cut
  <2> HIDE DEF content, t
  <2>5. /\ t.size = s.size + content + Marker /\ t.marks = s.marks + 1
        /\ t.lost = s.lost + n - content /\ t.full = TRUE /\ t.late = s.late /\ t.said = s.said
    BY <1>0, <2>4, LogFields DEF LogState
  <2>6. s.size + content + Marker \in Nat /\ s.marks + 1 \in Nat /\ s.lost + n - content \in Nat
    BY <1>0, <2>2, LogFields
  <2>7. t \in LogState
    BY <1>0, <2>4, <2>6, LogFields DEF LogState
  <2>8. t.size <= Limit /\ t.marks = 1 /\ t.lost > 0 /\ t.late = 0 /\ Limit - t.size <= 3 /\ t.said \in Nat
    BY <1>0, <2>1, <2>2, <2>3, <2>5, LogFields
  <2>9. t.size <= Limit + t.said
    BY <1>0, <2>7, <2>8, LogFields DEF LogState
  <2>10. /\ t.marks <= 1 /\ t.marks # 0 /\ t.lost # 0 /\ t.late <= 3
         /\ t.late + (Limit - t.size) <= 3
    BY <1>0, <2>7, <2>8, LogFields DEF LogState
  <2>11. t \in SoundLogs
    BY <2>7, <2>8, <2>9, <2>10, SoundByFields
  <2> QED BY <2>5, <2>11 DEF PhaseLogs, t
<1>3. CASE ~(room >= 0)
  <2>1. t = [s EXCEPT !.lost = @ + n, !.full = TRUE]
    BY <1>3 DEF Cut
  <2> HIDE DEF t
  <2>2. s.lost + n \in Nat /\ s.lost + n > 0
    BY <1>0, LogFields
  <2>3. t \in LogState
    BY <1>0, <2>1, <2>2, LogFields DEF LogState
  <2>4. /\ t.size = s.size /\ t.marks = s.marks /\ t.full = TRUE
        /\ t.lost = s.lost + n /\ t.late = s.late /\ t.said = s.said
    BY <1>0, <2>1, <2>2, LogFields DEF LogState
  <2>5. t.size <= Limit + t.said /\ t.marks <= 1 /\ t.lost > 0
    BY <1>0, <2>2, <2>4 DEF SoundLogs
  <2>6. /\ t.late <= IF t.marks = 0 THEN Marker - 1 ELSE 3
        /\ t.late + (Limit - t.size) <= IF t.marks = 0 THEN Marker - 1 ELSE 3
    <3>1. CASE s.lost = 0
      BY <1>0, <1>3, <2>4, <3>1, LogFields DEF SoundLogs
    <3>2. CASE s.lost > 0
      BY <1>0, <2>4, <3>2, LogFields DEF SoundLogs
    <3> QED BY <1>0, <3>1, <3>2, LogFields
  <2>7. t.lost # 0
    BY <2>5
  <2> QED BY <2>3, <2>4, <2>5, <2>6, <2>7, SoundByFields DEF PhaseLogs, t
<1> QED BY <1>2, <1>3

LEMMA DropSound ==
  ASSUME NEW s \in PhaseLogs, s.full, NEW n \in Nat
  PROVE  [s EXCEPT !.lost = @ + n] \in PhaseLogs
<1> DEFINE t == [s EXCEPT !.lost = @ + n]
<1>0. s \in SoundLogs
  BY DEF PhaseLogs
<1>1. s.lost + n \in Nat
  BY <1>0, LogFields
<1>2. t \in LogState
  BY <1>0, <1>1, LogFields DEF LogState
<1>3. /\ t.size = s.size /\ t.marks = s.marks /\ t.full = s.full
      /\ t.lost = s.lost + n /\ t.late = s.late /\ t.said = s.said
  BY <1>0, LogFields DEF LogState
<1> HIDE DEF t
<1>4. /\ t.size <= Limit + t.said /\ t.marks <= 1
      /\ t.marks = 1 => t.lost > 0
      /\ t.lost = 0 => t.late = 0
      /\ t.full => t.lost > 0 \/ t.size >= Limit
  BY <1>0, <1>3, LogFields DEF SoundLogs
<1>5. ASSUME t.lost > 0
      PROVE  /\ t.late <= IF t.marks = 0 THEN Marker - 1 ELSE 3
             /\ t.late + (Limit - t.size) <= IF t.marks = 0 THEN Marker - 1 ELSE 3
  <2>1. CASE s.lost = 0
    BY <1>0, <1>3, <2>1, LogFields DEF SoundLogs
  <2>2. CASE s.lost > 0
    BY <1>0, <1>3, <2>2, LogFields DEF SoundLogs
  <2> QED BY <1>0, <2>1, <2>2, LogFields
<1>6. t \in SoundLogs
  BY <1>2, <1>4, <1>5, SoundByFields
<1> QED BY <1>3, <1>6 DEF PhaseLogs, t

LEMMA WriteLineSound ==
  ASSUME NEW s \in PhaseLogs, NEW line \in LogLine
  PROVE  WriteLine(s, line) \in PhaseLogs
<1>1. line.bytes \in Nat /\ line.cut \in 0..MaxCut /\ Remaining(s) \in Int
  BY LogFields DEF LogLine, PhaseLogs
<1>2. CASE s.full
  BY <1>1, <1>2, DropSound DEF WriteLine
<1>3. CASE ~s.full /\ line.bytes <= Remaining(s)
  BY <1>1, <1>3, GrowSound DEF WriteLine
<1>4. CASE ~s.full /\ line.bytes > Remaining(s)
  BY <1>1, <1>4, CutSound DEF WriteLine
<1> QED BY <1>1, <1>2, <1>3, <1>4

LEMMA OpenPhaseSound ==
  ASSUME NEW s \in SoundLogs
  PROVE  OpenPhase(s) \in PhaseLogs
<1> DEFINE full == s.size >= Limit
           t == [s EXCEPT !.full = full]
<1>1. full \in BOOLEAN
  OBVIOUS
<1> HIDE DEF full
<1>2. /\ t \in LogState /\ t.size = s.size /\ t.marks = s.marks /\ t.full = full
      /\ t.lost = s.lost /\ t.late = s.late /\ t.said = s.said
  BY <1>1, LogFields DEF LogState
<1>3. OpenPhase(s) = IF ~t.full /\ Header <= Remaining(t) THEN Grow(t, Header) ELSE t
  BY DEF OpenPhase, full
<1> HIDE DEF t
<1>4. t.full = TRUE => t.size >= Limit
  BY <1>2 DEF full
<1>5. t \in SoundLogs
  BY <1>2, <1>4, LogFields, SoundByFields DEF SoundLogs
<1>6. t.full = TRUE \/ t.size <= Limit
  <2>1. t.size \in Nat /\ Limit \in Nat
    BY <1>2, LogFields
  <2>2. CASE full
    BY <1>2, <2>2
  <2>3. CASE ~full
    BY <1>2, <2>1, <2>3 DEF full
  <2> QED BY <2>2, <2>3
<1>7. t \in PhaseLogs
  BY <1>5, <1>6 DEF PhaseLogs
<1> QED BY <1>3, <1>7, GrowSound, LogAssumption

(* A phase keeps a log sound, whatever the container prints.               *)
LEMMA PhaseSound ==
  ASSUME NEW s \in SoundLogs, NEW lines \in Seq(LogLine)
  PROVE  Phase(s, lines) \in SoundLogs
<1> DEFINE n == Len(lines)
           start == OpenPhase(s)
           Step(t, i) == WriteLine(t, lines[i])
           step == [x \in PhaseLogs \X (1..n) |-> Step(x[1], x[2])]
           Body(f) == [i \in 0..n |-> IF i = 0 THEN start ELSE Step(f[i - 1], i)]
           after == CHOOSE f : f = Body(f)
<1>1. n \in Nat /\ start \in PhaseLogs /\ \A t \in PhaseLogs, i \in 1..n : Step(t, i) \in PhaseLogs
  BY OpenPhaseSound, WriteLineSound
<1>2. Phase(s, lines) = after[n]
  BY DEF Phase, Written
<1> HIDE DEF n, start, Step
<1>3. IsLoop(step, n, PhaseLogs)
  BY <1>1 DEF IsLoop
<1>4. PICK f : IsRun(f, n, PhaseLogs, start, step)
  <2> HIDE DEF step
  <2>1. n \in Nat /\ start \in PhaseLogs
    BY <1>1
  <2> QED BY <1>3, <2>1, LoopRuns
<1>5. ASSUME NEW i \in 1..n PROVE f[i] = Step(f[i - 1], i)
  <2>1. f[i - 1] \in PhaseLogs
    BY <1>1, <1>4 DEF IsRun
  <2> QED BY <1>4, <2>1 DEF IsRun
<1>6. f = Body(f)
  BY <1>1, <1>4, <1>5 DEF IsRun
<1>7. after = Body(after)
  <2> HIDE DEF Body
  <2> QED BY <1>6
<1> HIDE DEF after
<1>8. after[0] = start /\ \A i \in 1..n : after[i] = Step(after[i - 1], i)
  <2>1. \A i \in 0..n : after[i] = IF i = 0 THEN start ELSE Step(after[i - 1], i)
    BY <1>7
  <2> QED BY <1>1, <2>1
<1>9. \A i \in 0..n : after[i] \in PhaseLogs
  <2> DEFINE P == {i \in 0..n : after[i] \in PhaseLogs}
  <2>1. 0 \in P /\ \A i \in 1..n : i - 1 \in P => i \in P
    BY <1>1, <1>8
  <2> HIDE DEF P
  <2>2. \A i \in 0..n : i \in P
    BY <1>1, <2>1, StepInduction
  <2> QED BY <2>2 DEF P
<1> QED BY <1>1, <1>2, <1>9 DEF PhaseLogs

LEMMA RoundSound ==
  ASSUME NEW s \in SoundLogs, NEW round \in LogRound
  PROVE  Round(s, round) \in SoundLogs
<1>1. round.prepare \in Seq(LogLine) /\ round.test \in Seq(LogLine)
  BY DEF LogRound
<1> QED BY <1>1, PhaseSound DEF Round

(* A message takes the log over its limit, and says so.                    *)
LEMMA NoteSound ==
  ASSUME NEW s \in SoundLogs, NEW n \in Nat
  PROVE  Note(s, n) \in SoundLogs
<1> DEFINE t == Note(s, n)
<1>1. /\ t \in LogState /\ t.size = s.size + n /\ t.marks = s.marks /\ t.full = s.full
      /\ t.lost = s.lost /\ t.late = s.late /\ t.said = s.said + n
  <2>1. s.size + n \in Nat /\ s.said + n \in Nat
    BY LogFields
  <2>2. t = [s EXCEPT !.size = @ + n, !.said = @ + n]
    BY DEF Note
  <2> HIDE DEF t
  <2> QED BY <2>1, <2>2, LogFields DEF LogState
<1> HIDE DEF t
<1>2. /\ t.size <= Limit + t.said /\ t.marks <= 1
      /\ t.marks = 1 => t.lost > 0
      /\ t.lost = 0 => t.late = 0
      /\ t.full => t.lost > 0 \/ t.size >= Limit
  BY <1>1, LogFields DEF SoundLogs
<1>3. t.lost > 0 => /\ t.late <= IF t.marks = 0 THEN Marker - 1 ELSE 3
                    /\ t.late + (Limit - t.size) <= IF t.marks = 0 THEN Marker - 1 ELSE 3
  BY <1>1, LogFields DEF SoundLogs
<1>4. t \in SoundLogs
  BY <1>1, <1>2, <1>3, SoundByFields
<1> QED BY <1>4 DEF t

(* Whatever the phases of a step print, in the one run or in both, what    *)
(* takes the log over MAX_LOG_BYTES are the messages of run_step; there is *)
(* one marker of truncation at most, it tells the truth, and a gap without *)
(* one lies where the marker did not fit any more.                         *)
THEOREM LogIsCutOnce ==
  ASSUME input.of = "log" => input.run \in StepRun
  PROVE  LogCutOnce
<1> SUFFICES ASSUME input.of = "log"
             PROVE  Bounded(StepLog(input.run)) /\ MarkedOnce(StepLog(input.run))
  BY DEF LogCutOnce
<1> DEFINE run == input.run
           once == Round(Empty, run.first)
           told == Note(once, run.messages[1])
           again == Note(Round(told, run.second), run.messages[2])
<1>1. /\ run.first \in LogRound /\ run.second \in LogRound
      /\ run.messages[1] \in Nat /\ run.messages[2] \in Nat /\ run.messages[3] \in Nat
  BY DEF StepRun
<1>2. Empty \in SoundLogs
  <2>1. /\ Empty \in LogState /\ Empty.size = 0 /\ Empty.said = 0 /\ Empty.marks = 0
        /\ Empty.lost = 0 /\ Empty.late = 0 /\ Empty.full = FALSE
    BY DEF Empty, LogState
  <2>2. Empty.size <= Limit + Empty.said
    BY <2>1, LogAssumption
  <2> QED BY <2>1, <2>2, SoundByFields
<1>3. once \in SoundLogs
  BY <1>1, <1>2, RoundSound
<1>4. told \in SoundLogs
  <2> HIDE DEF once
  <2> QED BY <1>1, <1>3, NoteSound
<1>5. again \in SoundLogs /\ Note(told, run.messages[2]) \in SoundLogs
  <2> HIDE DEF told
  <2>1. Round(told, run.second) \in SoundLogs
    BY <1>1, <1>4, RoundSound
  <2> QED BY <1>1, <1>4, <2>1, NoteSound
<1>6. Note(again, run.messages[3]) \in SoundLogs
  <2> HIDE DEF again
  <2> QED BY <1>1, <1>5, NoteSound
<1>7. StepLog(run) \in SoundLogs
  BY <1>3, <1>4, <1>5, <1>6 DEF StepLog
<1>8. ASSUME NEW s \in SoundLogs PROVE Bounded(s) /\ MarkedOnce(s)
  <2>1. Bounded(s) /\ s.marks <= 1 /\ (s.marks = 1 => s.lost > 0)
    BY DEF SoundLogs, Bounded
  <2>2. s.marks = 1 => s.late <= MaxCut
    BY LogFields DEF SoundLogs
  <2>3. s.marks = 0 /\ s.lost > 0 => Remaining(s) < Marker /\ s.late < Marker
    BY LogFields DEF SoundLogs
  <2> QED BY <2>1, <2>2, <2>3 DEF MarkedOnce
<1> HIDE DEF run
<1> QED BY <1>7, <1>8 DEF run
-----------------------------------------------------------------------------
(* The status of a commit, for any number of check runs, any page size and *)
(* any commit statuses.                                                    *)
States == {"error", "failure", "pending", "success"}

(* What arrives is a part of the list, and the items passed over are not   *)
(* among the usable ones.                                                  *)
LEMMA UsableOfPage ==
  ASSUME NEW n \in Nat, NEW runs \in [1..n -> Run], NEW size \in Nat, NEW bad
  PROVE  /\ Usable(Page(runs, size, bad)) = {i \in 1..n : i <= size /\ i \notin bad}
         /\ \A i \in Usable(Page(runs, size, bad)) : Page(runs, size, bad)[i] = runs[i]
<1>1. \A i \in 1..n : runs[i] # Unusable
  BY DEF Run, Unusable
<1> QED BY <1>1 DEF Usable, Page

(* A usable run of a page is a run of the list; where all are usable, it is *)
(* the other way round, too.                                               *)
LEMMA ArrivedRuns ==
  ASSUME NEW n \in Nat, NEW runs \in [1..n -> Run], NEW size \in Nat, NEW bad
  PROVE  /\ \A r \in Arrived(Page(runs, size, bad)) : \E i \in 1..n : r = runs[i]
         /\ \A i \in 1..n : i <= size /\ i \notin bad =>
              runs[i] \in Arrived(Page(runs, size, bad))
<1> DEFINE page == Page(runs, size, bad)
<1>1. /\ Usable(page) = {i \in 1..n : i <= size /\ i \notin bad}
      /\ \A i \in Usable(page) : page[i] = runs[i]
  BY UsableOfPage
<1> HIDE DEF page
<1>2. \A r \in Arrived(page) : \E i \in 1..n : r = runs[i]
  BY <1>1 DEF Arrived
<1>3. \A i \in 1..n : i <= size /\ i \notin bad => runs[i] \in Arrived(page)
  BY <1>1 DEF Arrived
<1> QED BY <1>2, <1>3 DEF page

(* What the state of a set of runs says about them.                        *)
LEMMA CheckStates ==
  ASSUME NEW R
  PROVE  /\ CheckState(R) = "none" => R = {}
         /\ CheckState(R) = "success" => \A r \in R : Passed(r)
         /\ R # {} /\ (\A r \in R : Passed(r)) => CheckState(R) = "success"
         /\ (\E r \in R : r.conclusion \in Failure) => CheckState(R) = "failure"
<1> DEFINE conclusions == {r.conclusion : r \in R}
<1>1. CheckState(R) = CASE R = {} -> "none"
        [] R # {} /\ conclusions \cap Failure # {} -> "failure"
        [] R # {} /\ conclusions \cap Failure = {}
             /\ \E r \in R : r.status # "completed" -> "pending"
        [] R # {} /\ (\A r \in R : r.status = "completed")
             /\ conclusions \subseteq Success -> "success"
        [] OTHER -> "unknown"
  BY DEF CheckState
<1>2. \A r \in R : r.conclusion \in conclusions
  OBVIOUS
<1>3. (\A r \in R : r.conclusion \in Success) => conclusions \subseteq Success
  OBVIOUS
<1>4. Success \cap Failure = {}
  BY DEF Success, Failure
<1> HIDE DEF conclusions
<1> QED BY <1>1, <1>2, <1>3, <1>4 DEF Passed

(* A page counts as whole only when it is the whole list.                  *)
LEMMA WholePage ==
  ASSUME NEW n \in Nat, NEW runs \in [1..n -> Run], NEW size \in Nat, NEW bad
  PROVE  ~Truncated(Page(runs, size, bad), Cardinality(DOMAIN runs))
           <=> Usable(Page(runs, size, bad)) = 1..n
<1> DEFINE U == Usable(Page(runs, size, bad))
<1>1. IsFiniteSet(1..n) /\ Cardinality(1..n) = n
  BY FS_Interval
<1>2. U \in SUBSET (1..n)
  BY UsableOfPage
<1>3. /\ Cardinality(U) \in Nat /\ Cardinality(U) <= n
      /\ Cardinality(U) = n => U = 1..n
  BY <1>1, <1>2, FS_Subset, FS_CardinalityType
<1>4. DOMAIN runs = 1..n
  OBVIOUS
<1> QED BY <1>1, <1>3, <1>4 DEF Truncated

(* A verdict on statuses.                                                  *)
LEMMA LegacyStates ==
  ASSUME NEW statuses \in SUBSET States
  PROVE  LET legacy == LegacyState(Verdict(statuses), Cardinality(statuses))
         IN  /\ legacy \in {"none", "success"} <=> statuses \subseteq {"success"}
             /\ legacy = "none" => statuses = {}
             /\ statuses \cap {"error", "failure"} # {} => legacy = "failure"
<1>1. IsFiniteSet(States)
  <2>1. States = {"error"} \cup {"failure"} \cup {"pending"} \cup {"success"}
    BY DEF States
  <2> QED BY <2>1, FS_Singleton, FS_Union
<1>2. IsFiniteSet(statuses)
  BY <1>1, FS_Subset
<1>3. Cardinality(statuses) = 0 <=> statuses = {}
  BY <1>2, FS_EmptySet
<1> QED BY <1>3 DEF LegacyState, Verdict, States

(* "success" is said only where every check run of the commit, on the page *)
(* or off it, and every status of it succeeded.                            *)
THEOREM GreenIsTrue ==
  ASSUME NEW n \in Nat, NEW runs \in [1..n -> Run], NEW size \in Nat, NEW bad,
         NEW statuses \in SUBSET States
  PROVE  NeverFalselyGreen(runs, size, bad, statuses)
<1> DEFINE page == Page(runs, size, bad)
           checks == ChecksState(page, Cardinality(DOMAIN runs))
           legacy == LegacyState(Verdict(statuses), Cardinality(statuses))
<1> SUFFICES ASSUME CombinedState(checks, legacy) = "success"
             PROVE  (\A i \in 1..n : Passed(runs[i])) /\ statuses \subseteq {"success"}
  BY DEF NeverFalselyGreen, Answer, Reported
<1>1. checks \in {"none", "success"} /\ legacy \in {"none", "success"}
  BY DEF CombinedState
<1>2. ~Truncated(page, Cardinality(DOMAIN runs)) /\ CheckState(Arrived(page)) = checks
  BY <1>1 DEF ChecksState
<1>3. \A i \in 1..n : i <= size /\ i \notin bad
  BY <1>2, WholePage, UsableOfPage
<1>4. \A i \in 1..n : runs[i] \in Arrived(page)
  BY <1>3, ArrivedRuns
<1>5. \A i \in 1..n : Passed(runs[i])
  BY <1>1, <1>2, <1>4, CheckStates
<1> QED BY <1>1, <1>5, LegacyStates

(* A failure that arrived is reported, however much of the list is missing.*)
THEOREM FailureIsShown ==
  ASSUME NEW n \in Nat, NEW runs \in [1..n -> Run], NEW size \in Nat, NEW bad,
         NEW statuses \in SUBSET States
  PROVE  FailureShown(runs, size, bad, statuses)
<1> DEFINE page == Page(runs, size, bad)
           checks == ChecksState(page, Cardinality(DOMAIN runs))
           legacy == LegacyState(Verdict(statuses), Cardinality(statuses))
<1>1. ASSUME NEW i \in DOMAIN runs \ bad, i <= size, runs[i].conclusion \in Failure
      PROVE  checks = "failure"
  <2>1. runs[i] \in Arrived(page)
    BY <1>1, ArrivedRuns
  <2>2. CheckState(Arrived(page)) = "failure"
    BY <1>1, <2>1, CheckStates
  <2> QED BY <2>2 DEF ChecksState
<1>2. statuses \cap {"error", "failure"} # {} => legacy = "failure"
  BY LegacyStates
<1>3. checks = "failure" \/ legacy = "failure" => CombinedState(checks, legacy) = "failure"
  BY DEF CombinedState
<1> QED BY <1>1, <1>2, <1>3 DEF FailureShown, Answer, Reported

(* Where every run arrived and passed, and no status says otherwise, the   *)
(* answer is "success", although GitHub calls a commit without statuses    *)
(* "pending".                                                              *)
THEOREM GreenIsShown ==
  ASSUME NEW n \in Nat, NEW runs \in [1..n -> Run], NEW size \in Nat, NEW bad,
         NEW statuses \in SUBSET States
  PROVE  GreenShown(runs, size, bad, statuses)
<1> DEFINE page == Page(runs, size, bad)
           checks == ChecksState(page, Cardinality(DOMAIN runs))
           legacy == LegacyState(Verdict(statuses), Cardinality(statuses))
<1> SUFFICES ASSUME 1..n # {}, bad = {}, statuses \subseteq {"success"},
                    \A i \in 1..n : i <= size /\ Passed(runs[i])
             PROVE  CombinedState(checks, legacy) = "success"
  BY DEF GreenShown, Answer, Reported
<1>1. \A i \in 1..n : i <= size /\ i \notin bad
  OBVIOUS
<1>2. Usable(page) = 1..n
  <2>1. Usable(page) = {i \in 1..n : i <= size /\ i \notin bad}
    BY UsableOfPage
  <2> HIDE DEF page
  <2> QED BY <1>1, <2>1
<1>3. Arrived(page) # {} /\ \A r \in Arrived(page) : Passed(r)
  BY <1>1, ArrivedRuns
<1>4. CheckState(Arrived(page)) = "success"
  BY <1>3, CheckStates
<1>5. checks = "success"
  BY <1>2, <1>4, WholePage DEF ChecksState
<1>6. legacy \in {"none", "success"}
  BY LegacyStates
<1> QED BY <1>5, <1>6 DEF CombinedState

StatusInput == [of : {"status"}, runs : Seq(Run), size : Nat, bad : SUBSET Nat, statuses : SUBSET States]

(* No commit is called green while a check run or a status of it, on the   *)
(* page or off it, is anything but green.                                  *)
THEOREM NeverGreenByMistake ==
  ASSUME input.of = "status" => input \in StatusInput
  PROVE  NoFalseGreen
<1> SUFFICES ASSUME input.of = "status"
             PROVE  NeverFalselyGreen(input.runs, input.size, input.bad, input.statuses)
  BY DEF NoFalseGreen
<1>1. /\ Len(input.runs) \in Nat /\ input.runs \in [1..Len(input.runs) -> Run]
      /\ input.size \in Nat /\ input.statuses \in SUBSET States
  BY DEF StatusInput
<1> QED BY <1>1, GreenIsTrue

(* What arrived of a failure is shown, and a green commit is shown green.  *)
THEOREM VerdictIsShown ==
  ASSUME input.of = "status" => input \in StatusInput
  PROVE  VerdictShown
<1> SUFFICES ASSUME input.of = "status"
             PROVE  /\ FailureShown(input.runs, input.size, input.bad, input.statuses)
                    /\ GreenShown(input.runs, input.size, input.bad, input.statuses)
  BY DEF VerdictShown
<1>1. /\ Len(input.runs) \in Nat /\ input.runs \in [1..Len(input.runs) -> Run]
      /\ input.size \in Nat /\ input.statuses \in SUBSET States
  BY DEF StatusInput
<1> QED BY <1>1, FailureIsShown, GreenIsShown

-----------------------------------------------------------------------------
(* The choice of a runner.                                                 *)

(* Docker goes before Podman, each if it is installed.                     *)
LEMMA OthersRanked ==
  ASSUME NEW installed
  PROVE  LET others == Sieve(<<"docker", "podman">>, installed)
         IN  /\ others \in Seq(Supported)
             /\ \A r \in Supported :
                  (\E i \in 1..Len(others) : others[i] = r) <=> r # "container" /\ r \in installed
             /\ \A i, j \in 1..Len(others) : i < j => Rank(others[i]) < Rank(others[j])
<1> DEFINE one == Sieve(<<"docker">>, installed)
           two == Sieve(<<"docker", "podman">>, installed)
<1>1. <<>> \in Seq(Supported) /\ <<"docker">> \in Seq(Supported) /\ "docker" \in Supported /\ "podman" \in Supported
  BY DEF Supported
<1>2. one = IF "docker" \in installed THEN <<"docker">> ELSE <<>>
  <2>1. Append(<<>>, "docker") = <<"docker">> /\ Sieve(<<>>, installed) = <<>>
    BY SieveEmpty
  <2>2. Sieve(Append(<<>>, "docker"), installed)
          = IF "docker" \in installed THEN Append(Sieve(<<>>, installed), "docker") ELSE Sieve(<<>>, installed)
    BY <1>1, SieveStep
  <2> QED BY <2>1, <2>2
<1>3. two = IF "podman" \in installed THEN Append(one, "podman") ELSE one
  <2>1. Append(<<"docker">>, "podman") = <<"docker", "podman">>
    BY Pair
  <2>2. Sieve(Append(<<"docker">>, "podman"), installed)
          = IF "podman" \in installed THEN Append(one, "podman") ELSE one
    BY <1>1, SieveStep
  <2> QED BY <2>1, <2>2
<1> HIDE DEF one, two
<1>4. CASE "docker" \in installed
  <2>1. CASE "podman" \in installed
    <3>1. two = Append(<<"docker">>, "podman")
      BY <1>2, <1>3, <1>4, <2>1
    <3>2. two \in Seq(Supported) /\ Len(two) = 2 /\ two[1] = "docker" /\ two[2] = "podman"
      BY <1>1, <3>1
    <3> QED BY <1>4, <2>1, <3>2 DEF two, Rank, Supported
  <2>2. CASE "podman" \notin installed
    <3>1. two \in Seq(Supported) /\ Len(two) = 1 /\ two[1] = "docker"
      BY <1>1, <1>2, <1>3, <1>4, <2>2
    <3> QED BY <1>4, <2>2, <3>1 DEF two, Rank, Supported
  <2> QED BY <2>1, <2>2
<1>5. CASE "docker" \notin installed
  <2>1. CASE "podman" \in installed
    <3>1. two \in Seq(Supported) /\ Len(two) = 1 /\ two[1] = "podman"
      BY <1>1, <1>2, <1>3, <1>5, <2>1
    <3> QED BY <1>5, <2>1, <3>1 DEF two, Rank, Supported
  <2>2. CASE "podman" \notin installed
    <3>1. two \in Seq(Supported) /\ Len(two) = 0
      BY <1>1, <1>2, <1>3, <1>5, <2>2
    <3> QED BY <1>5, <2>2, <3>1 DEF two, Rank, Supported
  <2> QED BY <2>1, <2>2
<1> QED BY <1>4, <1>5

(* The preferences are the runners asked for that are installed and fit    *)
(* the machine, each once, in the order of their rank.                     *)
RankedPreferences(P, requested, m) ==
  /\ P \in Seq(Supported)
  /\ \A r \in Supported :
       (\E i \in 1..Len(P) : P[i] = r)
         <=> requested \in {"auto", r} /\ r \in m.installed /\ (r = "container" => AppleUsable(m))
  /\ \A i, j \in 1..Len(P) : i < j => Rank(P[i]) < Rank(P[j])

LEMMA PreferencesRanked ==
  ASSUME NEW m \in Machine, NEW requested
  PROVE  RankedPreferences(Preferences(requested, m), requested, m)
<1> DEFINE P == Preferences(requested, m)
           others == Sieve(<<"docker", "podman">>, m.installed)
<1>1. /\ others \in Seq(Supported)
      /\ \A r \in Supported :
           (\E i \in 1..Len(others) : others[i] = r) <=> r # "container" /\ r \in m.installed
      /\ \A i, j \in 1..Len(others) : i < j => Rank(others[i]) < Rank(others[j])
  BY OthersRanked
<1>2. AppleUsable(m) => "container" \in m.installed
  BY DEF AppleUsable
<1>3. requested = "auto" => P = (IF AppleUsable(m) THEN <<"container">> ELSE <<>>) \o others
  BY DEF Preferences, Automatic
<1>4. requested # "auto" =>
        P = IF requested \in Supported \cap m.installed /\ (requested = "container" => AppleUsable(m))
            THEN <<requested>> ELSE <<>>
  BY DEF Preferences
<1> HIDE DEF P, others
<1>5. CASE requested = "auto" /\ AppleUsable(m)
  <2>1. P = <<"container">> \o others /\ "container" \in Supported
    BY <1>3, <1>5 DEF Supported
  <2>2. /\ P \in Seq(Supported) /\ Len(P) = 1 + Len(others) /\ P[1] = "container"
        /\ \A i \in 1..Len(others) : P[i + 1] = others[i]
    BY <1>1, <2>1
  <2>3. Len(others) \in Nat /\ \A i \in 1..Len(P) : i = 1 \/ (i - 1 \in 1..Len(others) /\ P[i] = others[i - 1])
    BY <1>1, <2>2
  <2>4. \A i \in 1..Len(others) : others[i] \in Supported \ {"container"}
    BY <1>1
  <2>5. ASSUME NEW i \in 1..Len(P), NEW j \in 1..Len(P), i < j PROVE Rank(P[i]) < Rank(P[j])
    <3>1. j - 1 \in 1..Len(others) /\ P[j] = others[j - 1]
      BY <2>3, <2>5
    <3>2. CASE i = 1
      BY <2>2, <2>4, <3>1, <3>2 DEF Rank, Supported
    <3>3. CASE i # 1
      BY <1>1, <2>3, <2>5, <3>1, <3>3
    <3> QED BY <3>2, <3>3
  <2>6. ASSUME NEW r \in Supported
        PROVE  (\E i \in 1..Len(P) : P[i] = r) <=> r \in m.installed
    <3>1. CASE r = "container"
      BY <1>2, <1>5, <2>2, <2>3, <3>1
    <3>2. CASE r # "container"
      <4>1. (\E i \in 1..Len(P) : P[i] = r) => \E i \in 1..Len(others) : others[i] = r
        BY <2>2, <2>3, <3>2
      <4>2. (\E i \in 1..Len(others) : others[i] = r) => \E i \in 1..Len(P) : P[i] = r
        <5> SUFFICES ASSUME NEW i \in 1..Len(others), others[i] = r PROVE \E k \in 1..Len(P) : P[k] = r
          OBVIOUS
        <5>1. i + 1 \in 1..Len(P) /\ P[i + 1] = r
          BY <2>2, <2>3
        <5> QED BY <5>1
      <4> QED BY <1>1, <3>2, <4>1, <4>2
    <3> QED BY <3>1, <3>2
  <2> QED BY <1>5, <2>2, <2>5, <2>6 DEF RankedPreferences, P
<1>6. CASE requested = "auto" /\ ~AppleUsable(m)
  <2>1. P = others
    BY <1>1, <1>3, <1>6
  <2> QED BY <1>1, <1>6, <2>1 DEF RankedPreferences, P
<1>7. CASE requested # "auto"
  <2>1. CASE requested \in Supported \cap m.installed /\ (requested = "container" => AppleUsable(m))
    <3>1. P = <<requested>> /\ requested \in Supported /\ requested \in m.installed
      BY <1>4, <1>7, <2>1
    <3>2. P \in Seq(Supported) /\ Len(P) = 1 /\ P[1] = requested
      BY <3>1
    <3> QED BY <1>7, <2>1, <3>1, <3>2 DEF RankedPreferences, P
  <2>2. CASE ~(requested \in Supported \cap m.installed /\ (requested = "container" => AppleUsable(m)))
    <3>1. P = <<>>
      BY <1>4, <1>7, <2>2
    <3>2. P \in Seq(Supported) /\ Len(P) = 0
      BY <3>1
    <3> QED BY <1>7, <2>2, <3>2 DEF RankedPreferences, P
  <2> QED BY <2>1, <2>2
<1> QED BY <1>5, <1>6, <1>7

(* Whatever is installed and ready, select_runner answers with the first   *)
(* runner that fits the request and the machine.                           *)
THEOREM FirstFitIsChosen ==
  ASSUME input.of = "runner" => input.machine \in Machine
  PROVE  RunnerIsFirstFit
<1> SUFFICES ASSUME NEW m \in Machine, NEW requested
             PROVE  SelectRunner(requested, m) = FirstFit(requested, m)
  BY DEF RunnerIsFirstFit
<1> DEFINE P == Preferences(requested, m)
           R == {r \in Supported : Ready(r, m)}
           fits == {r \in Supported : Fits(r, requested, m)}
           ready == Sieve(P, R)
<1>1. /\ P \in Seq(Supported)
      /\ \A r \in Supported : (\E i \in 1..Len(P) : P[i] = r)
           <=> requested \in {"auto", r} /\ r \in m.installed /\ (r = "container" => AppleUsable(m))
      /\ \A i, j \in 1..Len(P) : i < j => Rank(P[i]) < Rank(P[j])
  BY PreferencesRanked DEF RankedPreferences
<1>2. SelectRunner(requested, m) = IF ready = <<>> THEN Error ELSE Head(ready)
  BY DEF SelectRunner
<1>3. FirstFit(requested, m) = IF fits = {} THEN Error ELSE CHOOSE r \in fits : \A q \in fits : Rank(r) <= Rank(q)
  BY DEF FirstFit
<1> HIDE DEF P
<1>4. \A r \in Supported : r \in fits <=> r \in R /\ \E i \in 1..Len(P) : P[i] = r
  BY <1>1 DEF Fits, Ready, AppleUsable
<1> HIDE DEF R, fits
<1>5. /\ ready = <<>> => \A i \in 1..Len(P) : P[i] \notin R
      /\ ready # <<>> => \E i : IsFirst(i, P, R) /\ Head(ready) = P[i]
  BY <1>1, SieveFirst
<1> HIDE DEF ready
<1>6. fits \subseteq Supported /\ R \subseteq Supported
  BY DEF fits, R
<1>7. CASE ready = <<>>
  BY <1>2, <1>3, <1>4, <1>5, <1>6, <1>7
<1>8. CASE ready # <<>>
  <2>1. PICK i : IsFirst(i, P, R) /\ Head(ready) = P[i]
    BY <1>5, <1>8
  <2>2. i \in 1..Len(P) /\ P[i] \in fits
    BY <1>4, <1>6, <2>1 DEF IsFirst
  <2>3. ASSUME NEW q \in fits, q # P[i] PROVE Rank(P[i]) < Rank(q)
    <3>1. PICK j \in 1..Len(P) : P[j] = q
      BY <1>4, <1>6
    <3>2. q \in R
      BY <1>4, <1>6
    <3>3. ~(j < i)
      BY <2>1, <3>1, <3>2 DEF IsFirst
    <3> QED BY <1>1, <2>2, <2>3, <3>1, <3>3
  <2>4. \A q \in fits : Rank(q) \in Nat
    BY <1>6 DEF Supported, Rank
  <2>5. P[i] = CHOOSE r \in fits : \A q \in fits : Rank(r) <= Rank(q)
    <3>1. \A q \in fits : Rank(P[i]) <= Rank(q)
      BY <2>2, <2>3, <2>4
    <3>2. ASSUME NEW r \in fits, \A q \in fits : Rank(r) <= Rank(q) PROVE r = P[i]
      BY <2>2, <2>3, <2>4, <3>2
    <3> QED BY <2>2, <3>1, <3>2
  <2> QED BY <1>2, <1>3, <1>8, <2>1, <2>2, <2>5
<1> QED BY <1>7, <1>8

-----------------------------------------------------------------------------
(* The archive of a committed tree, for any tree over any set of blobs.    *)
CommittedEntry(Blobs) ==
  [mode : Modes, blob : Blobs, size : Nat, text : {"utf8", "nul", "binary"}, portable : BOOLEAN,
   missing : BOOLEAN]
Token(Blobs) ==
  [token : {"missing", "newline"}] \cup [token : {"header"}, blob : Blobs, size : Nat]
    \cup [token : {"byte"}, blob : Blobs, at : Nat]
Member(Blobs) ==
  [kind : {"directory", "symlink", "file", "executable"}, blob : Blobs, content : Seq(Token(Blobs))]
ReadState(Blobs) == [rest : Seq(Token(Blobs)), tar : Seq(Member(Blobs)), ok : BOOLEAN]

ByteOf(e, i) == [token |-> "byte", blob |-> e.blob, at |-> i]
BytesOf(e) == [i \in 1..e.size |-> ByteOf(e, i)]
HeaderOf(e) == [token |-> "header", blob |-> e.blob, size |-> e.size]
Asked(e) == IF e.mode = "160000" THEN <<>> ELSE ObjectAnswer(e)

(* What git answers to one id.                                             *)
LEMMA AnswerParts ==
  ASSUME NEW Blobs, NEW e \in CommittedEntry(Blobs)
  PROVE  /\ ObjectAnswer(e) \in Seq(Token(Blobs)) /\ BytesOf(e) \in Seq(Token(Blobs)) /\ Len(BytesOf(e)) = e.size
         /\ e.missing => Len(ObjectAnswer(e)) = 1 /\ ObjectAnswer(e)[1] = [token |-> "missing"]
         /\ ~e.missing => /\ Len(ObjectAnswer(e)) = e.size + 2
                          /\ ObjectAnswer(e)[1] = HeaderOf(e)
                          /\ \A i \in 1..e.size : ObjectAnswer(e)[i + 1] = BytesOf(e)[i]
<1> DEFINE T == Token(Blobs)
           header == <<HeaderOf(e)>>
           bytes == BytesOf(e)
           newline == <<[token |-> "newline"]>>
<1>1. e.blob \in Blobs /\ e.size \in Nat /\ e.missing \in BOOLEAN
  BY DEF CommittedEntry
<1>2. HeaderOf(e) \in T /\ [token |-> "newline"] \in T /\ [token |-> "missing"] \in T
  BY <1>1 DEF Token, HeaderOf
<1>3. \A i \in 1..e.size : ByteOf(e, i) \in T
  BY <1>1 DEF Token, ByteOf
<1>4. bytes \in Seq(T) /\ Len(bytes) = e.size
  BY <1>1, <1>3 DEF BytesOf
<1>5. CASE e.missing
  <2>1. ObjectAnswer(e) = <<[token |-> "missing"]>>
    BY <1>5 DEF ObjectAnswer
  <2> QED BY <1>2, <1>4, <1>5, <2>1
<1>6. CASE ~e.missing
  <2>1. ObjectAnswer(e) = (header \o bytes) \o newline
    BY <1>6 DEF ObjectAnswer, HeaderOf, BytesOf, ByteOf
  <2>2. header \in Seq(T) /\ newline \in Seq(T) /\ Len(header) = 1 /\ Len(newline) = 1 /\ header[1] = HeaderOf(e)
    BY <1>2
  <2> HIDE DEF header, bytes, newline, T
  <2>3. /\ header \o bytes \in Seq(T) /\ Len(header \o bytes) = e.size + 1
        /\ (header \o bytes)[1] = HeaderOf(e) /\ \A i \in 1..e.size : (header \o bytes)[i + 1] = bytes[i]
    <3>1. /\ header \o bytes \in Seq(T) /\ Len(header \o bytes) = Len(header) + Len(bytes)
          /\ \A i \in 1..Len(header) : (header \o bytes)[i] = header[i]
          /\ \A i \in 1..Len(bytes) : (header \o bytes)[Len(header) + i] = bytes[i]
      <4>1. header \in Seq(T) /\ bytes \in Seq(T)
        BY <1>4, <2>2
      <4> QED BY <4>1, Concatenated
    <3>2. 1 \in 1..1 /\ \A i \in 1..e.size : 1 + i = i + 1
      BY <1>1
    <3> QED BY <1>1, <1>4, <2>2, <3>1, <3>2
  <2> DEFINE most == header \o bytes
  <2> HIDE DEF most
  <2>4. /\ most \o newline \in Seq(T) /\ Len(most \o newline) = e.size + 2
        /\ \A i \in 1..(e.size + 1) : (most \o newline)[i] = most[i]
    <3>1. most \in Seq(T) /\ Len(most) = e.size + 1
      BY <2>3 DEF most
    <3>2. /\ most \o newline \in Seq(T) /\ Len(most \o newline) = Len(most) + Len(newline)
          /\ \A i \in 1..Len(most) : (most \o newline)[i] = most[i]
      BY <2>2, <3>1, Concatenated
    <3> QED BY <1>1, <2>2, <3>1, <3>2
  <2>5. (most \o newline)[1] = HeaderOf(e) /\ \A i \in 1..e.size : (most \o newline)[i + 1] = bytes[i]
    <3>1. 1 \in 1..(e.size + 1) /\ \A i \in 1..e.size : i + 1 \in 1..(e.size + 1)
      BY <1>1
    <3> QED BY <2>3, <2>4, <3>1 DEF most
  <2> QED BY <1>4, <1>6, <2>1, <2>4, <2>5 DEF most, bytes, T
<1> QED BY <1>1, <1>5, <1>6

(* The states of the loop of Stream.                                       *)
StreamRun(upto, entries, Blobs) ==
  /\ upto \in [0..Len(entries) -> Seq(Token(Blobs))]
  /\ upto[0] = <<>>
  /\ \A i \in 1..Len(entries) : upto[i] = upto[i - 1] \o Asked(entries[i])
  /\ Stream(entries) = upto[Len(entries)]

LEMMA StreamLoop ==
  ASSUME NEW Blobs, NEW entries \in Seq(CommittedEntry(Blobs))
  PROVE  \E upto : StreamRun(upto, entries, Blobs)
<1> DEFINE n == Len(entries)
           Streams == Seq(Token(Blobs))
           start == <<>>
           Longer(s, i) == IF entries[i].mode = "160000" THEN s ELSE s \o ObjectAnswer(entries[i])
           step == [x \in Streams \X (1..n) |-> Longer(x[1], x[2])]
           Body(f) == [i \in 0..n |-> IF i = 0 THEN start ELSE Longer(f[i - 1], i)]
           upto == CHOOSE f : f = Body(f)
<1>1. n \in Nat /\ start \in Streams /\ \A s \in Streams, i \in 1..n : Longer(s, i) \in Streams
  <2>1. \A i \in 1..n : ObjectAnswer(entries[i]) \in Streams
    BY AnswerParts
  <2>2. \A s \in Streams, t \in Streams : s \o t \in Streams
    OBVIOUS
  <2> QED BY <2>1, <2>2
<1>2. Stream(entries) = upto[n]
  BY DEF Stream
<1>3. \A s \in Streams, i \in 1..n : Longer(s, i) = s \o Asked(entries[i])
  BY DEF Asked
<1> HIDE DEF n, Streams, start, Longer
<1>4. IsLoop(step, n, Streams)
  BY <1>1 DEF IsLoop
<1>5. PICK f : IsRun(f, n, Streams, start, step)
  <2> HIDE DEF step
  <2>1. n \in Nat /\ start \in Streams
    BY <1>1
  <2> QED BY <1>4, <2>1, LoopRuns
<1>6. ASSUME NEW i \in 1..n PROVE f[i] = Longer(f[i - 1], i)
  <2>1. f[i - 1] \in Streams
    BY <1>1, <1>5 DEF IsRun
  <2> QED BY <1>5, <2>1 DEF IsRun
<1>7. f = Body(f)
  BY <1>1, <1>5, <1>6 DEF IsRun
<1>8. upto = Body(upto)
  <2> HIDE DEF Body
  <2> QED BY <1>7
<1> HIDE DEF upto
<1>9. upto[0] = start /\ \A i \in 1..n : upto[i] = Longer(upto[i - 1], i)
  <2>1. \A i \in 0..n : upto[i] = IF i = 0 THEN start ELSE Longer(upto[i - 1], i)
    BY <1>8
  <2> QED BY <1>1, <2>1
<1>10. \A i \in 0..n : upto[i] \in Streams
  <2> DEFINE P == {i \in 0..n : upto[i] \in Streams}
  <2>1. 0 \in P /\ \A i \in 1..n : i - 1 \in P => i \in P
    BY <1>1, <1>9
  <2> HIDE DEF P
  <2>2. \A i \in 0..n : i \in P
    BY <1>1, <2>1, StepInduction
  <2> QED BY <2>2 DEF P
<1>11. upto \in [0..n -> Streams]
  BY <1>8, <1>10
<1>12. \A i \in 1..n : upto[i] = upto[i - 1] \o Asked(entries[i])
  <2> TAKE i \in 1..n
  <2>1. upto[i - 1] \in Streams
    BY <1>1, <1>10
  <2> QED BY <1>3, <1>9, <2>1
<1> QED BY <1>2, <1>9, <1>11, <1>12 DEF n, Streams, start, StreamRun

(* What is in the stream so far stays where it is.                         *)
Begins(short, long) == Len(short) <= Len(long) /\ \A j \in 1..Len(short) : long[j] = short[j]

LEMMA StreamGrows ==
  ASSUME NEW Blobs, NEW entries \in Seq(CommittedEntry(Blobs)), NEW upto, StreamRun(upto, entries, Blobs)
  PROVE  \A i \in 0..Len(entries) : Begins(upto[i], Stream(entries))
<1> DEFINE n == Len(entries)
           P == {k \in 0..n : \A i \in 0..k : Begins(upto[i], upto[k])}
<1>1. n \in Nat /\ \A i \in 0..n : upto[i] \in Seq(Token(Blobs))
  BY DEF StreamRun
<1>2. 0 \in P
  BY <1>1 DEF Begins
<1>3. ASSUME NEW k \in 1..n, k - 1 \in P PROVE k \in P
  <2>1. upto[k] = upto[k - 1] \o Asked(entries[k]) /\ k - 1 \in 0..n
    <3>1. upto[k] = upto[k - 1] \o Asked(entries[k])
      BY DEF StreamRun
    <3> QED BY <1>1, <3>1
  <2>2. Asked(entries[k]) \in Seq(Token(Blobs))
    BY AnswerParts DEF Asked
  <2> HIDE DEF P
  <2>10. k - 1 \in 0..n /\ k \in 0..n
    BY <1>1
  <2>6. Len(upto[k - 1]) \in Nat /\ Len(upto[k]) \in Nat
    BY <1>1, <2>10
  <2>7. Begins(upto[k], upto[k])
    BY <2>6 DEF Begins
  <2>8. upto[k - 1] \in Seq(Token(Blobs))
    BY <1>1, <2>1
  <2>9. Begins(upto[k - 1], upto[k - 1] \o Asked(entries[k]))
    <3> DEFINE a == upto[k - 1]
               b == Asked(entries[k])
    <3> HIDE DEF a, b
    <3>1. /\ Len(a) \in Nat /\ Len(b) \in Nat /\ Len(a \o b) = Len(a) + Len(b)
          /\ \A i \in 1..Len(a) : (a \o b)[i] = a[i]
      <4>1. a \in Seq(Token(Blobs)) /\ b \in Seq(Token(Blobs))
        BY <2>2, <2>8 DEF a, b
      <4> QED BY <4>1, Concatenated
    <3>2. Begins(a, a \o b)
      BY <3>1 DEF Begins
    <3> QED BY <3>2 DEF a, b
  <2>3. Begins(upto[k - 1], upto[k]) /\ Begins(upto[k], upto[k])
    BY <2>1, <2>7, <2>9
  <2> USE DEF P
  <2> SUFFICES ASSUME NEW i \in 0..k PROVE Begins(upto[i], upto[k])
    BY <1>1
  <2>4. CASE i = k
    BY <2>3, <2>4
  <2>5. CASE i # k
    <3>1. i \in 0..(k - 1) /\ i \in 0..n
      BY <1>1, <2>5
    <3>2. Begins(upto[i], upto[k - 1])
      BY <1>3, <3>1
    <3>3. Len(upto[i]) \in Nat
      BY <1>1, <3>1
    <3> HIDE DEF P
    <3> QED BY <2>3, <2>6, <3>2, <3>3 DEF Begins
  <2> QED BY <2>4, <2>5
<1>4. n \in P
  <2> HIDE DEF P, n
  <2>1. \A i \in 0..n : i \in P
    BY <1>1, <1>2, <1>3, StepInduction
  <2> QED BY <1>1, <2>1
<1> QED BY <1>4 DEF StreamRun

(* The answer to an entry is in the stream behind those before it.         *)
AnswerNext(entries, upto, i) ==
  /\ Len(upto[i - 1]) \in Nat /\ Len(upto[i]) = Len(upto[i - 1]) + Len(Asked(entries[i]))
  /\ Len(upto[i]) <= Len(Stream(entries))
  /\ \A k \in 1..Len(Asked(entries[i])) :
       Stream(entries)[Len(upto[i - 1]) + k] = Asked(entries[i])[k]

LEMMA AnswerInStream ==
  ASSUME NEW Blobs, NEW entries \in Seq(CommittedEntry(Blobs)), NEW upto, StreamRun(upto, entries, Blobs),
         NEW i \in 1..Len(entries)
  PROVE  AnswerNext(entries, upto, i)
<1>7. Len(entries) \in Nat /\ i - 1 \in 0..Len(entries) /\ i \in 0..Len(entries)
  OBVIOUS
<1>1. upto[i] = upto[i - 1] \o Asked(entries[i]) /\ upto[i - 1] \in Seq(Token(Blobs)) /\ i \in 0..Len(entries)
  BY <1>7 DEF StreamRun
<1>2. Asked(entries[i]) \in Seq(Token(Blobs))
  BY AnswerParts DEF Asked
<1>3. Begins(upto[i], Stream(entries))
  BY <1>1, StreamGrows
<1> DEFINE a == upto[i - 1]
           b == Asked(entries[i])
<1> HIDE DEF a, b
<1>6. a \in Seq(Token(Blobs)) /\ b \in Seq(Token(Blobs))
  BY <1>1, <1>2 DEF a, b
<1>4. /\ Len(a) \in Nat /\ Len(b) \in Nat /\ Len(a \o b) = Len(a) + Len(b)
      /\ \A k \in 1..Len(b) : (a \o b)[Len(a) + k] = b[k]
  BY <1>6, Concatenated
<1>5. \A k \in 1..Len(b) : Len(a) + k \in 1..Len(a \o b)
  BY <1>4
<1> QED BY <1>1, <1>3, <1>4, <1>5 DEF Begins, AnswerNext, a, b

-----------------------------------------------------------------------------
(* What an entry is as a member, and what the tree is.                     *)
MemberOf(e) ==
  [kind |-> Kind[e.mode], blob |-> e.blob, content |-> IF e.mode = "160000" THEN <<>> ELSE BytesOf(e)]

(* What is left to read after `at` tokens of a stream that ends early.     *)
LeftOf(rest, all, at, sent) ==
  /\ at <= sent /\ Len(rest) = sent - at
  /\ \A k \in 1..Len(rest) : rest[k] = all[at + k]

(* The answer to an entry comes next.                                      *)
Answered(e, all, at) ==
  /\ at + Len(Asked(e)) <= Len(all)
  /\ \A k \in 1..Len(Asked(e)) : all[at + k] = Asked(e)[k]

LEMMA FailIsState ==
  ASSUME NEW Blobs, NEW s \in ReadState(Blobs)
  PROVE  Fail(s) \in ReadState(Blobs) /\ Fail(s).ok = FALSE
BY DEF Fail, ReadState

(* A member is added, and this is left to read.                            *)
Took(s, rest, m) == Add([s EXCEPT !.rest = rest], m)
TookOnly(s, rest, m) ==
  Took(s, rest, m).rest = rest /\ Took(s, rest, m).tar = Append(s.tar, m) /\ Took(s, rest, m).ok = s.ok

LEMMA AddIsState ==
  ASSUME NEW Blobs, NEW s \in ReadState(Blobs), NEW rest \in Seq(Token(Blobs)), NEW m \in Member(Blobs)
  PROVE  Took(s, rest, m) \in ReadState(Blobs) /\ TookOnly(s, rest, m)
<1>1. s = [rest |-> s.rest, tar |-> s.tar, ok |-> s.ok] /\ s.tar \in Seq(Member(Blobs)) /\ s.ok \in BOOLEAN
  BY DEF ReadState
<1>2. Append(s.tar, m) \in Seq(Member(Blobs))
  BY <1>1
<1> DEFINE u == [s EXCEPT !.rest = rest]
           t == Took(s, rest, m)
<1>3. u = [rest |-> rest, tar |-> s.tar, ok |-> s.ok]
  BY <1>1
<1> HIDE DEF u
<1>4. t = [u EXCEPT !.tar = Append(u.tar, m)]
  BY DEF Add, Took, u
<1> HIDE DEF t
<1>5. t = [rest |-> rest, tar |-> Append(s.tar, m), ok |-> s.ok]
  BY <1>3, <1>4
<1>6. t \in ReadState(Blobs) /\ t.rest = rest /\ t.tar = Append(s.tar, m) /\ t.ok = s.ok
  BY <1>1, <1>2, <1>5 DEF ReadState
<1> QED BY <1>6 DEF t, TookOnly

(* A header and what is behind it.                                         *)
LEMMA HeaderParts ==
  ASSUME NEW Blobs, NEW s \in ReadState(Blobs), NEW e, HeaderFits(s, e)
  PROVE  /\ s.rest \in Seq(Token(Blobs)) /\ Len(s.rest) \in Nat /\ Len(s.rest) >= 1
         /\ Head(s.rest) = s.rest[1] /\ s.rest[1].size \in Nat /\ s.rest[1].token = "header"
         /\ s.rest[1].blob = e.blob
<1>1. s.rest \in Seq(Token(Blobs)) /\ s.rest # <<>> /\ Head(s.rest).token = "header" /\ Head(s.rest).blob = e.blob
  BY DEF HeaderFits, ReadState
<1>2. Len(s.rest) \in Nat /\ Len(s.rest) >= 1 /\ Head(s.rest) = s.rest[1] /\ s.rest[1] \in Token(Blobs)
  BY <1>1
<1>3. s.rest[1].size \in Nat
  BY <1>1, <1>2 DEF Token
<1> QED BY <1>1, <1>2, <1>3

LEMMA ReadIsState ==
  ASSUME NEW Blobs, NEW s \in ReadState(Blobs), NEW e \in CommittedEntry(Blobs),
         NEW kind \in {"symlink", "file", "executable"}
  PROVE  ReadBlob(s, e, kind) \in ReadState(Blobs)
<1>1. CASE ~HeaderFits(s, e) \/ Len(s.rest) < Head(s.rest).size + 2
  BY <1>1, FailIsState DEF ReadBlob
<1>2. CASE ~(~HeaderFits(s, e) \/ Len(s.rest) < Head(s.rest).size + 2)
  <2> DEFINE size == s.rest[1].size
             left == SubSeq(s.rest, size + 3, Len(s.rest))
             content == SubSeq(s.rest, 2, size + 1)
             m == [kind |-> kind, blob |-> e.blob, content |-> content]
  <2>1. /\ s.rest \in Seq(Token(Blobs)) /\ Len(s.rest) \in Nat /\ size \in Nat /\ Len(s.rest) >= size + 2
        /\ Head(s.rest) = s.rest[1]
    BY <1>2, HeaderParts
  <2>2. ReadBlob(s, e, kind) = Took(s, left, m)
    <3>1. [s EXCEPT !.rest = SubSeq(@, size + 3, Len(@))] = [s EXCEPT !.rest = left]
      BY DEF ReadState
    <3> QED BY <1>2, <2>1, <3>1 DEF ReadBlob, Took
  <2>3. left \in Seq(Token(Blobs)) /\ content \in Seq(Token(Blobs))
    BY <2>1
  <2>4. m \in Member(Blobs)
    BY <2>3 DEF Member, CommittedEntry
  <2> HIDE DEF left, m
  <2> QED BY <2>2, <2>3, <2>4, AddIsState
<1> QED BY <1>1, <1>2

LEMMA DirectoryIsState ==
  ASSUME NEW Blobs, NEW s \in ReadState(Blobs), NEW e \in CommittedEntry(Blobs), e.mode = "160000"
  PROVE  LET t == AddEntry(s, e)
         IN  /\ t \in ReadState(Blobs) /\ t.rest = s.rest /\ t.tar = Append(s.tar, MemberOf(e)) /\ t.ok = s.ok
             /\ MemberOf(e) \in Member(Blobs) /\ Asked(e) = <<>>
<1> DEFINE m == [kind |-> "directory", blob |-> e.blob, content |-> <<>>]
<1>1. m \in Member(Blobs)
  BY DEF Member, CommittedEntry
<1>2. MemberOf(e) = m
  BY DEF MemberOf, Kind, Modes
<1>3. AddEntry(s, e) = Add(s, m)
  BY DEF AddEntry
<1>4. s = [s EXCEPT !.rest = s.rest] /\ s.rest \in Seq(Token(Blobs))
  BY DEF ReadState
<1> HIDE DEF m
<1>5. AddEntry(s, e) = Took(s, s.rest, m)
  BY <1>3, <1>4 DEF Took
<1>6. AddEntry(s, e) \in ReadState(Blobs) /\ TookOnly(s, s.rest, m)
  BY <1>1, <1>4, <1>5, AddIsState
<1> QED BY <1>1, <1>2, <1>5, <1>6 DEF Asked, TookOnly

LEMMA EntryIsState ==
  ASSUME NEW Blobs, NEW s \in ReadState(Blobs), NEW e \in CommittedEntry(Blobs)
  PROVE  AddEntry(s, e) \in ReadState(Blobs)
<1>1. CASE e.mode = "160000"
  BY <1>1, DirectoryIsState
<1>2. CASE e.mode # "160000"
  <2>1. \A kind \in {"symlink", "file", "executable"} : ReadBlob(s, e, kind) \in ReadState(Blobs)
    BY ReadIsState
  <2>2. Fail(s) \in ReadState(Blobs)
    BY FailIsState
  <2>3. AddEntry(s, e) \in {Fail(s)} \cup {ReadBlob(s, e, kind) : kind \in {"symlink", "file", "executable"}}
    BY <1>2 DEF AddEntry, SymlinkTarget
  <2> QED BY <2>1, <2>2, <2>3
<1> QED BY <1>1, <1>2

(* The reader of one object takes what git answered, and all of it.        *)
LEMMA ReadsBlob ==
  ASSUME NEW Blobs, NEW s \in ReadState(Blobs), s.ok, NEW e \in CommittedEntry(Blobs), e.mode # "160000",
         NEW kind \in {"symlink", "file", "executable"},
         NEW all \in Seq(Token(Blobs)), NEW at \in Nat, NEW sent \in Nat, sent <= Len(all),
         LeftOf(s.rest, all, at, sent), Answered(e, all, at)
  PROVE  LET r == ReadBlob(s, e, kind)
         IN  /\ HeaderFits(s, e) => s.rest[1].size = e.size /\ Head(s.rest) = s.rest[1]
             /\ r.ok => /\ LeftOf(r.rest, all, at + Len(Asked(e)), sent)
                        /\ r.tar = Append(s.tar, [kind |-> kind, blob |-> e.blob, content |-> BytesOf(e)])
             /\ ~e.missing /\ at + Len(Asked(e)) <= sent => r.ok
<1> DEFINE r == ReadBlob(s, e, kind)
           rest == s.rest
<1>1. rest \in Seq(Token(Blobs)) /\ Len(rest) \in Nat /\ (rest # <<>> <=> Len(rest) >= 1)
      /\ (rest # <<>> => Head(rest) = rest[1])
  BY DEF ReadState
<1>2. e.size \in Nat /\ e.missing \in BOOLEAN
  BY DEF CommittedEntry
<1>3. Asked(e) = ObjectAnswer(e)
  BY DEF Asked
<1>4. /\ at <= sent /\ Len(rest) = sent - at /\ at + Len(Asked(e)) <= Len(all)
      /\ \A k \in 1..Len(rest) : k \in 1..Len(Asked(e)) => rest[k] = Asked(e)[k]
      /\ \A k \in 1..Len(rest) : rest[k] = all[at + k]
  BY DEF LeftOf, Answered
<1>5. /\ BytesOf(e) \in Seq(Token(Blobs)) /\ Len(BytesOf(e)) = e.size
      /\ e.missing => Len(Asked(e)) = 1 /\ Asked(e)[1] = [token |-> "missing"]
      /\ ~e.missing => /\ Len(Asked(e)) = e.size + 2
                       /\ Asked(e)[1] = HeaderOf(e)
                       /\ \A i \in 1..e.size : Asked(e)[i + 1] = BytesOf(e)[i]
  BY <1>3, AnswerParts
<1>6. ASSUME rest # <<>> PROVE rest[1] = IF e.missing THEN [token |-> "missing"] ELSE HeaderOf(e)
  <2>1. 1 \in 1..Len(rest) /\ 1 \in 1..Len(Asked(e))
    BY <1>1, <1>2, <1>5, <1>6
  <2> QED BY <1>2, <1>4, <1>5, <2>1
<1>7. HeaderFits(s, e) <=> rest # <<>> /\ ~e.missing
  <2>1. ASSUME rest # <<>>, ~e.missing PROVE HeaderFits(s, e)
    <3>1. Head(rest) = HeaderOf(e)
      BY <1>1, <1>6, <2>1
    <3> QED BY <2>1, <3>1 DEF HeaderFits, HeaderOf
  <2>2. ASSUME HeaderFits(s, e) PROVE rest # <<>> /\ ~e.missing
    <3>1. rest # <<>> /\ Head(rest).token = "header"
      BY <2>2 DEF HeaderFits
    <3>2. rest[1] # [token |-> "missing"]
      BY <1>1, <3>1
    <3> QED BY <1>2, <1>6, <3>1, <3>2
  <2> QED BY <2>1, <2>2
<1>8. HeaderFits(s, e) => rest[1].size = e.size /\ Head(rest) = rest[1]
  BY <1>1, <1>6, <1>7 DEF HeaderOf
<1>9. CASE ~HeaderFits(s, e) \/ Len(rest) < Head(rest).size + 2
  <2>1. r.ok = FALSE
    <3>1. r = Fail(s)
      BY <1>9 DEF ReadBlob
    <3> HIDE DEF r
    <3> QED BY <3>1, FailIsState
  <2>2. ~(~e.missing /\ at + Len(Asked(e)) <= sent)
    <3> SUFFICES ASSUME ~e.missing, at + Len(Asked(e)) <= sent PROVE FALSE
      OBVIOUS
    <3>1. Len(rest) >= e.size + 2
      BY <1>2, <1>4, <1>5
    <3>2. HeaderFits(s, e)
      BY <1>1, <1>2, <1>7, <3>1
    <3> QED BY <1>2, <1>8, <1>9, <3>1, <3>2
  <2> HIDE DEF r
  <2> QED BY <1>8, <2>1, <2>2 DEF r
<1>10. CASE ~(~HeaderFits(s, e) \/ Len(rest) < Head(rest).size + 2)
  <2> DEFINE left == SubSeq(rest, e.size + 3, Len(rest))
             content == SubSeq(rest, 2, e.size + 1)
             m == [kind |-> kind, blob |-> e.blob, content |-> content]
  <2>1. ~e.missing /\ Len(rest) >= e.size + 2 /\ Head(rest).size = e.size /\ HeaderFits(s, e)
    BY <1>2, <1>7, <1>8, <1>10
  <2>2. r = Took(s, left, m)
    <3>1. [s EXCEPT !.rest = SubSeq(@, e.size + 3, Len(@))] = [s EXCEPT !.rest = left]
      BY DEF ReadState
    <3> QED BY <1>10, <2>1, <3>1 DEF ReadBlob, Took
  <2>3. left \in Seq(Token(Blobs)) /\ content \in Seq(Token(Blobs))
    BY <1>1, <1>2, <2>1
  <2>4. m \in Member(Blobs)
    BY <2>3 DEF Member, CommittedEntry
  <2>5. Len(content) = e.size /\ \A k \in 1..e.size : content[k] = rest[k + 1]
    BY <1>1, <1>2, <2>1
  <2>6. \A k \in 1..e.size : rest[k + 1] = BytesOf(e)[k]
    <3> TAKE k \in 1..e.size
    <3>1. k + 1 \in 1..Len(rest) /\ k + 1 \in 1..Len(Asked(e))
      <4>1. Len(Asked(e)) = e.size + 2 /\ Len(rest) >= e.size + 2 /\ Len(rest) \in Nat
        BY <1>1, <1>5, <2>1
      <4> HIDE DEF rest, content, left, m
      <4> QED BY <1>2, <4>1
    <3> QED BY <1>4, <1>5, <2>1, <3>1
  <2>7. content = BytesOf(e)
    <3> HIDE DEF content
    <3> QED BY <1>5, <2>3, <2>5, <2>6, SameSequence
  <2>8. Len(left) = Len(rest) - (e.size + 2) /\ \A k \in 1..Len(left) : left[k] = rest[(e.size + 2) + k]
    <3>1. (e.size + 2) + 1 = e.size + 3 /\ e.size + 2 \in Nat /\ e.size + 2 <= Len(rest)
      BY <1>2, <2>1
    <3> HIDE DEF rest
    <3>2. \A i \in Nat : i <= Len(rest) =>
            /\ Len(SubSeq(rest, i + 1, Len(rest))) = Len(rest) - i
            /\ \A k \in 1..Len(SubSeq(rest, i + 1, Len(rest))) : SubSeq(rest, i + 1, Len(rest))[k] = rest[i + k]
      BY <1>1, Behind
    <3> QED BY <3>1, <3>2
  <2>9. LeftOf(left, all, at + Len(Asked(e)), sent)
    <3> HIDE DEF left, content, m, rest, r
    <3>1. Len(Asked(e)) = e.size + 2
      BY <1>5, <2>1
    <3>2. Len(left) = sent - (at + (e.size + 2)) /\ at + (e.size + 2) <= sent
      BY <1>1, <1>2, <1>4, <2>1, <2>8
    <3>3. ASSUME NEW k \in 1..Len(left) PROVE left[k] = all[(at + (e.size + 2)) + k]
      <4>1. (e.size + 2) + k \in 1..Len(rest)
        BY <1>1, <1>2, <2>1, <2>8
      <4>2. left[k] = all[at + ((e.size + 2) + k)]
        BY <1>4, <2>8, <4>1
      <4>3. at + ((e.size + 2) + k) = (at + (e.size + 2)) + k
        BY <1>2, <2>8, <1>1
      <4> QED BY <4>2, <4>3
    <3> QED BY <3>1, <3>2, <3>3 DEF LeftOf
  <2>10. r.rest = left /\ r.tar = Append(s.tar, m) /\ r.ok = s.ok
    <3> HIDE DEF left, m, r
    <3>1. TookOnly(s, left, m)
      BY <2>3, <2>4, AddIsState
    <3> QED BY <2>2, <3>1 DEF TookOnly
  <2>11. r.tar = Append(s.tar, [kind |-> kind, blob |-> e.blob, content |-> BytesOf(e)])
    BY <2>7, <2>10
  <2> HIDE DEF left, m, r, content
  <2> QED BY <1>8, <2>9, <2>10, <2>11 DEF r
<1> QED BY <1>9, <1>10

(* An entry that is archived, and one that is there only if it may be.     *)
Holdable(e) ==
  /\ e.portable /\ ~e.missing /\ e.mode # "other"
  /\ e.mode = "120000" => e.size <= MaxTarget /\ e.text = "utf8"
Said(e) == e.mode = "120000" => e.text = "utf8"

LEMMA ReadsEntry ==
  ASSUME NEW Blobs, NEW s \in ReadState(Blobs), s.ok, NEW e \in CommittedEntry(Blobs),
         NEW all \in Seq(Token(Blobs)), NEW at \in Nat, NEW sent \in Nat, sent <= Len(all),
         LeftOf(s.rest, all, at, sent), Answered(e, all, at)
  PROVE  LET t == AddEntry(s, e)
         IN  /\ t.ok => /\ LeftOf(t.rest, all, at + Len(Asked(e)), sent)
                        /\ t.tar = Append(s.tar, MemberOf(e)) /\ MemberOf(e) \in Member(Blobs)
                        /\ Said(e)
             /\ Holdable(e) /\ at + Len(Asked(e)) <= sent => t.ok
<1> DEFINE t == AddEntry(s, e)
<1>1. CASE e.mode = "160000"
  <2>1. t.rest = s.rest /\ t.tar = Append(s.tar, MemberOf(e)) /\ t.ok = s.ok /\ MemberOf(e) \in Member(Blobs) /\ Asked(e) = <<>>
    BY <1>1, DirectoryIsState
  <2>2. at + Len(Asked(e)) = at /\ Said(e)
    BY <1>1, <2>1 DEF Said
  <2> HIDE DEF t
  <2> QED BY <2>1, <2>2 DEF t
<1>2. CASE e.mode = "other"
  <2>1. t = Fail(s)
    BY <1>2 DEF AddEntry
  <2>2. ~Holdable(e)
    BY <1>2 DEF Holdable
  <2> HIDE DEF t
  <2> QED BY <2>1, <2>2, FailIsState DEF t
<1>3. CASE e.mode \in {"120000", "100644", "100755"}
  <2> DEFINE kind == Kind[e.mode]
             r == ReadBlob(s, e, kind)
             m == [kind |-> kind, blob |-> e.blob, content |-> BytesOf(e)]
  <2>1. /\ kind = IF e.mode = "120000" THEN "symlink" ELSE IF e.mode = "100644" THEN "file" ELSE "executable"
        /\ e.mode # "160000"
    BY <1>3 DEF Kind, Modes
  <2>2. MemberOf(e) = m /\ m \in Member(Blobs)
    <3>1. BytesOf(e) \in Seq(Token(Blobs)) /\ e.blob \in Blobs
      BY AnswerParts DEF CommittedEntry
    <3>2. kind \in {"symlink", "file", "executable"}
      BY <1>3, <2>1
    <3> HIDE DEF kind
    <3>3. m \in Member(Blobs)
      BY <3>1, <3>2 DEF Member
    <3> QED BY <2>1, <3>3 DEF MemberOf, kind
  <2>3. /\ t = IF e.mode = "120000" /\ (TooLong(s, e) \/ e.text # "utf8") THEN Fail(s) ELSE r
        /\ ~(e.mode = "120000" /\ (TooLong(s, e) \/ e.text # "utf8")) => Said(e)
    BY <1>3, <2>1 DEF AddEntry, SymlinkTarget, Said
  <2>4. kind \in {"symlink", "file", "executable"}
    BY <1>3, <2>1
  <2> HIDE DEF kind, t
  <2>5. /\ HeaderFits(s, e) => s.rest[1].size = e.size /\ Head(s.rest) = s.rest[1]
        /\ r.ok => /\ LeftOf(r.rest, all, at + Len(Asked(e)), sent)
                   /\ r.tar = Append(s.tar, m)
        /\ ~e.missing /\ at + Len(Asked(e)) <= sent => r.ok
    <3>1. \A any \in {"symlink", "file", "executable"} :
            LET read == ReadBlob(s, e, any)
            IN  /\ HeaderFits(s, e) => s.rest[1].size = e.size /\ Head(s.rest) = s.rest[1]
                /\ read.ok => /\ LeftOf(read.rest, all, at + Len(Asked(e)), sent)
                              /\ read.tar = Append(s.tar, [kind |-> any, blob |-> e.blob, content |-> BytesOf(e)])
                /\ ~e.missing /\ at + Len(Asked(e)) <= sent => read.ok
      BY <2>1, ReadsBlob
    <3> QED BY <2>4, <3>1
  <2>6. Holdable(e) => ~(e.mode = "120000" /\ (TooLong(s, e) \/ e.text # "utf8"))
    <3> SUFFICES ASSUME Holdable(e), e.mode = "120000", TooLong(s, e) PROVE FALSE
      BY DEF Holdable
    <3>1. HeaderFits(s, e) /\ Head(s.rest).size > MaxTarget /\ e.size <= MaxTarget
      BY DEF TooLong, Holdable
    <3>2. Head(s.rest).size = e.size
      BY <2>5, <3>1
    <3>3. e.size \in Nat /\ MaxTarget \in Nat
      BY ArchiveAssumption DEF CommittedEntry
    <3> QED BY <3>1, <3>2, <3>3
  <2>7. Fail(s).ok = FALSE
    BY FailIsState
  <2> HIDE DEF r, m
  <2>8. Holdable(e) => ~e.missing
    BY DEF Holdable
  <2> QED BY <2>2, <2>3, <2>5, <2>6, <2>7, <2>8 DEF t
<1>4. e.mode \in {"120000", "100644", "100755", "160000", "other"}
  BY DEF CommittedEntry, Modes
<1> QED BY <1>1, <1>2, <1>3, <1>4

-----------------------------------------------------------------------------
(* The states of the loop over the entries.                                *)
ReadRun(after, entries, stream, Blobs) ==
  /\ after \in [0..Len(entries) -> ReadState(Blobs)]
  /\ after[0] = Start(stream)
  /\ \A i \in 1..Len(entries) :
       after[i] = IF after[i - 1].ok THEN AddEntry(after[i - 1], entries[i]) ELSE after[i - 1]
  /\ AddAll(entries, stream) = IF Listed(entries) THEN after[Len(entries)] ELSE Fail(Start(stream))

LEMMA ReadLoop ==
  ASSUME NEW Blobs, NEW entries \in Seq(CommittedEntry(Blobs)), NEW stream \in Seq(Token(Blobs))
  PROVE  \E after : ReadRun(after, entries, stream, Blobs)
<1> DEFINE n == Len(entries)
           Readings == ReadState(Blobs)
           start == Start(stream)
           ReadOn(s, i) == IF s.ok THEN AddEntry(s, entries[i]) ELSE s
           step == [x \in Readings \X (1..n) |-> ReadOn(x[1], x[2])]
           Body(f) == [i \in 0..n |-> IF i = 0 THEN start ELSE ReadOn(f[i - 1], i)]
           after == CHOOSE f : f = Body(f)
<1>1. n \in Nat /\ start \in Readings /\ \A s \in Readings, i \in 1..n : ReadOn(s, i) \in Readings
  <2>1. start \in Readings
    BY DEF Start, ReadState
  <2>2. \A s \in Readings, i \in 1..n : AddEntry(s, entries[i]) \in Readings
    BY EntryIsState
  <2> QED BY <2>1, <2>2
<1>2. AddAll(entries, stream) = IF Listed(entries) THEN after[n] ELSE Fail(Start(stream))
  BY DEF AddAll
<1> HIDE DEF n, Readings, start, ReadOn
<1>4. IsLoop(step, n, Readings)
  BY <1>1 DEF IsLoop
<1>5. PICK f : IsRun(f, n, Readings, start, step)
  <2> HIDE DEF step
  <2>1. n \in Nat /\ start \in Readings
    BY <1>1
  <2> QED BY <1>4, <2>1, LoopRuns
<1>6. ASSUME NEW i \in 1..n PROVE f[i] = ReadOn(f[i - 1], i)
  <2>1. f[i - 1] \in Readings
    BY <1>1, <1>5 DEF IsRun
  <2> QED BY <1>5, <2>1 DEF IsRun
<1>7. f = Body(f)
  BY <1>1, <1>5, <1>6 DEF IsRun
<1>8. after = Body(after)
  <2> HIDE DEF Body
  <2> QED BY <1>7
<1> HIDE DEF after
<1>9. after[0] = start /\ \A i \in 1..n : after[i] = ReadOn(after[i - 1], i)
  <2>1. \A i \in 0..n : after[i] = IF i = 0 THEN start ELSE ReadOn(after[i - 1], i)
    BY <1>8
  <2> QED BY <1>1, <2>1
<1>10. \A i \in 0..n : after[i] \in Readings
  <2> DEFINE P == {i \in 0..n : after[i] \in Readings}
  <2>1. 0 \in P /\ \A i \in 1..n : i - 1 \in P => i \in P
    BY <1>1, <1>9
  <2> HIDE DEF P
  <2>2. \A i \in 0..n : i \in P
    BY <1>1, <2>1, StepInduction
  <2> QED BY <2>2 DEF P
<1>11. after \in [0..n -> Readings]
  BY <1>8, <1>10
<1> QED BY <1>2, <1>9, <1>11 DEF n, Readings, start, ReadOn, ReadRun

(* What the loop has made of the first entries, if nothing failed.         *)
Reads(s, entries, all, at, i, sent, Blobs) ==
  /\ LeftOf(s.rest, all, at, sent)
  /\ Len(s.tar) = i /\ \A j \in 1..i : s.tar[j] = MemberOf(entries[j]) /\ Said(entries[j])

LEMMA LoopReads ==
  ASSUME NEW Blobs, NEW entries \in Seq(CommittedEntry(Blobs)), NEW upto, StreamRun(upto, entries, Blobs),
         NEW sent \in 0..Len(Stream(entries)), NEW after,
         ReadRun(after, entries, SubSeq(Stream(entries), 1, sent), Blobs)
  PROVE  /\ \A i \in 0..Len(entries) :
              after[i].ok => Reads(after[i], entries, Stream(entries), Len(upto[i]), i, sent, Blobs)
         /\ sent = Len(Stream(entries)) /\ (\A i \in 1..Len(entries) : Holdable(entries[i]))
              => after[Len(entries)].ok
<1>0. \A i \in 1..Len(entries) : AnswerNext(entries, upto, i)
  BY AnswerInStream
<1> DEFINE n == Len(entries)
           all == Stream(entries)
           whole == sent = Len(all) /\ \A i \in 1..n : Holdable(entries[i])
           Good(i) == /\ after[i].ok => Reads(after[i], entries, all, Len(upto[i]), i, sent, Blobs)
                      /\ whole => after[i].ok
           P == {i \in 0..n : Good(i)}
<1>1. n \in Nat /\ all \in Seq(Token(Blobs)) /\ sent \in Nat /\ sent <= Len(all)
  <2>1. n \in Nat /\ n \in 0..n
    OBVIOUS
  <2>2. all \in Seq(Token(Blobs))
    BY <2>1 DEF StreamRun
  <2> HIDE DEF all
  <2> QED BY <2>1, <2>2 DEF all
<1>2. 0 \in P
  <2> DEFINE cut == SubSeq(all, 1, sent)
  <2>1. Len(cut) = sent /\ \A k \in 1..sent : cut[k] = all[k]
    <3> HIDE DEF all
    <3> QED BY <1>1
  <2>2. after[0] = [rest |-> cut, tar |-> <<>>, ok |-> TRUE] /\ Len(upto[0]) = 0
    BY DEF ReadRun, StreamRun, Start
  <2> HIDE DEF cut, all
  <2>3. LeftOf(cut, all, 0, sent)
    BY <1>1, <2>1 DEF LeftOf
  <2>4. Reads(after[0], entries, all, Len(upto[0]), 0, sent, Blobs)
    BY <2>2, <2>3 DEF Reads
  <2> QED BY <1>1, <2>2, <2>4
<1>3. ASSUME NEW i \in 1..n, i - 1 \in P PROVE i \in P
  <2> DEFINE s == after[i - 1]
             e == entries[i]
             at == Len(upto[i - 1])
  <2>1. i - 1 \in 0..n /\ i \in 0..n /\ e \in CommittedEntry(Blobs)
    BY <1>1
  <2>2. s \in ReadState(Blobs) /\ after[i] = IF s.ok THEN AddEntry(s, e) ELSE s
    BY <2>1 DEF ReadRun
  <2>3. Good(i - 1)
    BY <1>3
  <2>4. at \in Nat /\ Len(upto[i]) = at + Len(Asked(e)) /\ Answered(e, all, at) /\ Len(upto[i]) <= Len(all)
    <3>1. /\ at \in Nat /\ Len(upto[i]) = at + Len(Asked(e)) /\ Len(upto[i]) <= Len(all)
          /\ \A k \in 1..Len(Asked(e)) : all[at + k] = Asked(e)[k]
      BY <1>0 DEF AnswerNext
    <3> HIDE DEF at, all, e
    <3> QED BY <3>1 DEF Answered
  <2>5. CASE ~s.ok
    BY <2>1, <2>2, <2>3, <2>5
  <2>6. CASE s.ok
    <3>1. after[i] = AddEntry(s, e)
      BY <2>2, <2>6
    <3>2. /\ LeftOf(s.rest, all, at, sent) /\ s.tar \in Seq(Member(Blobs)) /\ Len(s.tar) = i - 1
          /\ \A j \in 1..(i - 1) : s.tar[j] = MemberOf(entries[j]) /\ Said(entries[j])
      BY <2>2, <2>3, <2>6 DEF Reads, ReadState
    <3> HIDE DEF s, e, at, all, P
    <3>3. LET t == AddEntry(s, e)
          IN  /\ t.ok => /\ LeftOf(t.rest, all, at + Len(Asked(e)), sent)
                         /\ t.tar = Append(s.tar, MemberOf(e)) /\ MemberOf(e) \in Member(Blobs)
                         /\ Said(e)
              /\ Holdable(e) /\ at + Len(Asked(e)) <= sent => t.ok
      BY <1>1, <2>1, <2>2, <2>4, <2>6, <3>2, ReadsEntry
    <3> DEFINE t == after[i]
    <3>4. /\ t.ok => /\ LeftOf(t.rest, all, Len(upto[i]), sent)
                     /\ t.tar = Append(s.tar, MemberOf(e)) /\ MemberOf(e) \in Member(Blobs)
                     /\ Said(e)
          /\ Holdable(e) /\ Len(upto[i]) <= sent => t.ok
      BY <2>4, <3>1, <3>3
    <3>5. ASSUME t.ok PROVE Reads(t, entries, all, Len(upto[i]), i, sent, Blobs)
      <4>1. t.tar = Append(s.tar, MemberOf(e)) /\ MemberOf(e) \in Member(Blobs) /\ Said(e)
        BY <3>4, <3>5
      <4>2. Len(t.tar) = (i - 1) + 1 /\ t.tar[(i - 1) + 1] = MemberOf(e) /\ \A j \in 1..(i - 1) : t.tar[j] = s.tar[j]
        BY <3>2, <4>1, Appended
      <4>3. (i - 1) + 1 = i /\ \A j \in 1..i : j = i \/ j \in 1..(i - 1)
        BY <1>1
      <4> QED BY <3>2, <3>4, <3>5, <4>1, <4>2, <4>3 DEF Reads, e
    <3>6. whole => t.ok
      BY <2>4, <3>4 DEF e
    <3> QED BY <2>1, <3>5, <3>6 DEF P
  <2> QED BY <2>5, <2>6
<1> HIDE DEF Good
<1>4. \A i \in 0..n : Good(i)
  <2> HIDE DEF P
  <2>1. \A i \in 0..n : i \in P
    BY <1>1, <1>2, <1>3, StepInduction
  <2> QED BY <2>1 DEF P
<1>5. n \in 0..n
  BY <1>1
<1> QED BY <1>4, <1>5 DEF Good

(* An archive appears whole or not at all, wherever git stops answering;   *)
(* and every tree with portable paths and links of short UTF-8 without NUL *)
(* is archived, with the reader of one object leaving the stream where the *)
(* next one starts, whatever the files hold.                               *)
THEOREM ArchiveIsFaithful ==
  ASSUME NEW Blobs,
         input.of = "archive" => /\ input.entries \in Seq(CommittedEntry(Blobs))
                                 /\ input.sent \in 0..Len(Stream(input.entries))
  PROVE  ArchiveFaithful
<1> SUFFICES ASSUME NEW entries \in Seq(CommittedEntry(Blobs)), NEW sent \in 0..Len(Stream(entries)),
                    NEW exited, NEW before
             PROVE  WholeOrNothing(entries, sent, exited, before) /\ Archived(entries, sent, exited, before)
  BY DEF ArchiveFaithful
<1> DEFINE n == Len(entries)
           cut == SubSeq(Stream(entries), 1, sent)
<1>1. PICK upto : StreamRun(upto, entries, Blobs)
  BY StreamLoop
<1>2. n \in Nat /\ n \in 0..n
  OBVIOUS
<1>3. cut \in Seq(Token(Blobs))
  <2>1. Stream(entries) \in Seq(Token(Blobs))
    BY <1>1, <1>2 DEF StreamRun
  <2> QED BY <2>1
<1>4. PICK after : ReadRun(after, entries, cut, Blobs)
  <2> HIDE DEF cut
  <2> QED BY <1>3, ReadLoop
<1>5. /\ after[n].ok => Reads(after[n], entries, Stream(entries), Len(upto[n]), n, sent, Blobs)
      /\ sent = Len(Stream(entries)) /\ (\A i \in 1..n : Holdable(entries[i])) => after[n].ok
  BY <1>1, <1>2, <1>4, LoopReads
<1> DEFINE done == AddAll(entries, cut)
<1>6. done = IF Listed(entries) THEN after[n] ELSE Fail(Start(cut))
  BY <1>4 DEF ReadRun
<1> HIDE DEF cut, done, n
<1>7. Create(entries, sent, exited, before) =
        IF before = Nothing /\ done.ok /\ exited = 0 THEN Tar(done.tar) ELSE before
  BY DEF Create, done, cut
<1>8. ASSUME done.ok PROVE done.tar = Members(entries) /\ Sayable(entries)
  <2>1. Fail(Start(cut)).ok = FALSE
    BY DEF Fail, Start
  <2>2. done = after[n] /\ after[n].ok
    BY <1>6, <1>8, <2>1
  <2>3. Len(done.tar) = n /\ \A j \in 1..n : done.tar[j] = MemberOf(entries[j]) /\ Said(entries[j])
    BY <1>5, <2>2 DEF Reads
  <2>4. done.tar \in Seq(Member(Blobs))
    BY <1>2, <1>4, <2>2 DEF ReadRun, ReadState, n
  <2>5. Members(entries) = [i \in 1..n |-> MemberOf(entries[i])]
    BY DEF Members, MemberOf, BytesOf, ByteOf, n
  <2> DEFINE tar == done.tar
  <2> HIDE DEF tar
  <2>6. tar \in Seq(Member(Blobs)) /\ Len(tar) = n /\ \A j \in 1..n : tar[j] = MemberOf(entries[j])
    BY <2>3, <2>4 DEF tar
  <2>7. tar = [i \in 1..n |-> tar[i]]
    BY <2>6
  <2>8. [i \in 1..n |-> tar[i]] = [i \in 1..n |-> MemberOf(entries[i])]
    BY <2>6
  <2>9. Sayable(entries)
    BY <2>3 DEF Sayable, Said, n
  <2> QED BY <2>5, <2>7, <2>8, <2>9 DEF tar
<1>9. WholeOrNothing(entries, sent, exited, before)
  BY <1>7, <1>8 DEF WholeOrNothing
<1>10. Archived(entries, sent, exited, before)
  <2> SUFFICES ASSUME Representable(entries), sent = Len(Stream(entries)), exited = 0, before = Nothing
               PROVE  Create(entries, sent, exited, before) = Tar(Members(entries))
    BY DEF Archived
  <2>1. Listed(entries) /\ \A i \in 1..n : Holdable(entries[i])
    BY DEF Representable, Listed, Holdable, n
  <2>2. done.ok
    BY <1>5, <1>6, <2>1
  <2> QED BY <1>7, <1>8, <2>2
<1> QED BY <1>9, <1>10

-----------------------------------------------------------------------------
(* The verdict on a phase, for outputs of any number of lines.  A line is  *)
(* cut to a length that fits the detail with the message of a retry.       *)
OutputLine == [size : Nat, front : SUBSET Diagnosis!Marks, marks : SUBSET Diagnosis!Marks]
IsPhase(phase) ==
  /\ phase.output \in Seq(OutputLine)
  /\ \A i \in 1..Len(phase.output) : phase.output[i].size + Diagnosis!Appended.size <= DetailSize
  /\ phase.retried \in BOOLEAN
Lengths == [line \in OutputLine |-> line.size]

LEMMA DiagnosisLists ==
  /\ \A seq, S : Diagnosis!Sieve(seq, S) = Sieve(seq, S)
  /\ \A numbers : Diagnosis!Total(numbers) = Total(numbers)
BY DEF Diagnosis!Sieve, Sieve, Diagnosis!Total, Total

LEMMA OtherLines ==
  /\ Diagnosis!Appended \in OutputLine /\ Diagnosis!Appended.size = 1 /\ Diagnosis!Appended.marks = {}
  /\ Diagnosis!Separator \in OutputLine /\ Diagnosis!Separator.size = 0 /\ Diagnosis!Separator.marks = {}
BY DEF OutputLine, Diagnosis!Appended, Diagnosis!Separator

(* The size of some lines.                                                 *)
LEMMA SizeIsAmount ==
  ASSUME NEW seq \in Seq(OutputLine)
  PROVE  Diagnosis!SizeOf(seq) = Amount(seq, OutputLine, Lengths)
<1>1. Elements(seq) \subseteq OutputLine /\ \A i \in DOMAIN seq : seq[i] \in OutputLine
  BY DEF Elements
<1>2. Sieve(seq, OutputLine) = seq
  BY <1>1, SieveAll
<1>3. [i \in DOMAIN seq |-> seq[i].size] = [i \in DOMAIN seq |-> Lengths[seq[i]]]
  BY <1>1 DEF Lengths
<1> QED BY <1>2, <1>3, DiagnosisLists DEF Diagnosis!SizeOf, Amount

LEMMA LengthsWeigh == IsWeight(Lengths, OutputLine)
BY DEF IsWeight, Lengths, OutputLine

LEMMA SizesAdd ==
  ASSUME NEW a \in Seq(OutputLine), NEW b \in Seq(OutputLine)
  PROVE  /\ Diagnosis!SizeOf(a) \in Nat /\ Diagnosis!SizeOf(b) \in Nat
         /\ Diagnosis!SizeOf(a \o b) = Diagnosis!SizeOf(a) + Diagnosis!SizeOf(b)
<1>1. a \o b \in Seq(OutputLine)
  BY Concatenated
<1>2. Amount(a \o b, OutputLine, Lengths) = Amount(a, OutputLine, Lengths) + Amount(b, OutputLine, Lengths)
  BY LengthsWeigh, AmountConcat
<1>3. Amount(a, OutputLine, Lengths) \in Nat /\ Amount(b, OutputLine, Lengths) \in Nat
  BY LengthsWeigh, AmountGrows
<1> QED BY <1>1, <1>2, <1>3, SizeIsAmount

LEMMA SizeOfOne ==
  ASSUME NEW x \in OutputLine
  PROVE  Diagnosis!SizeOf(<<x>>) = x.size /\ Diagnosis!SizeOf(<<>>) = 0
<1>1. <<>> \in Seq(OutputLine) /\ <<x>> \in Seq(OutputLine) /\ Append(<<>>, x) = <<x>>
  OBVIOUS
<1>2. Amount(<<>>, OutputLine, Lengths) = 0
  BY AmountNothing
<1>3. Amount(<<x>>, OutputLine, Lengths) = 0 + Lengths[x]
  <2>1. \A s \in Seq(OutputLine) :
          Amount(Append(s, x), OutputLine, Lengths)
            = Amount(s, OutputLine, Lengths) + (IF x \in OutputLine THEN Lengths[x] ELSE 0)
    BY LengthsWeigh, AmountStep
  <2>2. Amount(Append(<<>>, x), OutputLine, Lengths)
          = Amount(<<>>, OutputLine, Lengths) + (IF x \in OutputLine THEN Lengths[x] ELSE 0)
    BY <1>1, <2>1
  <2> QED BY <1>1, <1>2, <2>2
<1>4. Lengths[x] = x.size /\ x.size \in Nat
  BY DEF Lengths, OutputLine
<1>5. Amount(<<x>>, OutputLine, Lengths) = x.size
  BY <1>3, <1>4
<1>6. \A s \in Seq(OutputLine) : Diagnosis!SizeOf(s) = Amount(s, OutputLine, Lengths)
  BY SizeIsAmount
<1> QED BY <1>1, <1>2, <1>5, <1>6

(* The back of some lines is no longer than all of them.                   *)
LEMMA BackIsShorter ==
  ASSUME NEW s \in Seq(OutputLine), NEW k \in 1..Len(s)
  PROVE  Diagnosis!SizeFrom(s, k) <= Diagnosis!SizeOf(s) /\ Diagnosis!SizeFrom(s, k) \in Nat
<1> DEFINE front == SubSeq(s, 1, k - 1)
           back == SubSeq(s, k, Len(s))
<1>1. k - 1 \in Nat /\ k - 1 <= Len(s) /\ (k - 1) + 1 = k
  OBVIOUS
<1>2. front \in Seq(OutputLine) /\ back \in Seq(OutputLine) /\ front \o back = s
  BY <1>1, Parts
<1> HIDE DEF front, back
<1>3. /\ Diagnosis!SizeOf(front) \in Nat /\ Diagnosis!SizeOf(back) \in Nat
      /\ Diagnosis!SizeOf(front \o back) = Diagnosis!SizeOf(front) + Diagnosis!SizeOf(back)
  BY <1>2, SizesAdd
<1>4. Diagnosis!SizeFrom(s, k) = Diagnosis!SizeOf(back)
  BY DEF Diagnosis!SizeFrom, back
<1> QED BY <1>2, <1>3, <1>4

(* The last lines.                                                         *)
LEMMA LastLines ==
  ASSUME NEW s \in Seq(OutputLine)
  PROVE  LET last == Diagnosis!LastOf(TailLines, s)
         IN  /\ last \in Seq(OutputLine) /\ Elements(last) \subseteq Elements(s)
             /\ s # <<>> => last # <<>>
             /\ Len(s) <= TailLines => last = s
<1> DEFINE last == Diagnosis!LastOf(TailLines, s)
           m == IF Len(s) > TailLines THEN Len(s) - TailLines ELSE 0
<1>1. TailLines \in Nat /\ TailLines > 0 /\ Len(s) \in Nat
  BY SizesAssumption
<1>2. m \in Nat /\ m <= Len(s) /\ (Len(s) > 0 => m < Len(s))
  BY <1>1
<1>3. last = SubSeq(s, m + 1, Len(s))
  BY <1>1 DEF Diagnosis!LastOf
<1> HIDE DEF m
<1>4. LET back == SubSeq(s, m + 1, Len(s))
      IN  /\ back \in Seq(OutputLine) /\ Len(back) = Len(s) - m
          /\ \A k \in 1..Len(back) : m + k \in 1..Len(s) /\ back[k] = s[m + k]
  BY <1>2, Behind
<1> HIDE DEF last
<1>5. /\ last \in Seq(OutputLine) /\ Len(last) = Len(s) - m
      /\ \A k \in 1..Len(last) : m + k \in 1..Len(s) /\ last[k] = s[m + k]
  BY <1>3, <1>4
<1>6. Elements(last) \subseteq Elements(s)
  BY <1>5 DEF Elements
<1>7. s # <<>> => last # <<>>
  <2>1. s # <<>> => Len(s) > 0
    BY <1>1
  <2> QED BY <1>1, <1>2, <1>5, <2>1
<1>8. ASSUME Len(s) <= TailLines PROVE last = s
  <2>1. m = 0
    BY <1>1, <1>8 DEF m
  <2>2. Len(last) = Len(s) /\ \A k \in 1..Len(last) : last[k] = s[k]
    BY <1>1, <1>5, <2>1
  <2> QED BY <1>5, <2>2, SameSequence
<1> QED BY <1>5, <1>6, <1>7, <1>8 DEF last

-----------------------------------------------------------------------------
(* The evidence, what is kept of it, and the message at the end.           *)
EvidenceOf(phase) == Diagnosis!Evidence(phase.output)
Kept(phase) == Diagnosis!LastOf(TailLines, EvidenceOf(phase))
MessageOf(phase) == IF phase.retried THEN <<Diagnosis!Appended>> ELSE <<>>
LinesOf(phase) == Diagnosis!DetailLines(phase.output) \o MessageOf(phase)
AllMarks(phase) == UNION {Diagnosis!Sampled(phase.output[i]) : i \in DOMAIN phase.output}
Diagnostic(phase) == {line \in Elements(phase.output) : Diagnosis!IsDiagnosticOutput(line)}

LEMMA EvidenceIs ==
  ASSUME NEW phase, IsPhase(phase)
  PROVE  /\ EvidenceOf(phase) \in Seq(OutputLine) /\ Elements(EvidenceOf(phase)) = Diagnostic(phase)
         /\ Kept(phase) \in Seq(OutputLine) /\ Elements(Kept(phase)) \subseteq Diagnostic(phase)
         /\ EvidenceOf(phase) # <<>> => Kept(phase) # <<>>
         /\ Len(EvidenceOf(phase)) <= TailLines => Kept(phase) = EvidenceOf(phase)
<1> DEFINE seq == phase.output
           S == Diagnostic(phase)
<1>1. seq \in Seq(OutputLine)
  BY DEF IsPhase
<1>2. Diagnosis!ToSet(seq) = Elements(seq)
  BY <1>1 DEF Diagnosis!ToSet, Elements
<1>3. EvidenceOf(phase) = Sieve(seq, S)
  BY <1>2, DiagnosisLists DEF EvidenceOf, Diagnosis!Evidence, Diagnostic
<1> HIDE DEF seq
<1>4. S \subseteq Elements(seq)
  BY DEF Diagnostic, seq
<1> HIDE DEF S
<1>5. Sieve(seq, S) \in Seq(OutputLine)
  BY <1>1, SieveFirst
<1>6. Elements(Sieve(seq, S)) = Elements(seq) \cap S
  BY <1>1, SieveElements
<1>7. Elements(EvidenceOf(phase)) = S /\ EvidenceOf(phase) \in Seq(OutputLine)
  BY <1>3, <1>4, <1>5, <1>6
<1>8. LET last == Diagnosis!LastOf(TailLines, EvidenceOf(phase))
      IN  /\ last \in Seq(OutputLine) /\ Elements(last) \subseteq Elements(EvidenceOf(phase))
          /\ EvidenceOf(phase) # <<>> => last # <<>>
          /\ Len(EvidenceOf(phase)) <= TailLines => last = EvidenceOf(phase)
  BY <1>7, LastLines
<1> QED BY <1>7, <1>8 DEF Kept, S

(* What the detail consists of.                                            *)
LEMMA DetailParts ==
  ASSUME NEW phase, IsPhase(phase)
  PROVE  /\ LinesOf(phase) \in Seq(OutputLine)
         /\ Elements(LinesOf(phase)) \subseteq
              Elements(phase.output) \cup {Diagnosis!Separator, Diagnosis!Appended}
         /\ Kept(phase) # <<>> =>
              \E front \in Seq(OutputLine) : LinesOf(phase) = front \o (Kept(phase) \o MessageOf(phase))
<1> DEFINE tail == Diagnosis!LastOf(TailLines, phase.output)
           kept == Kept(phase)
           message == MessageOf(phase)
           separator == <<Diagnosis!Separator>>
           rest == IF kept = <<>> THEN <<>> ELSE separator \o kept
           out == Elements(phase.output)
<1>1. phase.output \in Seq(OutputLine)
  BY DEF IsPhase
<1>2. tail \in Seq(OutputLine) /\ Elements(tail) \subseteq out
  <2> DEFINE s == phase.output
  <2> HIDE DEF s
  <2>1. LET last == Diagnosis!LastOf(TailLines, s)
        IN  last \in Seq(OutputLine) /\ Elements(last) \subseteq Elements(s)
    BY <1>1, LastLines DEF s
  <2> QED BY <2>1 DEF s
<1>3. kept \in Seq(OutputLine) /\ Elements(kept) \subseteq out
  BY EvidenceIs DEF Diagnostic
<1>4. message \in Seq(OutputLine) /\ Elements(message) \subseteq {Diagnosis!Appended}
  BY OtherLines DEF MessageOf, Elements
<1>5. separator \in Seq(OutputLine) /\ Elements(separator) = {Diagnosis!Separator}
  BY OtherLines DEF Elements
<1>6. LinesOf(phase) = (tail \o rest) \o message
  BY DEF LinesOf, Diagnosis!DetailLines, Kept, EvidenceOf
<1> HIDE DEF tail, kept, message, separator
<1>7. <<>> \in Seq(OutputLine) /\ Elements(<<>>) = {}
  BY DEF Elements
<1>8. \A a \in Seq(OutputLine), b \in Seq(OutputLine) :
        a \o b \in Seq(OutputLine) /\ Elements(a \o b) = Elements(a) \cup Elements(b)
  BY Concatenated, ElementsConcat
<1>9. rest \in Seq(OutputLine) /\ Elements(rest) \subseteq out \cup {Diagnosis!Separator}
  BY <1>3, <1>5, <1>7, <1>8
<1> HIDE DEF rest, out
<1>10. tail \o rest \in Seq(OutputLine) /\ Elements(tail \o rest) \subseteq out \cup {Diagnosis!Separator}
  BY <1>2, <1>8, <1>9
<1>11. /\ LinesOf(phase) \in Seq(OutputLine)
       /\ Elements(LinesOf(phase)) \subseteq out \cup {Diagnosis!Separator, Diagnosis!Appended}
  BY <1>4, <1>6, <1>8, <1>10
<1>12. ASSUME kept # <<>>
       PROVE  \E front \in Seq(OutputLine) : LinesOf(phase) = front \o (kept \o message)
  <2> DEFINE front == tail \o separator
  <2>1. front \in Seq(OutputLine)
    BY <1>2, <1>5, <1>8
  <2>2. rest = separator \o kept
    BY <1>12 DEF rest
  <2>3. \A a \in Seq(OutputLine), b \in Seq(OutputLine), c \in Seq(OutputLine) : (a \o b) \o c = a \o (b \o c)
    BY ConcatThree
  <2>4. tail \o (separator \o kept) = front \o kept
    BY <1>2, <1>3, <1>5, <2>3
  <2>5. (front \o kept) \o message = front \o (kept \o message)
    <3> HIDE DEF front
    <3> QED BY <1>3, <1>4, <2>1, <2>3
  <2> QED BY <1>6, <2>1, <2>2, <2>4, <2>5
<1> QED BY <1>11, <1>12 DEF out, kept, message

(* A line of the evidence that is kept is seen if what follows it fits.    *)
LEMMA EvidenceSeen ==
  ASSUME NEW phase, IsPhase(phase), NEW k \in 1..Len(Kept(phase)),
         Diagnosis!SizeFrom(Kept(phase) \o MessageOf(phase), k) <= DetailSize
  PROVE  Kept(phase)[k].marks \subseteq Diagnosis!DetailMarks(phase)
<1> DEFINE kept == Kept(phase)
           back == kept \o MessageOf(phase)
           lines == LinesOf(phase)
<1>1. kept \in Seq(OutputLine) /\ MessageOf(phase) \in Seq(OutputLine) /\ kept # <<>>
  BY EvidenceIs, OtherLines DEF MessageOf
<1>2. PICK front \in Seq(OutputLine) : lines = front \o back
  BY <1>1, DetailParts
<1>3. /\ back \in Seq(OutputLine) /\ Len(kept) \in Nat /\ Len(back) \in Nat
      /\ k \in 1..Len(back) /\ back[k] = kept[k]
  <2> HIDE DEF kept
  <2>1. k \in 1..Len(kept)
    BY DEF kept
  <2> QED BY <1>1, <2>1, Concatenated
<1> HIDE DEF back, lines
<1> DEFINE j == Len(front) + k
<1>4. j \in 1..Len(lines) /\ lines[j] = back[k]
  BY <1>2, <1>3, Concatenated
<1>5. Diagnosis!SizeFrom(lines, j) = Diagnosis!SizeFrom(back, k)
  <2>1. SubSeq(front \o back, Len(front) + k, Len(front \o back)) = SubSeq(back, k, Len(back))
    BY <1>3, BackOfConcat
  <2> QED BY <1>2, <2>1 DEF Diagnosis!SizeFrom
<1>6. lines \in Seq(OutputLine)
  BY DetailParts DEF lines
<1> HIDE DEF j
<1>7. j \in DOMAIN lines /\ Diagnosis!SizeFrom(lines, j) <= DetailSize
  BY <1>4, <1>5, <1>6 DEF back
<1>8. Diagnosis!DetailMarks(phase) =
        UNION {lines[i].marks : i \in {n \in DOMAIN lines : Diagnosis!SizeFrom(lines, n) <= DetailSize}}
  BY DEF Diagnosis!DetailMarks, lines, LinesOf, MessageOf
<1>9. lines[j].marks \subseteq Diagnosis!DetailMarks(phase)
  BY <1>7, <1>8
<1> QED BY <1>3, <1>4, <1>9 DEF kept

(* Nothing is seen that is not in the output.                              *)
LEMMA NothingElseSeen ==
  ASSUME NEW phase, IsPhase(phase)
  PROVE  Diagnosis!DetailMarks(phase) \subseteq AllMarks(phase)
<1> DEFINE lines == LinesOf(phase)
<1>1. /\ lines \in Seq(OutputLine)
      /\ Elements(lines) \subseteq Elements(phase.output) \cup {Diagnosis!Separator, Diagnosis!Appended}
  BY DetailParts
<1>2. Diagnosis!DetailMarks(phase) =
        UNION {lines[i].marks : i \in {n \in DOMAIN lines : Diagnosis!SizeFrom(lines, n) <= DetailSize}}
  BY DEF Diagnosis!DetailMarks, LinesOf, MessageOf
<1> HIDE DEF lines
<1>3. phase.output \in Seq(OutputLine)
  BY DEF IsPhase
<1> SUFFICES ASSUME NEW i \in DOMAIN lines, NEW m \in lines[i].marks PROVE m \in AllMarks(phase)
  BY <1>2
<1>4. lines[i] \in Elements(lines)
  BY <1>1 DEF Elements
<1>5. lines[i] \in Elements(phase.output)
  BY <1>1, <1>4, OtherLines
<1>6. PICK n \in 1..Len(phase.output) : lines[i] = phase.output[n]
  BY <1>5 DEF Elements
<1>7. n \in DOMAIN phase.output
  BY <1>3
<1> QED BY <1>6, <1>7 DEF AllMarks, Diagnosis!Sampled

-----------------------------------------------------------------------------
(* The rules of diagnose_failure: the first that applies decides.          *)
LEMMA FirstRule ==
  ASSUME NEW code, NEW found, NEW observed, NEW network, NEW name
  PROVE  LET rules == Diagnosis!Rules(code, found, observed, network, name)
         IN  \E i \in 1..13 : /\ rules[i].when /\ \A j \in 1..13 : rules[j].when => i <= j
                              /\ Diagnosis!DiagnoseFailure(code, found, observed, network, name) = rules[i].verdict
<1> DEFINE rules == Diagnosis!Rules(code, found, observed, network, name)
           S == {i \in DOMAIN rules : rules[i].when}
<1>1. DOMAIN rules = 1..13 /\ rules[13].when
  BY DEF Diagnosis!Rules, Diagnosis!Rule
<1>2. Diagnosis!DiagnoseFailure(code, found, observed, network, name) = rules[Diagnosis!Min(S)].verdict
  BY DEF Diagnosis!DiagnoseFailure
<1> HIDE DEF rules
<1>3. S \in SUBSET Nat /\ S # {}
  BY <1>1
<1>4. PICK least \in S : \A i \in S : least <= i
  <2> HIDE DEF S
  <2> QED BY <1>3, LeastNatural
<1>5. Diagnosis!Min(S) \in S /\ \A i \in S : Diagnosis!Min(S) <= i
  <2> HIDE DEF S
  <2> QED BY <1>4 DEF Diagnosis!Min
<1> QED BY <1>1, <1>2, <1>5 DEF rules

(* The tests of the rules, and their verdicts.                             *)
Tests(rules, code, found, observed, network, name) ==
  /\ rules[1].when <=> code = 0
  /\ rules[2].when <=> "read-only store" \in found
  /\ rules[3].when <=> (code = 125 \/ "daemon" \in found)
  /\ rules[4].when <=> (name = "prepare" /\ found \cap {"fetch broken", "unresolved"} # {})
  /\ rules[5].when <=> "no java" \in found
  /\ rules[6].when <=> (name = "prepare" /\ "platform" \in found)
  /\ rules[7].when <=> {"your ruby", "gemfile's ruby"} \subseteq found
  /\ rules[8].when <=> {"no makefile", "no headers"} \subseteq found
  /\ rules[9].when <=> "agreement" \in found
  /\ rules[10].when <=> (network = "none" /\ Diagnosis!OfflineGap(found))
  /\ rules[11].when <=> Diagnosis!Missing(found, observed) # {}
  /\ rules[12].when <=> code \in {126, 127}
  /\ rules[13].when
Verdicts(rules, found, observed) ==
  /\ rules[1].verdict = Diagnosis!Verdict("pass", {})
  /\ rules[2].verdict = Diagnosis!Infra("runner_storage")
  /\ rules[3].verdict = Diagnosis!Infra("runner_infrastructure")
  /\ rules[4].verdict = Diagnosis!Infra("dependency_preparation_infrastructure")
  /\ rules[5].verdict = Diagnosis!Gap("missing_java_toolchain")
  /\ rules[6].verdict = Diagnosis!Gap("php_platform_requirement")
  /\ rules[7].verdict = Diagnosis!Gap("ruby_runtime_requirement")
  /\ rules[8].verdict = Diagnosis!Gap("ruby_native_build_requirement")
  /\ rules[9].verdict = Diagnosis!Gap("external_agreement_required")
  /\ rules[10].verdict = Diagnosis!Gap("network_policy")
  /\ rules[11].verdict = Diagnosis!Verdict("environment_gap", Diagnosis!Missing(found, observed))
  /\ rules[12].verdict = Diagnosis!Gap("missing_executable")
  /\ rules[13].verdict = Diagnosis!Verdict("test_failure", {})

LEMMA RuleList ==
  ASSUME NEW code, NEW found, NEW observed, NEW network, NEW name
  PROVE  LET rules == Diagnosis!Rules(code, found, observed, network, name)
         IN  Tests(rules, code, found, observed, network, name) /\ Verdicts(rules, found, observed)
<1>1. Tests(Diagnosis!Rules(code, found, observed, network, name), code, found, observed, network, name)
  BY DEF Tests, Diagnosis!Rules, Diagnosis!Rule
<1>2. Verdicts(Diagnosis!Rules(code, found, observed, network, name), found, observed)
  BY DEF Verdicts, Diagnosis!Rules, Diagnosis!Rule
<1> QED BY <1>1, <1>2

(* The tests look at the marks, and at nothing that only the selector of   *)
(* missing executables reads.                                              *)
SameFound(one, two) == \A m \in Diagnosis!Marks : m # "selector" => (m \in one <=> m \in two)

LEMMA SameTests ==
  ASSUME NEW code, NEW one, NEW two, SameFound(one, two), NEW observed, NEW network, NEW name
  PROVE  LET first  == Diagnosis!Rules(code, one, observed, network, name)
             second == Diagnosis!Rules(code, two, observed, network, name)
         IN  \A i \in 1..13 : /\ first[i].when <=> second[i].when
                              /\ first[i].verdict = second[i].verdict
<1> DEFINE first == Diagnosis!Rules(code, one, observed, network, name)
           second == Diagnosis!Rules(code, two, observed, network, name)
           same(marks) == \A m \in marks : m \in one <=> m \in two
<1>1. same({"read-only store", "daemon", "fetch broken", "unresolved", "no java", "platform", "your ruby",
            "gemfile's ruby", "no makefile", "no headers", "agreement", "offline mode", "uncached",
            "running offline", "unparsed", "no gem", "local gems", "lookup", "command not found", "not found",
            "library", "permission"})
  BY DEF SameFound, Diagnosis!Marks, Diagnosis!Known, Diagnosis!Unknown
<1>2. Diagnosis!NamedMissing(one) = Diagnosis!NamedMissing(two)
  BY <1>1 DEF Diagnosis!NamedMissing
<1>3. Diagnosis!Missing(one, observed) = Diagnosis!Missing(two, observed)
  BY <1>1, <1>2 DEF Diagnosis!Missing
<1>4. Diagnosis!OfflineGap(one) <=> Diagnosis!OfflineGap(two)
  BY <1>1 DEF Diagnosis!OfflineGap
<1>5. /\ Tests(first, code, one, observed, network, name) /\ Verdicts(first, one, observed)
      /\ Tests(second, code, two, observed, network, name) /\ Verdicts(second, two, observed)
  BY RuleList
<1> HIDE DEF first, second
<1>6. /\ first[1].when <=> second[1].when
      /\ first[2].when <=> second[2].when
      /\ first[3].when <=> second[3].when
      /\ first[4].when <=> second[4].when
      /\ first[5].when <=> second[5].when
      /\ first[6].when <=> second[6].when
      /\ first[7].when <=> second[7].when
      /\ first[8].when <=> second[8].when
      /\ first[9].when <=> second[9].when
      /\ first[10].when <=> second[10].when
      /\ first[11].when <=> second[11].when
      /\ first[12].when <=> second[12].when
      /\ first[13].when <=> second[13].when
  <2>1. /\ "read-only store" \in one <=> "read-only store" \in two
        /\ "daemon" \in one <=> "daemon" \in two
        /\ "no java" \in one <=> "no java" \in two
        /\ "platform" \in one <=> "platform" \in two
        /\ "agreement" \in one <=> "agreement" \in two
        /\ one \cap {"fetch broken", "unresolved"} # {} <=> two \cap {"fetch broken", "unresolved"} # {}
        /\ {"your ruby", "gemfile's ruby"} \subseteq one <=> {"your ruby", "gemfile's ruby"} \subseteq two
        /\ {"no makefile", "no headers"} \subseteq one <=> {"no makefile", "no headers"} \subseteq two
    BY <1>1
  <2>2. first[1].when <=> second[1].when
    BY <1>3, <1>4, <1>5, <2>1 DEF Tests
  <2>3. first[2].when <=> second[2].when
    BY <1>3, <1>4, <1>5, <2>1 DEF Tests
  <2>4. first[3].when <=> second[3].when
    BY <1>3, <1>4, <1>5, <2>1 DEF Tests
  <2>5. first[4].when <=> second[4].when
    BY <1>3, <1>4, <1>5, <2>1 DEF Tests
  <2>6. first[5].when <=> second[5].when
    BY <1>3, <1>4, <1>5, <2>1 DEF Tests
  <2>7. first[6].when <=> second[6].when
    BY <1>3, <1>4, <1>5, <2>1 DEF Tests
  <2>8. first[7].when <=> second[7].when
    BY <1>3, <1>4, <1>5, <2>1 DEF Tests
  <2>9. first[8].when <=> second[8].when
    BY <1>3, <1>4, <1>5, <2>1 DEF Tests
  <2>10. first[9].when <=> second[9].when
    BY <1>3, <1>4, <1>5, <2>1 DEF Tests
  <2>11. first[10].when <=> second[10].when
    BY <1>3, <1>4, <1>5, <2>1 DEF Tests
  <2>12. first[11].when <=> second[11].when
    BY <1>3, <1>4, <1>5, <2>1 DEF Tests
  <2>13. first[12].when <=> second[12].when
    BY <1>3, <1>4, <1>5, <2>1 DEF Tests
  <2>14. first[13].when <=> second[13].when
    BY <1>3, <1>4, <1>5, <2>1 DEF Tests
  <2> QED BY <2>2, <2>3, <2>4, <2>5, <2>6, <2>7, <2>8, <2>9, <2>10, <2>11, <2>12, <2>13, <2>14
<1>7. /\ first[1].verdict = second[1].verdict
      /\ first[2].verdict = second[2].verdict
      /\ first[3].verdict = second[3].verdict
      /\ first[4].verdict = second[4].verdict
      /\ first[5].verdict = second[5].verdict
      /\ first[6].verdict = second[6].verdict
      /\ first[7].verdict = second[7].verdict
      /\ first[8].verdict = second[8].verdict
      /\ first[9].verdict = second[9].verdict
      /\ first[10].verdict = second[10].verdict
      /\ first[11].verdict = second[11].verdict
      /\ first[12].verdict = second[12].verdict
      /\ first[13].verdict = second[13].verdict
  <2>1. first[1].verdict = second[1].verdict
    BY <1>3, <1>5 DEF Verdicts
  <2>2. first[2].verdict = second[2].verdict
    BY <1>3, <1>5 DEF Verdicts
  <2>3. first[3].verdict = second[3].verdict
    BY <1>3, <1>5 DEF Verdicts
  <2>4. first[4].verdict = second[4].verdict
    BY <1>3, <1>5 DEF Verdicts
  <2>5. first[5].verdict = second[5].verdict
    BY <1>3, <1>5 DEF Verdicts
  <2>6. first[6].verdict = second[6].verdict
    BY <1>3, <1>5 DEF Verdicts
  <2>7. first[7].verdict = second[7].verdict
    BY <1>3, <1>5 DEF Verdicts
  <2>8. first[8].verdict = second[8].verdict
    BY <1>3, <1>5 DEF Verdicts
  <2>9. first[9].verdict = second[9].verdict
    BY <1>3, <1>5 DEF Verdicts
  <2>10. first[10].verdict = second[10].verdict
    BY <1>3, <1>5 DEF Verdicts
  <2>11. first[11].verdict = second[11].verdict
    BY <1>3, <1>5 DEF Verdicts
  <2>12. first[12].verdict = second[12].verdict
    BY <1>3, <1>5 DEF Verdicts
  <2>13. first[13].verdict = second[13].verdict
    BY <1>3, <1>5 DEF Verdicts
  <2> QED BY <2>1, <2>2, <2>3, <2>4, <2>5, <2>6, <2>7, <2>8, <2>9, <2>10, <2>11, <2>12, <2>13
<1>8. ASSUME NEW i \in 1..13
      PROVE  (first[i].when <=> second[i].when) /\ first[i].verdict = second[i].verdict
  <2>1. i = 1 \/ i = 2 \/ i = 3 \/ i = 4 \/ i = 5 \/ i = 6 \/ i = 7 \/ i = 8 \/ i = 9 \/ i = 10
        \/ i = 11 \/ i = 12 \/ i = 13
    OBVIOUS
  <2> QED BY <1>6, <1>7, <2>1
<1> QED BY <1>8 DEF first, second

LEMMA SameVerdict ==
  ASSUME NEW code, NEW one, NEW two, SameFound(one, two), NEW observed, NEW network, NEW name
  PROVE  Diagnosis!DiagnoseFailure(code, one, observed, network, name)
           = Diagnosis!DiagnoseFailure(code, two, observed, network, name)
<1> DEFINE first == Diagnosis!Rules(code, one, observed, network, name)
           second == Diagnosis!Rules(code, two, observed, network, name)
<1>1. \A i \in 1..13 : (first[i].when <=> second[i].when) /\ first[i].verdict = second[i].verdict
  BY SameTests
<1>2. \E i \in 1..13 : /\ first[i].when /\ \A j \in 1..13 : first[j].when => i <= j
                       /\ Diagnosis!DiagnoseFailure(code, one, observed, network, name) = first[i].verdict
  BY FirstRule
<1>3. \E i \in 1..13 : /\ second[i].when /\ \A j \in 1..13 : second[j].when => i <= j
                       /\ Diagnosis!DiagnoseFailure(code, two, observed, network, name) = second[i].verdict
  BY FirstRule
<1> HIDE DEF first, second
<1>4. PICK i \in 1..13 : /\ first[i].when /\ \A j \in 1..13 : first[j].when => i <= j
                         /\ Diagnosis!DiagnoseFailure(code, one, observed, network, name) = first[i].verdict
  BY <1>2
<1>5. PICK k \in 1..13 : /\ second[k].when /\ \A j \in 1..13 : second[j].when => k <= j
                         /\ Diagnosis!DiagnoseFailure(code, two, observed, network, name) = second[k].verdict
  BY <1>3
<1>6. i = k
  BY <1>1, <1>4, <1>5
<1> QED BY <1>1, <1>4, <1>5, <1>6

(* More marks do not turn a verdict on the machine or the environment into *)
(* one on the tests.                                                       *)
LEMMA NotBlamed ==
  ASSUME NEW code, NEW found, NEW observed, NEW network, NEW name
  PROVE  Diagnosis!DiagnoseFailure(code, found, observed, network, name).status # "test_failure"
           <=> \E i \in 1..12 : Diagnosis!Rules(code, found, observed, network, name)[i].when
<1> DEFINE rules == Diagnosis!Rules(code, found, observed, network, name)
<1>1. \E i \in 1..13 : /\ rules[i].when /\ \A j \in 1..13 : rules[j].when => i <= j
                       /\ Diagnosis!DiagnoseFailure(code, found, observed, network, name) = rules[i].verdict
  BY FirstRule
<1>2. Verdicts(rules, found, observed)
  BY RuleList
<1> HIDE DEF rules
<1>3. /\ rules[1].verdict.status # "test_failure"
      /\ rules[2].verdict.status # "test_failure"
      /\ rules[3].verdict.status # "test_failure"
      /\ rules[4].verdict.status # "test_failure"
      /\ rules[5].verdict.status # "test_failure"
      /\ rules[6].verdict.status # "test_failure"
      /\ rules[7].verdict.status # "test_failure"
      /\ rules[8].verdict.status # "test_failure"
      /\ rules[9].verdict.status # "test_failure"
      /\ rules[10].verdict.status # "test_failure"
      /\ rules[11].verdict.status # "test_failure"
      /\ rules[12].verdict.status # "test_failure"
      /\ rules[13].verdict.status = "test_failure"
  BY <1>2 DEF Verdicts, Diagnosis!Verdict, Diagnosis!Infra, Diagnosis!Gap
<1>4. PICK i \in 1..13 : /\ rules[i].when /\ \A j \in 1..13 : rules[j].when => i <= j
                         /\ Diagnosis!DiagnoseFailure(code, found, observed, network, name) = rules[i].verdict
  BY <1>1
<1>5. CASE i = 13
  <2>1. \A j \in 1..12 : j \in 1..13 /\ ~(13 <= j)
    OBVIOUS
  <2>2. \A j \in 1..12 : ~rules[j].when
    BY <1>4, <1>5, <2>1
  <2> QED BY <1>3, <1>4, <1>5, <2>2 DEF rules
<1>6. CASE i # 13
  <2>1. i \in 1..12
    BY <1>6
  <2>2. i = 1 \/ i = 2 \/ i = 3 \/ i = 4 \/ i = 5 \/ i = 6 \/ i = 7 \/ i = 8 \/ i = 9 \/ i = 10
        \/ i = 11 \/ i = 12
    BY <2>1
  <2>3. rules[i].verdict.status # "test_failure"
    BY <1>3, <2>2
  <2> QED BY <1>4, <2>1, <2>3 DEF rules
<1> QED BY <1>5, <1>6

LEMMA MissingMeans ==
  ASSUME NEW found, NEW observed
  PROVE  Diagnosis!Missing(found, observed) # {} <=>
           \/ found \cap {"command not found", "not found"} # {} \/ "library" \in found
           \/ "permission" \in found \/ observed
<1> DEFINE named == Diagnosis!NamedMissing(found)
<1>1. named # {} <=> found \cap {"command not found", "not found"} # {} \/ "library" \in found
  <2>1. "missing_executable" \in named <=> found \cap {"command not found", "not found"} # {}
    BY DEF Diagnosis!NamedMissing
  <2>2. "missing_shared_library" \in named <=> "library" \in found
    BY DEF Diagnosis!NamedMissing
  <2>3. named \subseteq {"missing_executable", "missing_shared_library"}
    BY DEF Diagnosis!NamedMissing
  <2> QED BY <2>1, <2>2, <2>3
<1> HIDE DEF named
<1>2. Diagnosis!Missing(found, observed) =
        named \cup (IF "permission" \in found /\ named = {} THEN {"environment_permission"} ELSE {})
          \cup (IF observed THEN {"missing_executable"} ELSE {})
  BY DEF Diagnosis!Missing, named
<1> QED BY <1>1, <1>2

LEMMA MoreApplies ==
  ASSUME NEW code, NEW one, NEW two, one \subseteq two, NEW network, NEW name,
         NEW before, NEW observed,
         Diagnosis!Missing(one, before) # {} => Diagnosis!Missing(two, observed) # {},
         NEW i \in 1..12, Diagnosis!Rules(code, one, before, network, name)[i].when
  PROVE  Diagnosis!Rules(code, two, observed, network, name)[i].when
<1> DEFINE first == Diagnosis!Rules(code, one, before, network, name)
           second == Diagnosis!Rules(code, two, observed, network, name)
<1>1. Diagnosis!OfflineGap(one) => Diagnosis!OfflineGap(two)
  BY DEF Diagnosis!OfflineGap
<1>2. Diagnosis!Missing(one, before) # {} => Diagnosis!Missing(two, observed) # {}
  OBVIOUS
<1>3. /\ one \cap {"fetch broken", "unresolved"} # {} => two \cap {"fetch broken", "unresolved"} # {}
      /\ {"your ruby", "gemfile's ruby"} \subseteq one => {"your ruby", "gemfile's ruby"} \subseteq two
      /\ {"no makefile", "no headers"} \subseteq one => {"no makefile", "no headers"} \subseteq two
      /\ "read-only store" \in one => "read-only store" \in two
      /\ "daemon" \in one => "daemon" \in two
      /\ "no java" \in one => "no java" \in two
      /\ "platform" \in one => "platform" \in two
      /\ "agreement" \in one => "agreement" \in two
  OBVIOUS
<1>4. Tests(first, code, one, before, network, name) /\ Tests(second, code, two, observed, network, name)
  BY RuleList
<1>5. first[i].when
  OBVIOUS
<1> HIDE DEF first, second
<1>6. /\ first[1].when => second[1].when
      /\ first[2].when => second[2].when
      /\ first[3].when => second[3].when
      /\ first[4].when => second[4].when
      /\ first[5].when => second[5].when
      /\ first[6].when => second[6].when
      /\ first[7].when => second[7].when
      /\ first[8].when => second[8].when
      /\ first[9].when => second[9].when
      /\ first[10].when => second[10].when
      /\ first[11].when => second[11].when
      /\ first[12].when => second[12].when
  <2>1. first[1].when => second[1].when
    BY <1>1, <1>2, <1>3, <1>4 DEF Tests
  <2>2. first[2].when => second[2].when
    BY <1>1, <1>2, <1>3, <1>4 DEF Tests
  <2>3. first[3].when => second[3].when
    BY <1>1, <1>2, <1>3, <1>4 DEF Tests
  <2>4. first[4].when => second[4].when
    BY <1>1, <1>2, <1>3, <1>4 DEF Tests
  <2>5. first[5].when => second[5].when
    BY <1>1, <1>2, <1>3, <1>4 DEF Tests
  <2>6. first[6].when => second[6].when
    BY <1>1, <1>2, <1>3, <1>4 DEF Tests
  <2>7. first[7].when => second[7].when
    BY <1>1, <1>2, <1>3, <1>4 DEF Tests
  <2>8. first[8].when => second[8].when
    BY <1>1, <1>2, <1>3, <1>4 DEF Tests
  <2>9. first[9].when => second[9].when
    BY <1>1, <1>2, <1>3, <1>4 DEF Tests
  <2>10. first[10].when => second[10].when
    BY <1>1, <1>2, <1>3, <1>4 DEF Tests
  <2>11. first[11].when => second[11].when
    BY <1>1, <1>2, <1>3, <1>4 DEF Tests
  <2>12. first[12].when => second[12].when
    BY <1>1, <1>2, <1>3, <1>4 DEF Tests
  <2> QED BY <2>1, <2>2, <2>3, <2>4, <2>5, <2>6, <2>7, <2>8, <2>9, <2>10, <2>11, <2>12
<1>7. i = 1 \/ i = 2 \/ i = 3 \/ i = 4 \/ i = 5 \/ i = 6 \/ i = 7 \/ i = 8 \/ i = 9 \/ i = 10
        \/ i = 11 \/ i = 12
  OBVIOUS
<1>8. second[i].when
  BY <1>5, <1>6, <1>7
<1> QED BY <1>8 DEF second

(* A verdict on the machine or the environment is not lost because the     *)
(* output of a phase was long and noisy, where the ends of its telling     *)
(* lines tell it.                                                          *)
THEOREM DiagnosisIsKept ==
  ASSUME input.of = "diagnosis" => IsPhase(input.phase)
  PROVE  DiagnosisSurvives
<1> SUFFICES ASSUME NEW phase, IsPhase(phase) PROVE Diagnosis!VerdictSurvives(phase)
  BY DEF DiagnosisSurvives
<1> DEFINE evidence == EvidenceOf(phase)
           observed == Diagnosis!Observed(phase)
           network == Diagnosis!Network(phase)
           seen == Diagnosis!DetailMarks(phase)
           room == DetailSize - (IF phase.retried THEN Diagnosis!Appended.size ELSE 0)
           message == MessageOf(phase)
           kept == Kept(phase)
<1>1. /\ evidence \in Seq(OutputLine) /\ Elements(evidence) = Diagnostic(phase)
      /\ kept \in Seq(OutputLine) /\ Elements(kept) \subseteq Diagnostic(phase)
      /\ evidence # <<>> => kept # <<>>
      /\ Len(evidence) <= TailLines => kept = evidence
  BY EvidenceIs
<1>2. phase.output \in Seq(OutputLine) /\ phase.retried \in BOOLEAN
  BY DEF IsPhase
<1>3. /\ message \in Seq(OutputLine)
      /\ Diagnosis!SizeOf(message) = IF phase.retried THEN Diagnosis!Appended.size ELSE 0
      /\ Diagnosis!SizeOf(message) \in {0, 1}
  <2>1. Diagnosis!SizeOf(<<Diagnosis!Appended>>) = 1 /\ Diagnosis!SizeOf(<<>>) = 0
    BY OtherLines, SizeOfOne
  <2> QED BY <1>2, <2>1, OtherLines DEF MessageOf
<1>4. Diagnosis!Diagnosed(phase) = Diagnosis!DiagnoseFailure(phase.code, seen, observed, network, phase.name)
  BY DEF Diagnosis!Diagnosed
<1>5. DetailSize \in Nat
  BY SizesAssumption
<1> HIDE DEF evidence, observed, network, seen, message, kept
<1>6. \A k \in 1..Len(kept) : Diagnosis!SizeFrom(kept \o message, k) <= DetailSize => kept[k].marks \subseteq seen
  BY EvidenceSeen DEF kept, message, seen
<1>7. ASSUME Len(evidence) <= TailLines, Diagnosis!SizeFrom(evidence, 1) <= room,
             \A i \in DOMAIN phase.output : \/ Diagnosis!Silent(phase.output[i])
                                             \/ Diagnosis!TellsAtItsEnd(phase.output[i])
      PROVE  Diagnosis!Diagnosed(phase) = Diagnosis!OfAll(phase)
  <2>1. kept = evidence
    BY <1>1, <1>7
  <2>2. Diagnosis!SizeFrom(evidence, 1) = Diagnosis!SizeOf(evidence)
    <3>1. SubSeq(evidence, 1, Len(evidence)) = evidence
      BY <1>1
    <3> QED BY <3>1 DEF Diagnosis!SizeFrom
  <2> DEFINE both == evidence \o message
  <2>3. /\ both \in Seq(OutputLine) /\ Diagnosis!SizeOf(both) <= DetailSize /\ Diagnosis!SizeOf(both) \in Nat
        /\ Len(evidence) \in Nat /\ Len(both) \in Nat /\ Len(evidence) <= Len(both)
    <3>1. both \in Seq(OutputLine) /\ Len(both) = Len(evidence) + Len(message) /\ Len(evidence) \in Nat /\ Len(message) \in Nat
      BY <1>1, <1>3, Concatenated
    <3>2. /\ Diagnosis!SizeOf(evidence) \in Nat /\ Diagnosis!SizeOf(message) \in Nat
          /\ Diagnosis!SizeOf(both) = Diagnosis!SizeOf(evidence) + Diagnosis!SizeOf(message)
      BY <1>1, <1>3, SizesAdd
    <3>3. Diagnosis!SizeOf(evidence) <= DetailSize - Diagnosis!SizeOf(message)
      BY <1>3, <1>7, <2>2
    <3> HIDE DEF both
    <3> QED BY <1>5, <3>1, <3>2, <3>3
  <2> HIDE DEF both
  <2>4. ASSUME NEW k \in 1..Len(evidence) PROVE evidence[k].marks \subseteq seen
    <3>1. k \in 1..Len(both)
      BY <2>3
    <3>2. Diagnosis!SizeFrom(both, k) <= Diagnosis!SizeOf(both) /\ Diagnosis!SizeFrom(both, k) \in Nat
      BY <2>3, <3>1, BackIsShorter
    <3>3. Diagnosis!SizeFrom(both, k) <= DetailSize
      BY <1>5, <2>3, <3>2
    <3> QED BY <1>6, <2>1, <3>3 DEF both
  <2>5. ASSUME NEW i \in DOMAIN phase.output, NEW m \in Diagnosis!Sampled(phase.output[i]), m # "selector"
        PROVE  m \in seen
    <3>1. Diagnosis!IsDiagnosticOutput(phase.output[i]) /\ m \in phase.output[i].marks
      <4> DEFINE line == phase.output[i]
      <4>1. Diagnosis!Silent(line) \/ Diagnosis!TellsAtItsEnd(line)
        BY <1>7, <2>5
      <4>2. m \in Diagnosis!Sampled(line) /\ m # "selector"
        BY <2>5
      <4> HIDE DEF line
      <4>3. ~Diagnosis!Silent(line)
        BY <4>2 DEF Diagnosis!Silent
      <4>4. Diagnosis!IsDiagnosticOutput(line) /\ m \in line.marks
        BY <4>1, <4>2, <4>3 DEF Diagnosis!TellsAtItsEnd, Diagnosis!Sampled
      <4> QED BY <4>4 DEF line
    <3>2. phase.output[i] \in Elements(evidence)
      BY <1>1, <1>2, <3>1 DEF Diagnostic, Elements
    <3>3. PICK k \in 1..Len(evidence) : evidence[k] = phase.output[i]
      BY <3>2 DEF Elements
    <3> QED BY <2>4, <3>1, <3>3
  <2>6. seen \subseteq AllMarks(phase)
    BY NothingElseSeen DEF seen
  <2>7. SameFound(seen, AllMarks(phase))
    BY <2>5, <2>6 DEF SameFound, AllMarks
  <2>8. Diagnosis!OfAll(phase) = Diagnosis!DiagnoseFailure(phase.code, AllMarks(phase), observed, network, phase.name)
    BY DEF Diagnosis!OfAll, AllMarks, observed, network
  <2> QED BY <1>4, <2>7, <2>8, SameVerdict
<1>8. ASSUME evidence # <<>>,
             \A i \in DOMAIN evidence : Diagnosis!OfLine(phase, evidence[i]).status # "test_failure"
      PROVE  Diagnosis!Diagnosed(phase).status # "test_failure"
  <2> DEFINE k == Len(kept)
             last == kept[k]
  <2>1. k \in 1..Len(kept) /\ k \in Nat /\ last \in OutputLine /\ last \in Elements(kept)
    BY <1>1, <1>8 DEF Elements
  <2>2. Diagnosis!SizeFrom(kept \o message, k) = last.size + Diagnosis!SizeOf(message)
    <3>1. PICK front \in Seq(OutputLine) : kept = front \o <<last>> /\ Len(front) = k - 1
      <4> DEFINE front == SubSeq(kept, 1, k - 1)
      <4>1. k - 1 \in Nat /\ k - 1 <= Len(kept) /\ (k - 1) + 1 = k
        BY <2>1
      <4>2. front \in Seq(OutputLine) /\ front \o SubSeq(kept, k, Len(kept)) = kept
        BY <1>1, <4>1, Parts
      <4>3. Len(front) = k - 1
        <5>1. \A s \in Seq(OutputLine), n \in Nat : n <= Len(s) => Len(SubSeq(s, 1, n)) = n
          OBVIOUS
        <5> QED BY <1>1, <4>1, <5>1
      <4>4. SubSeq(kept, k, Len(kept)) = <<last>>
        <5> DEFINE tail == SubSeq(kept, (k - 1) + 1, Len(kept))
        <5>1. tail \in Seq(OutputLine) /\ Len(tail) = Len(kept) - (k - 1)
              /\ \A n \in 1..Len(tail) : tail[n] = kept[(k - 1) + n]
          BY <1>1, <4>1, Behind
        <5> HIDE DEF tail
        <5>2. Len(tail) = 1 /\ tail[1] = last
          BY <2>1, <5>1
        <5>3. tail = <<last>>
          BY <5>1, <5>2
        <5> QED BY <4>1, <5>3 DEF tail
      <4> QED BY <4>2, <4>3, <4>4
    <3> DEFINE one == <<last>>
               back == one \o message
    <3>2. one \in Seq(OutputLine) /\ Len(one) = 1 /\ Diagnosis!SizeOf(one) = last.size
      BY <2>1, SizeOfOne
    <3> HIDE DEF one, last
    <3>3. kept \o message = front \o back
      <4>1. \A a \in Seq(OutputLine), b \in Seq(OutputLine), c \in Seq(OutputLine) : (a \o b) \o c = a \o (b \o c)
        BY ConcatThree
      <4>2. kept = front \o one
        BY <3>1 DEF one
      <4>3. (front \o one) \o message = front \o (one \o message)
        <5>1. front \in Seq(OutputLine) /\ one \in Seq(OutputLine) /\ message \in Seq(OutputLine)
          BY <1>3, <3>1, <3>2
        <5> QED BY <4>1, <5>1
      <4> QED BY <4>2, <4>3
    <3>4. /\ back \in Seq(OutputLine) /\ Len(back) = Len(one) + Len(message) /\ Len(message) \in Nat
          /\ Diagnosis!SizeOf(back) = Diagnosis!SizeOf(one) + Diagnosis!SizeOf(message)
      BY <1>3, <3>2, Concatenated, SizesAdd
    <3> HIDE DEF back
    <3>5. 1 \in 1..Len(back) /\ Len(front) + 1 = k
      BY <2>1, <3>1, <3>2, <3>4
    <3>6. SubSeq(front \o back, Len(front) + 1, Len(front \o back)) = SubSeq(back, 1, Len(back))
      BY <3>4, <3>5, BackOfConcat
    <3>7. SubSeq(back, 1, Len(back)) = back
      BY <3>4
    <3> QED BY <3>2, <3>3, <3>4, <3>5, <3>6, <3>7 DEF Diagnosis!SizeFrom
  <2>3. last.size + Diagnosis!SizeOf(message) <= DetailSize
    <3>1. last \in Elements(phase.output)
      BY <1>1, <2>1 DEF Diagnostic
    <3>2. PICK i \in 1..Len(phase.output) : last = phase.output[i]
      BY <3>1 DEF Elements
    <3>3. last.size + 1 <= DetailSize /\ last.size \in Nat
      BY <2>1, <3>2, OtherLines DEF IsPhase, OutputLine
    <3> HIDE DEF last
    <3> QED BY <1>3, <1>5, <3>3
  <2>4. last.marks \subseteq seen
    BY <1>6, <2>1, <2>2, <2>3
  <2>5. last \in Elements(evidence)
    BY <1>1, <2>1
  <2>6. Diagnosis!OfLine(phase, last).status # "test_failure"
    <3> HIDE DEF last
    <3>1. PICK i \in 1..Len(evidence) : last = evidence[i]
      BY <2>5 DEF Elements
    <3> QED BY <1>1, <1>8, <3>1
  <2> DEFINE marks == last.marks
             quiet == FALSE
  <2> HIDE DEF last
  <2>7. Diagnosis!OfLine(phase, last) = Diagnosis!DiagnoseFailure(phase.code, marks, quiet, network, phase.name)
    BY DEF Diagnosis!OfLine, network
  <2> HIDE DEF marks
  <2>8. Diagnosis!Missing(marks, quiet) # {} => Diagnosis!Missing(seen, observed) # {}
    <3>1. Diagnosis!Missing(marks, FALSE) # {} <=>
             \/ marks \cap {"command not found", "not found"} # {}
             \/ "library" \in marks
             \/ "permission" \in marks
      BY MissingMeans
    <3>2. \/ seen \cap {"command not found", "not found"} # {}
          \/ "library" \in seen
          \/ "permission" \in seen
          => Diagnosis!Missing(seen, observed) # {}
      BY MissingMeans
    <3>3. marks \subseteq seen
      BY <2>4 DEF marks
    <3> HIDE DEF marks
    <3> QED BY <3>1, <3>2, <3>3
  <2> HIDE DEF quiet
  <2>9. PICK i \in 1..12 : Diagnosis!Rules(phase.code, marks, quiet, network, phase.name)[i].when
    BY <2>6, <2>7, NotBlamed
  <2>10. Diagnosis!Rules(phase.code, seen, observed, network, phase.name)[i].when
    BY <2>4, <2>9, <2>8, MoreApplies DEF marks
  <2> QED BY <1>4, <2>10, NotBlamed
<1> QED BY <1>7, <1>8 DEF Diagnosis!VerdictSurvives, evidence, EvidenceOf

-----------------------------------------------------------------------------
(* The inputs of the specification are among those of the theorems.        *)
Real(x) ==
  /\ x.of = "status" => x \in StatusInput
  /\ x.of = "runner" => x.machine \in Machine
  /\ x.of = "log" => x.run \in StepRun
  /\ x.of = "archive" => /\ x.entries \in Seq(CommittedEntry(1..5))
                         /\ x.sent \in 0..Len(Stream(x.entries))
  /\ x.of = "diagnosis" => IsPhase(x.phase)

LEMMA RealStatus == \A x \in StatusInputs : Real(x)
<1>1. RunSamples \subseteq Run
  BY DEF RunSamples, Run, Failure, Success
<1>2. \A n \in Nat : \A runs \in [1..n -> RunSamples] : runs \in Seq(Run)
  BY <1>1
<1>3. {"success", "pending", "failure"} \subseteq States /\ 1..2 \subseteq Nat /\ 1..3 \subseteq Nat
  BY DEF States
<1> SUFFICES ASSUME NEW x \in StatusInputs PROVE Real(x)
  OBVIOUS
<1>4. /\ x \in [of : {"status"}, runs : UNION {[1..n -> RunSamples] : n \in 0..3}, size : 1..3,
                bad : SUBSET (1..2), statuses : SUBSET {"success", "pending", "failure"}]
  BY DEF StatusInputs
<1>5. x.runs \in Seq(Run)
  <2>1. PICK n \in 0..3 : x.runs \in [1..n -> RunSamples]
    BY <1>4
  <2> QED BY <1>2, <2>1
<1>6. x \in StatusInput
  BY <1>3, <1>4, <1>5 DEF StatusInput
<1> QED BY <1>4, <1>6 DEF Real

LEMMA RealLines == Lines \subseteq Seq(LogLine) /\ Brief \subseteq Lines /\ <<>> \in Seq(LogLine)
<1> DEFINE Some == [bytes : {1, 3, 7, 10}, cut : {0, MaxCut}]
<1>1. Some \subseteq LogLine
  BY DEF LogLine, MaxCut
<1>2. Lines = UNION {[1..n -> Some] : n \in 0..2}
  BY DEF Lines
<1> HIDE DEF Some
<1>3. \A n \in 0..2 : [1..n -> Some] \subseteq Seq(LogLine)
  BY <1>1
<1> QED BY <1>2, <1>3 DEF Brief

LEMMA RealRounds ==
  ASSUME NEW lines, lines \subseteq Seq(LogLine)
  PROVE  /\ Failing(lines) \subseteq LogRound /\ Passing(lines) \subseteq LogRound
         /\ {LogOfRound("none", <<>>, l) : l \in lines} \subseteq LogRound
<1>1. \A prepared \in {"none", "failed", "done"}, l \in Seq(LogLine), k \in Seq(LogLine) :
        LogOfRound(prepared, l, k) \in LogRound
  BY DEF LogOfRound, LogRound
<1>2. <<>> \in Seq(LogLine)
  BY RealLines
<1>3. \A l \in lines : /\ LogOfRound("none", <<>>, l) \in LogRound
                        /\ LogOfRound("failed", l, <<>>) \in LogRound
  BY <1>1, <1>2
<1>4. \A l \in lines, k \in lines : LogOfRound("done", l, k) \in LogRound
  BY <1>1
<1>5. Failing(lines) \subseteq LogRound
  BY <1>3 DEF Failing
<1>6. Passing(lines) \subseteq LogRound
  BY <1>4 DEF Passing
<1> QED BY <1>3, <1>5, <1>6

LEMMA RealRun ==
  ASSUME NEW first \in LogRound, NEW second \in LogRound, NEW resources \in BOOLEAN,
         NEW discarded \in BOOLEAN, NEW recreated \in BOOLEAN, NEW messages \in [1..3 -> Nat]
  PROVE  LogRun(first, resources, discarded, recreated, second, messages) \in StepRun
BY DEF LogRun, StepRun

LEMMA RealMessages == Messages \subseteq [1..3 -> Nat] /\ <<0, 0, 0>> \in [1..3 -> Nat]
BY DEF Messages

LEMMA RealLog == \A x \in LogInputs : Real(x)
<1> SUFFICES ASSUME NEW x \in LogInputs PROVE Real(x)
  OBVIOUS
<1>1. x.of = "log" /\ x.run \in LogRuns
  BY DEF LogInputs
<1>2. /\ Failing(Lines) \subseteq LogRound /\ Passing(Lines) \subseteq LogRound
      /\ {LogOfRound("none", <<>>, l) : l \in Lines} \subseteq LogRound
  BY RealLines, RealRounds
<1>3. Failing(Brief) \subseteq LogRound /\ Passing(Brief) \subseteq LogRound
  BY RealLines, RealRounds
<1>4. LogRuns \subseteq StepRun
  <2> SUFFICES ASSUME NEW run \in LogRuns PROVE run \in StepRun
    OBVIOUS
  <2>1. FirstRounds \subseteq LogRound /\ RetryRounds \subseteq LogRound /\ Failing(Lines) \subseteq LogRound
    BY <1>2, <1>3 DEF FirstRounds, RetryRounds
  <2>2. CASE run \in {Once(first) : first \in FirstRounds}
    <3>1. PICK first \in FirstRounds : run = Once(first)
      BY <2>2
    <3> QED BY <2>1, <3>1, RealMessages, RealRun DEF Once
  <2>3. CASE run \in {Unretried(first, discarded, messages) :
                       first \in Failing(Lines), discarded \in BOOLEAN, messages \in Messages}
    <3>1. PICK first \in Failing(Lines), discarded \in BOOLEAN, messages \in Messages :
            run = Unretried(first, discarded, messages)
      BY <2>3
    <3>2. first \in LogRound /\ discarded \in BOOLEAN /\ messages \in [1..3 -> Nat]
      BY <2>1, <3>1, RealMessages
    <3> QED BY <3>1, <3>2, RealRun DEF Unretried
  <2>4. CASE run \in {Retried(first, second, messages) :
                       first \in Failing(Lines), second \in RetryRounds, messages \in Messages}
    <3>1. PICK first \in Failing(Lines), second \in RetryRounds, messages \in Messages :
            run = Retried(first, second, messages)
      BY <2>4
    <3>2. first \in LogRound /\ second \in LogRound /\ messages \in [1..3 -> Nat]
      BY <2>1, <3>1, RealMessages
    <3> QED BY <3>1, <3>2, RealRun DEF Retried
  <2> QED BY <2>2, <2>3, <2>4 DEF LogRuns
<1> QED BY <1>1, <1>4 DEF Real

LEMMA RealArchive ==
  ASSUME NEW entries \in CommittedTrees, NEW exited, NEW before, NEW sent, NEW x,
         x = [of |-> "archive", entries |-> entries, sent |-> sent, exited |-> exited, before |-> before],
         sent = Len(Stream(entries)) \/ sent \in 0..Len(Stream(entries))
  PROVE  Real(x)
<1>1. CommittedEntries \subseteq CommittedEntry(1..5)
  <2> SUFFICES ASSUME NEW e \in CommittedEntries PROVE e \in CommittedEntry(1..5)
    OBVIOUS
  <2>1. \E mode \in Modes, blob \in 1..5, odd \in {"", "path", "blob"} :
          e = CommittedAs(mode, blob, odd # "path", odd = "blob")
    BY DEF CommittedEntries
  <2>2. PICK mode \in Modes, blob \in 1..5, portable \in BOOLEAN, missing \in BOOLEAN :
          e = CommittedAs(mode, blob, portable, missing)
    <3>1. \A a, b : (a # b) \in BOOLEAN /\ (a = b) \in BOOLEAN
      BY Zenon
    <3> QED BY <2>1, <3>1, Zenon
  <2>3. \A b \in 1..5 : BlobSize(b) \in Nat /\ BlobText(b) \in {"utf8", "nul", "binary"}
    BY DEF BlobSize, BlobText
  <2>4. BlobSize(blob) \in Nat /\ BlobText(blob) \in {"utf8", "nul", "binary"}
    BY <2>2, <2>3
  <2> QED BY <2>2, <2>4 DEF CommittedAs, CommittedEntry
<1>2. entries \in Seq(CommittedEntry(1..5))
  <2>1. PICK n \in 0..2 : entries \in [1..n -> CommittedEntries]
    BY DEF CommittedTrees
  <2> QED BY <1>1, <2>1
<1>3. Len(Stream(entries)) \in Nat
  <2>1. PICK upto : StreamRun(upto, entries, 1..5)
    BY <1>2, StreamLoop
  <2>2. Stream(entries) \in Seq(Token(1..5))
    BY <1>2, <2>1 DEF StreamRun
  <2> QED BY <2>2
<1> QED BY <1>2, <1>3 DEF Real

LEMMA RealDiagnosis ==
  ASSUME DetailSize >= 3, NEW a \in 1..3, NEW b \in 1..3, NEW marks \in MarkedPairs,
         NEW sizes \in {<<1, 1>>, <<2, 1>>, <<1, 2>>, <<2, 2>>},
         NEW name, NEW code, NEW lacks, NEW network, NEW retried \in BOOLEAN, NEW x,
         x = [of |-> "diagnosis",
              phase |-> Finished(Output(a, b, sizes, marks), name, code, lacks, network, retried)]
  PROVE  Real(x)
<1> DEFINE output == Output(a, b, sizes, marks)
           size(i) == IF i \in {a, b} THEN sizes[2] ELSE sizes[1]
           front(i) == IF i = a THEN marks[1] ELSE {}
           mark(i) == (IF i = a THEN marks[2] ELSE {}) \cup (IF i = b THEN marks[3] ELSE {})
<1>1. /\ marks[1] \subseteq Diagnosis!Marks
      /\ marks[2] \subseteq Diagnosis!Marks
      /\ marks[3] \subseteq Diagnosis!Marks
  <2> DEFINE All == Diagnosis!Marks
             Some == Diagnosis!Unknown
             Others == Diagnosis!Known
             Few == Telling
  <2>1. Some \subseteq All /\ Others \subseteq All /\ Few \subseteq All /\ {"unresolved"} \subseteq All
    BY DEF Diagnosis!Marks, Diagnosis!Known, Diagnosis!Unknown, Telling
  <2>2. MarkedPairs = {OneEach(m, k) : m \in All, k \in All} \cup {BothInOne(m, k) : m \in Some, k \in Others}
                        \cup {InFront(m, k) : m \in All, k \in Few} \cup {InTheWay(m, k) : m \in All, k \in Few}
    BY DEF MarkedPairs
  <2> HIDE DEF All, Some, Others, Few
  <2>3. \/ \E m \in All, k \in All : marks = OneEach(m, k)
        \/ \E m \in Some, k \in Others : marks = BothInOne(m, k)
        \/ \E m \in All, k \in Few : marks = InFront(m, k)
        \/ \E m \in All, k \in Few : marks = InTheWay(m, k)
    BY <2>2
  <2>4. \A m \in All, k \in All : /\ OneEach(m, k)[1] \subseteq All
                                 /\ OneEach(m, k)[2] \subseteq All
                                 /\ OneEach(m, k)[3] \subseteq All
    BY DEF OneEach
  <2>5. \A m \in All, k \in All : /\ BothInOne(m, k)[1] \subseteq All
                                 /\ BothInOne(m, k)[2] \subseteq All
                                 /\ BothInOne(m, k)[3] \subseteq All
    BY DEF BothInOne
  <2>6. \A m \in All, k \in All : /\ InFront(m, k)[1] \subseteq All
                                 /\ InFront(m, k)[2] \subseteq All
                                 /\ InFront(m, k)[3] \subseteq All
    BY DEF InFront
  <2>7. \A m \in All, k \in All : /\ InTheWay(m, k)[1] \subseteq All
                                 /\ InTheWay(m, k)[2] \subseteq All
                                 /\ InTheWay(m, k)[3] \subseteq All
    BY <2>1 DEF InTheWay
  <2>8. marks[1] \subseteq All /\ marks[2] \subseteq All /\ marks[3] \subseteq All
    BY <2>1, <2>3, <2>4, <2>5, <2>6, <2>7
  <2> QED BY <2>8 DEF All
<1>2. \A i : size(i) \in {1, 2} /\ front(i) \subseteq Diagnosis!Marks /\ mark(i) \subseteq Diagnosis!Marks
  BY <1>1
<1>3. output = [i \in 1..4 |-> Line(size(i), front(i), mark(i))]
  BY DEF Output
<1> HIDE DEF size, front, mark, output
<1>4. \A i \in 1..4 : output[i] = [size |-> size(i), front |-> front(i), marks |-> mark(i)]
  BY <1>3 DEF Line
<1>5. \A i \in 1..4 : output[i] \in OutputLine /\ output[i].size \in {1, 2}
  BY <1>2, <1>4 DEF OutputLine
<1>6. output \in Seq(OutputLine) /\ Len(output) = 4
  <2>1. output = [i \in 1..4 |-> output[i]]
    BY <1>3
  <2> QED BY <1>5, <2>1
<1>7. \A i \in 1..Len(output) : output[i].size + Diagnosis!Appended.size <= DetailSize
  BY <1>5, <1>6, SizesAssumption DEF Diagnosis!Appended
<1>8. x.phase.output = output /\ x.phase.retried = retried /\ x.of = "diagnosis"
  BY DEF Finished, output
<1> QED BY <1>6, <1>7, <1>8 DEF Real, IsPhase

LEMMA RealFromTheStart == Init => Real(input)
BY DEF Init, Real

LEMMA OfAnotherKind ==
  ASSUME NEW x, x.of \in {"prune", "plan", "containers", "stores", "root", "target", "reserve"}
  PROVE  Real(x)
BY DEF Real

LEMMA RealAfterwards ==
  ASSUME DetailSize >= 3, Next
  PROVE  Real(input)'
<1>1. CASE PickStatus
  BY <1>1, RealStatus DEF PickStatus
<1>2. CASE PickRunner
  <2>1. input'.of = "runner" /\ input'.machine \in Machine
    BY <1>2 DEF PickRunner, RunnerInputs
  <2> QED BY <2>1 DEF Real
<1>3. CASE PickLog
  BY <1>3, RealLog DEF PickLog
<1>4. CASE PickPrune
  BY <1>4, OfAnotherKind DEF PickPrune, PruneInputs
<1>5. CASE PickPlan
  BY <1>5, OfAnotherKind DEF PickPlan, PlanInputInputs
<1>6. CASE PickArchive
  <2>1. PICK entries \in CommittedTrees :
          \E exited, before, sent :
            /\ sent = Len(Stream(entries)) \/ sent \in 0..Len(Stream(entries))
            /\ Archive(entries, sent, exited, before)
    BY <1>6 DEF PickArchive
  <2> QED BY <2>1, RealArchive DEF Archive
<1>7. CASE PickContainers
  <2>1. input'.of = "containers"
    BY <1>7 DEF PickContainers
  <2> QED BY <2>1, OfAnotherKind
<1>8. CASE PickStores
  <2>1. input'.of = "stores"
    BY <1>8 DEF PickStores
  <2> QED BY <2>1, OfAnotherKind
<1>9. CASE PickDiagnosis
  <2>1. PICK a \in 1..3, b \in 1..3, sizes \in {<<1, 1>>, <<2, 1>>, <<1, 2>>, <<2, 2>>}, marks \in MarkedPairs :
          \/ \E code \in {0, 1}, lacks \in BOOLEAN, network \in {"none", "enabled"} :
               input' = [of |-> "diagnosis",
                         phase |-> Finished(Output(a, b, sizes, marks), "test", code, lacks, network, FALSE)]
          \/ \E retried \in BOOLEAN :
               input' = [of |-> "diagnosis",
                         phase |-> Finished(Output(a, b, sizes, marks), "prepare", 1, FALSE, "none", retried)]
    BY <1>9 DEF PickDiagnosis
  <2>2. \E name, code, lacks, network : \E retried \in BOOLEAN :
          input' = [of |-> "diagnosis",
                    phase |-> Finished(Output(a, b, sizes, marks), name, code, lacks, network, retried)]
    BY <2>1
  <2> QED BY <2>2, RealDiagnosis
<1>10. CASE PickRoot
  <2>1. \E root : Root(root)
    BY <1>10 DEF PickRoot
  <2>2. input'.of = "root"
    BY <2>1 DEF Root
  <2> QED BY <2>2, OfAnotherKind
<1>11. CASE PickTarget
  <2>1. input'.of = "target"
    BY <1>11 DEF PickTarget
  <2> QED BY <2>1, OfAnotherKind
<1>12. CASE PickReserve
  <2>1. input'.of = "reserve"
    BY <1>12 DEF PickReserve
  <2> QED BY <2>1, OfAnotherKind
<1> QED BY <1>1, <1>2, <1>3, <1>4, <1>5, <1>6, <1>7, <1>8, <1>9, <1>10, <1>11, <1>12 DEF Next

(* The hypotheses of the theorems above are met by all that the runs pick. *)
THEOREM PhasesOfTheRuns ==
  ASSUME DetailSize >= 3
  PROVE  Spec => [](NoFalseGreen /\ VerdictShown /\ RunnerIsFirstFit /\ LogCutOnce
                      /\ ArchiveFaithful /\ DiagnosisSurvives)
<1> DEFINE Wanted == NoFalseGreen /\ VerdictShown /\ RunnerIsFirstFit /\ LogCutOnce
                       /\ ArchiveFaithful /\ DiagnosisSurvives
<1>1. Init => Real(input)
  BY RealFromTheStart
<1>2. Real(input) /\ [Next]_input => Real(input)'
  BY RealAfterwards DEF Real
<1>3. Real(input) => Wanted
  <2> SUFFICES ASSUME Real(input) PROVE Wanted
    OBVIOUS
  <2>1. NoFalseGreen /\ VerdictShown
    BY NeverGreenByMistake, VerdictIsShown DEF Real
  <2>2. RunnerIsFirstFit
    BY FirstFitIsChosen DEF Real
  <2>3. LogCutOnce
    BY LogIsCutOnce DEF Real
  <2>4. ArchiveFaithful
    BY ArchiveIsFaithful DEF Real
  <2>5. DiagnosisSurvives
    BY DiagnosisIsKept DEF Real
  <2> QED BY <2>1, <2>2, <2>3, <2>4, <2>5
<1> HIDE DEF Wanted
<1>4. Spec => []Wanted
  BY <1>1, <1>2, <1>3, PTL DEF Spec
<1> QED BY <1>4 DEF Wanted
=============================================================================
