---------------------------- MODULE ExecutionLog ----------------------------
(***************************************************************************)
(* The log of a step.  A phase appends a header and the lines its          *)
(* container prints, up to a limit: a line that does not fit any more is   *)
(* cut, a marker of truncation follows it if there is room for one, and    *)
(* what the container prints after that is read and dropped.  Around a     *)
(* failed preparation and its retry the step appends messages of its own,  *)
(* without regard to the limit.  Sizes are bytes.                          *)
(***************************************************************************)
EXTENDS Integers, Sequences

CONSTANTS
  Limit,   \* MAX_LOG_BYTES
  Marker,  \* length of the truncation marker
  Header   \* length of the header of a phase

\* A cut falls between characters, up to three bytes early.
MaxCut == 3

ASSUME LogAssumption ==
  /\ Limit \in Nat /\ Marker \in Nat /\ Header \in Nat
  /\ MaxCut < Header /\ Header < Marker /\ Marker < Limit

\* size: of the file; full: the phase writes no more; marks: markers in the
\* file; lost: bytes printed and not in the file; late: bytes of the phases
\* behind the first such gap; said: bytes of the step's own messages.
Empty == [size |-> 0, full |-> FALSE, marks |-> 0, lost |-> 0, late |-> 0, said |-> 0]

Remaining(s) == Limit - s.size

Grow(s, n) ==
  [s EXCEPT !.size = @ + n, !.late = IF s.lost > 0 THEN @ + n ELSE @]

\* Mutant: the line that does not fit is left out whole.
CutWhole(s, n, cut) ==
  IF Remaining(s) >= Marker
  THEN [s EXCEPT !.size = @ + Marker, !.marks = @ + 1, !.lost = @ + n, !.full = TRUE]
  ELSE [s EXCEPT !.lost = @ + n, !.full = TRUE]

\* The line that does not fit: its head and the marker, or nothing where not
\* even the marker fits.
Cut(s, n, cut) ==
  LET room == Remaining(s) - Marker
      content == IF room > cut THEN room - cut ELSE 0
  IN  IF room >= 0
      THEN [s EXCEPT !.size = @ + content + Marker, !.marks = @ + 1,
                     !.lost = @ + n - content, !.full = TRUE]
      ELSE [s EXCEPT !.lost = @ + n, !.full = TRUE]

\* A line [bytes, cut]: its length, and how far back a cut would have to go.
WriteLine(s, line) ==
  IF s.full THEN [s EXCEPT !.lost = @ + line.bytes]
  ELSE IF line.bytes <= Remaining(s) THEN Grow(s, line.bytes)
  ELSE Cut(s, line.bytes, line.cut)

\* A phase looks at the size of the file and not at what was cut before.
OpenPhase(s) ==
  LET t == [s EXCEPT !.full = s.size >= Limit]
  IN  IF ~t.full /\ Header <= Remaining(t) THEN Grow(t, Header) ELSE t

\* Until the container ends.
Written(s, lines) ==
  LET after[i \in 0..Len(lines)] ==
        IF i = 0 THEN s ELSE WriteLine(after[i - 1], lines[i])
  IN  after[Len(lines)]

\* Mutant: a phase counts only what it writes itself.
PhaseAnew(s, lines) ==
  LET t == Written(OpenPhase([s EXCEPT !.size = 0]), lines)
  IN  [t EXCEPT !.size = @ + s.size]

Phase(s, lines) == Written(OpenPhase(s), lines)

\* A run of the phases: the test is not reached if the preparation fails.
Round(s, round) ==
  LET ready == IF round.prepared = "none" THEN s ELSE Phase(s, round.prepare)
  IN  IF round.prepared = "failed" THEN ready ELSE Phase(ready, round.test)

\* A message of the step, which may be lost or torn by an error of the disk.
Note(s, bytes) == [s EXCEPT !.size = @ + bytes, !.said = @ + bytes]

\* The messages tell of the discard after a failed preparation, of the retry
\* or why there is none, and of the discard after a retry that failed, too.
StepLog(run) ==
  LET once  == Round(Empty, run.first)
      told  == Note(once, run.messages[1])
      again == Note(Round(told, run.second), run.messages[2])
  IN  IF run.first.prepared # "failed" \/ ~run.resources THEN once
      ELSE IF ~run.discarded THEN told
      ELSE IF ~run.recreated THEN Note(told, run.messages[2])
      ELSE IF run.second.prepared # "failed" THEN again
      ELSE Note(again, run.messages[3])

-----------------------------------------------------------------------------
(* What the log promises.                                                  *)

\* What takes the file over its limit are the messages of the step, never the
\* output of its containers.
Bounded(s) == s.size <= Limit + s.said

\* There is one marker at most, and it means that something is missing.  When
\* something is missing and there is no marker, there was no room for one.
\* Of all that the later phases print, no more gets behind the gap than would
\* have fit there: the rest of a divided character or less than a marker.
MarkedOnce(s) ==
  /\ s.marks <= 1
  /\ s.marks = 1 => s.lost > 0 /\ s.late <= MaxCut
  /\ s.marks = 0 /\ s.lost > 0 => Remaining(s) < Marker /\ s.late < Marker
=============================================================================
