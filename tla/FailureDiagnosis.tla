-------------------------- MODULE FailureDiagnosis --------------------------
(***************************************************************************)
(* What _execute_phase keeps of the output of a failing phase, and what    *)
(* diagnose_failure makes of it: a verdict on the repository, on its       *)
(* environment or on the machine.                                          *)
(*                                                                         *)
(* A line is what one read of the output returns, 8192 characters at most. *)
(* All of it is looked at (a sample would begin at 16000), but only its    *)
(* last 2000 characters are kept: size and marks are those of this end,    *)
(* and front has the marks before it, which nothing keeps.  One mark       *)
(* stands for the phrases that are looked for together.                    *)
(***************************************************************************)
EXTENDS Lists, SequencesExt, FiniteSetsExt

CONSTANTS
  TailLines,    \* lines kept of the end, and of the evidence
  DetailSize    \* what is kept of both together

\* Phrases is_diagnostic_output knows, and phrases only diagnose_failure does.
Known ==
  {"unresolved",      \* could not resolve host, network is unreachable, ...
   "lookup",          \* getaddrinfo, eai_again, name or service not known, ...
   "no java", "platform", "your ruby", "gemfile's ruby", "no headers", "agreement",
   "uncached", "unparsed", "no gem", "local gems", "command not found", "permission"}
Unknown ==
  {"read-only store", "daemon", "fetch broken", "no makefile", "offline mode", "running offline",
   "not found", "library", "selector"}
Marks == Known \cup Unknown

Sampled(line) == line.front \cup line.marks
IsDiagnosticOutput(line) == Sampled(line) \cap Known # {}

-----------------------------------------------------------------------------
LastOf(n, lines) == SubSeq(lines, IF Len(lines) > n THEN Len(lines) - n + 1 ELSE 1, Len(lines))
SizeOf(lines) == Total([i \in DOMAIN lines |-> lines[i].size])
SizeFrom(lines, i) == SizeOf(SubSeq(lines, i, Len(lines)))
Evidence(output) == Sieve(output, {line \in ToSet(output) : IsDiagnosticOutput(line)})

\* The separator is short; a line of which a part is cut off counts as lost.
Separator == [size |-> 0, front |-> {}, marks |-> {}]
\* Mutant: the tail comes last and crowds out the evidence.
DetailTailLast(output) ==
  LastOf(TailLines, Evidence(output)) \o LastOf(TailLines, output)

DetailLines(output) ==
  LET evidence == LastOf(TailLines, Evidence(output))
  IN  LastOf(TailLines, output) \o (IF evidence = <<>> THEN <<>> ELSE <<Separator>> \o evidence)

\* What run_step appends about a discard and a retry cuts off as much in front.
Appended == [size |-> 1, front |-> {}, marks |-> {}]
DetailMarks(phase) ==
  LET lines == DetailLines(phase.output) \o (IF phase.retried THEN <<Appended>> ELSE <<>>)
  IN  UNION {lines[i].marks : i \in {j \in DOMAIN lines : SizeFrom(lines, j) <= DetailSize}}

-----------------------------------------------------------------------------
Verdict(status, kinds) == [status |-> status, kinds |-> kinds]
Gap(kind)   == Verdict("environment_gap", {kind})
Infra(kind) == Verdict("infra_failure", {kind})

OfflineGap(found) ==
  \/ {"offline mode", "uncached"} \subseteq found
  \/ {"running offline", "unparsed"} \subseteq found
  \/ {"no gem", "local gems"} \subseteq found
  \/ found \cap {"unresolved", "lookup"} # {}

\* The executables and libraries that are missing, each a diagnostic of its own.
NamedMissing(found) == {kind \in {"missing_executable", "missing_shared_library"} :
  \/ kind = "missing_executable" /\ found \cap {"command not found", "not found"} # {}
  \/ kind = "missing_shared_library" /\ "library" \in found}
Missing(found, observed) ==
  NamedMissing(found)
    \cup (IF "permission" \in found /\ NamedMissing(found) = {}
          THEN {"environment_permission"} ELSE {})
    \cup (IF observed THEN {"missing_executable"} ELSE {})

\* The tests of diagnose_failure in its order, each with its verdict.
Rule(when, verdict) == [when |-> when, verdict |-> verdict]
Rules(code, found, observed, network, phase) ==
  LET preparing == phase = "prepare"
      missing   == Missing(found, observed)
  IN << Rule(code = 0, Verdict("pass", {})),
        Rule("read-only store" \in found, Infra("runner_storage")),
        Rule(code = 125 \/ "daemon" \in found, Infra("runner_infrastructure")),
        Rule(preparing /\ found \cap {"fetch broken", "unresolved"} # {},
             Infra("dependency_preparation_infrastructure")),
        Rule("no java" \in found, Gap("missing_java_toolchain")),
        Rule(preparing /\ "platform" \in found, Gap("php_platform_requirement")),
        Rule({"your ruby", "gemfile's ruby"} \subseteq found, Gap("ruby_runtime_requirement")),
        Rule({"no makefile", "no headers"} \subseteq found, Gap("ruby_native_build_requirement")),
        Rule("agreement" \in found, Gap("external_agreement_required")),
        Rule(network = "none" /\ OfflineGap(found), Gap("network_policy")),
        Rule(missing # {}, Verdict("environment_gap", missing)),
        Rule(code \in {126, 127}, Gap("missing_executable")),
        Rule(TRUE, Verdict("test_failure", {})) >>
DiagnoseFailure(code, found, observed, network, phase) ==
  LET rules == Rules(code, found, observed, network, phase)
  IN  rules[Min({i \in DOMAIN rules : rules[i].when})].verdict

-----------------------------------------------------------------------------
\* One failed or finished phase: what the workflow has diagnosed of it.  The
\* executables that failing tests name are gathered from every line, and asked
\* of the image (lacks).  A preparation always had a network.
Observed(phase) ==
  phase.code # 0 /\ phase.lacks /\ \E i \in DOMAIN phase.output : "selector" \in Sampled(phase.output[i])
Network(phase) == IF phase.name = "test" THEN phase.network ELSE "enabled"
Diagnosed(phase) ==
  DiagnoseFailure(phase.code, DetailMarks(phase), Observed(phase), Network(phase), phase.name)

\* The same from the whole output, and from what is kept of one line.
OfAll(phase) ==
  DiagnoseFailure(phase.code, UNION {Sampled(phase.output[i]) : i \in DOMAIN phase.output},
                  Observed(phase), Network(phase), phase.name)
OfLine(phase, line) == DiagnoseFailure(phase.code, line.marks, FALSE, Network(phase), phase.name)

\* A line that tells nothing, and one that still tells it all when it is kept.
Silent(line) == Sampled(line) \subseteq {"selector"}
TellsAtItsEnd(line) == IsDiagnosticOutput(line) /\ line.front \subseteq line.marks \cup {"selector"}

(* However long and noisy the output, what is cut off does not change the  *)
(* verdict while the lines is_diagnostic_output knows fit, hold all there  *)
(* is to find, and hold it in their ends; and if what is kept of each of   *)
(* them speaks for itself, the code under test is not blamed, fit or not.  *)
(* (A phrase more than 2000 characters before the end of its line is lost, *)
(* and its line takes the place of one that could tell something.)         *)
VerdictSurvives(phase) ==
  LET evidence == Evidence(phase.output)
      room == DetailSize - (IF phase.retried THEN Appended.size ELSE 0)
      fits == Len(evidence) <= TailLines /\ SizeFrom(evidence, 1) <= room
  IN /\ fits /\ (\A i \in DOMAIN phase.output :
                   Silent(phase.output[i]) \/ TellsAtItsEnd(phase.output[i]))
          => Diagnosed(phase) = OfAll(phase)
     /\ evidence # <<>> /\ (\A i \in DOMAIN evidence : OfLine(phase, evidence[i]).status # "test_failure")
          => Diagnosed(phase).status # "test_failure"
=============================================================================
