---------------------------- MODULE GitHubStatus ----------------------------
(***************************************************************************)
(* What github_status makes of the two answers of the REST API about one   *)
(* commit: the latest check runs, of which one page arrives, and the       *)
(* combined status of the commit, which GitHub computes itself.            *)
(***************************************************************************)
EXTENDS Naturals, FiniteSets

Failure == {"action_required", "cancelled", "failure", "startup_failure", "stale",
            "timed_out"}
Success == {"neutral", "skipped", "success"}

\* A check run as the API reports it; "null" is a conclusion not drawn yet.
Run == [status : {"queued", "in_progress", "completed"},
        conclusion : Failure \cup Success \cup {"null", "other"}]

\* An item of the answer that lacks a name or a status and is passed over.
Unusable == [status |-> "null", conclusion |-> "null"]

CheckState(runs) ==
  LET conclusions == {r.conclusion : r \in runs}
  IN  CASE runs = {} -> "none"
        [] runs # {} /\ conclusions \cap Failure # {} -> "failure"
        [] runs # {} /\ conclusions \cap Failure = {}
             /\ \E r \in runs : r.status # "completed" -> "pending"
        [] runs # {} /\ (\A r \in runs : r.status = "completed")
             /\ conclusions \subseteq Success -> "success"
        [] OTHER -> "unknown"

\* page: the items that arrived, by their place; total: total_count.
Usable(page) == {i \in DOMAIN page : page[i] # Unusable}
Arrived(page) == {page[i] : i \in Usable(page)}

\* Mutant: the items that arrived are counted, not those that were used.
TruncatedPage(page, total) == total > Cardinality(DOMAIN page)

Truncated(page, total) == total > Cardinality(Usable(page))

\* Mutant: a page that is not the whole list hides its failures.
ChecksAnyPartial(page, total) ==
  IF total > Cardinality(Usable(page)) THEN "partial"
  ELSE CheckState(Arrived(page))

ChecksState(page, total) ==
  LET state == CheckState(Arrived(page))
  IN  IF Truncated(page, total) /\ state # "failure" THEN "partial" ELSE state

\* Mutant: no statuses at all leave GitHub's "pending" standing.
LegacyAsIs(state, contexts) == state

\* contexts: how many commit statuses there are; state: GitHub's own verdict,
\* which is "pending" where there are none.
LegacyState(state, contexts) == IF contexts = 0 THEN "none" ELSE state

CombinedState(checks, legacy) ==
  LET states == {checks, legacy}
  IN  CASE states \cap {"error", "failure"} # {} -> "failure"
        [] states \cap {"error", "failure"} = {} /\ "pending" \in states -> "pending"
        [] states \cap {"error", "failure", "pending"} = {} /\ states # {"none"}
             /\ states \subseteq {"none", "success"} -> "success"
        [] OTHER -> "unknown"

Reported(page, total, state, contexts) ==
  CombinedState(ChecksState(page, total), LegacyState(state, contexts))

-----------------------------------------------------------------------------
(* GitHub, as far as the code relies on it: a page is the head of the      *)
(* list, and the verdict over statuses is the worst of them.               *)

Page(runs, size, bad) ==
  [i \in {j \in DOMAIN runs : j <= size} |-> IF i \in bad THEN Unusable ELSE runs[i]]

Verdict(statuses) ==
  CASE statuses \cap {"error", "failure"} # {} -> "failure"
    [] statuses \cap {"error", "failure"} = {} /\ (statuses = {} \/ "pending" \in statuses)
         -> "pending"
    [] OTHER -> "success"

-----------------------------------------------------------------------------
(* What the answer promises, for the runs of a commit, the size of a page, *)
(* the places of it that are unusable, and the commit's statuses.          *)

Answer(runs, size, bad, statuses) ==
  Reported(Page(runs, size, bad), Cardinality(DOMAIN runs), Verdict(statuses),
           Cardinality(statuses))

Passed(r) == r.status = "completed" /\ r.conclusion \in Success

\* "success" is said only where everything succeeded, on the page or off it.
NeverFalselyGreen(runs, size, bad, statuses) ==
  Answer(runs, size, bad, statuses) = "success" =>
    /\ \A i \in DOMAIN runs : Passed(runs[i])
    /\ statuses \subseteq {"success"}

\* A failure that can be seen is reported, however much is missing beside it.
FailureShown(runs, size, bad, statuses) ==
  \/ \E i \in DOMAIN runs \ bad : i <= size /\ runs[i].conclusion \in Failure
  \/ statuses \cap {"error", "failure"} # {}
  => Answer(runs, size, bad, statuses) = "failure"

\* Where all runs arrive and all have passed, the absence of statuses does not
\* keep the answer from being "success", nor do statuses that are fine.
GreenShown(runs, size, bad, statuses) ==
  /\ DOMAIN runs # {}
  /\ bad = {} /\ \A i \in DOMAIN runs : i <= size /\ Passed(runs[i])
  /\ statuses \subseteq {"success"}
  => Answer(runs, size, bad, statuses) = "success"
=============================================================================
