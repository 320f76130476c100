----------------------------- MODULE PlanInputs -----------------------------
(***************************************************************************)
(* What materialize_plan_inputs checks out before the plan is compiled,    *)
(* and what detect_plan sees of it.  A commit is a function from paths to  *)
(* what is committed there; only the paths the two disagree about easily   *)
(* are kept, and any package.json names the entry point, any solution the  *)
(* project.  The partial checkout is a set of paths.                       *)
(***************************************************************************)
EXTENDS Integers, FiniteSets

\* Paths relative to the scope (the repository or the selected component);
\* shared is a file outside a component, real and hop are no inputs.
Inputs == {"config", "package", "solution", "second", "lock", "rakefile"}
Paths  == Inputs \cup {"task", "entry", "project", "nested", "tests",
                    "real", "hop", "shared"}
\* Known by name alone: a nested manifest, and the directory of the tests.
ByName == {"nested", "tests"}
Scopes == {"repository", "component"}

\* Nothing, a file, or a link to another path; nowhere stands for every
\* target that is not a committed blob: absolute, escaping, a directory.
Absent   == [kind |-> "absent", to |-> "nowhere"]
File     == [kind |-> "file", to |-> "nowhere"]
Link(to) == [kind |-> "link", to |-> to]

Committed(tree) == {p \in Paths : tree[p].kind # "absent"}
Inside(scope)   == IF scope = "component" THEN Paths \ {"shared"} ELSE Paths

\* Mutant: a link's target is checked out, the target's own target is not.
FollowOnce(tree, from) ==
  from \cup ({tree[p].to : p \in {q \in from : tree[q].kind = "link"}} \cap Committed(tree))

\* No chain of links is longer than this, unless it is a cycle.
Longest(tree) == Cardinality({p \in Paths : tree[p].kind = "link"})

\* The paths and all that links lead to from them.
Follow(tree, from) ==
  LET reached[i \in 0..Longest(tree)] ==
        IF i = 0 THEN from ELSE FollowOnce(tree, reached[i - 1])
  IN  reached[Longest(tree)]

\* The file a path stands for in a checkout, or nowhere.
Resolve(tree, out, path) ==
  LET Step(p) == IF p \in out /\ tree[p].kind = "link" THEN tree[p].to ELSE p
      at[i \in 0..Longest(tree)] == IF i = 0 THEN path ELSE Step(at[i - 1])
      end == at[Longest(tree)]
  IN  IF end \in out /\ tree[end].kind = "file" THEN end ELSE "nowhere"

Readable(tree, out, path) == Resolve(tree, out, path) # "nowhere"

Entrypoints(tree, out) ==
  IF Readable(tree, out, "package") THEN {"entry"} \cap Committed(tree) ELSE {}

\* The one solution in the root; a dangling one counts and lists nothing.
Solutions(out) == {"solution", "second"} \cap out
OneSolution(tree, out) ==
  Cardinality(Solutions(out)) = 1 /\ \A s \in Solutions(out) : Readable(tree, out, s)
Projects(tree, out) ==
  IF OneSolution(tree, out) THEN {"project"} \cap Committed(tree) ELSE {}

RakeTasks(tree) ==
  IF {"lock", "rakefile"} \subseteq Committed(tree) THEN {"task"} \cap Committed(tree) ELSE {}

\* Mutant: links are followed at the end, after what they name was read.
FollowLate(tree) ==
  LET roots == Inputs \cap Committed(tree)
      tasks == roots \cup RakeTasks(tree)
      nodes == tasks \cup Entrypoints(tree, tasks)
      nets  == nodes \cup Projects(tree, nodes)
  IN  Follow(tree, nets) \cup (ByName \cap Committed(tree))

\* The repository: inputs and their links first, then what they name.
AutomaticInputs(tree) ==
  LET roots == Follow(tree, Inputs \cap Committed(tree))
      tasks == roots \cup Follow(tree, RakeTasks(tree))
      nodes == tasks \cup Follow(tree, Entrypoints(tree, tasks))
      nets  == nodes \cup Follow(tree, Projects(tree, nodes))
  IN  nets \cup (ByName \cap Committed(tree))

\* A component: the inputs, what they name, and the links of the inputs last.
ComponentInputs(tree) ==
  LET entries  == Inside("component") \cap Committed(tree)
      selected == IF "config" \in entries THEN entries
                  ELSE (Inputs \cup {"task", "nested"}) \cap entries
      nodes == selected \cup Follow(tree, Entrypoints(tree, selected) \cap entries)
      nets  == nodes \cup Follow(tree, Projects(tree, nodes) \cap entries)
  IN  nets \cup Follow(tree, selected) \cup (ByName \cap entries)

Materialize(tree, scope) ==
  IF scope = "component" THEN ComponentInputs(tree)
  ELSE IF "config" \in Committed(tree) THEN Committed(tree)
  ELSE AutomaticInputs(tree)

-----------------------------------------------------------------------------
(* detect_plan.                                                            *)

\* An input, or a project a readable solution lists, that dangles or leads
\* out of the scope makes detection fail.
Rejected(tree, out, scope) ==
  LET listed == IF \E s \in Solutions(out) : Readable(tree, out, s) THEN {"project"} ELSE {}
  IN  \E p \in (Inputs \cup listed) \cap out :
        Resolve(tree, out, p) \notin Inside(scope)

\* What the detectors read: the inputs; the entry point, the project and the
\* task when something leads to them; and what is known by name.
View(tree, out) ==
  LET Read(p, needed) == IF needed THEN Resolve(tree, out, p) ELSE "nowhere"
  IN  [inputs  |-> [p \in Inputs |-> Resolve(tree, out, p)],
       entry   |-> Read("entry", Readable(tree, out, "package")),
       project |-> Read("project", OneSolution(tree, out)),
       task    |-> Read("task", Readable(tree, out, "lock")),
       byName  |-> ByName \cap out]

-----------------------------------------------------------------------------
(* What the partial checkout promises.                                     *)

\* Detection does not fail on it where it would not fail on the commit.
NotRejectedNeedlessly(tree, scope) ==
  Rejected(tree, Materialize(tree, scope), scope) => Rejected(tree, Committed(tree), scope)

\* In these commits the partial checkout of this version does show less: a
\* rake task without a Rakefile, and in a component what a linked
\* package.json or solution names.
ShownLess(tree, scope) ==
  IF scope = "component"
  THEN /\ "config" \notin Committed(tree)
       /\ \E p \in {"package", "solution", "second"} : tree[p].kind = "link"
  ELSE "task" \in Committed(tree) /\ "rakefile" \notin Committed(tree)

\* Otherwise, detection sees there what it would see in the whole commit.
SeesTheCommit(tree, scope) ==
  \/ ShownLess(tree, scope)
  \/ Rejected(tree, Committed(tree), scope)
  \/ View(tree, Materialize(tree, scope)) = View(tree, Committed(tree))
=============================================================================
