---------------------------- MODULE NodeBaseline ----------------------------
(***************************************************************************)
(* _detect_node and _detect_deno: which scripts run, under which package   *)
(* manager, and what it brings along.                                      *)
(*                                                                         *)
(* A package is a record: the files deno, denoLock and package, the        *)
(* tasks and scripts declared, the state of the entry points it names      *)
(* ("there", "missing"), the packageManager named ("" for none) and the    *)
(* managers whose lock is committed.                                       *)
(***************************************************************************)
EXTENDS CheckSteps

KnownScripts == <<"test", "check", "typecheck", "lint", "build">>

NodeScripts(declared, profile) ==
  LET known == Sieve(KnownScripts, declared)
  IN  IF profile = "full" \/ known = <<>> THEN known ELSE <<known[1]>>

\* Mutant: the build is only put first where the profile runs it.
BuildWhereSelected(p, profile) ==
  LET scripts == NodeScripts(p.scripts, profile)
  IN  IF "build" \in ToSet(scripts) /\ "missing" \in p.entrypoints
      THEN <<"build">> \o Sieve(scripts, ToSet(scripts) \ {"build"})
      ELSE scripts

\* _node_scripts_with_required_build: a build goes before the tests of a
\* package that names an entry point which is not committed.
ScriptsWithRequiredBuild(p, profile) ==
  LET scripts == NodeScripts(p.scripts, profile)
  IN  IF "test" \in ToSet(scripts) /\ "build" \in p.scripts /\ "missing" \in p.entrypoints
      THEN <<"build">> \o Sieve(scripts, ToSet(scripts) \ {"build"})
      ELSE scripts

-----------------------------------------------------------------------------
\* Every script runs with the manager and over what it installed.
ScriptRuns(scripts, manager, modules) ==
  [i \in DOMAIN scripts |-> Runs(scripts[i], {manager, Thing("packages", "own", modules)})]

DetectDeno(p, profile) ==
  LET tasks == NodeScripts(p.tasks, profile)
  IN  IF ~p.deno \/ tasks = <<>> THEN NoStep
      ELSE Step("deno", {What("tool", "deno")}, {Thing("packages", "own", "vendor")}, p.denoLock,
                ScriptRuns(tasks, InImage("tool", "deno"), "vendor"))

NodeImage == {What("tool", "node"), What("tool", "npm")}
\* Brought by npm into the second volume.
Brought(tool) == Thing("tool", tool, "/prepared")

NodeStep(ecosystem, manager, locked, scripts) ==
  Step(ecosystem, NodeImage,
       {Thing("packages", "own", "node_modules")} \cup ({manager} \ {InImage("tool", "npm")}),
       locked, ScriptRuns(scripts, manager, "node_modules"))

DetectPackage(p, profile) ==
  LET scripts == ScriptsWithRequiredBuild(p, profile)
      uses(manager) == manager \in p.locks \/ p.manager = manager
  IN  IF ~p.package \/ scripts = <<>> THEN NoStep
      ELSE IF "bun" \in p.locks THEN NodeStep("bun", Brought("bun"), TRUE, scripts)
      ELSE IF uses("pnpm") \/ uses("yarn") THEN NodeStep("node", Brought("corepack"), TRUE, scripts)
      ELSE NodeStep("node", InImage("tool", "npm"), "npm" \in p.locks, scripts)

DetectNode(p, profile) ==
  IF DetectDeno(p, profile) # NoStep THEN DetectDeno(p, profile) ELSE DetectPackage(p, profile)
=============================================================================
