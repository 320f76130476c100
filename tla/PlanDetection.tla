--------------------------- MODULE PlanDetection ---------------------------
(***************************************************************************)
(* detect_plan: the configuration if there is one, else a step of every    *)
(* detector that finds its files, with the choices between them.           *)
(*                                                                         *)
(* A root is a record with what each detector looks at: config (absent,    *)
(* broken, or the steps it lists), python and node as in their modules,    *)
(* ruby as in RubyLock, and for the others their files and what matters of *)
(* what is in them.                                                        *)
(***************************************************************************)
EXTENDS Configuration, PythonBaseline, NodeBaseline, RubyLock

Containers == INSTANCE StepContainers

\* What a run covers of another, of the tools' own accord.
Covers(more, less) ==
  \/ more = less
  \/ <<more, less>> \in {<<"verify", "test phase">>, <<"gradle check", "gradle test">>,
                         <<"all features", "workspace">>, <<"solution", "project">>}

Own(place) == Thing("packages", "own", place)
One(ecosystem, image, place, locked, name) ==
  Step(ecosystem, {What("tool", image)}, {Own(place)}, locked,
       <<Runs(name, {InImage("tool", image), Own(place)})>>)

-----------------------------------------------------------------------------
DetectRust(p, profile) ==
  IF ~p.manifest THEN NoStep
  ELSE One("rust", "cargo", "/cache", p.lock, IF profile = "full" THEN "all features" ELSE "workspace")

DetectGo(p) == IF p.manifest THEN One("go", "go", "/cache", TRUE, "go test") ELSE NoStep

\* A wrapper puts the tool it downloads where the environment tells it to.
DetectMaven(p, profile) ==
  LET maven == IF p.wrapper THEN Thing("tool", "maven", "/cache") ELSE InImage("tool", "maven")
  IN  IF ~p.manifest THEN NoStep
      ELSE Step("maven", {What("tool", "maven")}, {Own("/cache")} \cup ({maven} \ {InImage("tool", "maven")}),
                FALSE, <<Runs(IF profile = "full" THEN "verify" ELSE "test phase", {maven, Own("/cache")})>>)

\* The declared toolchain of Java if there is an image for it.
JavaMajor(p) ==
  IF p.toolchain \in {17, 21, 25} THEN p.toolchain ELSE IF p.oldWrapper THEN 17 ELSE 21
DetectGradle(p, profile) ==
  LET gradle == Thing("tool", "gradle", "/cache")
  IN  IF ~p.manifest \/ ~p.wrapper THEN NoStep
      ELSE Step("gradle", {What("java", JavaMajor(p))}, {Own("/cache"), gradle}, FALSE,
                <<Runs(IF profile = "full" THEN "gradle check" ELSE "gradle test",
                       {gradle, Own("/cache"), InImage("java", JavaMajor(p))})>>)

DetectPhp(p) ==
  LET direct == p.dev \/ p.requires
  IN  IF /\ p.manifest /\ p.lock /\ p.hashed /\ p.defaultDirectories /\ direct
         /\ "phpunit/phpunit" \in p.packages /\ p.plugins = {}
      THEN Step("php", {What("tool", "composer")}, {Thing("package", name, "vendor") : name \in p.packages},
                TRUE, <<Runs("phpunit", {Thing("package", "phpunit/phpunit", "vendor")})>>)
      ELSE NoStep

DetectCMake(p) ==
  IF p.manifest /\ ~p.tooNew /\ p.signal
  THEN Step("cmake", {What("tool", "python")},
            {Thing("tool", "cmake", "/prepared"), Thing("tool", "ninja", "/prepared"), Own("/prepared")},
            FALSE, <<Runs("ctest", {Thing("tool", "cmake", "/prepared"),
                                    Thing("tool", "ninja", "/prepared"), Own("/prepared")})>>)
  ELSE NoStep

MakeTarget(p, profile) ==
  FirstOf(IF profile = "quick" THEN <<"check", "test", "tests">> ELSE <<"test", "check", "tests">>,
          p.targets)
DetectMake(p, profile) ==
  LET target == MakeTarget(p, profile)
      shells == {What("tool", "make"), What("tool", "sh"), What("tool", "bash")}
      needed == {"make"} \cup (IF p.configure = "none" THEN {} ELSE {p.configure})
  IN  IF ~p.manifest \/ target = "none" \/ p.configure = "odd" THEN NoStep
      ELSE Step("make", shells, {}, FALSE, <<Runs(target, {InImage("tool", t) : t \in needed})>>)

\* One solution with ordinary tests, and an SDK there is an image for.
DetectDotnet(p, profile) ==
  IF p.solutions # 1 \/ ~p.tests \/ p.sdk \in {"unstable", "unsupported"} THEN NoStep
  ELSE LET target == IF profile = "quick" THEN "project" ELSE "solution"
           restored == Thing("restored", target, "/prepared")
       IN  Step("dotnet", {What("tool", "dotnet")}, {restored}, FALSE,
                <<Runs(target, {restored, InImage("tool", "dotnet")})>>)

-----------------------------------------------------------------------------
\* With both Java builds a profile but full takes one of them.
Java(root, profile) ==
  LET maven  == DetectMaven(root.maven, profile)
      gradle == DetectGradle(root.gradle, profile)
  IN  IF maven = NoStep \/ gradle = NoStep \/ profile = "full" THEN maven \o gradle
      ELSE IF root.maven.wrapper THEN maven ELSE gradle
Native(root, profile) ==
  LET cmake == DetectCMake(root.cmake)
  IN  IF cmake # NoStep THEN cmake ELSE DetectMake(root.make, profile)

AutomaticSteps(root, profile) ==
  DetectRust(root.rust, profile) \o DetectNode(root.node, profile)
    \o DetectPython(root.python, profile) \o DetectGo(root.go) \o Java(root, profile)
    \o DetectRuby(root.ruby) \o DetectPhp(root.php) \o Native(root, profile)
    \o DetectDotnet(root.dotnet, profile)

Plan(kind, steps) == [kind |-> kind, steps |-> steps]
DetectPlan(root, profile) ==
  IF root.config.file = "nowhere" THEN Plan("automatic", AutomaticSteps(root, profile))
  ELSE IF Valid(root.config) THEN Plan("configured", ConfiguredSteps(root.config, profile))
  ELSE Plan("error", <<>>)

-----------------------------------------------------------------------------
\* The containers of a step of the plan, as run_step asks for them.
ContainerStep(step) ==
  [ecosystem |-> step.ecosystem, prepares |-> step.prepare # {}, network |-> "none",
   dir |-> TRUE, volume |-> TRUE]

\* The same of a step of the configuration, which may be of any ecosystem.
ConfiguredContainerStep(raw) ==
  [ecosystem |-> raw.ecosystem, prepares |-> raw.prepares, network |-> raw.network,
   dir |-> TRUE, volume |-> TRUE]

\* What a run uses is of the image, or in the stores that hold what the
\* preparation has put there.
Served(use, step, runner) ==
  LET prepare == Containers!PrepareContainer(runner, ContainerStep(step))
      test    == Containers!TestContainer(runner, ContainerStep(step))
  IN  \/ use.at = "image" /\ use.what \in step.image
      \/ \E made \in step.prepare :
           /\ made.what = use.what
           /\ Containers!Behind(made.at, prepare) # {}
           /\ Containers!Behind(made.at, prepare) = Containers!Behind(use.at, test)

\* The locks a preparation can be bound to.
HasLock(root, step) ==
  \/ step.ecosystem = "python" /\ root.python.pyproject /\ root.python.lock
  \/ step.ecosystem = "deno" /\ root.node.denoLock
  \/ step.ecosystem \in {"node", "bun"} /\ root.node.locks # {}
  \/ step.ecosystem = "rust" /\ root.rust.lock

\* The bounds of requires-python that the code reads (a least version, and one
\* from 3.12 on that is too new), where no version is named outright and one can
\* satisfy them.  Other bounds ("<=3.12", "<3.11") it does not look at.
InterpreterAllowed(p) ==
  LET least == IF p.least = 0 THEN 11 ELSE p.least
      below == IF p.below = 0 THEN 15 ELSE p.below
  IN  p.pinned = 0 /\ p.exact = 0 /\ least < below => PythonMinor(p) \in least..(below - 1)

\* Entry points a package names and does not commit are built before its tests.
BuiltBefore(root, command) ==
  \A i \in DOMAIN command :
    /\ command[i].runs = "test" /\ "missing" \in root.node.entrypoints
    /\ "build" \in root.node.scripts
    => \E j \in 1..(i - 1) : command[j].runs = "build"

(* The test of an automatic step needs no network: every tool, package and *)
(* environment it uses is in the image or was put by the preparation where *)
(* the test container finds it; a committed lock binds the preparation;    *)
(* and the interpreter PythonMinor chooses is one that the project allows, *)
(* as far as InterpreterAllowed says.  (Quick runs of tox may take another *)
(* that their environment is named for; the other profiles run every       *)
(* environment tox lists, whatever interpreters the image has.)            *)
TestsWhatItPrepared(root, profile, runner) ==
  LET plan == DetectPlan(root, profile)
  IN  plan.kind = "automatic" => InterpreterAllowed(root.python) /\ \A i \in DOMAIN plan.steps :
        LET step == plan.steps[i]
        IN  /\ \A run \in ToSet(step.command) : \A use \in run.uses :
                 \/ Served(use, step, runner)
                 \/ use.what[1] = "python" /\ profile # "quick"
            /\ \A made \in step.prepare : made.at \in Containers!LeftBehind(step.ecosystem)
            /\ Containers!Automatic(ContainerStep(step))
            /\ HasLock(root, step) => step.locked
            /\ step.ecosystem \in {"node", "bun"} => BuiltBefore(root, step.command)

(* A configuration that is taken gets its containers for every step.       *)
ConfiguredStepsRun(root, profile, runner) ==
  LET plan == DetectPlan(root, profile)
  IN  plan.kind = "configured" => \A raw \in ToSet(plan.steps) :
        Containers!GetsContainers(runner, ConfiguredContainerStep(raw))

(* A broader profile runs what the quick one runs, or more of it, in the   *)
(* same image.  Three choices of the code are left out: Make runs one      *)
(* target, "check" when quick and else "test"; the quick profile falls     *)
(* back to the default environment of tox where the ones listed are of no  *)
(* use to it; and it takes the interpreter its environment is named for,   *)
(* where the other profiles run every environment in one image.            *)
NarrowByChoice(root, run) ==
  \/ run.runs = "check" /\ "test" \in root.make.targets
  \/ run.runs = "py" /\ ToSet(root.python.envs) \cap (DOMAIN MinorOf \cup Tests \cup {"py"}) = {}
OtherInterpreter(root, run) ==
  run.runs \in DOMAIN MinorOf /\ MinorOf[run.runs] # PythonMinor(root.python)
Placed(step, run) == [ecosystem |-> step.ecosystem, image |-> step.image, run |-> run]
RunsAlike(root, more, less) ==
  /\ more.ecosystem = less.ecosystem /\ Covers(more.run.runs, less.run.runs)
  /\ more.image = less.image \/ OtherInterpreter(root, less.run)
QuickWithinFull(root) ==
  LET placed(profile) ==
        UNION {{Placed(step, run) : run \in ToSet(step.command)} :
               step \in ToSet(AutomaticSteps(root, profile))}
  IN  \A quick \in placed("quick") :
        \/ NarrowByChoice(root, quick.run)
        \/ \E full \in placed("full") : RunsAlike(root, full, quick)
=============================================================================
