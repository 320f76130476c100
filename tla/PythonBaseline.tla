--------------------------- MODULE PythonBaseline ---------------------------
(***************************************************************************)
(* _detect_python: which interpreter, what is installed where, and how the *)
(* tests are run.                                                          *)
(*                                                                         *)
(* A project is a record of what the root holds: the files (pyproject,     *)
(* setupPy, setupCfg, requirements, toxIni, pytestIni, lock, tests), the   *)
(* dependencies each group and extra and the project itself declares, the  *)
(* tox environments listed in pyproject or tox.ini, the extras of          *)
(* setup.cfg, and the versions asked for (0 for none).                     *)
(***************************************************************************)
EXTENDS CheckSteps

Largest(a, b)  == IF a > b THEN a ELSE b
Smallest(a, b) == IF a < b THEN a ELSE b

Groups == {"dev", "test", "tests"}

\* _python_minor: .python-version, an exact requirement, or the default
\* between the least and the first that is too new.
PythonMinor(p) ==
  IF p.pinned # 0 THEN p.pinned
  ELSE IF p.exact # 0 THEN p.exact
  ELSE LET raised == IF p.least # 0 THEN Largest(13, p.least) ELSE 13
           lowered == IF p.below # 0 THEN Smallest(raised, p.below - 1) ELSE raised
       IN  Smallest(14, Largest(11, lowered))
\* _contains_dependency: the name itself or one that begins with it; what a
\* plugin depends on is installed with it.
Plugins(name) == CASE name = "tox" -> {"tox-uv"} [] name = "pytest" -> {"pytest-cov"} [] OTHER -> {}
Declares(dependencies, name) == dependencies \cap ({name} \cup Plugins(name)) # {}
Installed(dependencies) ==
  dependencies \cup {name \in {"tox", "pytest"} : Declares(dependencies, name)}

-----------------------------------------------------------------------------
\* Environments of tox by name; those _tox_python_minor knows, and those whose
\* name says test.
MinorOf == [py311 |-> 11, py312 |-> 12, py313 |-> 13]
WithMinor(minor) == {e \in DOMAIN MinorOf : MinorOf[e] = minor}
Tests   == {"unit"}

\* Mutant: the default environment where no version is the preferred one.
QuickToxDefault(envs, preferred) ==
  LET matching == Sieve(envs, WithMinor(preferred))
  IN  IF matching # <<>> THEN <<matching[1], preferred>> ELSE <<"py", preferred>>

\* Mutant: the image stays that of the preferred version.
QuickToxSameImage(envs, preferred) ==
  LET versioned == Sieve(envs, DOMAIN MinorOf)
  IN  IF versioned # <<>> THEN <<versioned[1], preferred>> ELSE <<"py", preferred>>

QuickToxEnvironment(envs, preferred) ==
  LET versioned == Sieve(envs, DOMAIN MinorOf)
      matching  == Sieve(versioned, WithMinor(preferred))
  IN  CASE matching # <<>> -> <<matching[1], preferred>>
        [] matching = <<>> /\ versioned # <<>> -> <<versioned[1], MinorOf[versioned[1]]>>
        [] versioned = <<>> /\ FirstOf(envs, {"py"}) = "none" /\ FirstOf(envs, Tests) # "none" ->
             <<FirstOf(envs, Tests), preferred>>
        [] OTHER -> <<"py", preferred>>

\* Without a list tox runs its default environment.
Listed(p) == IF p.envs = <<>> THEN <<"py">> ELSE p.envs

UvImage(minor) == {What("python", minor), What("tool", "uv")}
Packages(dependencies, at) == {Thing("package", d, at) : d \in Installed(dependencies)}

ToxGroup(p) == FirstOf(<<"dev", "test", "tests">>, {g \in Groups : Declares(p.groups[g], "tox")})
ToxRun(env, group, p) ==
  Runs(env,
    {Thing("package", "tox", ".venv"), Thing("env", env, ".tox")}
      \cup (IF "tox-uv" \in p.groups[group] THEN {Thing("package", "tox-uv", ".venv")} ELSE {})
      \cup (IF env \in DOMAIN MinorOf THEN {InImage("python", MinorOf[env])} ELSE {}))
ToxStep(p, profile) ==
  LET group  == ToxGroup(p)
      quick  == QuickToxEnvironment(p.envs, PythonMinor(p))
      envs   == IF profile = "quick" THEN <<quick[1]>> ELSE Listed(p)
      minor  == IF profile = "quick" THEN quick[2] ELSE PythonMinor(p)
  IN  Step("python", UvImage(minor),
           Packages(p.groups[group], ".venv") \cup {Thing("env", e, ".tox") : e \in ToSet(envs)},
           p.lock, [i \in DOMAIN envs |-> ToxRun(envs[i], group, p)])

-----------------------------------------------------------------------------
Pytest(at) == <<Runs("pytest", {Thing("package", "pytest", at)})>>
\* uv sync, with the dependencies it is asked for, and pytest from there.
Synced(p, dependencies) ==
  Step("python", UvImage(PythonMinor(p)), Packages(dependencies \cup p.direct, ".venv"), p.lock,
       Pytest(".venv"))
\* pytest added to what was synced or installed; it runs from /prepared/venv.
WithPytest(p, dependencies, at) ==
  Step("python", UvImage(PythonMinor(p)), Packages(dependencies \cup {"pytest"}, at),
       p.lock /\ p.pyproject, Pytest("/prepared"))

HasTests(p) == p.tests \/ p.pytestIni \/ p.toxIni \/ p.setupCfg
PytestGroup(declared) ==
  FirstOf(<<"test", "tests", "dev">>, {g \in Groups : Declares(declared[g], "pytest")})
FromPyproject(p, profile) ==
  IF (p.toolTox \/ p.toxIni) /\ ToxGroup(p) # "none" THEN ToxStep(p, profile)
  ELSE IF PytestGroup(p.groups) # "none" THEN Synced(p, p.groups[PytestGroup(p.groups)])
  ELSE IF PytestGroup(p.extras) # "none" THEN Synced(p, p.extras[PytestGroup(p.extras)])
  ELSE IF Declares(p.direct, "pytest") THEN Synced(p, {})
  ELSE IF HasTests(p) THEN WithPytest(p, p.direct, ".venv") ELSE NoStep

\* setup.py is installed with an extra that has pytest, or with pytest.
FromSetup(p) ==
  LET extra == PytestGroup(p.cfgExtras)
  IN  IF ~HasTests(p) THEN NoStep
      ELSE IF p.setupCfg /\ extra # "none"
      THEN Step("python", UvImage(PythonMinor(p)), Packages(p.cfgExtras[extra], "/prepared"), FALSE,
                Pytest("/prepared"))
      ELSE WithPytest(p, {}, "/prepared")

DetectPython(p, profile) ==
  IF p.pyproject THEN FromPyproject(p, profile)
  ELSE IF p.setupPy THEN FromSetup(p)
  ELSE IF p.requirements /\ HasTests(p) THEN WithPytest(p, {}, "/prepared") ELSE NoStep
=============================================================================
