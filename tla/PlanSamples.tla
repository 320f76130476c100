----------------------------- MODULE PlanSamples -----------------------------
(***************************************************************************)
(* Roots for PlanDetection: one ecosystem at a time in many shapes, and    *)
(* the ones detect_plan chooses between together.                          *)
(***************************************************************************)
EXTENDS PlanDetection

NoConfig == [file |-> "nowhere", table |-> TRUE, version |-> 1, steps |-> <<>>]
NoPython ==
  [pyproject |-> FALSE, setupPy |-> FALSE, setupCfg |-> FALSE, requirements |-> FALSE,
   toxIni |-> FALSE, toolTox |-> FALSE, pytestIni |-> FALSE, lock |-> FALSE, tests |-> FALSE,
   groups |-> [g \in Groups |-> {}], extras |-> [g \in Groups |-> {}],
   cfgExtras |-> [g \in Groups |-> {}], direct |-> {}, envs |-> <<>>,
   pinned |-> 0, exact |-> 0, least |-> 0, below |-> 0]
NoNode ==
  [deno |-> FALSE, denoLock |-> FALSE, package |-> FALSE, tasks |-> {}, scripts |-> {},
   entrypoints |-> {}, manager |-> "", locks |-> {}]
NoLock ==
  [parsed |-> TRUE, sections |-> <<"GEM", "PLATFORMS", "DEPENDENCIES", "CHECKSUMS", "BUNDLED WITH">>,
   gems |-> {}, paths |-> {}, platforms |-> {"ruby"}, bundled |-> <<"2">>, checksums |-> <<>>,
   dependencies |-> {"rake", "minitest"}]
NoRuby == [gemfile |-> FALSE, locked |-> FALSE, lock |-> NoLock, task |-> FALSE, spec |-> FALSE]
NoFiles == [manifest |-> FALSE, lock |-> FALSE, wrapper |-> FALSE]
Bare ==
  [config |-> NoConfig, python |-> NoPython, node |-> NoNode, rust |-> NoFiles, go |-> NoFiles,
   maven |-> NoFiles, ruby |-> NoRuby,
   gradle |-> [manifest |-> FALSE, wrapper |-> FALSE, toolchain |-> 0, oldWrapper |-> FALSE],
   php |-> [manifest |-> FALSE, lock |-> FALSE, hashed |-> TRUE, defaultDirectories |-> TRUE,
            dev |-> FALSE, requires |-> FALSE, packages |-> {}, plugins |-> {}],
   cmake |-> [manifest |-> FALSE, tooNew |-> FALSE, signal |-> FALSE],
   make |-> [manifest |-> FALSE, targets |-> {}, configure |-> "none"],
   dotnet |-> [solutions |-> 0, tests |-> FALSE, sdk |-> "none"]]

-----------------------------------------------------------------------------
SomeGroups == {{}, {"pytest"}, {"tox"}, {"tox-uv", "pytest-cov"}}
SomeEnvs ==
  {<<>>, <<"py310">>, <<"lint", "py312", "py313">>, <<"py311", "unit">>, <<"unit", "py">>,
   <<"lint", "unit">>}
ToxPython(groups, tool, ini, envs, pinned) ==
  [NoPython EXCEPT !.pyproject = TRUE, !.groups = groups, !.toolTox = tool, !.toxIni = ini,
                   !.envs = envs, !.pinned = pinned]
RangedPython(pinned, exact, least, below) ==
  [NoPython EXCEPT !.pyproject = TRUE, !.tests = TRUE, !.pinned = pinned, !.exact = exact,
                   !.least = least, !.below = below]
PlainPython(pyproject, setup, cfg, tests, lock, direct, extras) ==
  [NoPython EXCEPT !.pyproject = pyproject, !.setupPy = setup, !.requirements = ~setup,
                   !.setupCfg = cfg, !.tests = tests, !.lock = lock, !.direct = direct,
                   !.extras = extras, !.cfgExtras = extras]
ToxPythons ==
  {ToxPython(groups, tool, ini, envs, pinned) :
     groups \in [Groups -> SomeGroups], tool \in BOOLEAN, ini \in BOOLEAN, envs \in SomeEnvs,
     pinned \in {0, 12}}
RangedPythons ==
  {RangedPython(pinned, exact, least, below) :
     pinned \in {0, 12}, exact \in {0, 11}, least \in {0} \cup 11..14, below \in {0} \cup 12..15}
PlainPythons ==
  {PlainPython(pyproject, setup, cfg, tests, lock, direct, extras) :
     pyproject \in BOOLEAN, setup \in BOOLEAN, cfg \in BOOLEAN, tests \in BOOLEAN, lock \in BOOLEAN,
     direct \in {{}, {"pytest"}}, extras \in [Groups -> {{}, {"pytest"}, {"pytest-cov"}}]}
Pythons == ToxPythons \cup RangedPythons \cup PlainPythons

Nodes ==
  [deno : BOOLEAN, denoLock : BOOLEAN, package : BOOLEAN, tasks : {{}, {"test", "build"}},
   scripts : SUBSET {"test", "check", "build"}, entrypoints : {{}, {"there"}, {"there", "missing"}},
   manager : {"", "pnpm", "yarn"}, locks : SUBSET {"bun", "pnpm", "npm"}]

Manifests == [manifest : BOOLEAN, lock : BOOLEAN, wrapper : BOOLEAN]
Gradles ==
  [manifest : BOOLEAN, wrapper : BOOLEAN, toolchain : {0, 11, 17, 21}, oldWrapper : BOOLEAN]
CMakes  == [manifest : BOOLEAN, tooNew : BOOLEAN, signal : BOOLEAN]
Makes ==
  [manifest : BOOLEAN, targets : SUBSET {"check", "test", "tests"}, configure : {"none", "sh", "odd"}]
Phps ==
  [manifest : BOOLEAN, lock : BOOLEAN, hashed : BOOLEAN, defaultDirectories : BOOLEAN, dev : BOOLEAN,
   requires : BOOLEAN, packages : SUBSET {"phpunit/phpunit", "lib"}, plugins : {{}, {"plugin"}}]
Dotnets ==
  [solutions : 0..2, tests : BOOLEAN, sdk : {"none", "stable", "unstable", "unsupported"}]

RawSteps ==
  [known : BOOLEAN, path : Places, ecosystem : {"php"}, image : {"", "i"}, command : {"c"}, prepares : BOOLEAN,
   network : {"none", "enabled"}, files : SUBSET {"inside", "outside"},
   profiles : {<<>>, <<"full">>, <<"full", "full">>, <<"nightly">>}]
Configs ==
  {[NoConfig EXCEPT !.file = file, !.version = version, !.steps = steps] :
     file \in Places, version \in {0, 1}, steps \in {<<>>} \cup {<<raw>> : raw \in RawSteps}}

-----------------------------------------------------------------------------
Gems ==
  [remotes : {<<RubyGems>>, <<"other">>, <<RubyGems, "other">>},
   specs : {{}, {Spec("rake", "1"), Spec("minitest", "1")}, {Spec("rspec", "1")}}]
InRepository ==
  [remotes : {<<"inside">>, <<"outside">>}, specs : {{}, {Spec("own", "1")}}]
Summable == <<Spec("rake", "1"), Spec("minitest", "1"), Spec("bundler", "2"), Spec("own", "1")>>
Line(spec, sum) == [spec |-> spec, sum |-> sum]
\* Each spec with no line, or one with one of three sums; a second line for one.
SumLines(sums, more) ==
  LET lines == [i \in 1..4 |-> IF sums[i] = 9 THEN <<>> ELSE <<Line(Summable[i], sums[i])>>]
  IN  lines[1] \o lines[2] \o lines[3] \o lines[4] \o more
Sums ==
  {SumLines(sums, more) :
     sums \in [1..4 -> {9, NoSum, BadSum, 1}],
     more \in {<<>>, <<Line(Spec("rake", "1"), 2)>>, <<Line(Spec("extra", "1"), 3)>>}}
Ruby(gemfile, locked, task, spec, lock) ==
  [gemfile |-> gemfile, locked |-> locked, task |-> task, spec |-> spec, lock |-> lock]
SumsRuby(gem, paths, sums) ==
  Ruby(TRUE, TRUE, TRUE, FALSE,
       [NoLock EXCEPT !.gems = {gem}, !.paths = paths, !.checksums = sums])
Rubies ==
  {SumsRuby(gem, paths, sums) :
     gem \in Gems, paths \in {{}} \cup {{path} : path \in InRepository}, sums \in Sums}
\* The same with everything exact, and one other thing at a time.
ExactLock ==
  [NoLock EXCEPT !.gems = {[remotes |-> <<RubyGems>>, specs |-> {Summable[1], Summable[2]}]},
                 !.checksums = <<Line(Summable[1], 1), Line(Summable[2], 1), Line(Summable[3], 1)>>]
OddLock(parsed, platforms, bundled, dependencies, sections) ==
  [ExactLock EXCEPT !.parsed = parsed, !.platforms = platforms, !.bundled = bundled,
                    !.dependencies = dependencies, !.sections = sections]
OddRubies ==
  {Ruby(gemfile, locked, task, spec, OddLock(parsed, platforms, bundled, dependencies, sections)) :
     gemfile \in BOOLEAN, locked \in BOOLEAN, task \in BOOLEAN, spec \in BOOLEAN, parsed \in BOOLEAN,
     platforms \in {{"ruby"}, {"java"}}, bundled \in {<<>>, <<"2">>, <<"2", "3">>},
     dependencies \in {{"rake", "minitest"}, {"rake", "test-unit"}, {"rspec"}},
     sections \in {NoLock.sections, <<"GIT">> \o NoLock.sections, <<"CHECKSUMS">> \o NoLock.sections,
                   Tail(Tail(NoLock.sections))}}
=============================================================================
