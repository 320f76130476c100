--------------------------- MODULE StepContainers ---------------------------
(***************************************************************************)
(* The two containers of a step: which stores run_step gives it, where     *)
(* build_runner_command mounts them, what else of the workspace leads into *)
(* them, and where the markers of a finished preparation lie.              *)
(*                                                                         *)
(* A step is a record: its ecosystem, whether it has a prepare command,    *)
(* the network its test asked for, and whether the caller offered a host   *)
(* directory (dir) and a volume. A place is the first part of a path in    *)
(* the container; "vendor", ".venv" and the like are in the step's working *)
(* directory.                                                              *)
(***************************************************************************)
EXTENDS Sequences, FiniteSets

Stateful   == {"python", "node", "bun", "deno", "maven", "gradle", "cmake", "dotnet", "php", "ruby"}
Paired     == {"node", "bun"}
Ecosystems == Stateful \cup {"rust", "go", "make", "other"}
Steps ==
  [ecosystem : Ecosystems, prepares : BOOLEAN, network : {"none", "enabled"},
   dir : BOOLEAN, volume : BOOLEAN]

\* run_step: a volume and its support, or the host directory.
HasVolume(step)  == step.volume /\ step.prepares /\ step.ecosystem \in Stateful
HasSupport(step) == HasVolume(step) /\ step.ecosystem \in Paired
HasDir(step)     == step.dir /\ ~HasVolume(step)
Stores(step) == {s \in {"volume", "support", "dir"} :
  \/ s = "volume" /\ HasVolume(step)
  \/ s = "support" /\ HasSupport(step)
  \/ s = "dir" /\ HasDir(step)}

-----------------------------------------------------------------------------
Mount(at, store, writable) == [at |-> at, store |-> store, writable |-> writable]
Inputs == {Mount("/input", "checkout", FALSE), Mount("/input.tar", "archive", FALSE)}
DirMount(step) == IF HasDir(step) THEN {Mount("/cache", "dir", TRUE)} ELSE {}
SupportMount(step) == IF HasSupport(step) THEN {Mount("/prepared", "support", TRUE)} ELSE {}

\* One table for docker and podman, one for Apple container, as in the code.
DockerVolume(step, readOnly) ==
  IF ~HasVolume(step) THEN {}
  ELSE CASE step.ecosystem \in {"python", "deno", "cmake", "dotnet", "php", "ruby"} ->
              {Mount("/prepared", "volume", ~readOnly)}
         [] step.ecosystem \in {"node", "bun"} -> {Mount("node_modules", "volume", TRUE)}
         [] step.ecosystem \in {"maven", "gradle"} -> {Mount("/cache", "volume", TRUE)}

\* Mutant: deno is not in the table.
AppleVolumeNoDeno(step, readOnly) ==
  IF HasVolume(step) /\ step.ecosystem # "deno" THEN DockerVolume(step, readOnly) ELSE {}

AppleVolume(step, readOnly) ==
  IF ~HasVolume(step) THEN {}
  ELSE CASE step.ecosystem \in {"python", "deno", "cmake", "dotnet", "php", "ruby"} ->
              {Mount("/prepared", "volume", ~readOnly)}
         [] step.ecosystem \in {"node", "bun"} -> {Mount("node_modules", "volume", TRUE)}
         [] step.ecosystem \in {"maven", "gradle"} -> {Mount("/cache", "volume", TRUE)}

Mounts(runner, step, readOnly) ==
  Inputs \cup DirMount(step) \cup SupportMount(step)
    \cup (IF runner = "container" THEN AppleVolume(step, readOnly)
                                  ELSE DockerVolume(step, readOnly))

\* What the setup before the command makes of places of the working directory:
\* a link into a mount, or a copy of what is there.
Led(place, to, copied) == [place |-> place, to |-> to, copied |-> copied]
Setup(step, readOnly) ==
  IF ~HasVolume(step) THEN {}
  ELSE CASE step.ecosystem = "python" ->
              {Led(".venv", "/prepared", FALSE), Led(".tox", "/prepared", FALSE)}
         [] step.ecosystem = "deno" ->
              {Led("vendor", "/prepared", FALSE), Led("node_modules", "/prepared", FALSE)}
         [] step.ecosystem = "php" -> {Led("vendor", "/prepared", readOnly)}
         [] step.ecosystem = "ruby" /\ readOnly -> {Led("vendor/cache", "/prepared", TRUE)}
         [] OTHER -> {}

\* Where the environment tells the tools to keep their downloads, if anywhere.
CacheRoot(step) ==
  CASE step.ecosystem \in {"python", "node", "bun", "deno", "dotnet", "php"} ->
         IF HasVolume(step) THEN {"/prepared"} ELSE {"/cache"}
    [] step.ecosystem \in {"rust", "go", "maven", "gradle"} -> {"/cache"}
    [] step.ecosystem = "cmake" /\ HasVolume(step) -> {"/prepared"}
    [] OTHER -> {}

\* Mutant: the second volume of a Node step has no marker.
MarkersFirst(step) ==
  IF HasSupport(step) THEN {"node_modules"} ELSE IF HasVolume(step) THEN {"/prepared"} ELSE {}

\* _prepare_marker_paths.
Markers(step) ==
  CASE HasVolume(step) /\ step.ecosystem \in {"node", "bun"} ->
         {"node_modules"} \cup (IF HasSupport(step) THEN {"/prepared"} ELSE {})
    [] HasVolume(step) /\ step.ecosystem \in {"maven", "gradle"} -> {"/cache"}
    [] HasVolume(step) /\ step.ecosystem \notin {"node", "bun", "maven", "gradle"} -> {"/prepared"}
    [] HasDir(step) /\ step.ecosystem \in {"deno", "rust", "go", "maven", "gradle"} -> {"/cache"}
    [] OTHER -> {}

-----------------------------------------------------------------------------
\* A container, or the error of a read-only mount of nothing.
RunnerError == [kind |-> "error"]
Container(runner, step, networked, readOnly) ==
  IF readOnly /\ ~HasVolume(step) THEN RunnerError
  ELSE [kind |-> "container", mounts |-> Mounts(runner, step, readOnly),
        setup |-> Setup(step, readOnly), cache |-> CacheRoot(step), networked |-> networked]

PrepareContainer(runner, step) == Container(runner, step, TRUE, FALSE)
TestContainer(runner, step) ==
  Container(runner, step, step.network = "enabled", step.ecosystem \in {"php", "ruby"})

\* _apply_test_network_policy: the operator's word replaces the repository's.
ApplyNetworkPolicy(step, operator) == [step EXCEPT !.network = operator]

\* Where the prepare commands of detect.py leave what their test commands use.
LeftBehind(ecosystem) ==
  CASE ecosystem = "python" -> {".venv", ".tox", "/prepared"}
    [] ecosystem \in Paired -> {"node_modules", "/prepared"}
    [] ecosystem = "deno" -> {"/prepared", "vendor", "node_modules"}
    [] ecosystem \in {"maven", "gradle", "rust", "go"} -> {"/cache"}
    [] ecosystem \in {"cmake", "dotnet", "ruby"} -> {"/prepared"}
    [] ecosystem = "php" -> {"vendor"}
    [] OTHER -> {}

\* Every automatic step but Make's prepares, and the workflow offers both stores.
Automatic(step) ==
  /\ step.dir /\ step.volume
  /\ step.ecosystem # "other"
  /\ step.prepares <=> step.ecosystem # "make"

\* A step that gets every container it asks for.
GetsContainers(runner, step) ==
  /\ step.prepares => PrepareContainer(runner, step).kind = "container"
  /\ TestContainer(runner, step).kind = "container"

-----------------------------------------------------------------------------
\* The stores a place of a container stands for.
Behind(place, container) ==
  {m.store : m \in {n \in container.mounts :
     \/ n.at = place
     \/ \E led \in container.setup : led.place = place /\ led.to = n.at}}
Writable(container) == {m.store : m \in {n \in container.mounts : n.writable}}

(* What the preparation leaves in its container, the test finds in its     *)
(* own: the same stores, all of them locked, each with a marker of its own *)
(* if any has one, and downloads only where they are kept.                 *)
SameStores(runner, step) ==
  LET prepare == PrepareContainer(runner, step)
      test    == TestContainer(runner, step)
      marked  == UNION {Behind(place, prepare) : place \in Markers(step)}
  IN Automatic(step) /\ step.prepares =>
       /\ prepare.kind = "container" /\ test.kind = "container"
       /\ Writable(prepare) = Stores(step) /\ Writable(test) \subseteq Stores(step)
       /\ marked = Stores(step)
       /\ \A place \in LeftBehind(step.ecosystem) \cup prepare.cache :
            /\ Behind(place, prepare) # {}
            /\ Behind(place, prepare) \subseteq marked
            /\ Behind(place, test) = Behind(place, prepare)

(* A test has a network only if the operator said so, whatever the         *)
(* repository asks for.                                                    *)
OfflineUnlessAllowed(runner, step, operator) ==
  LET test == TestContainer(runner, ApplyNetworkPolicy(step, operator))
  IN test.kind = "container" => (test.networked <=> operator = "enabled")
=============================================================================
